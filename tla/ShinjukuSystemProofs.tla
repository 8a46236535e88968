------------------------ MODULE ShinjukuSystemProofs ------------------------
(***************************************************************************)
(* The Shinjuku lord with a kernel that keeps its contract and refuses the *)
(* shots at threads whose messages the lord had not read: for any number   *)
(* of CPUs and threads and any length of the queue.                        *)
(***************************************************************************)
EXTENDS ShinjukuWorkers, ShinjukuLordProofs, CosKernelProofs

\* The shots whose threads, in the lord's books, are still to be taken back:
\* after the call only those that were refused.
Unsettled == IF pc = "check"
             THEN {i \in Pending : area[assigned[i].cpu].info = "ERROR"}
             ELSE Pending

Shot(pid) == \E i \in Unsettled : assigned[i].pid = pid

\* Where the lord knows a thread to be: one it has shot at a CPU is runnable
\* until the call has succeeded.
Know(pid) ==
    IF pid \notin alive THEN "absent"
    ELSE IF state[pid] = "Blocked" THEN "blocked"
    ELSE IF state[pid] = "Queued" \/ Shot(pid) THEN "runnable"
    ELSE "running"

\* In the lord's books thread pid is on CPU c.
Holds(pid, c) == pid \in OnCpu /\ cpu_id[pid] = c

\* A CPU marked COS has the task it is marked with, and so has one that is
\* marked so again when a shot is taken back.
MarksHold ==
    /\ \A c \in Cpus : cpu_states[c].type = "COS" => Holds(cpu_states[c].pid, c)
    /\ \A i \in Unsettled :
          LET s   == assigned[i]
              old == old_cpu_states[s.cpu]
          IN old.type = "COS" => Holds(old.pid, s.cpu) /\ old.pid # s.pid

\* From the drained queue to the shot, no two tasks are known to run on the
\* same CPU.
OwnCpus ==
    pc \in {"classify", "pick", "shoot"} =>
        \A p, q \in Tids : /\ Know(p) = "running" /\ Know(q) = "running"
                           /\ cpu_id[p] = cpu_id[q]
                           => p = q

\* When the message of a displaced thread is read its CPU is still marked with
\* the thread that displaced it: no message before it is of a task there.
PreemptsTell ==
    \A i \in DOMAIN mq : mq[i].type = "COS_PREEMPT" =>
        LET pid == mq[i].pid
            c   == cpu_id[pid]
        IN /\ pc \in {"drain", "check"}
           /\ pid \in OnCpu
           /\ cpu_states[c].type = "COS" /\ cpu_states[c].pid # pid
           /\ \A j \in DOMAIN mq : j < i => ~Holds(mq[j].pid, c)
           /\ \A s \in Unsettled : assigned[s].cpu # c

\* The unread messages lead from where the lord knows each thread to be to
\* where it is, and of a thread on a CPU there is nothing to be told.
ViewInv ==
    /\ alive \subseteq {PidOf(t) : t \in Threads}
    /\ \A t \in Threads : Leads(t, Know(PidOf(t)))
    /\ \A c \in Cpus : kcur[c] # NoThread =>
          Know(PidOf(kcur[c])) = "running" /\ cpu_id[PidOf(kcur[c])] = c

\* Thread id 0, an empty queue to peek(), is never shot.
ShotsReal == \A i \in DOMAIN assigned : assigned[i].pid # 0

SysInv ==
    /\ IInv
    /\ ShotsReal
    /\ KernelInv
    /\ status = "running"
    /\ ViewInv
    /\ MarksHold
    /\ OwnCpus
    /\ PreemptsTell
-----------------------------------------------------------------------------
(* The lord alone learns nothing: where it knows each thread to be changes *)
(* with a message or a shot that is taken, and with nothing else.          *)

LEMMA KnowLemma ==
    ASSUME NEW p, p \in alive' <=> p \in alive, state'[p] = state[p], Shot(p)' <=> Shot(p)
    PROVE  Know(p)' = Know(p)
BY DEF Know

LEMMA UnsettledLemma ==
    ASSUME IInv
    PROVE  /\ Unsettled \subseteq Pending /\ Pending \subseteq DOMAIN assigned
           /\ DOMAIN assigned = 1 .. Len(assigned) /\ Len(assigned) \in Nat
           /\ \A i \in DOMAIN assigned : assigned[i] \in [cpu : Cpus, pid : Tids]
           /\ \A i \in Unsettled : /\ assigned[i].pid \in OnCpu /\ assigned[i].pid \in alive
                                   /\ assigned[i].pid \in Tids /\ assigned[i].cpu \in Cpus
                                   /\ cpu_id[assigned[i].pid] = assigned[i].cpu
           /\ \A i, j \in Unsettled : assigned[i].cpu = assigned[j].cpu => i = j
<1>1. Unsettled \subseteq Pending /\ Pending \subseteq DOMAIN assigned
  BY DEF Unsettled, Pending
<1>2. \A i \in DOMAIN assigned : assigned[i] \in [cpu : Cpus, pid : Tids]
  BY ElementLemma, Zenon DEF IInv, LoopTypeOK
<1>3. \A i \in Pending : assigned[i].pid \in OnCpu /\ cpu_id[assigned[i].pid] = assigned[i].cpu
  BY DEF IInv, ShotInv
<1>4. \A t \in OnCpu : t \in alive
  BY DEF IInv, TaskInv, Books
<1>5. \A j, k \in DOMAIN assigned : assigned[j].cpu = assigned[k].cpu => j = k
  BY DEF IInv, PoolInv
<1>6. DOMAIN assigned = 1 .. Len(assigned) /\ Len(assigned) \in Nat
  BY DEF IInv, LoopTypeOK
<1>7. \A i \in DOMAIN assigned : assigned[i].pid \in Tids /\ assigned[i].cpu \in Cpus
  BY <1>2
<1> HIDE DEF IInv
<1> QED  BY <1>1, <1>2, <1>3, <1>4, <1>5, <1>6, <1>7

\* Nothing that the marks and the knowledge depend on changes.
LEMMA SameLemma ==
    ASSUME IInv, MarksHold, UNCHANGED <<alive, state, cpu_id, cpu_states>>,
           Unsettled' = Unsettled,
           \A i \in Unsettled : assigned'[i] = assigned[i],
           Unsettled # {} => old_cpu_states' = old_cpu_states
    PROVE  MarksHold' /\ \A p \in Tids : Know(p)' = Know(p)
<1>1. OnCpu' = OnCpu /\ \A p, c : Holds(p, c)' <=> Holds(p, c)
  BY DEF OnCpu, Holds
<1>2. \A c \in Cpus : cpu_states'[c].type = "COS" => Holds(cpu_states[c].pid, c)'
  BY <1>1 DEF MarksHold, Holds
<1>3. ASSUME NEW i \in Unsettled, old_cpu_states'[assigned'[i].cpu].type = "COS"
      PROVE  /\ Holds(old_cpu_states[assigned[i].cpu].pid, assigned[i].cpu)'
             /\ old_cpu_states'[assigned'[i].cpu].pid # assigned'[i].pid
  <2>1. assigned'[i] = assigned[i] /\ old_cpu_states' = old_cpu_states
    OBVIOUS
  <2>2. /\ Holds(old_cpu_states[assigned[i].cpu].pid, assigned[i].cpu)
        /\ old_cpu_states[assigned[i].cpu].pid # assigned[i].pid
    BY <1>3, <2>1 DEF MarksHold
  <2> QED  BY <1>1, <2>1, <2>2 DEF Holds
<1>4. MarksHold'
  BY <1>2, <1>3 DEF MarksHold, Holds
<1>5. \A p \in Tids : Shot(p)' <=> Shot(p)
  BY DEF Shot
<1> QED  BY <1>4, <1>5, KnowLemma

LEMMA QuietKnows ==
    ASSUME ErrLeavesInfo = FALSE, IInv, MarksHold,
           \/ Classify \/ Classified \/ PassOver \/ EndPick \/ EnterSchedule \/ Return
           \/ \E bad \in SUBSET ShotCpus : ShootErr(bad)
    PROVE  /\ UNCHANGED <<alive, cpu_id>> /\ status' = "running"
           /\ MarksHold' /\ \A p \in Tids : Know(p)' = Know(p)
<1>1. UNCHANGED <<alive, state, cpu_id, cpu_states>> /\ status = "running"
  BY DEF Classify, Classified, PassOver, EndPick, EnterSchedule, Return, ShootErr, At, taskVars
<1>2. status' = "running"
  <2>1. CASE Classify
    <3>1. /\ cursor \in Cpus /\ cpu_states[cursor] \in CpuStates
          /\ cpu_states[cursor].type = "COS" =>
                cpu_states[cursor].pid \in alive /\ state[cpu_states[cursor].pid] = "OnCpu"
      <4>1. cursor \in Cpus
        BY <2>1, LordAssumption DEF Classify, At, IInv, LoopTypeOK, Cpus
      <4>2. cpu_states[cursor] \in CpuStates
        BY <4>1 DEF IInv, TaskInv, TaskTypeOK
      <4>3. \A p \in OnCpu : p \in alive /\ state[p] = "OnCpu"
        BY DEF IInv, TaskInv, Books, OnCpu
      <4> QED  BY <4>1, <4>2, <4>3 DEF MarksHold, Holds
    <3>2. cpu_states[cursor].type = "COS" /\ ClassifyCos => status' = status
      BY <3>1 DEF ClassifyCos
    <3>3. cpu_states[cursor].type \in {"IDLE", "COS", "CFS"}
      BY <3>1 DEF CpuStates
    <3> QED  BY <1>1, <2>1, <3>2, <3>3 DEF Classify
  <2>2. CASE ~Classify
    BY <1>1, <2>2 DEF Classified, PassOver, EndPick, EnterSchedule, Return, ShootErr
  <2> QED  BY <2>1, <2>2
<1>3. /\ Unsettled' = Unsettled /\ \A i \in Unsettled : assigned'[i] = assigned[i]
      /\ Unsettled # {} => old_cpu_states' = old_cpu_states
  <2>1. CASE Classify \/ Classified \/ PassOver \/ EndPick \/ EnterSchedule
    <3>1. /\ pc \in {"drain", "classify", "pick"} /\ pc' \in {"drain", "classify", "pick", "shoot"}
          /\ assigned' = assigned /\ old_cpu_states' = old_cpu_states
      BY <2>1 DEF Classify, Classified, PassOver, EndPick, EnterSchedule, At
    <3> QED  BY <3>1 DEF Unsettled, Pending
  <2>2. CASE Return
    <3>1. /\ pc \in {"revert", "check"} /\ pc' = "drain" /\ assigned' = <<>>
          /\ pc = "revert" => cursor = Len(assigned)
          /\ pc = "check" => cursor = CpuNum
      BY <2>2 DEF Return, At
    <3>2. Pending = {}
      <4>1. /\ DOMAIN assigned = 1 .. Len(assigned) /\ Len(assigned) \in Nat
            /\ \A i \in DOMAIN assigned : assigned[i].cpu \in Cpus
        BY UnsettledLemma
      <4> QED  BY <3>1, <4>1, LordAssumption DEF Pending, Cpus
    <3>3. Pending' = {}
      BY <3>1 DEF Pending
    <3> QED  BY <3>2, <3>3 DEF Unsettled
  <2>3. CASE \E bad \in SUBSET ShotCpus : ShootErr(bad)
    <3>1. /\ pc = "shoot" /\ pc' = "revert" /\ cursor = 0 /\ cursor' = 0
          /\ assigned' = assigned /\ old_cpu_states' = old_cpu_states
      BY <2>3 DEF ShootErr, At, IInv, StageInv
    <3>2. \A i \in DOMAIN assigned : i > 0
      BY UnsettledLemma
    <3> QED  BY <3>1, <3>2 DEF Unsettled, Pending
  <2> QED  BY <2>1, <2>2, <2>3
<1> QED  BY <1>1, <1>2, <1>3, SameLemma

LEMMA AssignHeadKnows ==
    ASSUME IInv, MarksHold, AssignHead
    PROVE  /\ UNCHANGED <<alive, status>>
           /\ MarksHold'
           /\ \A p \in Tids : /\ Know(p)' = Know(p)
                              /\ Know(p) = "running" => cpu_id'[p] = cpu_id[p]
<1> DEFINE tid == Peek(rq)
           cpu == Head(pools[Pool])
           shot == [cpu |-> cpu, pid |-> tid]
           new == Len(assigned) + 1
<1>1. /\ pc = "pick" /\ tid # 0 /\ pools[Pool] # <<>> /\ rq # <<>> /\ Pool \in PoolNames
  BY DEF AssignHead, At, Peek, Pool, PoolNames
<1>2. tid \in ToSet(rq)
  BY <1>1, DequeueLemma DEF IInv, TaskInv, TaskTypeOK, Books
<1>3. tid \in Queued /\ tid \in alive /\ tid \in Tids /\ tid \notin OnCpu /\ state[tid] = "Queued"
  BY <1>2 DEF IInv, TaskInv, Books, Queued, OnCpu
<1>4. cpu \in Cpus /\ cpu \notin ShotCpus
  <2>1. pools[Pool] \in Seq(Cpus) /\ IsInjective(pools[Pool])
    BY <1>1 DEF IInv, LoopTypeOK, PoolInv
  <2>2. Peek(pools[Pool]) = cpu
    BY <1>1 DEF Peek
  <2>3. cpu \in ToSet(pools[Pool])
    BY <1>1, <2>1, <2>2, DequeueLemma
  <2>4. cpu \in Cpus
    BY <2>1, <2>3, ElementLemma
  <2> QED  BY <1>1, <2>3, <2>4 DEF IInv, PoolInv
<1>5. /\ assigned' = Append(assigned, shot)
      /\ state' = [state EXCEPT ![tid] = "OnCpu"]
      /\ cpu_id' = [cpu_id EXCEPT ![tid] = cpu]
      /\ old_cpu_states' = [old_cpu_states EXCEPT ![cpu] = cpu_states[cpu]]
      /\ cpu_states' = [cpu_states EXCEPT ![cpu] = [type |-> "COS", pid |-> tid]]
      /\ UNCHANGED <<alive, pc, status>>
  BY <1>3 DEF AssignHead
<1> HIDE DEF tid, cpu
<1>6. /\ OnCpu' = OnCpu \cup {tid} /\ state'[tid] = "OnCpu" /\ cpu_id'[tid] = cpu
      /\ \A p \in Tids : p # tid => state'[p] = state[p] /\ cpu_id'[p] = cpu_id[p]
  BY <1>3, <1>5 DEF OnCpu, IInv, TaskInv, TaskTypeOK
<1>7. /\ assigned \in Seq([cpu : Cpus, pid : Tids]) /\ Len(assigned) \in Nat
      /\ DOMAIN assigned' = DOMAIN assigned \cup {new} /\ new \notin DOMAIN assigned
      /\ assigned'[new] = shot
      /\ \A i \in DOMAIN assigned : assigned'[i] = assigned[i]
  BY <1>3, <1>4, <1>5 DEF IInv, LoopTypeOK
<1> HIDE DEF new
<1>8. Unsettled = DOMAIN assigned /\ Unsettled' = Unsettled \cup {new}
  BY <1>1, <1>5, <1>7 DEF Unsettled, Pending
<1>9. \A i \in Unsettled : assigned[i].cpu # cpu /\ assigned[i].cpu \in Cpus
  BY <1>4, <1>8, UnsettledLemma DEF ShotCpus, ToSet
<1>10. \A q, c : Holds(q, c) => Holds(q, c)' /\ q # tid
  <2> SUFFICES ASSUME NEW q, NEW c, Holds(q, c) PROVE Holds(q, c)' /\ q # tid
    OBVIOUS
  <2>1. q \in OnCpu /\ cpu_id[q] = c /\ q \in Tids /\ q # tid
    BY <1>3 DEF Holds, OnCpu
  <2>2. q \in OnCpu' /\ cpu_id'[q] = c
    BY <1>6, <2>1
  <2> QED  BY <2>1, <2>2 DEF Holds
<1>11. /\ cpu_states'[cpu] = [type |-> "COS", pid |-> tid]
       /\ \A c \in Cpus : c # cpu => cpu_states'[c] = cpu_states[c]
       /\ old_cpu_states'[cpu] = cpu_states[cpu]
       /\ \A c \in Cpus : c # cpu => old_cpu_states'[c] = old_cpu_states[c]
  BY <1>4, <1>5 DEF IInv, TaskInv, TaskTypeOK, LoopTypeOK
<1>12. ASSUME NEW c \in Cpus, NEW q, q = cpu_states'[c].pid, cpu_states'[c].type = "COS"
       PROVE  Holds(q, c)'
  <2>1. CASE c = cpu
    <3>1. q = tid
      BY <1>11, <1>12, <2>1
    <3> QED  BY <1>6, <2>1, <3>1 DEF Holds
  <2>2. CASE c # cpu
    <3>1. Holds(q, c)
      BY <1>11, <1>12, <2>2 DEF MarksHold
    <3> QED  BY <1>10, <3>1
  <2> QED  BY <2>1, <2>2
<1>13. ASSUME NEW i \in Unsettled', NEW c, NEW q, c = assigned'[i].cpu, q = old_cpu_states'[c].pid,
              old_cpu_states'[c].type = "COS"
       PROVE  Holds(q, c)' /\ q # assigned'[i].pid
  <2>1. CASE i = new
    <3>1. c = cpu /\ assigned'[i].pid = tid
      BY <1>7, <1>13, <2>1
    <3>2. Holds(q, c)
      BY <1>4, <1>11, <1>13, <3>1 DEF MarksHold
    <3> QED  BY <1>10, <3>1, <3>2
  <2>2. CASE i # new
    <3>1. i \in Unsettled /\ assigned'[i] = assigned[i] /\ c # cpu /\ c \in Cpus
      BY <1>7, <1>8, <1>9, <1>13, <2>2
    <3>2. Holds(q, c) /\ q # assigned[i].pid
      BY <1>11, <1>13, <3>1 DEF MarksHold
    <3> QED  BY <1>10, <3>1, <3>2
  <2> QED  BY <2>1, <2>2
<1>14. MarksHold'
  BY <1>12, <1>13 DEF MarksHold, Holds
<1>15. ASSUME NEW p \in Tids
       PROVE  Know(p)' = Know(p) /\ (Know(p) = "running" => cpu_id'[p] = cpu_id[p])
  <2>1. CASE p = tid
    <3>1. Know(p) = "runnable"
      BY <1>3, <2>1 DEF Know
    <3>2. assigned'[new].pid = tid
      BY <1>7
    <3>3. Know(p)' = "runnable"
      BY <1>3, <1>5, <1>6, <1>8, <3>2, <2>1 DEF Know, Shot
    <3> QED  BY <3>1, <3>3
  <2>2. CASE p # tid
    <3>1. Shot(p)' <=> Shot(p)
      BY <1>7, <1>8, <2>2 DEF Shot
    <3> QED  BY <1>5, <1>6, <2>2, <3>1, KnowLemma
  <2> QED  BY <2>1, <2>2
<1> QED  BY <1>5, <1>14, <1>15

\* A shot is taken back: its CPU is marked as it was before, and it was not
\* marked with the thread that is queued again.
LEMMA TakeBackKnows ==
    ASSUME IInv, MarksHold, PreemptsTell, pc \in {"revert", "check"}, NEW i \in Unsettled,
           TakeBack(assigned[i].pid, assigned[i].cpu), Unsettled' = Unsettled \ {i},
           UNCHANGED <<pc, onqueue_idle, assigned, old_cpu_states, mq>>
    PROVE  /\ UNCHANGED <<alive, status, cpu_id>>
           /\ MarksHold' /\ PreemptsTell'
           /\ \A p \in Tids : Know(p)' = Know(p)
<1>0. PICK pid, c : pid = assigned[i].pid /\ c = assigned[i].cpu
  OBVIOUS
<1>1. /\ i \in Pending /\ i \in DOMAIN assigned /\ c \in Cpus /\ cpu_id[pid] = c
      /\ pid \in OnCpu /\ pid \in alive /\ pid \in Tids
      /\ \A j \in Unsettled \ {i} : assigned[j].cpu # c /\ assigned[j].cpu \in Cpus
  BY <1>0, UnsettledLemma
<1>2. UNCHANGED <<status, cpu_id>> /\ OnCpu' = OnCpu \ {pid}
  BY <1>0, <1>1, TakeBackLemma
<1>3. c \in ShotCpus
  BY <1>0, <1>1 DEF ShotCpus, ToSet
<1>4. /\ alive' = alive /\ state' = [state EXCEPT ![pid] = "Queued"]
      /\ cpu_states' = [cpu_states EXCEPT ![c] = old_cpu_states[c]]
  BY <1>0, <1>1, <1>3 DEF TakeBack, Requeue
<1>5. /\ state'[pid] = "Queued" /\ \A p \in Tids : p # pid => state'[p] = state[p]
      /\ cpu_states'[c] = old_cpu_states[c]
      /\ \A d \in Cpus : d # c => cpu_states'[d] = cpu_states[d]
  BY <1>1, <1>4 DEF IInv, TaskInv, TaskTypeOK
<1>6. \A q, d : Holds(q, d) /\ q # pid => Holds(q, d)'
  BY <1>2 DEF Holds
<1>7. \A q, d : Holds(q, d)' => Holds(q, d)
  BY <1>2 DEF Holds
<1>8. \A q, d : Holds(q, d) /\ d # c => q # pid
  BY <1>1 DEF Holds
<1>9. MarksHold'
  <2>1. ASSUME NEW d \in Cpus, NEW q, q = cpu_states'[d].pid, cpu_states'[d].type = "COS"
        PROVE  Holds(q, d)'
    <3>1. CASE d = c
      <4>1. Holds(q, c) /\ q # pid
        BY <1>0, <1>5, <2>1, <3>1 DEF MarksHold
      <4> QED  BY <1>6, <3>1, <4>1
    <3>2. CASE d # c
      <4>1. Holds(q, d)
        BY <1>5, <2>1, <3>2 DEF MarksHold
      <4> QED  BY <1>6, <1>8, <3>2, <4>1
    <3> QED  BY <3>1, <3>2
  <2>2. ASSUME NEW j \in Unsettled', NEW d, NEW q, d = assigned'[j].cpu,
               q = old_cpu_states'[d].pid, old_cpu_states'[d].type = "COS"
        PROVE  Holds(q, d)' /\ q # assigned'[j].pid
    <3>1. j \in Unsettled /\ assigned'[j] = assigned[j] /\ d # c /\ old_cpu_states'[d] = old_cpu_states[d]
      BY <1>1, <2>2
    <3>2. Holds(q, d) /\ q # assigned[j].pid
      BY <2>2, <3>1 DEF MarksHold
    <3> QED  BY <1>6, <1>8, <3>1, <3>2
  <2> QED  BY <2>1, <2>2 DEF MarksHold, Holds
<1>10. PreemptsTell'
  <2> SUFFICES ASSUME NEW k \in DOMAIN mq, mq[k].type = "COS_PREEMPT",
                      NEW p, p = mq[k].pid, NEW d, d = cpu_id[p]
               PROVE  /\ pc \in {"drain", "check"}
                      /\ p \in OnCpu'
                      /\ cpu_states'[d].type = "COS" /\ cpu_states'[d].pid # p
                      /\ \A j \in DOMAIN mq : j < k => ~Holds(mq[j].pid, d)'
                      /\ \A s \in Unsettled' : assigned[s].cpu # d
    BY <1>2 DEF PreemptsTell, Holds
  <2>1. /\ pc \in {"drain", "check"} /\ p \in OnCpu
        /\ cpu_states[d].type = "COS" /\ cpu_states[d].pid # p
        /\ \A j \in DOMAIN mq : j < k => ~Holds(mq[j].pid, d)
        /\ \A s \in Unsettled : assigned[s].cpu # d
    BY DEF PreemptsTell
  <2>2. d # c /\ p # pid
    BY <1>0, <1>1, <2>1
  <2>3. d \in Cpus
    BY <2>1 DEF IInv, TaskInv, Books
  <2> QED  BY <1>2, <1>5, <1>7, <2>1, <2>2, <2>3
<1>11. Know(pid) = "runnable" /\ Know(pid)' = "runnable"
  <2>1. Shot(pid) /\ state[pid] = "OnCpu"
    BY <1>0, <1>1 DEF Shot, OnCpu
  <2>2. Know(pid) = "runnable"
    BY <1>1, <2>1 DEF Know
  <2>3. Know(pid)' = "runnable"
    BY <1>1, <1>4, <1>5 DEF Know
  <2> QED  BY <2>2, <2>3
<1>12. ASSUME NEW p \in Tids, p # pid
       PROVE  Know(p)' = Know(p)
  <2>1. Shot(p)' <=> Shot(p)
    BY <1>0, <1>12 DEF Shot
  <2> QED  BY <1>4, <1>5, <1>12, <2>1, KnowLemma
<1> QED  BY <1>2, <1>4, <1>9, <1>10, <1>11, <1>12

LEMMA SettleKnows ==
    ASSUME IInv, MarksHold, PreemptsTell, RevertOne \/ CheckOne, UNCHANGED mq
    PROVE  /\ UNCHANGED <<alive, status, cpu_id>>
           /\ MarksHold' /\ PreemptsTell'
           /\ \A p \in Tids : Know(p)' = Know(p)
<1>1. /\ pc \in {"revert", "check"}
      /\ UNCHANGED <<pc, onqueue_idle, assigned, old_cpu_states>>
  BY DEF RevertOne, CheckOne, At
<1>2. /\ DOMAIN assigned = 1 .. Len(assigned) /\ Len(assigned) \in Nat /\ cursor \in Nat
      /\ \A i \in DOMAIN assigned : assigned[i].cpu \in Cpus
  BY UnsettledLemma DEF IInv, LoopTypeOK
<1>3. CASE RevertOne
  <2>1. /\ pc = "revert" /\ cursor < Len(assigned) /\ cursor' = cursor + 1
        /\ TakeBack(assigned[cursor + 1].pid, assigned[cursor + 1].cpu)
    BY <1>3 DEF RevertOne, At
  <2>2. PICK i : i = cursor + 1
    OBVIOUS
  <2>3. i \in Unsettled /\ Unsettled' = Unsettled \ {i}
    BY <1>1, <1>2, <2>1, <2>2 DEF Unsettled, Pending
  <2> QED  BY <1>1, <2>1, <2>2, <2>3, TakeBackKnows
<1>4. CASE CheckOne
  <2>1. /\ pc = "check" /\ cursor < CpuNum /\ cursor' = cursor + 1 /\ cursor \in Cpus
        /\ area' = [area EXCEPT ![cursor].info = "RIGHT"]
    BY <1>2, <1>4, LordAssumption DEF CheckOne, At, Cpus
  <2>2. /\ area'[cursor].info = "RIGHT"
        /\ \A c \in Cpus \ {cursor} : area'[c] = area[c]
    BY <2>1 DEF IInv, LoopTypeOK
  <2>3. \A c \in Cpus : c >= cursor' <=> c >= cursor /\ c # cursor
    BY <2>1, LordAssumption DEF Cpus
  <2>4. Unsettled' = {i \in Unsettled : assigned[i].cpu # cursor}
    BY <1>1, <1>2, <2>1, <2>2, <2>3 DEF Unsettled, Pending
  <2>5. CASE area[cursor].info # "RIGHT"
    <3>1. area[cursor].info = "ERROR"
      BY <2>1, <2>5 DEF IInv, LoopTypeOK
    <3>2. PICK i \in Pending : assigned[i].cpu = cursor
      BY <2>1, <3>1 DEF IInv, ShotInv
    <3>3. i \in Unsettled /\ area[cursor].pid = assigned[i].pid
      BY <2>1, <3>1, <3>2 DEF IInv, ShotInv, Unsettled
    <3>4. TakeBack(assigned[i].pid, assigned[i].cpu)
      BY <1>4, <2>5, <3>2, <3>3 DEF CheckOne
    <3>5. Unsettled' = Unsettled \ {i}
      BY <2>4, <3>2, <3>3, UnsettledLemma
    <3> QED  BY <1>1, <3>3, <3>4, <3>5, TakeBackKnows
  <2>6. CASE area[cursor].info = "RIGHT"
    <3>1. UNCHANGED <<alive, state, cpu_id, cpu_states, status>>
      BY <1>4, <2>6 DEF CheckOne, taskVars
    <3>2. Unsettled' = Unsettled
      BY <2>1, <2>4, <2>6 DEF Unsettled
    <3>3. MarksHold' /\ \A p \in Tids : Know(p)' = Know(p)
      BY <1>1, <3>1, <3>2, SameLemma
    <3>4. PreemptsTell'
      BY <1>1, <3>1, <3>2 DEF PreemptsTell, Holds, OnCpu
    <3> QED  BY <3>1, <3>3, <3>4
  <2> QED  BY <2>5, <2>6
<1> QED  BY <1>3, <1>4

\* While the lord reads messages no shot is under way.
LEMMA DrainLemma ==
    ASSUME IInv, pc = "drain"
    PROVE  Unsettled = {} /\ \A p : ~Shot(p)
<1>1. assigned = <<>>
  BY DEF IInv, StageInv
<1> QED  BY <1>1 DEF Shot, Unsettled, Pending

\* Thread pid is off the CPU, and no mark but that of its CPU has changed.
OffCpu(pid) ==
    /\ pid \notin OnCpu'
    /\ \A p \in Tids : p # pid => state'[p] = state[p] /\ cpu_id'[p] = cpu_id[p]
    /\ \A c \in Cpus : cpu_states'[c] # cpu_states[c] => Holds(pid, c)
    /\ \A c \in Cpus : cpu_states'[c].type = "COS" =>
          cpu_states'[c] = cpu_states[c] /\ cpu_states[c].pid # pid

\* A message that tells of a change of the thread: the lord ends up knowing
\* what it tells, and nothing else changes.
LEMMA ConsumeKnows ==
    ASSUME IInv, MarksHold, NEW msg \in CosMsg, Consume(msg), ~IsOwn(msg),
           NEW l, <<Know(msg.pid), msg.type, l>> \in Changes,
           msg.type = "COS_PREEMPT" =>
               /\ cpu_states[cpu_id[msg.pid]].type = "COS"
               /\ cpu_states[cpu_id[msg.pid]].pid # msg.pid
    PROVE  /\ status' = "running"
           /\ alive' \subseteq alive \cup {msg.pid}
           /\ OffCpu(msg.pid)
           /\ Know(msg.pid)' = l
           /\ \A p \in Tids : p # msg.pid => Know(p)' = Know(p)
<1>1. PICK pid \in Tids : pid = msg.pid
  BY DEF CosMsg
<1>2. /\ status = "running" /\ pc = "drain" /\ UNCHANGED loopVars /\ Dispatch(msg)
  BY DEF Consume, At
<1>3. (\A p : ~Shot(p)) /\ (\A p : ~Shot(p)')
  <2>1. \A p : ~Shot(p)
    BY <1>2, DrainLemma
  <2>2. \A p : Shot(p)' <=> Shot(p)
    BY <1>2 DEF Shot, Unsettled, Pending, loopVars
  <2> QED  BY <2>1, <2>2
<1>4. \A p \in Tids : /\ state[p] \in RunStates
                      /\ Know(p) = "absent" <=> p \notin alive
                      /\ Know(p) = "blocked" <=> p \in alive /\ state[p] = "Blocked"
                      /\ Know(p) = "runnable" <=> p \in alive /\ state[p] = "Queued"
                      /\ Know(p) = "running" <=> p \in alive /\ state[p] = "OnCpu"
  BY <1>3 DEF Know, IInv, TaskInv, TaskTypeOK, RunStates
<1>5. /\ state \in [Tids -> RunStates] /\ cpu_id \in [Tids -> Cpus \cup {NoCpu}]
      /\ alive \subseteq Tids /\ cpu_states \in [Cpus -> CpuStates]
      /\ pid \in OnCpu => cpu_id[pid] \in Cpus
      /\ pid \in OnCpu <=> state[pid] = "OnCpu"
      /\ pid \in OnCpu => pid \in alive
  BY DEF IInv, TaskInv, TaskTypeOK, Books, OnCpu
\* What is left to show of each handler.
<1> DEFINE Marks(k) ==
             \/ /\ cpu_states' = cpu_states
                /\ pid \notin OnCpu
             \/ /\ cpu_states' = cpu_states
                /\ cpu_states[cpu_id[pid]].pid # pid
             \/ /\ pid \in OnCpu
                /\ \E s : s.type # "COS" /\ cpu_states' = [cpu_states EXCEPT ![cpu_id[pid]] = s]
           Only(k) ==
             /\ status' = "running"
             /\ pid \in alive' <=> k # "absent"
             /\ k = "blocked" => state'[pid] = "Blocked"
             /\ k = "runnable" => state'[pid] = "Queued"
             /\ state'[pid] # "OnCpu"
             /\ \A p \in Tids : p # pid => /\ p \in alive' <=> p \in alive
                                           /\ state'[p] = state[p]
                                           /\ cpu_id'[p] = cpu_id[p]
             /\ alive' \subseteq alive \cup {pid}
             /\ k \in {"absent", "blocked", "runnable"}
             /\ Marks(k)
<1>6. Only(l)
  <2> DEFINE k == Know(pid)
             type == msg.type
  <2>0. <<k, type, l>> \in Changes
    BY <1>1
  <2>1. CASE type = "NEW"
    <3>1. k = "absent" /\ l = "runnable"
      BY <2>0, <2>1 DEF Changes
    <3>2. consume_msg_task_new(pid) /\ pid \notin alive
      BY <1>1, <1>2, <1>4, <2>1, <3>1 DEF Dispatch, MsgTypes
    <3> QED  BY <1>2, <1>5, <3>1, <3>2 DEF consume_msg_task_new, CreateTask, EnqueueTask
  <2>2. CASE type = "NEW_BLOCKED"
    <3>1. k = "absent" /\ l = "blocked"
      BY <2>0, <2>2 DEF Changes
    <3>2. consume_msg_task_new_blocked(pid) /\ pid \notin alive
      BY <1>1, <1>2, <1>4, <2>2, <3>1 DEF Dispatch, MsgTypes
    <3> QED  BY <1>2, <1>5, <3>1, <3>2 DEF consume_msg_task_new_blocked, CreateTask
  <2>3. CASE type = "RUNNABLE"
    <3>1. (k = "absent" /\ l = "absent") \/ (k = "blocked" /\ l = "runnable")
      BY <2>0, <2>3 DEF Changes
    <3>2. consume_msg_task_runnable(pid)
      BY <1>1, <1>2, <2>3 DEF Dispatch, MsgTypes
    <3>3. CASE k = "absent"
      BY <1>2, <1>4, <1>5, <3>1, <3>2, <3>3 DEF consume_msg_task_runnable, Ignore, taskVars
    <3>4. CASE k = "blocked"
      BY <1>2, <1>4, <1>5, <3>1, <3>2, <3>4 DEF consume_msg_task_runnable, EnqueueTask
    <3> QED  BY <3>1, <3>3, <3>4
  <2>4. CASE type = "BLOCKED"
    <3>1. (k = "absent" /\ l = "absent") \/ (k = "running" /\ l = "blocked")
      BY <2>0, <2>4 DEF Changes
    <3>2. consume_msg_task_blocked(pid)
      BY <1>1, <1>2, <2>4 DEF Dispatch, MsgTypes
    <3>3. CASE k = "absent"
      BY <1>2, <1>4, <1>5, <3>1, <3>2, <3>3 DEF consume_msg_task_blocked, Ignore, taskVars
    <3>4. CASE k = "running"
      <4>1. pid \in alive /\ state[pid] = "OnCpu"
        BY <1>4, <3>4
      <4> QED  BY <1>2, <1>5, <3>1, <3>2, <3>4, <4>1
               DEF consume_msg_task_blocked, Vacate, SetCpuOf, IdleCpu
    <3> QED  BY <3>1, <3>3, <3>4
  <2>5. CASE type = "DEAD"
    <3>1. k \in {"running", "blocked", "runnable"} /\ l = "absent"
      BY <2>0, <2>5 DEF Changes
    <3>2. consume_msg_task_dead(pid) /\ pid \in alive
      BY <1>1, <1>2, <1>4, <2>5, <3>1 DEF Dispatch, MsgTypes
    <3>3. /\ Vacate(pid) /\ alive' = alive \ {pid}
          /\ state' = [state EXCEPT ![pid] = "Blocked"]
          /\ cpu_id' = [cpu_id EXCEPT ![pid] = NoCpu]
      BY <3>2 DEF consume_msg_task_dead
    <3>4. status' = "running"
      <4>1. TaskInv /\ onqueue_idle = <<>> /\ onqueue_idle' = onqueue_idle
        BY <1>2 DEF IInv, StageInv, loopVars
      <4> QED  BY <1>2, <3>2, <3>3, <4>1, VacateLemma
    <3>5. Marks(l)
      <4>1. CASE state[pid] = "OnCpu"
        BY <1>5, <3>3, <4>1 DEF Vacate, SetCpuOf, IdleCpu
      <4>2. CASE state[pid] # "OnCpu"
        BY <1>5, <3>3, <4>2 DEF Vacate, RunStates
      <4> QED  BY <4>1, <4>2
    <3> HIDE DEF Marks
    <3> QED  BY <1>5, <3>1, <3>3, <3>4, <3>5
  <2>6. CASE type = "PREEMPT"
    <3>1. k = "running" /\ l = "runnable"
      BY <2>0, <2>6 DEF Changes
    <3>2. consume_msg_task_preempt(pid) /\ pid \in alive /\ state[pid] = "OnCpu"
      BY <1>1, <1>2, <1>4, <2>6, <3>1 DEF Dispatch, MsgTypes
    <3>3. EnqueueTask(pid) /\ UNCHANGED <<alive, cpu_id, status>>
      BY <3>2 DEF consume_msg_task_preempt
    <3>4. Marks(l)
      <4>1. PICK s : s = [cpu_states[cpu_id[pid]] EXCEPT !.type = "CFS"]
        OBVIOUS
      <4>2. cpu_states' = [cpu_states EXCEPT ![cpu_id[pid]] = s]
        BY <3>2, <4>1 DEF consume_msg_task_preempt, SetCpuOf
      <4>3. s.type # "COS"
        BY <1>5, <3>2, <4>1 DEF CpuStates
      <4> QED  BY <1>5, <3>2, <4>2, <4>3
    <3> HIDE DEF Marks
    <3> QED  BY <1>2, <1>5, <3>1, <3>2, <3>3, <3>4 DEF EnqueueTask
  <2>7. CASE type = "COS_PREEMPT"
    <3>1. k = "running" /\ l = "runnable"
      BY <2>0, <2>7 DEF Changes
    <3>2. consume_msg_task_preempt_cos(pid) /\ pid \in alive /\ state[pid] = "OnCpu"
      BY <1>1, <1>2, <1>4, <2>7, <3>1 DEF Dispatch, MsgTypes
    <3>3. cpu_states[cpu_id[pid]].type = "COS" /\ cpu_states[cpu_id[pid]].pid # pid
      BY <1>1, <2>7
    <3>4. EnqueueTask(pid) /\ UNCHANGED <<alive, cpu_id, cpu_states, status>>
      BY <3>2, <3>3 DEF consume_msg_task_preempt_cos
    <3> QED  BY <1>2, <1>5, <3>1, <3>2, <3>3, <3>4 DEF EnqueueTask
  <2>8. type \in {"NEW", "NEW_BLOCKED", "RUNNABLE", "BLOCKED", "DEAD", "PREEMPT", "COS_PREEMPT"}
    BY <2>0 DEF Changes
  <2> HIDE DEF Only, type
  <2> QED  BY <2>1, <2>2, <2>3, <2>4, <2>5, <2>6, <2>7, <2>8
<1>7. Know(pid)' = l
  BY <1>3, <1>6 DEF Know
<1>8. ASSUME NEW p \in Tids, p # pid
      PROVE  Know(p)' = Know(p) /\ state'[p] = state[p] /\ cpu_id'[p] = cpu_id[p]
  BY <1>3, <1>6, <1>8, KnowLemma
<1>9. pid \notin OnCpu'
  BY <1>6 DEF OnCpu
<1>10. ASSUME NEW c \in Cpus
       PROVE  /\ cpu_states'[c] # cpu_states[c] => Holds(pid, c)
              /\ cpu_states'[c].type = "COS" =>
                    cpu_states'[c] = cpu_states[c] /\ cpu_states[c].pid # pid
  <2>1. cpu_states[c].type = "COS" /\ cpu_states[c].pid = pid => pid \in OnCpu /\ cpu_id[pid] = c
    BY DEF MarksHold, Holds
  <2>2. CASE cpu_states' = cpu_states /\ (pid \notin OnCpu \/ cpu_states[cpu_id[pid]].pid # pid)
    BY <2>1, <2>2
  <2>3. CASE pid \in OnCpu /\ \E s : s.type # "COS" /\ cpu_states' = [cpu_states EXCEPT ![cpu_id[pid]] = s]
    <3>1. PICK s : s.type # "COS" /\ cpu_states' = [cpu_states EXCEPT ![cpu_id[pid]] = s]
      BY <2>3
    <3>2. CASE c = cpu_id[pid]
      <4>1. cpu_states'[c] = s
        BY <1>5, <3>1, <3>2
      <4> QED  BY <2>3, <3>1, <3>2, <4>1 DEF Holds
    <3>3. CASE c # cpu_id[pid]
      <4>1. cpu_states'[c] = cpu_states[c]
        BY <1>5, <3>1, <3>3
      <4> QED  BY <2>1, <3>3, <4>1
    <3> QED  BY <3>2, <3>3
  <2> QED  BY <1>6, <2>2, <2>3
<1>11. OffCpu(pid)
  BY <1>8, <1>9, <1>10 DEF OffCpu
<1> HIDE DEF Only
<1>12. status' = "running" /\ alive' \subseteq alive \cup {pid}
  BY <1>6 DEF Only
<1> QED  BY <1>1, <1>7, <1>8, <1>11, <1>12

LEMMA RealLemma ==
    ASSUME IInv, ShotsReal, [Next]_lordVars
    PROVE  ShotsReal'
<1>1. CASE AssignHead
  <2>1. assigned' = assigned \/
        \E shot : shot.pid # 0 /\ assigned' = Append(assigned, shot)
    <3> DEFINE shot == [cpu |-> Head(pools[Pool]), pid |-> Peek(rq)]
    <3>1. /\ shot.pid # 0
          /\ assigned' = assigned \/ assigned' = Append(assigned, shot)
      BY <1>1 DEF AssignHead, loopVars
    <3> QED  BY <3>1
  <2>2. Len(assigned) \in Nat /\ DOMAIN assigned = 1 .. Len(assigned)
    BY DEF IInv, LoopTypeOK
  <2>3. ASSUME NEW shot, shot.pid # 0, assigned' = Append(assigned, shot)
        PROVE  ShotsReal'
    <3>1. /\ DOMAIN assigned' = 1 .. Len(assigned) + 1
          /\ \A i \in 1 .. Len(assigned) + 1 :
                assigned'[i] = IF i = Len(assigned) + 1 THEN shot ELSE assigned[i]
      BY <2>2, <2>3, AppendProperties DEF IInv, LoopTypeOK
    <3> QED  BY <2>2, <2>3, <3>1 DEF ShotsReal
  <2> QED  BY <2>1, <2>3 DEF ShotsReal
<1>2. CASE ~AssignHead
  <2>1. assigned' = assigned \/ assigned' = <<>>
    BY <1>2 DEF Next, lordVars, loopVars, Consume, EnterSchedule, ScheduleStep, Classify, Classified,
                PassOver, EndPick, RevertOne, CheckOne, Return, ShootStep, ShootOk, ShootErr
  <2> QED  BY <2>1 DEF ShotsReal
<1> QED  BY <1>1, <1>2

-----------------------------------------------------------------------------
(* The steps of the two together.                                          *)

LEMMA SysInitLemma ==
    ASSUME SysInit
    PROVE  SysInv
<1>1. IInv /\ KernelInv /\ \A t \in Threads : Leads(t, "absent")
  BY InitLemma, KernelInitLemma DEF SysInit
<1>2. /\ alive = {} /\ status = "running" /\ mq = <<>> /\ pc = "drain" /\ assigned = <<>>
      /\ \A c \in Cpus : kcur[c] = NoThread
      /\ \A c \in Cpus : cpu_states[c] = IdleCpu
  BY DEF SysInit, Init, KernelInit
<1>3. \A p : Know(p) = "absent"
  BY <1>2 DEF Know
<1>4. ViewInv
  BY <1>1, <1>2, <1>3 DEF ViewInv
<1>5. MarksHold /\ OwnCpus /\ PreemptsTell /\ ShotsReal
  <2>1. Unsettled = {}
    BY <1>1, <1>2, DrainLemma
  <2> QED  BY <1>2, <2>1 DEF MarksHold, OwnCpus, PreemptsTell, ShotsReal, IdleCpu
<1> QED  BY <1>1, <1>2, <1>4, <1>5 DEF SysInv

\* A step after which the lord knows each thread to be where it knew before.
LEMMA KnownLemma ==
    ASSUME ViewInv, KernelInv, alive' = alive,
           \A p \in Tids : /\ Know(p)' = Know(p)
                           /\ Know(p) = "running" => cpu_id'[p] = cpu_id[p],
           \A t \in Threads : \A k : Leads(t, k) => Leads(t, k)',
           \A c \in Cpus : kcur'[c] \in {kcur[c], NoThread}
    PROVE  ViewInv'
<1>1. \A t \in Threads : PidOf(t) \in Tids
  BY PidsLemma
<1>2. \A t \in Threads : Leads(t, Know(PidOf(t)))'
  <2> SUFFICES ASSUME NEW t \in Threads PROVE Leads(t, Know(PidOf(t)))'
    OBVIOUS
  <2>1. PICK k : k = Know(PidOf(t))
    OBVIOUS
  <2>2. Leads(t, k)' /\ Know(PidOf(t))' = k
    BY <1>1, <2>1 DEF ViewInv, PidOf
  <2> QED  BY <2>2 DEF Leads
<1>3. ASSUME NEW c \in Cpus, kcur'[c] # NoThread
      PROVE  Know(PidOf(kcur[c]))' = "running" /\ cpu_id'[PidOf(kcur'[c])] = c
  <2>1. PICK t \in Threads : t = kcur[c] /\ t = kcur'[c] /\ t # NoThread
    BY <1>3 DEF KernelInv, KernelTypeOK
  <2>2. Know(PidOf(t)) = "running" /\ cpu_id[PidOf(t)] = c
    BY <2>1 DEF ViewInv
  <2>3. Know(PidOf(t))' = "running" /\ cpu_id'[PidOf(t)] = c
    BY <1>1, <2>2 DEF PidOf
  <2> QED  BY <2>1, <2>3 DEF Know, PidOf
<1> QED  BY <1>2, <1>3 DEF ViewInv, PidOf

\* What the lord knows to run where does not change during schedule().
LEMMA OwnLemma ==
    ASSUME OwnCpus, \/ pc \in {"classify", "pick", "shoot"}
                    \/ pc' \notin {"classify", "pick", "shoot"},
           \A p \in Tids : /\ Know(p)' = Know(p)
                           /\ Know(p) = "running" => cpu_id'[p] = cpu_id[p]
    PROVE  OwnCpus'
<1> SUFFICES ASSUME pc' \in {"classify", "pick", "shoot"}, NEW p \in Tids, NEW q \in Tids,
                    Know(p)' = "running", Know(q)' = "running", cpu_id'[p] = cpu_id'[q]
             PROVE  p = q
  BY DEF OwnCpus
<1>1. Know(p) = "running" /\ Know(q) = "running" /\ cpu_id[p] = cpu_id[q]
  OBVIOUS
<1> QED  BY <1>1 DEF OwnCpus

\* When every message is read the lord knows what the kernel knows: the
\* running threads are on different CPUs.
LEMMA EnterKnows ==
    ASSUME KernelInv, ViewInv, mq = <<>>,
           UNCHANGED cpu_id, \A p \in Tids : Know(p)' = Know(p)
    PROVE  OwnCpus'
<1> SUFFICES ASSUME NEW p \in Tids, NEW q \in Tids,
                    Know(p) = "running", Know(q) = "running", cpu_id[p] = cpu_id[q]
             PROVE  p = q
  BY DEF OwnCpus
<1>1. ASSUME NEW x \in Tids, Know(x) = "running"
      PROVE  \E c \in Cpus : kcur[c] # NoThread /\ x = PidOf(kcur[c]) /\ cpu_id[x] = c
  <2>1. x \in alive
    BY <1>1 DEF Know
  <2>2. PICK t \in Threads : x = PidOf(t)
    BY <2>1 DEF ViewInv
  <2>3. kstate[t] = "running"
    <3>1. KernelTypeOK /\ Leads(t, Know(PidOf(t)))
      BY DEF ViewInv, KernelInv
    <3>2. Know(PidOf(t)) = kstate[t]
      BY <3>1, LeadsNowhere
    <3> QED  BY <1>1, <2>2, <3>2
  <2>4. PICK c \in Cpus : kcur[c] = t
    BY <2>3 DEF KernelInv
  <2>5. t # NoThread
    BY KernelAssumption DEF NoThread
  <2> QED  BY <2>2, <2>4, <2>5 DEF ViewInv
<1>2. PICK c \in Cpus : p = PidOf(kcur[c]) /\ cpu_id[p] = c
  BY <1>1
<1>3. PICK d \in Cpus : q = PidOf(kcur[d]) /\ cpu_id[q] = d
  BY <1>1
<1> QED  BY <1>2, <1>3

LEMMA NothingTold ==
    ASSUME \A i \in DOMAIN mq : mq[i].type # "COS_PREEMPT", UNCHANGED mq
    PROVE  PreemptsTell'
BY DEF PreemptsTell

\* The steps of schedule() that are not the shot.
LEMMA SysLordLemma ==
    ASSUME ErrLeavesInfo = FALSE, SysInv, UNCHANGED kernelVars,
           \/ EnterSchedule /\ mq = <<>>
           \/ ScheduleStep
           \/ \E bad \in SUBSET ShotCpus : ShootErr(bad)
    PROVE  SysInv'
<1>1. IInv' /\ ShotsReal'
  BY StepLemma, RealLemma DEF SysInv, Next, ShootStep
<1>2. /\ UNCHANGED <<alive, status>> /\ MarksHold'
      /\ \A p \in Tids : /\ Know(p)' = Know(p)
                         /\ Know(p) = "running" => cpu_id'[p] = cpu_id[p]
      /\ PreemptsTell'
  <2>1. CASE AssignHead
    <3>1. pc = "pick" /\ UNCHANGED mq
      BY <2>1 DEF AssignHead, At, kernelVars
    <3>2. \A i \in DOMAIN mq : mq[i].type # "COS_PREEMPT"
      BY <3>1 DEF SysInv, PreemptsTell
    <3> QED  BY <2>1, <3>1, <3>2, AssignHeadKnows, NothingTold DEF SysInv
  <2>2. CASE RevertOne \/ CheckOne
    BY <2>2, SettleKnows DEF SysInv, kernelVars
  <2>3. CASE ~(AssignHead \/ RevertOne \/ CheckOne)
    <3>1. \/ Classify \/ Classified \/ PassOver \/ EndPick \/ EnterSchedule \/ Return
          \/ \E bad \in SUBSET ShotCpus : ShootErr(bad)
      BY <2>3 DEF ScheduleStep
    <3>2. /\ UNCHANGED <<alive, cpu_id>> /\ status' = "running"
          /\ MarksHold' /\ \A p \in Tids : Know(p)' = Know(p)
      BY <3>1, QuietKnows DEF SysInv
    <3>3. PreemptsTell'
      <4>1. CASE pc \in {"drain", "check"} /\ mq # <<>>
        <5>1. Return /\ pc = "check"
          BY <2>3, <4>1 DEF ScheduleStep, Classify, Classified, PassOver, EndPick, ShootErr, At,
                            EnterSchedule, Return
        <5>2. Unsettled' = {} /\ pc' = "drain" /\ UNCHANGED <<taskVars, mq>>
          BY <5>1 DEF Return, Unsettled, Pending, kernelVars
        <5> QED  BY <5>1, <5>2 DEF SysInv, PreemptsTell, Holds, OnCpu, taskVars
      <4>2. CASE ~(pc \in {"drain", "check"} /\ mq # <<>>)
        BY <4>2, NothingTold DEF SysInv, PreemptsTell, kernelVars
      <4> QED  BY <4>1, <4>2
    <3> QED  BY <3>2, <3>3 DEF SysInv
  <2> QED  BY <2>1, <2>2, <2>3
<1>3. OwnCpus'
  <2>1. CASE EnterSchedule /\ mq = <<>>
    <3>1. UNCHANGED cpu_id
      BY <2>1 DEF EnterSchedule, taskVars
    <3> QED  BY <1>2, <2>1, <3>1, EnterKnows DEF SysInv
  <2>2. CASE ~EnterSchedule
    <3>1. pc \in {"classify", "pick", "shoot"} \/ pc' \notin {"classify", "pick", "shoot"}
      BY <2>2 DEF ScheduleStep, Classify, Classified, PassOver, AssignHead, EndPick, RevertOne,
                  CheckOne, Return, ShootErr, At
    <3> QED  BY <1>2, <3>1, OwnLemma DEF SysInv
  <2>3. EnterSchedule => mq = <<>>
    BY DEF EnterSchedule, ScheduleStep, ShootErr, Classify, Classified, PassOver, AssignHead,
           EndPick, RevertOne, CheckOne, Return, At
  <2> QED  BY <2>1, <2>2, <2>3
<1>4. KernelInv' /\ \A t \in Threads : \A k : Leads(t, k) => Leads(t, k)'
  BY DEF kernelVars, SysInv, KernelInv, KernelTypeOK, Silent, PidOf, Pids, Leads, Follows
<1>5. \A c \in Cpus : kcur'[c] \in {kcur[c], NoThread}
  BY DEF kernelVars
<1>6. ViewInv'
  BY <1>2, <1>4, <1>5, KnownLemma DEF SysInv
<1> QED  BY <1>1, <1>2, <1>3, <1>4, <1>6 DEF SysInv

\* The messages of displaced threads move up in the queue; the one read was
\* of no task on their CPUs.
LEMMA TailTells ==
    ASSUME IInv, PreemptsTell, mq \in Seq(CosMsg), mq # <<>>, mq' = Tail(mq),
           pc = "drain", pc' = pc, Unsettled' = {},
           OffCpu(Head(mq).pid) \/ UNCHANGED taskVars
    PROVE  PreemptsTell'
<1> DEFINE msg == Head(mq)
<1>1. /\ msg = mq[1] /\ 1 \in DOMAIN mq
      /\ \A i \in DOMAIN mq' : i + 1 \in DOMAIN mq /\ mq'[i] = mq[i + 1] /\ i \in Nat /\ i >= 1
  OBVIOUS
<1> HIDE DEF msg
<1> SUFFICES ASSUME NEW k \in DOMAIN mq', mq'[k].type = "COS_PREEMPT",
                    NEW p, p = mq'[k].pid, NEW c, c = cpu_id'[p]
             PROVE  /\ p \in OnCpu'
                    /\ cpu_states'[c].type = "COS" /\ cpu_states'[c].pid # p
                    /\ \A q : (\E j \in DOMAIN mq' : j < k /\ mq'[j].pid = q) => ~Holds(q, c)'
  BY DEF PreemptsTell, Holds
<1>2. PICK d : d = cpu_id[p]
  OBVIOUS
<1>3. /\ p \in OnCpu
      /\ cpu_states[d].type = "COS" /\ cpu_states[d].pid # p
      /\ \A j \in DOMAIN mq : j < k + 1 => ~Holds(mq[j].pid, d)
  BY <1>1, <1>2 DEF PreemptsTell
<1>4. Holds(p, d) /\ ~Holds(msg.pid, d) /\ p # msg.pid /\ d \in Cpus /\ p \in Tids
  <2>1. ~Holds(msg.pid, d)
    BY <1>1, <1>3
  <2> QED  BY <1>2, <1>3, <2>1 DEF Holds, IInv, TaskInv, Books, OnCpu
<1>5. \A q : (\E j \in DOMAIN mq' : j < k /\ mq'[j].pid = q) => ~Holds(q, d)
  BY <1>1, <1>3
<1>6. CASE OffCpu(msg.pid)
  <2>1. c = d /\ p \in OnCpu' /\ cpu_states'[d] = cpu_states[d]
    BY <1>2, <1>3, <1>4, <1>6 DEF OffCpu, OnCpu
  <2>2. \A q : Holds(q, d)' => Holds(q, d)
    BY <1>6 DEF OffCpu, Holds, OnCpu
  <2> QED  BY <1>3, <1>5, <2>1, <2>2
<1>7. CASE UNCHANGED taskVars
  <2>1. c = d /\ p \in OnCpu' /\ cpu_states' = cpu_states /\ \A q : Holds(q, d)' => Holds(q, d)
    BY <1>2, <1>3, <1>7 DEF taskVars, Holds, OnCpu
  <2> QED  BY <1>3, <1>5, <2>1
<1> QED  BY <1>6, <1>7 DEF msg

LEMMA SysReceiveLemma ==
    ASSUME PidsDistinct, SysInv, Receive
    PROVE  SysInv'
<1>1. PICK msg \in CosMsg : msg = Head(mq) /\ msg.pid \in Pids
  BY DEF Receive, SysInv, KernelInv, KernelTypeOK
<1>2. /\ mq # <<>> /\ mq' = Tail(mq) /\ UNCHANGED <<kstate, kcur>> /\ Consume(msg)
      /\ pc = "drain" /\ pc' = pc /\ mq \in Seq(CosMsg)
  BY <1>1 DEF Receive, Consume, At, loopVars, SysInv, KernelInv, KernelTypeOK
<1>3. IInv' /\ KernelInv'
  BY <1>2, ConsumeLemma, ReceiveLemma DEF SysInv
<1>4. \A t \in Threads : PidOf(t) \in Tids
  BY PidsLemma
<1>5. ASSUME NEW t \in Threads
      PROVE  \E l \in KStates :
                /\ Leads(t, l)'
                /\ IF msg.pid = PidOf(t) THEN <<Know(PidOf(t)), msg.type, l>> \in Changes
                                         ELSE l = Know(PidOf(t))
  <2>1. KernelTypeOK /\ Leads(t, Know(PidOf(t)))
    BY DEF SysInv, ViewInv, KernelInv
  <2>2. PICK k : k = Know(PidOf(t))
    OBVIOUS
  <2> QED  BY <1>1, <1>2, <2>1, <2>2, LeadsTail
<1>6. Unsettled = {} /\ Unsettled' = {} /\ OwnCpus' /\ ShotsReal'
  <2>1. Unsettled = {}
    BY <1>2, DrainLemma DEF SysInv
  <2>2. Unsettled' = Unsettled
    BY <1>2 DEF Consume, loopVars, Unsettled, Pending
  <2>3. assigned' = assigned
    BY <1>2 DEF Consume, loopVars
  <2> QED  BY <1>2, <2>1, <2>2, <2>3 DEF OwnCpus, ShotsReal, SysInv
<1>7. CASE IsOwn(msg)
  <2>1. UNCHANGED <<taskVars, status, loopVars>>
    BY <1>2, <1>7 DEF Consume, Ignore
  <2>2. UNCHANGED <<alive, status, cpu_id>> /\ \A p \in Tids : Know(p)' = Know(p)
    BY <2>1 DEF Know, Shot, Unsettled, Pending, taskVars, loopVars
  <2>3. \A t \in Threads : msg.pid # PidOf(t)
    <3> SUFFICES ASSUME NEW t \in Threads, msg.pid = PidOf(t) PROVE FALSE
      OBVIOUS
    <3>1. PidOf(t) = PidOf(LordPid) /\ t # LordPid
      BY <1>7, KernelAssumption DEF IsOwn, PidsDistinct
    <3> QED  BY <3>1 DEF PidsDistinct
  <2>4. \A t \in Threads : Leads(t, Know(PidOf(t)))'
    <3> SUFFICES ASSUME NEW t \in Threads PROVE Leads(t, Know(PidOf(t)))'
      OBVIOUS
    <3>1. PICK l : Leads(t, l)' /\ l = Know(PidOf(t))
      BY <1>5, <2>3
    <3>2. Know(PidOf(t))' = l
      BY <1>4, <2>2, <3>1 DEF PidOf
    <3> QED  BY <3>1, <3>2 DEF Leads
  <2>5. ASSUME NEW c \in Cpus, kcur'[c] # NoThread
        PROVE  Know(PidOf(kcur[c]))' = "running" /\ cpu_id'[PidOf(kcur'[c])] = c
    <3>1. PICK t \in Threads : t = kcur[c] /\ t = kcur'[c] /\ t # NoThread
      BY <1>2, <2>5 DEF SysInv, KernelInv, KernelTypeOK
    <3>2. Know(PidOf(t)) = "running" /\ cpu_id[PidOf(t)] = c
      BY <3>1 DEF SysInv, ViewInv
    <3>3. Know(PidOf(t))' = "running" /\ cpu_id'[PidOf(t)] = c
      BY <1>4, <2>2, <3>2 DEF PidOf
    <3> QED  BY <3>1, <3>3 DEF Know, PidOf
  <2>6. ViewInv'
    BY <2>2, <2>4, <2>5 DEF SysInv, ViewInv, PidOf
  <2>7. MarksHold'
    BY <1>6, <2>1 DEF SysInv, MarksHold, Holds, OnCpu, taskVars
  <2>8. PreemptsTell'
    BY <1>2, <1>6, <2>1, TailTells DEF SysInv
  <2> QED  BY <1>3, <1>6, <2>2, <2>6, <2>7, <2>8 DEF SysInv
<1>8. CASE ~IsOwn(msg)
  <2>1. PICK u \in Threads : msg.pid = PidOf(u)
    BY <1>1, <1>8 DEF Pids, IsOwn, PidsDistinct
  <2>2. PICK l \in KStates : Leads(u, l)' /\ <<Know(msg.pid), msg.type, l>> \in Changes
    BY <1>5, <2>1
  <2>3. msg.type = "COS_PREEMPT" =>
           /\ cpu_states[cpu_id[msg.pid]].type = "COS"
           /\ cpu_states[cpu_id[msg.pid]].pid # msg.pid
    <3>1. msg = mq[1] /\ 1 \in DOMAIN mq
      BY <1>1, <1>2
    <3> QED  BY <3>1 DEF SysInv, PreemptsTell
  <2>4. /\ status' = "running"
        /\ alive' \subseteq alive \cup {msg.pid}
        /\ OffCpu(msg.pid)
        /\ Know(msg.pid)' = l
        /\ \A p \in Tids : p # msg.pid => Know(p)' = Know(p)
    BY <1>2, <1>8, <2>2, <2>3, ConsumeKnows DEF SysInv
  <2>5. \A t \in Threads : Leads(t, Know(PidOf(t)))'
    <3> SUFFICES ASSUME NEW t \in Threads PROVE Leads(t, Know(PidOf(t)))'
      OBVIOUS
    <3>1. CASE t = u
      <4>1. Know(PidOf(t))' = l
        BY <2>1, <2>4, <3>1 DEF Know, PidOf
      <4> QED  BY <2>2, <3>1, <4>1 DEF Leads
    <3>2. CASE t # u
      <4>1. PidOf(t) # msg.pid
        BY <2>1, <3>2 DEF PidsDistinct
      <4>2. PICK k : Leads(t, k)' /\ k = Know(PidOf(t))
        BY <1>5, <4>1
      <4>3. Know(PidOf(t))' = k
        BY <1>4, <2>4, <4>1, <4>2 DEF PidOf
      <4> QED  BY <4>2, <4>3 DEF Leads
    <3> QED  BY <3>1, <3>2
  <2>6. ASSUME NEW c \in Cpus, kcur'[c] # NoThread
        PROVE  Know(PidOf(kcur[c]))' = "running" /\ cpu_id'[PidOf(kcur'[c])] = c
    <3>1. PICK t \in Threads : t = kcur[c] /\ t = kcur'[c] /\ t # NoThread
      BY <1>2, <2>6 DEF SysInv, KernelInv, KernelTypeOK
    <3>2. Know(PidOf(t)) = "running" /\ cpu_id[PidOf(t)] = c /\ Silent(PidOf(t))
      BY <3>1 DEF SysInv, ViewInv, KernelInv
    <3>3. PidOf(t) # msg.pid
      BY <1>1, <1>2, <3>2 DEF Silent
    <3>4. Know(PidOf(t))' = "running" /\ cpu_id'[PidOf(t)] = c
      BY <1>4, <2>4, <3>2, <3>3 DEF PidOf, OffCpu
    <3> QED  BY <3>1, <3>4 DEF Know, PidOf
  <2>7. alive' \subseteq {PidOf(t) : t \in Threads}
    BY <2>1, <2>4 DEF SysInv, ViewInv
  <2>8. ViewInv'
    BY <2>5, <2>6, <2>7 DEF ViewInv, PidOf
  <2>9. MarksHold'
    <3> SUFFICES ASSUME NEW c \in Cpus, cpu_states'[c].type = "COS", NEW p, p = cpu_states'[c].pid
                 PROVE  Holds(p, c)'
      BY <1>6 DEF MarksHold, Holds
    <3>1. cpu_states'[c] = cpu_states[c] /\ p # msg.pid
      BY <2>4 DEF OffCpu
    <3>2. p \in OnCpu /\ cpu_id[p] = c /\ p \in Tids
      BY <3>1 DEF SysInv, MarksHold, Holds, OnCpu
    <3> QED  BY <2>4, <3>1, <3>2 DEF OffCpu, Holds, OnCpu
  <2>10. PreemptsTell'
    BY <1>1, <1>2, <1>6, <2>4, TailTells DEF SysInv
  <2> QED  BY <1>3, <1>6, <2>4, <2>8, <2>9, <2>10 DEF SysInv
<1> QED  BY <1>7, <1>8

LEMMA SysEventLemma ==
    ASSUME ErrLeavesInfo = FALSE, PidsDistinct, SysInv, KernelEvent, UNCHANGED lordVars
    PROVE  SysInv'
<1>1. PICK m \in CosMsg : mq' = Append(mq, m) /\ m.type # "COS_PREEMPT"
  BY EventLemma DEF SysInv
<1>2. /\ KernelInv'
      /\ \A t \in Threads : \A k : Leads(t, k) => Leads(t, k)'
      /\ \A c \in Cpus : kcur'[c] \in {kcur[c], NoThread}
  BY EventLemma DEF SysInv
<1>3. IInv' /\ ShotsReal'
  BY StepLemma, RealLemma DEF SysInv
<1>4. /\ UNCHANGED <<alive, status, cpu_id, cpu_states, pc, assigned>>
      /\ OnCpu' = OnCpu /\ Unsettled' = Unsettled
      /\ \A p \in Tids : Know(p)' = Know(p)
      /\ \A p, c : Holds(p, c)' <=> Holds(p, c)
  BY DEF lordVars, taskVars, loopVars, Know, Shot, Unsettled, Pending, OnCpu, Holds
<1>5. ViewInv'
  BY <1>2, <1>4, KnownLemma DEF SysInv
<1>6. MarksHold' /\ OwnCpus'
  <2>1. old_cpu_states' = old_cpu_states
    BY DEF lordVars, loopVars
  <2> QED  BY <1>4, <2>1 DEF SysInv, MarksHold, OwnCpus, Holds
<1>7. PreemptsTell'
  <2>1. mq \in Seq(CosMsg)
    BY DEF SysInv, KernelInv, KernelTypeOK
  <2>2. ASSUME NEW k \in DOMAIN mq', mq'[k].type = "COS_PREEMPT"
        PROVE  /\ k \in DOMAIN mq /\ mq'[k] = mq[k]
               /\ \A j \in DOMAIN mq' : j < k => j \in DOMAIN mq /\ mq'[j] = mq[j]
    <3>1. /\ Len(mq) \in Nat /\ DOMAIN mq = 1 .. Len(mq) /\ DOMAIN mq' = 1 .. Len(mq) + 1
          /\ mq'[Len(mq) + 1] = m /\ \A j \in 1 .. Len(mq) : mq'[j] = mq[j]
      BY <1>1, <2>1
    <3> QED  BY <1>1, <2>2, <3>1
  <2> QED  BY <1>4, <2>2 DEF SysInv, PreemptsTell, Holds
<1> QED  BY <1>2, <1>3, <1>4, <1>5, <1>6, <1>7 DEF SysInv

-----------------------------------------------------------------------------
(* The shot.                                                               *)

\* The shot of each CPU, as the lord decided it and as it committed it.
LEMMA ShotsLemma ==
    ASSUME IInv, ShotsReal, pc = "shoot"
    PROVE  /\ Unsettled = DOMAIN assigned
           /\ \A i \in Unsettled :
                 LET c == assigned[i].cpu
                     p == assigned[i].pid
                 IN /\ c \in ShotCpus /\ Shots[c] = p /\ p # 0
                    /\ p \in OnCpu /\ p \in alive /\ p \in Tids /\ cpu_id[p] = c /\ Shot(p)
                    /\ cpu_states[c] = [type |-> "COS", pid |-> p]
           /\ \A c \in ShotCpus : /\ c \in Cpus /\ c >= FirstCpu /\ c # LordCpu
                                  /\ \E i \in Unsettled : assigned[i].cpu = c
           /\ \A c \in Cpus : Shots[c] # 0 <=> c \in ShotCpus
<1>1. Unsettled = DOMAIN assigned /\ Pending = DOMAIN assigned
  BY DEF Unsettled, Pending
<1>2. ASSUME NEW i \in Unsettled, NEW c, NEW p, c = assigned[i].cpu, p = assigned[i].pid
      PROVE  /\ c \in Cpus /\ c \in ShotCpus /\ Shots[c] = p /\ p # 0
             /\ p \in OnCpu /\ p \in alive /\ p \in Tids /\ cpu_id[p] = c /\ Shot(p)
             /\ cpu_states[c] = [type |-> "COS", pid |-> p]
  <2>1. c \in Cpus /\ p \in OnCpu /\ p \in alive /\ p \in Tids /\ cpu_id[p] = c
    BY <1>2, UnsettledLemma
  <2>2. area[c].pid = p /\ cpu_states[c] = [type |-> "COS", pid |-> p]
    BY <1>1, <1>2 DEF IInv, ShotInv
  <2>3. c \in ShotCpus /\ Shot(p)
    BY <1>1, <1>2 DEF ShotCpus, ToSet, Shot
  <2>4. p # 0
    BY <1>1, <1>2 DEF ShotsReal
  <2> QED  BY <2>1, <2>2, <2>3, <2>4 DEF Shots
<1>3. ASSUME NEW c \in ShotCpus
      PROVE  c \in Cpus /\ c >= FirstCpu /\ c # LordCpu /\ \E i \in Unsettled : assigned[i].cpu = c
  <2>1. PICK i \in Unsettled : assigned[i].cpu = c
    BY <1>1 DEF ShotCpus, ToSet
  <2> QED  BY <1>2, <2>1 DEF IInv, PoolInv
<1>4. ASSUME NEW c \in Cpus
      PROVE  Shots[c] # 0 <=> c \in ShotCpus
  <2>1. CASE c \in ShotCpus
    <3>1. PICK i \in Unsettled : assigned[i].cpu = c
      BY <1>3, <2>1
    <3>2. assigned[i].pid # 0
      BY <1>1, <3>1 DEF ShotsReal
    <3>3. area[c].pid = assigned[i].pid
      BY <1>1, <3>1 DEF IInv, ShotInv
    <3> QED  BY <2>1, <3>2, <3>3 DEF Shots
  <2>2. CASE c \notin ShotCpus
    BY <2>2 DEF Shots
  <2> QED  BY <2>1, <2>2
<1> QED  BY <1>1, <1>2, <1>3, <1>4

\* The order is executable.
LEMMA OrderLemma ==
    ASSUME IInv, ViewInv, ShotsReal, pc = "shoot"
    PROVE  Executable(Shots)
<1>1. ASSUME NEW c \in Cpus, Shots[c] # 0
      PROVE  Shots[c] \in alive /\ cpu_id[Shots[c]] = c
  <2>1. PICK i \in Unsettled : assigned[i].cpu = c
    BY <1>1, ShotsLemma
  <2> QED  BY <2>1, ShotsLemma
<1>2. \A p \in alive : \E u \in Threads : p = PidOf(u)
  BY DEF ViewInv
<1> QED  BY <1>1, <1>2 DEF Executable

\* A shot that is taken: the thread is known to run.
LEMMA ShootOkKnows ==
    ASSUME IInv, ShotsReal, MarksHold, NEW bad \in SUBSET ShotCpus, ShootOk(bad)
    PROVE  /\ UNCHANGED <<taskVars, status, assigned>> /\ pc' = "check"
           /\ MarksHold' /\ OwnCpus'
           /\ Unsettled' = {i \in DOMAIN assigned : assigned[i].cpu \in bad}
           /\ \A p \in Tids : Know(p)' = IF \E c \in ShotCpus \ bad : Shots[c] = p
                                         THEN "running" ELSE Know(p)
<1>1. /\ pc = "shoot" /\ pc' = "check" /\ cursor = 0
      /\ UNCHANGED <<taskVars, cursor, assigned, old_cpu_states, status>>
      /\ Verdict(bad)
  BY DEF ShootOk, At, IInv, StageInv
<1>2. \A i \in DOMAIN assigned : assigned[i].cpu \in Cpus
  BY UnsettledLemma
<1>3. Pending' = DOMAIN assigned /\ Unsettled = DOMAIN assigned
  <2>1. \A i \in DOMAIN assigned : assigned[i].cpu >= 0
    BY <1>2, LordAssumption DEF Cpus
  <2> QED  BY <1>1, <2>1 DEF Pending, Unsettled
<1>4. \A c \in Cpus : area'[c].info = "ERROR" <=> c \in bad
  <2> SUFFICES ASSUME NEW c \in Cpus PROVE area'[c].info = "ERROR" <=> c \in bad
    OBVIOUS
  <2>1. area[c].info # "ERROR" /\ area[c] \in [pid : Tids \cup {NoTask}, info : {"RIGHT", "ERROR"}]
    BY <1>1, NoErrorLemma DEF IInv, LoopTypeOK
  <2>2. area'[c] = IF c \in bad THEN [area[c] EXCEPT !.info = "ERROR"] ELSE area[c]
    BY <1>1 DEF Verdict
  <2> QED  BY <2>1, <2>2
<1>5. Unsettled' = {i \in DOMAIN assigned : assigned[i].cpu \in bad}
  BY <1>1, <1>2, <1>3, <1>4 DEF Unsettled
<1>6. MarksHold' /\ OwnCpus'
  <2>1. OnCpu' = OnCpu /\ cpu_id' = cpu_id /\ cpu_states' = cpu_states
    BY <1>1 DEF taskVars, OnCpu
  <2>2. Unsettled' \subseteq Unsettled
    BY <1>3, <1>5
  <2> QED  BY <1>1, <2>1, <2>2 DEF MarksHold, Holds, OwnCpus
<1>7. ASSUME NEW p \in Tids
      PROVE  Know(p)' = IF \E c \in ShotCpus \ bad : Shots[c] = p THEN "running" ELSE Know(p)
  <2>1. CASE \E c \in ShotCpus \ bad : Shots[c] = p
    <3>1. PICK c \in ShotCpus \ bad : Shots[c] = p
      BY <2>1
    <3>0. PICK k \in Unsettled : assigned[k].cpu = c
      BY <1>1, <3>1, ShotsLemma
    <3>2. p \in alive /\ state[p] = "OnCpu" /\ cpu_id[p] = c
      <4>1. p \in alive /\ p \in OnCpu /\ cpu_id[p] = c
        BY <1>1, <3>0, <3>1, ShotsLemma
      <4> QED  BY <4>1 DEF OnCpu
    <3>3. \A i \in Unsettled : assigned[i].pid = p => assigned[i].cpu = c
      BY <3>2, UnsettledLemma
    <3>4. ~Shot(p)'
      BY <1>1, <1>3, <1>5, <3>3 DEF Shot
    <3> QED  BY <1>1, <2>1, <3>2, <3>4 DEF Know, taskVars
  <2>2. CASE \A c \in ShotCpus \ bad : Shots[c] # p
    <3>1. Shot(p)' <=> Shot(p)
      <4>1. ASSUME NEW i \in Unsettled, assigned[i].pid = p
            PROVE  assigned[i].cpu \in bad
        <5>1. assigned[i].cpu \in ShotCpus /\ Shots[assigned[i].cpu] = p
          BY <1>1, <4>1, ShotsLemma
        <5> QED  BY <2>2, <5>1
      <4> QED  BY <1>1, <1>3, <1>5, <4>1 DEF Shot
    <3> QED  BY <1>1, <2>2, <3>1, KnowLemma DEF taskVars
  <2> QED  BY <2>1, <2>2
<1> QED  BY <1>1, <1>5, <1>6, <1>7

\* A task whose thread is known to run is on its CPU in the books.
LEMMA RunningLemma ==
    ASSUME IInv, NEW p \in Tids
    PROVE  /\ Know(p) = "running" => p \in OnCpu
           /\ p \in OnCpu => Know(p) = "running" \/ Shot(p)
           /\ Shot(p) => Know(p) # "running"
<1>1. state[p] \in RunStates
  BY DEF IInv, TaskInv, TaskTypeOK
<1>2. p \in OnCpu => p \in alive /\ state[p] = "OnCpu"
  BY DEF IInv, TaskInv, Books, OnCpu
<1> QED  BY <1>1, <1>2 DEF Know, OnCpu, RunStates

\* The threads that lose their CPU to the shot report it behind everything
\* that is in the queue, and until then their CPU is marked with the other.
LEMMA ShootTells ==
    ASSUME PidsDistinct, SeqBarrier # "none", SysInv,
           NEW bad \in SUBSET ShotCpus, ShootOk(bad), Shoot(Shots, bad)
    PROVE  PreemptsTell'
<1>0. IInv /\ KernelInv /\ ViewInv /\ ShotsReal /\ MarksHold /\ OwnCpus /\ PreemptsTell
  BY DEF SysInv
<1>1. PICK shots : shots = Shots
  OBVIOUS
<1>2. pc = "shoot" /\ Executable(shots) /\ Shoot(shots, bad)
  BY <1>0, <1>1, OrderLemma DEF ShootOk, At
<1>3. PICK T, D : T = Taken(shots, bad) /\ D = Displaced(shots, bad)
  OBVIOUS
<1>4. /\ \A c \in T : Silent(shots[c])
      /\ \A u \in D : u \in Threads /\ Silent(PidOf(u))
  BY <1>0, <1>2, <1>3, KernelShootLemma
<1>5. PICK s \in Seq(CosMsg) : mq' = mq \o s /\ Telling(s, D)
  BY <1>0, <1>2, <1>3, DisplacedLemma
<1>6. /\ UNCHANGED <<taskVars, assigned>> /\ pc' = "check"
      /\ Unsettled' = {i \in DOMAIN assigned : assigned[i].cpu \in bad}
      /\ OnCpu' = OnCpu
  BY <1>0, ShootOkKnows DEF taskVars, OnCpu
<1>7. /\ mq \in Seq(CosMsg) /\ Len(mq) \in Nat /\ Len(s) \in Nat
      /\ DOMAIN mq' = 1 .. Len(mq) + Len(s)
      /\ \A i \in 1 .. Len(mq) + Len(s) : mq'[i] = IF i <= Len(mq) THEN mq[i] ELSE s[i - Len(mq)]
  BY <1>0, <1>5, ConcatProperties DEF KernelInv, KernelTypeOK
<1>8. T \subseteq ShotCpus \ bad /\ T \subseteq Cpus
  BY <1>0, <1>1, <1>2, <1>3, ShotsLemma DEF Taken
<1>9. ASSUME NEW k \in DOMAIN mq', mq'[k].type = "COS_PREEMPT",
             NEW p, p = mq'[k].pid, NEW c, c = cpu_id[p]
      PROVE  /\ p \in OnCpu
             /\ cpu_states[c].type = "COS" /\ cpu_states[c].pid # p
             /\ \A q : (\E j \in DOMAIN mq' : j < k /\ mq'[j].pid = q) => ~Holds(q, c)
             /\ \A i \in Unsettled' : assigned[i].cpu # c
  <2>1. k > Len(mq) /\ k - Len(mq) \in DOMAIN s /\ mq'[k] = s[k - Len(mq)]
    <3>1. CASE k <= Len(mq)
      <4>1. k \in DOMAIN mq /\ mq[k].type = "COS_PREEMPT"
        BY <1>7, <1>9, <3>1
      <4> QED  BY <1>0, <1>2, <4>1 DEF PreemptsTell
    <3>2. CASE ~(k <= Len(mq))
      BY <1>7, <3>2
    <3> QED  BY <3>1, <3>2
  <2>2. PICK u \in D : s[k - Len(mq)] = Msg(u, "COS_PREEMPT")
    BY <1>5, <2>1 DEF Telling
  <2>3. p = PidOf(u) /\ u \in Threads /\ Silent(p) /\ p \in Tids
    BY <1>4, <1>9, <2>1, <2>2, PidsLemma DEF Msg
  <2>4. PICK d \in T : kcur[d] = u /\ u # NoThread
    BY <1>3, <2>2 DEF Displaced
  <2>5. Know(p) = "running" /\ d = c /\ c \in Cpus /\ c \in ShotCpus /\ c \notin bad
    BY <1>0, <1>8, <1>9, <2>3, <2>4 DEF ViewInv
  <2>6. p \in OnCpu
    BY <1>0, <2>3, <2>5, RunningLemma
  <2>7. PICK i \in Unsettled : assigned[i].cpu = c
    BY <1>0, <1>2, <2>5, ShotsLemma
  <2>8. PICK z : z = assigned[i].pid
    OBVIOUS
  <2>9. /\ shots[c] = z /\ cpu_states[c] = [type |-> "COS", pid |-> z]
        /\ Shot(z) /\ z \in Tids /\ Silent(z)
    <3>1. /\ shots[c] = z /\ cpu_states[c] = [type |-> "COS", pid |-> z]
          /\ Shot(z) /\ z \in Tids
      BY <1>0, <1>1, <1>2, <2>7, <2>8, ShotsLemma
    <3> QED  BY <1>4, <2>4, <2>5, <3>1
  <2>10. z # p
    BY <1>0, <2>5, <2>9, RunningLemma
  <2>11. ASSUME NEW q, NEW j \in DOMAIN mq', j < k, mq'[j].pid = q, Holds(q, c)
         PROVE  FALSE
    <3>1. q \in OnCpu /\ cpu_id[q] = c /\ q \in Tids
      BY <2>11 DEF Holds, OnCpu
    <3>2. Know(q) = "running" \/ Shot(q)
      BY <1>0, <3>1, RunningLemma
    <3>3. Silent(q)
      <4>1. CASE Know(q) = "running"
        <5>1. q = p
          BY <1>0, <1>2, <1>9, <2>3, <2>5, <3>1, <4>1 DEF OwnCpus
        <5> QED  BY <2>3, <5>1
      <4>2. CASE Shot(q)
        <5>1. PICK i2 \in Unsettled : assigned[i2].pid = q
          BY <4>2 DEF Shot
        <5>2. assigned[i2].cpu = c
          BY <1>0, <3>1, <5>1, UnsettledLemma
        <5>3. i2 = i
          BY <1>0, <2>7, <5>2, UnsettledLemma
        <5> QED  BY <2>8, <2>9, <5>1, <5>3
      <4> QED  BY <3>2, <4>1, <4>2
    <3>4. j > Len(mq) /\ j - Len(mq) \in DOMAIN s /\ mq'[j] = s[j - Len(mq)]
      <4>1. CASE j <= Len(mq)
        <5>1. j \in DOMAIN mq /\ mq[j].pid = q
          BY <1>7, <2>11, <4>1
        <5> QED  BY <3>3, <5>1 DEF Silent
      <4>2. CASE ~(j <= Len(mq))
        BY <1>7, <4>2
      <4> QED  BY <4>1, <4>2
    <3>5. PICK v \in D : s[j - Len(mq)] = Msg(v, "COS_PREEMPT")
      BY <1>5, <3>4 DEF Telling
    <3>6. q = PidOf(v) /\ v \in Threads
      BY <1>4, <2>11, <3>4, <3>5 DEF Msg
    <3>7. PICK e \in T : kcur[e] = v /\ v # NoThread
      BY <1>3, <3>5 DEF Displaced
    <3>8. Know(q) = "running"
      BY <1>0, <1>8, <3>6, <3>7 DEF ViewInv
    <3>9. q = p
      BY <1>0, <1>2, <1>9, <2>3, <2>5, <3>1, <3>8 DEF OwnCpus
    <3>10. PICK n \in DOMAIN s : \A l \in DOMAIN s : s[l].pid = PidOf(u) => l = n
      BY <1>5, <2>2 DEF Telling
    <3>11. k - Len(mq) = n /\ j - Len(mq) = n
      BY <1>9, <2>1, <2>3, <2>11, <3>4, <3>9, <3>10
    <3> QED  BY <1>7, <2>11, <3>11
  <2>12. \A l \in Unsettled' : assigned[l].cpu # c
    BY <1>6, <2>5
  <2> QED  BY <2>6, <2>9, <2>10, <2>11, <2>12
<1>10. \A q, c : Holds(q, c)' <=> Holds(q, c)
  BY <1>6 DEF Holds, taskVars
<1> QED  BY <1>6, <1>9, <1>10 DEF PreemptsTell, taskVars, Holds

LEMMA SysShootLemma ==
    ASSUME ErrLeavesInfo = FALSE, PidsDistinct, SeqBarrier # "none", SysInv,
           NEW bad \in SUBSET ShotCpus, ShootOk(bad), Shoot(Shots, bad)
    PROVE  SysInv'
<1>0. IInv /\ KernelInv /\ ViewInv /\ ShotsReal /\ MarksHold
  BY DEF SysInv
<1>1. PICK shots : shots = Shots
  OBVIOUS
<1>2. pc = "shoot" /\ Executable(shots) /\ Shoot(shots, bad)
  BY <1>0, <1>1, OrderLemma DEF ShootOk, At
<1>3. /\ KernelInv'
      /\ \A c \in Taken(shots, bad) :
            /\ shots[c] \in Threads
            /\ PidOf(shots[c]) = shots[c]
            /\ Leads(shots[c], "running")'
      /\ \A t \in Threads : (\A c \in Taken(shots, bad) : shots[c] # t) =>
            \A k : Leads(t, k) => Leads(t, k)'
      /\ kcur' = [c \in Cpus |-> IF c \in Taken(shots, bad) THEN shots[c] ELSE kcur[c]]
  BY <1>0, <1>2, KernelShootLemma
<1>4. PICK T : T = Taken(shots, bad)
  OBVIOUS
<1>5. T = ShotCpus \ bad /\ T \subseteq Cpus
  BY <1>0, <1>1, <1>2, <1>4, ShotsLemma DEF Taken
<1>6. /\ UNCHANGED <<alive, status, cpu_id, assigned>>
      /\ MarksHold' /\ OwnCpus'
      /\ \A p \in Tids : Know(p)' = IF \E c \in T : shots[c] = p THEN "running" ELSE Know(p)
  BY <1>0, <1>1, <1>5, ShootOkKnows DEF taskVars
<1>7. IInv' /\ ShotsReal'
  BY <1>0, <1>6, ShootLemma DEF ShotsReal
<1>8. \A t \in Threads : PidOf(t) \in Tids
  BY PidsLemma
<1>9. \A t \in Threads : Leads(t, Know(PidOf(t)))'
  <2> SUFFICES ASSUME NEW t \in Threads PROVE Leads(t, Know(PidOf(t)))'
    OBVIOUS
  <2>1. CASE \E c \in T : shots[c] = t
    <3>1. PICK c \in T : shots[c] = t
      BY <2>1
    <3>2. PidOf(t) = t /\ Leads(t, "running")'
      BY <1>3, <1>4, <3>1
    <3>3. Know(t)' = "running"
      BY <1>6, <1>8, <3>1, <3>2
    <3>4. Know(PidOf(t))' = "running"
      BY <3>2, <3>3 DEF PidOf, Know
    <3> QED  BY <3>2, <3>4 DEF Leads
  <2>2. CASE \A c \in T : shots[c] # t
    <3>1. PICK k : k = Know(PidOf(t)) /\ Leads(t, k)'
      BY <1>0, <1>3, <1>4, <2>2 DEF ViewInv
    <3>2. \A c \in T : shots[c] # PidOf(t)
      BY <1>3, <1>4, <2>2 DEF PidsDistinct
    <3>3. Know(PidOf(t))' = k
      BY <1>6, <1>8, <3>1, <3>2 DEF PidOf
    <3> QED  BY <3>1, <3>3 DEF Leads
  <2> QED  BY <2>1, <2>2
<1>10. ASSUME NEW c \in Cpus, kcur'[c] # NoThread
       PROVE  Know(PidOf(kcur[c]))' = "running" /\ cpu_id'[PidOf(kcur'[c])] = c
  <2>1. CASE c \in T
    <3>1. PICK t \in Threads : t = shots[c] /\ kcur'[c] = t /\ PidOf(t) = t
      BY <1>3, <1>4, <2>1
    <3>2. cpu_id[t] = c
      <4>1. PICK i \in Unsettled : assigned[i].cpu = c
        BY <1>0, <1>2, <1>5, <2>1, ShotsLemma
      <4>2. shots[c] = assigned[i].pid
        BY <1>0, <1>1, <1>2, <4>1, ShotsLemma
      <4> QED  BY <1>0, <3>1, <4>1, <4>2, UnsettledLemma
    <3>3. Know(t)' = "running"
      BY <1>6, <1>8, <2>1, <3>1
    <3> QED  BY <1>6, <3>1, <3>2, <3>3 DEF PidOf, Know
  <2>2. CASE c \notin T
    <3>1. PICK t \in Threads : t = kcur[c] /\ kcur'[c] = t /\ t # NoThread
      BY <1>0, <1>3, <1>4, <1>10, <2>2 DEF KernelInv, KernelTypeOK
    <3>2. Know(PidOf(t)) = "running" /\ cpu_id[PidOf(t)] = c
      BY <1>0, <3>1 DEF ViewInv
    <3>3. Know(PidOf(t))' = "running"
      BY <1>6, <1>8, <3>2 DEF PidOf
    <3> QED  BY <1>6, <3>1, <3>2, <3>3 DEF PidOf, Know
  <2> QED  BY <2>1, <2>2
<1>11. ViewInv'
  BY <1>0, <1>6, <1>9, <1>10 DEF ViewInv, PidOf
<1>12. status' = "running"
  BY <1>6 DEF SysInv
<1> QED  BY <1>3, <1>6, <1>7, <1>11, <1>12, ShootTells DEF SysInv

LEMMA SysStepLemma ==
    ASSUME ErrLeavesInfo = FALSE, PidsDistinct, SeqBarrier # "none",
           SysInv, [SysNext]_sysVars
    PROVE  SysInv'
<1>1. CASE Receive
  BY <1>1, SysReceiveLemma
<1>2. CASE SeeEmpty \/ LordAlone \/ \E bad \in SUBSET ShotCpus : ShootErr(bad) /\ ShootFails
  <2>1. /\ UNCHANGED kernelVars
        /\ \/ EnterSchedule /\ mq = <<>>
           \/ ScheduleStep
           \/ \E bad \in SUBSET ShotCpus : ShootErr(bad)
    BY <1>2 DEF SeeEmpty, LordAlone, ShootFails
  <2> QED  BY <2>1, SysLordLemma
<1>3. CASE \E bad \in SUBSET ShotCpus : ShootOk(bad) /\ Shoot(Shots, bad)
  BY <1>3, SysShootLemma
<1>4. CASE KernelEvent /\ UNCHANGED lordVars
  BY <1>4, SysEventLemma
<1>5. CASE UNCHANGED sysVars
  <2>1. UNCHANGED <<rq, alive, state, cpu_id, cpu_states, area, pc, cursor, pools, onqueue_idle,
                    assigned, old_cpu_states, status, kstate, kcur, mq>>
    BY <1>5 DEF sysVars, lordVars, taskVars, loopVars, kernelVars
  <2>2. IInv' /\ ShotsReal'
    BY <2>1, StepLemma, RealLemma DEF SysInv, lordVars, taskVars, loopVars
  <2>3. KernelInv' /\ \A t \in Threads : \A k : Leads(t, k) => Leads(t, k)'
    BY <2>1 DEF SysInv, KernelInv, KernelTypeOK, Silent, PidOf, Pids, Leads, Follows
  <2>4. /\ \A p : Know(p)' = Know(p)
        /\ Unsettled' = Unsettled /\ \A p, c : Holds(p, c)' <=> Holds(p, c)
        /\ OnCpu' = OnCpu
    BY <2>1 DEF Know, Shot, Unsettled, Pending, Holds, OnCpu
  <2>5. ViewInv'
    BY <2>1, <2>3, <2>4, KnownLemma DEF SysInv
  <2>6. MarksHold' /\ OwnCpus' /\ PreemptsTell'
    BY <2>1, <2>4 DEF SysInv, MarksHold, OwnCpus, PreemptsTell, Holds
  <2> QED  BY <2>1, <2>2, <2>3, <2>5, <2>6 DEF SysInv
<1> QED  BY <1>1, <1>2, <1>3, <1>4, <1>5 DEF SysNext, LordStep, ShootTask

-----------------------------------------------------------------------------
(* The theorems.                                                           *)

\* SysInv is inductive.
THEOREM SysInductive ==
    ASSUME ErrLeavesInfo = FALSE, PidsDistinct, SeqBarrier # "none"
    PROVE  SysSpec => []SysInv
<1>1. SysInit => SysInv
  BY SysInitLemma
<1>2. SysInv /\ [SysNext]_sysVars => SysInv'
  BY SysStepLemma
<1> QED  BY <1>1, <1>2, PTL DEF SysSpec

\* With a kernel that keeps its contract the lord never ends: in particular
\* the assert that a displaced thread's CPU is marked COS
\* (shinjuku_lord.h:397) holds of every COS_PREEMPT message, although it does
\* not hold of every running task.
THEOREM LordNeverStops ==
    ASSUME ErrLeavesInfo = FALSE, PidsDistinct, SeqBarrier # "none"
    PROVE  SysSpec => []NeverStops
<1>1. SysInv => NeverStops
  BY DEF SysInv, NeverStops
<1> QED  BY <1>1, SysInductive, PTL

\* When every message is read and no shot is under way, what the lord
\* believes of every thread is the truth, its CPU included, although threads
\* displaced by a shot are reported only after it.
THEOREM LordKnowsTruth ==
    ASSUME ErrLeavesInfo = FALSE, PidsDistinct, SeqBarrier # "none"
    PROVE  SysSpec => []ViewExact
<1>1. SysInv => ViewExact
  <2> SUFFICES ASSUME SysInv, pc = "drain", mq = <<>>, NEW t \in Threads
               PROVE  Agrees(t)
    BY DEF ViewExact
  <2>0. IInv /\ KernelInv /\ ViewInv
    BY DEF SysInv
  <2> DEFINE p == PidOf(t)
  <2>1. Know(p) = kstate[t]
    <3>1. KernelTypeOK /\ Leads(t, Know(p))
      BY <2>0 DEF ViewInv, KernelInv
    <3> QED  BY <3>1, LeadsNowhere
  <2>2. ~Shot(p)
    BY <2>0, DrainLemma
  <2>3. kstate[t] \in {"absent", "blocked", "runnable", "running"} /\ p \in Tids
    BY <2>0, PidsLemma DEF KernelInv, KernelTypeOK
  <2>4. state[p] \in RunStates
    BY <2>0, <2>3 DEF IInv, TaskInv, TaskTypeOK
  <2>5. CASE kstate[t] = "running"
    <3>1. p \in OnCpu
      BY <2>0, <2>1, <2>3, <2>5, RunningLemma
    <3>2. PICK c \in Cpus : kcur[c] = t
      BY <2>0, <2>5 DEF KernelInv
    <3>3. t # NoThread
      BY KernelAssumption DEF NoThread
    <3>4. cpu_id[p] = c
      BY <2>0, <3>2, <3>3 DEF ViewInv
    <3> QED  BY <2>5, <3>1, <3>2, <3>4 DEF Agrees
  <2>6. CASE kstate[t] = "runnable"
    BY <2>1, <2>2, <2>3, <2>6 DEF Know, Agrees, Queued
  <2>7. CASE kstate[t] \in {"absent", "blocked"}
    BY <2>1, <2>7 DEF Know, Agrees
  <2> QED  BY <2>3, <2>5, <2>6, <2>7
<1> QED  BY <1>1, SysInductive, PTL

\* A step of a thread is a move of the class, or none.
LEMMA EventImplements ==
    ASSUME KernelInv, KernelEvent
    PROVE  [Class!Next]_Class!classVars
<1> DEFINE ClassCpus == {c \in Cpus : c >= FirstCpu /\ c # LordCpu}
           running == [c \in ClassCpus |-> kcur[c]]
<1>1. CASE LordMessage
  BY <1>1 DEF LordMessage, Class!classVars
<1>2. ASSUME NEW u \in Threads, NEW from \in KStates, NEW to \in KStates,
             NEW type \in MsgTypes, to # "running",
             <<from, type, to>> \in Changes, Event(u, {from}, to, type)
      PROVE  [Class!Next]_Class!classVars
  <2>1. /\ kstate[u] = from /\ kstate' = [kstate EXCEPT ![u] = to]
        /\ kcur' = [c \in Cpus |-> IF kcur[c] = u THEN NoThread ELSE kcur[c]]
    BY <1>2 DEF Event
  <2>2. CASE from = to
    <3>1. from = "absent"
      BY <1>2, <2>2 DEF Changes
    <3>2. \A c \in Cpus : kcur[c] # u
      BY <2>1, <3>1, KernelAssumption DEF KernelInv, NoThread
    <3>3. kstate' = kstate /\ kcur' = kcur
      BY <2>1, <2>2, <3>2 DEF KernelInv, KernelTypeOK
    <3> QED  BY <3>3 DEF Class!classVars
  <2>3. CASE from # to
    <3>1. <<from, to>> \in Class!Moves /\ to \in {"absent", "blocked", "runnable"}
      BY <1>2, <2>3 DEF Changes, Class!Moves
    <3>2. running' = [c \in ClassCpus |-> IF running[c] = u THEN 0 ELSE running[c]]
      BY <2>1 DEF NoThread
    <3>3. Class!Move(u, to)
      BY <2>1, <3>1, <3>2 DEF Class!Move
    <3> QED  BY <3>1, <3>3 DEF Class!Next
  <2> QED  BY <2>2, <2>3
<1> QED  BY <1>1, <1>2, EventsTell

\* A shot is an order of the class: runnable threads on CPUs the class may
\* use, the threads that had them runnable again.
LEMMA ShootImplements ==
    ASSUME PidsDistinct, SeqBarrier # "none", SysInv,
           NEW bad \in SUBSET ShotCpus, ShootOk(bad), Shoot(Shots, bad)
    PROVE  Class!Next
<1> DEFINE ClassCpus == {c \in Cpus : c >= FirstCpu /\ c # LordCpu}
           running == [c \in ClassCpus |-> kcur[c]]
<1>0. IInv /\ KernelInv /\ ViewInv /\ ShotsReal
  BY DEF SysInv
<1>1. PICK order : order = Shots
  OBVIOUS
<1>2. PICK T, D : T = Taken(order, bad) /\ D = Displaced(order, bad)
  OBVIOUS
<1>3. pc = "shoot" /\ Executable(order) /\ Shoot(order, bad)
  BY <1>0, <1>1, OrderLemma DEF ShootOk, At
<1>4. T \subseteq ClassCpus /\ \A c \in T : order[c] # 0
  <2>1. \A c \in T : c \in Cpus /\ order[c] # 0
    BY <1>2 DEF Taken
  <2>2. \A c \in T : c \in ShotCpus
    BY <1>0, <1>1, <1>3, <2>1, ShotsLemma
  <2>3. \A c \in T : c >= FirstCpu /\ c # LordCpu
    BY <1>0, <1>3, <2>2, ShotsLemma
  <2> QED  BY <2>1, <2>3
<1>5. /\ \A c \in T : /\ order[c] \in Threads
                      /\ kstate[order[c]] = "runnable" /\ kstate'[order[c]] = "running"
      /\ \A t \in Threads : (\A c \in T : order[c] # t) =>
            kstate'[t] = IF t \in D THEN "runnable" ELSE kstate[t]
      /\ kcur' = [c \in Cpus |-> IF c \in T THEN order[c] ELSE kcur[c]]
      /\ KernelTypeOK'
  BY <1>0, <1>2, <1>3, KernelShootLemma DEF KernelInv
<1>6. PICK shots \in [ClassCpus -> Threads \cup {0}] :
         \A c \in ClassCpus : shots[c] = IF c \in T THEN order[c] ELSE 0
  <2> DEFINE f == [c \in ClassCpus |-> IF c \in T THEN order[c] ELSE 0]
  <2>1. f \in [ClassCpus -> Threads \cup {0}]
    BY <1>5
  <2> QED  BY <2>1
<1>7. {c \in ClassCpus : shots[c] # 0} = T
  BY <1>4, <1>6
<1>8. \A c \in T : shots[c] = order[c]
  BY <1>4, <1>6
<1>9. {running[c] : c \in T} \ {0} = D
  BY <1>2, <1>4 DEF Displaced, NoThread
<1>10. /\ \A c \in T : kstate[shots[c]] = "runnable"
       /\ \A c, d \in T : shots[c] = shots[d] => c = d
  BY <1>3, <1>4, <1>5, <1>8 DEF Executable
<1>11. running' = [c \in ClassCpus |-> IF c \in T THEN shots[c] ELSE running[c]]
  BY <1>5, <1>8
<1>12. kstate' = [t \in Threads |-> IF \E c \in T : shots[c] = t THEN "running"
                                    ELSE IF t \in D THEN "runnable" ELSE kstate[t]]
  <2>1. \A t \in Threads : kstate'[t] = IF \E c \in T : shots[c] = t THEN "running"
                                        ELSE IF t \in D THEN "runnable" ELSE kstate[t]
    BY <1>5, <1>8
  <2>2. kstate' = [t \in Threads |-> kstate'[t]]
    BY <1>5 DEF KernelTypeOK
  <2> QED  BY <2>1, <2>2
<1>13. Class!Run(shots)
  BY <1>7, <1>9, <1>10, <1>11, <1>12 DEF Class!Run
<1> QED  BY <1>13 DEF Class!Next

\* The lord, its queue and the kernel implement the class as its threads see
\* it: runnable threads get CPUs at or above the first and never the lord's,
\* one each, and a thread that loses its CPU is runnable again.
THEOREM ShinjukuImplementsClass ==
    ASSUME ErrLeavesInfo = FALSE, PidsDistinct, SeqBarrier # "none"
    PROVE  SysSpec => ImplementsClass
<1>1. SysInit => Class!Init
  BY DEF SysInit, KernelInit, Class!Init, NoThread
<1>2. SysInv /\ [SysNext]_sysVars => [Class!Next]_Class!classVars
  <2> SUFFICES ASSUME SysInv, [SysNext]_sysVars
               PROVE  [Class!Next]_Class!classVars
    OBVIOUS
  <2>1. CASE UNCHANGED <<kstate, kcur>>
    BY <2>1 DEF Class!classVars
  <2>2. CASE KernelEvent
    BY <2>2, EventImplements DEF SysInv
  <2>3. CASE \E bad \in SUBSET ShotCpus : ShootOk(bad) /\ Shoot(Shots, bad)
    BY <2>3, ShootImplements
  <2> QED  BY <2>1, <2>2, <2>3
           DEF SysNext, LordStep, Receive, SeeEmpty, LordAlone, ShootTask, ShootFails,
               sysVars, kernelVars
<1> QED  BY <1>1, <1>2, SysInductive, PTL DEF SysSpec, ImplementsClass, Class!Spec

-----------------------------------------------------------------------------
(* The workers.  The lord reads the marks, and the workers stay: neither   *)
(* is more than the system allows.                                         *)

LEMMA WorkStepLemma ==
    ASSUME [WorkNext]_allVars
    PROVE  [SysNext]_sysVars
<1>1. CASE UNCHANGED allVars
  BY <1>1 DEF allVars
<1>2. CASE SysNext
  BY <1>2
<1>3. CASE WorkersLord
  <2>1. CASE Receive \/ SeeEmpty
    BY <2>1 DEF SysNext, LordStep
  <2>2. CASE ReadsMarks /\ UNCHANGED kernelVars
    <3>1. ScheduleStep
      BY <2>2 DEF ReadsMarks, PickMarked, ScheduleStep
    <3> QED  BY <2>2, <3>1 DEF SysNext, LordStep, LordAlone
  <2>3. CASE \E bad \in SUBSET ShotCpus : ShootOk(bad) /\ Shoot(Shots, bad)
    BY <2>3 DEF SysNext, LordStep, ShootTask
  <2> QED  BY <1>3, <2>1, <2>2, <2>3 DEF WorkersLord
<1>4. CASE WorkerEvent
  <2>1. \E t \in Threads : JoinRunnable(t) \/ Block(t) \/ Wake(t) \/ CfsPreempt(t)
    BY <1>4, WorkersAssumption DEF WorkerEvent
  <2> QED  BY <1>4, <2>1 DEF WorkerEvent, SysNext, KernelEvent, LeaveCpu
<1>5. CASE \E t \in Workers : MarkIdle(t) \/ MarkRunnable(t)
  BY <1>5 DEF MarkIdle, MarkRunnable
<1> QED  BY <1>1, <1>2, <1>3, <1>4, <1>5 DEF WorkNext

\* The workers of the RocksDB workload, and a lord that reads their marks, do
\* nothing the system does not do.
THEOREM WorkersAreThreads == WorkSpec => SysSpec
<1>1. WorkInit => SysInit
  BY DEF WorkInit
<1>2. [WorkNext]_allVars => [SysNext]_sysVars
  BY WorkStepLemma
<1> QED  BY <1>1, <1>2, PTL DEF WorkSpec, SysSpec

\* So the lord survives the workload, knows the truth about its workers, and
\* no worker is on two CPUs (rocksdb.cpp, shinjuku_lord.h).
THEOREM WorkersAreSafe ==
    ASSUME ErrLeavesInfo = FALSE, PidsDistinct, SeqBarrier # "none"
    PROVE  WorkSpec => []NeverStops /\ []ViewExact /\ ImplementsClass
BY WorkersAreThreads, LordNeverStops, LordKnowsTruth, ShinjukuImplementsClass, PTL

=============================================================================
