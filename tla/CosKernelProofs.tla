-------------------------- MODULE CosKernelProofs --------------------------
(***************************************************************************)
(* What the unread messages tell of each thread.  A lord knows a thread as *)
(* of the last message it has read; the messages still in the queue lead   *)
(* from there to where the thread is now.  These lemmas say that they do,  *)
(* step by step, whatever the threads, and are used with either lord.      *)
(***************************************************************************)
EXTENDS CosKernel, SequenceTheorems, FiniteSetTheorems, TLAPS

KStates == {"absent", "blocked", "runnable", "running"}

\* No two threads, the lord among them, have the same 16-bit pid, and the
\* lord recognises its own.
PidsDistinct ==
    /\ \A t, u \in Threads \cup {LordPid} : PidOf(t) = PidOf(u) => t = u
    /\ PidOf(LordPid) = LordPid

\* What a message of each type says: the state of its thread before and after.
Changes == {<<"absent", "NEW", "runnable">>, <<"absent", "NEW_BLOCKED", "blocked">>,
            <<"blocked", "RUNNABLE", "runnable">>, <<"running", "BLOCKED", "blocked">>,
            <<"running", "DEAD", "absent">>, <<"blocked", "DEAD", "absent">>,
            <<"runnable", "DEAD", "absent">>, <<"running", "PREEMPT", "runnable">>,
            <<"running", "COS_PREEMPT", "runnable">>,
            <<"absent", "RUNNABLE", "absent">>, <<"absent", "BLOCKED", "absent">>}

\* h follows thread t from one message to the next.
Follows(h, t) ==
    \A i \in 1 .. Len(mq) : IF mq[i].pid = PidOf(t)
                            THEN <<h[i - 1], mq[i].type, h[i]>> \in Changes
                            ELSE h[i] = h[i - 1]

\* From state k the unread messages lead to the state thread t is in.
Leads(t, k) ==
    \E h \in [0 .. Len(mq) -> KStates] : h[0] = k /\ h[Len(mq)] = kstate[t] /\ Follows(h, t)

Silent(pid) == \A i \in DOMAIN mq : mq[i].pid # pid

\* Nothing unread: the state told is the state.
LEMMA LeadsNowhere ==
    ASSUME KernelTypeOK, NEW t \in Threads, NEW k, Leads(t, k), mq = <<>>
    PROVE  k = kstate[t]
BY DEF Leads

\* A thread without unread messages is where it was said to be.
LEMMA LeadsSilent ==
    ASSUME KernelTypeOK, NEW t \in Threads, Silent(PidOf(t))
    PROVE  Leads(t, kstate[t])
<1> DEFINE h == [i \in 0 .. Len(mq) |-> kstate[t]]
<1>1. Len(mq) \in Nat /\ DOMAIN mq = 1 .. Len(mq) /\ kstate[t] \in KStates
  BY DEF KernelTypeOK, KStates
<1>2. /\ h \in [0 .. Len(mq) -> KStates]
      /\ \A i \in 0 .. Len(mq) : h[i] = kstate[t]
  BY <1>1
<1> HIDE DEF h
<1>3. h[0] = kstate[t] /\ h[Len(mq)] = kstate[t]
  BY <1>1, <1>2
<1>4. Follows(h, t)
  BY <1>1, <1>2 DEF Follows, Silent
<1> QED  BY <1>2, <1>3, <1>4 DEF Leads

LEMMA LeadsSilentNext ==
    ASSUME KernelTypeOK', NEW t \in Threads, Silent(PidOf(t))'
    PROVE  Leads(t, kstate[t])'
<1> DEFINE q == mq'
           k == kstate'[t]
<1>1. Len(q) \in Nat /\ DOMAIN q = 1 .. Len(q) /\ k \in KStates
  BY DEF KernelTypeOK, KStates
<1>2. PICK h \in [0 .. Len(q) -> KStates] : \A i \in 0 .. Len(q) : h[i] = k
  <2>1. [i \in 0 .. Len(q) |-> k] \in [0 .. Len(q) -> KStates]
    BY <1>1
  <2> QED  BY <2>1
<1>3. h[0] = k /\ h[Len(q)] = k
  BY <1>1, <1>2
<1>4. Follows(h, t)'
  BY <1>1, <1>2 DEF Follows, Silent, PidOf
<1> QED  BY <1>2, <1>3, <1>4 DEF Leads

\* One more message.
LEMMA LeadsAppend ==
    ASSUME KernelTypeOK, NEW t \in Threads, NEW k, Leads(t, k), NEW m \in CosMsg,
           mq' = Append(mq, m), kstate'[t] \in KStates,
           IF m.pid = PidOf(t) THEN <<kstate[t], m.type, kstate'[t]>> \in Changes
                               ELSE kstate'[t] = kstate[t]
    PROVE  Leads(t, k)'
<1>1. PICK h \in [0 .. Len(mq) -> KStates] :
         h[0] = k /\ h[Len(mq)] = kstate[t] /\ Follows(h, t)
  BY DEF Leads
<1> DEFINE n == Len(mq)
<1>2. /\ n \in Nat /\ Len(mq') = n + 1
      /\ mq'[n + 1] = m /\ \A i \in 1 .. n : mq'[i] = mq[i]
  BY DEF KernelTypeOK
<1>3. PICK g \in [0 .. n + 1 -> KStates] :
         g[n + 1] = kstate'[t] /\ \A i \in 0 .. n : g[i] = h[i]
  <2> DEFINE f == [i \in 0 .. n + 1 |-> IF i = n + 1 THEN kstate'[t] ELSE h[i]]
  <2>1. f \in [0 .. n + 1 -> KStates] /\ f[n + 1] = kstate'[t] /\ \A i \in 0 .. n : f[i] = h[i]
    BY <1>2
  <2> QED  BY <2>1
<1>4. ASSUME NEW i \in 1 .. n + 1
      PROVE  IF mq'[i].pid = PidOf(t) THEN <<g[i - 1], mq'[i].type, g[i]>> \in Changes
                                      ELSE g[i] = g[i - 1]
  <2>1. CASE i = n + 1
    <3>1. g[i - 1] = kstate[t] /\ g[i] = kstate'[t] /\ mq'[i] = m
      BY <1>1, <1>2, <1>3, <2>1
    <3> QED  BY <3>1
  <2>2. CASE i # n + 1
    <3>1. i \in 1 .. n /\ i - 1 \in 0 .. n
      BY <1>2, <2>2
    <3>2. g[i - 1] = h[i - 1] /\ g[i] = h[i] /\ mq'[i] = mq[i]
      BY <1>2, <1>3, <3>1
    <3> QED  BY <1>1, <3>1, <3>2 DEF Follows
  <2> QED  BY <2>1, <2>2
<1>5. g[0] = k
  BY <1>1, <1>2, <1>3
<1>6. Follows(g, t)'
  BY <1>2, <1>4 DEF Follows, PidOf
<1> QED  BY <1>2, <1>3, <1>5, <1>6 DEF Leads

\* Messages of other threads.
LEMMA LeadsConcat ==
    ASSUME KernelTypeOK, NEW t \in Threads, NEW k, Leads(t, k), NEW s \in Seq(CosMsg),
           mq' = mq \o s, kstate'[t] = kstate[t],
           \A i \in DOMAIN s : s[i].pid # PidOf(t)
    PROVE  Leads(t, k)'
<1>1. PICK h \in [0 .. Len(mq) -> KStates] :
         h[0] = k /\ h[Len(mq)] = kstate[t] /\ Follows(h, t)
  BY DEF Leads
<1> DEFINE n == Len(mq)
           l == Len(s)
<1>2. /\ n \in Nat /\ l \in Nat /\ Len(mq') = n + l
      /\ \A i \in 1 .. n + l : mq'[i] = IF i <= n THEN mq[i] ELSE s[i - n]
  BY ConcatProperties DEF KernelTypeOK
<1>3. PICK g \in [0 .. n + l -> KStates] :
         \A i \in 0 .. n + l : g[i] = IF i <= n THEN h[i] ELSE h[n]
  <2> DEFINE f == [i \in 0 .. n + l |-> IF i <= n THEN h[i] ELSE h[n]]
  <2>1. f \in [0 .. n + l -> KStates]
    BY <1>2
  <2> QED  BY <2>1
<1>4. ASSUME NEW i \in 1 .. n + l
      PROVE  IF mq'[i].pid = PidOf(t) THEN <<g[i - 1], mq'[i].type, g[i]>> \in Changes
                                      ELSE g[i] = g[i - 1]
  <2>1. CASE i > n
    <3>1. g[i] = h[n] /\ g[i - 1] = h[n]
      BY <1>2, <1>3, <2>1
    <3>2. mq'[i] = s[i - n] /\ i - n \in DOMAIN s
      BY <1>2, <2>1
    <3> QED  BY <3>1, <3>2
  <2>2. CASE i <= n
    <3>1. i \in 1 .. n /\ i - 1 \in 0 .. n
      BY <1>2, <2>2
    <3>2. i \in 0 .. n + l /\ i - 1 \in 0 .. n + l /\ i - 1 <= n
      BY <1>2, <2>2
    <3>3. g[i - 1] = h[i - 1] /\ g[i] = h[i] /\ mq'[i] = mq[i]
      BY <1>2, <1>3, <2>2, <3>2
    <3> QED  BY <1>1, <3>1, <3>3 DEF Follows
  <2>3. i > n \/ i <= n
    BY <1>2
  <2> QED  BY <2>1, <2>2, <2>3, Zenon
<1>5. g[0] = k /\ g[n + l] = kstate'[t]
  <2>1. 0 \in 0 .. n + l /\ 0 <= n /\ n + l \in 0 .. n + l /\ (n + l <= n => n + l = n)
    BY <1>2
  <2>2. g[0] = h[0] /\ g[n + l] = h[n]
    BY <1>3, <2>1
  <2> QED  BY <1>1, <2>2
<1>6. Follows(g, t)'
  BY <1>2, <1>4 DEF Follows, PidOf
<1> QED  BY <1>2, <1>3, <1>5, <1>6 DEF Leads

\* The message of a thread displaced, among those of others.
LEMMA LeadsDisplaced ==
    ASSUME KernelTypeOK, NEW t \in Threads, NEW k, Leads(t, k), NEW s \in Seq(CosMsg),
           mq' = mq \o s, kstate[t] = "running", kstate'[t] = "runnable",
           NEW j \in DOMAIN s, s[j] = Msg(t, "COS_PREEMPT"),
           \A i \in DOMAIN s : s[i].pid = PidOf(t) => i = j
    PROVE  Leads(t, k)'
<1>1. PICK h \in [0 .. Len(mq) -> KStates] :
         h[0] = k /\ h[Len(mq)] = kstate[t] /\ Follows(h, t)
  BY DEF Leads
<1> DEFINE n == Len(mq)
           l == Len(s)
<1>2. /\ n \in Nat /\ l \in Nat /\ Len(mq') = n + l /\ j \in 1 .. l
      /\ \A i \in 1 .. n + l : mq'[i] = IF i <= n THEN mq[i] ELSE s[i - n]
  BY ConcatProperties DEF KernelTypeOK
<1>3. PICK g \in [0 .. n + l -> KStates] :
         \A i \in 0 .. n + l : g[i] = IF i <= n THEN h[i]
                                    ELSE IF i < n + j THEN "running" ELSE "runnable"
  <2> DEFINE f == [i \in 0 .. n + l |-> IF i <= n THEN h[i]
                                        ELSE IF i < n + j THEN "running" ELSE "runnable"]
  <2>1. f \in [0 .. n + l -> KStates]
    BY <1>2 DEF KStates
  <2> QED  BY <2>1
<1>4. ASSUME NEW i \in 1 .. n + l
      PROVE  IF mq'[i].pid = PidOf(t) THEN <<g[i - 1], mq'[i].type, g[i]>> \in Changes
                                      ELSE g[i] = g[i - 1]
  <2>1. CASE i > n
    <3>1. mq'[i] = s[i - n] /\ i - n \in DOMAIN s
      BY <1>2, <2>1
    <3>2. CASE i = n + j
      <4>1. g[i] = "runnable"
        BY <1>2, <1>3, <3>2
      <4>2. g[i - 1] = "running"
        <5>1. CASE j = 1
          <6>1. i - 1 = n /\ n \in 0 .. n + l /\ n <= n
            BY <1>2, <3>2, <5>1
          <6> QED  BY <1>1, <1>3, <6>1
        <5>2. CASE j # 1
          <6>1. i - 1 \in 0 .. n + l /\ ~(i - 1 <= n) /\ i - 1 < n + j
            BY <1>2, <3>2, <5>2
          <6> QED  BY <1>3, <6>1
        <5> QED  BY <5>1, <5>2
      <4>3. i - n = j
        BY <1>2, <3>2
      <4> QED  BY <3>1, <4>1, <4>2, <4>3 DEF Msg, Changes
    <3>3. CASE i < n + j
      <4>1. g[i] = "running"
        BY <1>2, <1>3, <2>1, <3>3
      <4>2. g[i - 1] = "running"
        <5>1. CASE i - 1 = n
          <6>1. n \in 0 .. n + l /\ n <= n
            BY <1>2
          <6> QED  BY <1>1, <1>3, <5>1, <6>1
        <5>2. CASE i - 1 # n
          <6>1. i - 1 \in 0 .. n + l /\ ~(i - 1 <= n) /\ i - 1 < n + j
            BY <1>2, <2>1, <3>3, <5>2
          <6> QED  BY <1>3, <6>1
        <5> QED  BY <5>1, <5>2
      <4>3. i - n # j
        BY <1>2, <3>3
      <4> QED  BY <3>1, <4>1, <4>2, <4>3
    <3>4. CASE i > n + j
      <4>1. /\ i \in 0 .. n + l /\ ~(i <= n) /\ ~(i < n + j)
            /\ i - 1 \in 0 .. n + l /\ ~(i - 1 <= n) /\ ~(i - 1 < n + j)
        BY <1>2, <3>4
      <4>2. g[i] = "runnable" /\ g[i - 1] = "runnable"
        BY <1>3, <4>1
      <4>3. i - n # j
        BY <1>2, <3>4
      <4> QED  BY <3>1, <4>2, <4>3
    <3>5. i = n + j \/ i < n + j \/ i > n + j
      <4>1. i \in Int /\ n + j \in Int
        BY <1>2
      <4> QED  BY <4>1
    <3> QED  BY <3>2, <3>3, <3>4, <3>5, Zenon
  <2>2. CASE i <= n
    <3>1. i \in 1 .. n /\ i - 1 \in 0 .. n
      BY <1>2, <2>2
    <3>2. i \in 0 .. n + l /\ i - 1 \in 0 .. n + l /\ i - 1 <= n
      BY <1>2, <2>2
    <3>3. g[i - 1] = h[i - 1] /\ g[i] = h[i] /\ mq'[i] = mq[i]
      BY <1>2, <1>3, <2>2, <3>2
    <3> QED  BY <1>1, <3>1, <3>3 DEF Follows
  <2>3. i > n \/ i <= n
    BY <1>2
  <2> QED  BY <2>1, <2>2, <2>3, Zenon
<1>5. g[0] = k /\ g[n + l] = kstate'[t]
  <2>1. g[0] = h[0]
    <3>1. 0 \in 0 .. n + l /\ 0 <= n
      BY <1>2
    <3> QED  BY <1>3, <3>1
  <2>2. g[n + l] = "runnable"
    <3>1. n + l \in 0 .. n + l /\ ~(n + l <= n) /\ ~(n + l < n + j)
      BY <1>2
    <3> QED  BY <1>3, <3>1
  <2> QED  BY <1>1, <2>1, <2>2
<1>6. Follows(g, t)'
  BY <1>2, <1>4 DEF Follows, PidOf
<1> QED  BY <1>2, <1>3, <1>5, <1>6 DEF Leads

\* The first message is read: it says the first change.
LEMMA LeadsTail ==
    ASSUME KernelTypeOK, NEW t \in Threads, NEW k, Leads(t, k), mq # <<>>,
           mq' = Tail(mq), kstate' = kstate
    PROVE  \E l \in KStates :
              /\ Leads(t, l)'
              /\ IF Head(mq).pid = PidOf(t) THEN <<k, Head(mq).type, l>> \in Changes ELSE l = k
<1>1. PICK h \in [0 .. Len(mq) -> KStates] :
         h[0] = k /\ h[Len(mq)] = kstate[t] /\ Follows(h, t)
  BY DEF Leads
<1> DEFINE n == Len(mq)
<1>2. /\ n \in Nat /\ n >= 1 /\ Len(mq') = n - 1 /\ Head(mq) = mq[1]
      /\ \A i \in 1 .. n - 1 : mq'[i] = mq[i + 1]
  BY DEF KernelTypeOK
<1>3. PICK g \in [0 .. n - 1 -> KStates] : \A i \in 0 .. n - 1 : g[i] = h[i + 1]
  <2> DEFINE f == [i \in 0 .. n - 1 |-> h[i + 1]]
  <2>1. \A i \in 0 .. n - 1 : i + 1 \in 0 .. n
    BY <1>2
  <2>2. f \in [0 .. n - 1 -> KStates]
    BY <2>1
  <2> QED  BY <2>2
<1>4. ASSUME NEW i \in 1 .. n - 1
      PROVE  IF mq'[i].pid = PidOf(t) THEN <<g[i - 1], mq'[i].type, g[i]>> \in Changes
                                      ELSE g[i] = g[i - 1]
  <2>1. i - 1 \in 0 .. n - 1 /\ (i - 1) + 1 = i /\ i + 1 \in 1 .. n /\ (i + 1) - 1 = i
    BY <1>2
  <2>2. g[i - 1] = h[i] /\ g[i] = h[i + 1] /\ mq'[i] = mq[i + 1]
    BY <1>2, <1>3, <2>1
  <2>3. IF mq[i + 1].pid = PidOf(t) THEN <<h[i], mq[i + 1].type, h[i + 1]>> \in Changes
                                    ELSE h[i + 1] = h[i]
    BY <1>1, <2>1 DEF Follows
  <2> QED  BY <2>2, <2>3
<1>5. Follows(g, t)'
  BY <1>2, <1>4 DEF Follows, PidOf
<1>6. g[n - 1] = kstate'[t] /\ g[0] = h[1] /\ h[1] \in KStates
  <2>1. n - 1 \in 0 .. n - 1 /\ (n - 1) + 1 = n /\ 0 \in 0 .. n - 1 /\ 0 + 1 = 1 /\ 1 \in 0 .. n
    BY <1>2
  <2> QED  BY <1>1, <1>3, <2>1
<1>7. Leads(t, h[1])'
  BY <1>2, <1>3, <1>5, <1>6 DEF Leads
<1>8. IF Head(mq).pid = PidOf(t) THEN <<k, Head(mq).type, h[1]>> \in Changes ELSE h[1] = k
  <2>1. 1 \in 1 .. n /\ 1 - 1 = 0
    BY <1>2
  <2> QED  BY <1>1, <1>2, <2>1 DEF Follows
<1> QED  BY <1>6, <1>7, <1>8

-----------------------------------------------------------------------------
(* The threads' own steps.                                                 *)

\* Every step of the kernel by itself is a message of the lord's thread, or a
\* change of one thread and the message that says so.
LEMMA EventsTell ==
    ASSUME KernelEvent
    PROVE  \/ LordMessage
           \/ \E u \in Threads, from \in KStates, to \in KStates, type \in MsgTypes :
                 /\ to # "running" /\ type # "COS_PREEMPT"
                 /\ <<from, type, to>> \in Changes
                 /\ Event(u, {from}, to, type)
<1>1. SUFFICES ASSUME NEW u \in Threads,
                      \/ JoinRunnable(u) \/ JoinBlocked(u) \/ Wake(u) \/ Leave(u) \/ Stray(u)
                      \/ Block(u) \/ Exit(u) \/ CfsPreempt(u)
               PROVE  \E from \in KStates, to \in KStates, type \in MsgTypes :
                         /\ to # "running" /\ type # "COS_PREEMPT"
                         /\ <<from, type, to>> \in Changes
                         /\ Event(u, {from}, to, type)
  BY DEF KernelEvent, LeaveCpu
<1> USE DEF KStates, MsgTypes, Changes
<1>2. CASE JoinRunnable(u)
  BY <1>2 DEF JoinRunnable
<1>3. CASE JoinBlocked(u)
  BY <1>3 DEF JoinBlocked
<1>4. CASE Wake(u)
  BY <1>4 DEF Wake
<1>5. CASE Leave(u)
  <2>1. Event(u, {"blocked"}, "absent", "DEAD") \/ Event(u, {"runnable"}, "absent", "DEAD")
    BY <1>5 DEF Leave, Event
  <2> QED  BY <2>1
<1>6. CASE Stray(u)
  BY <1>6 DEF Stray
<1>7. CASE Block(u)
  BY <1>7 DEF Block
<1>8. CASE Exit(u)
  BY <1>8 DEF Exit
<1>9. CASE CfsPreempt(u)
  BY <1>9 DEF CfsPreempt
<1> QED  BY <1>1, <1>2, <1>3, <1>4, <1>5, <1>6, <1>7, <1>8, <1>9

LEMMA PidsLemma ==
    /\ \A t \in Threads \cup {LordPid} : PidOf(t) \in Tids
    /\ \A t \in Threads \cup {LordPid}, type \in MsgTypes : Msg(t, type) \in CosMsg
BY KernelAssumption DEF PidOf, Msg, CosMsg

\* A 16-bit pid that is a thread's own pid is the pid of no other thread.
LEMMA PidOfPid ==
    ASSUME PidsDistinct, NEW u \in Threads, PidOf(u) \in Threads
    PROVE  PidOf(u) = u
<1>1. u \in Nat /\ PidMod \in Nat \ {0}
  BY KernelAssumption
<1>2. u % PidMod \in 0 .. PidMod - 1
  BY <1>1, SMT
<1>3. (u % PidMod) % PidMod = u % PidMod
  <2> DEFINE r == u % PidMod
  <2> HIDE DEF r
  <2>1. r \in 0 .. PidMod - 1 => r % PidMod = r
    BY <1>1, SMT
  <2> USE DEF r
  <2> QED  BY <1>2, <2>1
<1>4. PidOf(PidOf(u)) = PidOf(u)
  BY <1>3 DEF PidOf
<1> QED  BY <1>4 DEF PidsDistinct

-----------------------------------------------------------------------------
(* What runs where.                                                        *)

Pids == {PidOf(t) : t \in Threads \cup {LordPid}}

\* The CPUs run different threads, exactly those that are running, and a
\* running thread has said nothing that is not read.
KernelInv ==
    /\ KernelTypeOK
    /\ \A i \in DOMAIN mq : mq[i].pid \in Pids
    /\ \A c \in Cpus : kcur[c] # NoThread =>
          kstate[kcur[c]] = "running" /\ Silent(PidOf(kcur[c]))
    /\ \A t \in Threads : kstate[t] = "running" => \E c \in Cpus : kcur[c] = t
    /\ \A c, d \in Cpus : kcur[c] = kcur[d] /\ kcur[c] # NoThread => c = d

\* What a step of a thread does: one message; one thread changes, and no
\* thread starts to run; a CPU keeps its thread if it keeps running.
LEMMA EventLemma ==
    ASSUME PidsDistinct, KernelInv, KernelEvent
    PROVE  /\ KernelInv'
           /\ \E m \in CosMsg :
                 /\ mq' = Append(mq, m)
                 /\ m.type # "COS_PREEMPT"
                 /\ \A t \in Threads : PidOf(t) # m.pid => kstate'[t] = kstate[t]
           /\ \A t \in Threads : \A k : Leads(t, k) => Leads(t, k)'
           /\ \A t \in Threads : kstate'[t] = "running" => kstate[t] = "running"
           /\ \A c \in Cpus : kcur'[c] \in {kcur[c], NoThread}
<1> USE DEF KernelInv
<1>1. CASE LordMessage
  <2> DEFINE m == Msg(LordPid, "NEW")
  <2>1. mq' = Append(mq, m) /\ UNCHANGED <<kstate, kcur>>
    BY <1>1 DEF LordMessage
  <2>2. m \in CosMsg /\ m.pid = PidOf(LordPid) /\ m.type = "NEW"
    BY PidsLemma DEF Msg, MsgTypes
  <2>3. \A t \in Threads : PidOf(t) # m.pid
    <3> SUFFICES ASSUME NEW t \in Threads, PidOf(t) = PidOf(LordPid)
                 PROVE  FALSE
      BY <2>2
    <3>1. t # LordPid
      BY KernelAssumption
    <3> QED  BY <3>1 DEF PidsDistinct
  <2> HIDE DEF m
  <2>4. KernelTypeOK'
    BY <2>1, <2>2 DEF KernelTypeOK
  <2>5. \A t \in Threads : Silent(PidOf(t)) => Silent(PidOf(t))'
    BY <2>1, <2>2, <2>3 DEF Silent, KernelTypeOK, PidOf
  <2>6. \A t \in Threads : \A k : Leads(t, k) => Leads(t, k)'
    BY <2>1, <2>2, <2>3, LeadsAppend DEF KernelTypeOK, KStates
  <2>7. KernelInv'
    <3>1. \A i \in DOMAIN mq' : mq'[i].pid \in Pids
      BY <2>1, <2>2 DEF KernelTypeOK, Pids
    <3> QED  BY <2>1, <2>4, <2>5, <3>1 DEF KernelTypeOK, PidOf, Pids
  <2>8. \A c \in Cpus : kcur'[c] \in {kcur[c], NoThread}
    BY <2>1
  <2> QED  BY <2>1, <2>2, <2>6, <2>7, <2>8
<1>2. ASSUME NEW u \in Threads, NEW from \in KStates, NEW to \in KStates,
             NEW type \in MsgTypes, to # "running", type # "COS_PREEMPT",
             <<from, type, to>> \in Changes, Event(u, {from}, to, type)
      PROVE  /\ KernelInv'
             /\ \E m \in CosMsg :
                   /\ mq' = Append(mq, m)
                   /\ m.type # "COS_PREEMPT"
                     /\ \A t \in Threads : PidOf(t) # m.pid => kstate'[t] = kstate[t]
             /\ \A t \in Threads : \A k : Leads(t, k) => Leads(t, k)'
             /\ \A t \in Threads : kstate'[t] = "running" => kstate[t] = "running"
             /\ \A c \in Cpus : kcur'[c] \in {kcur[c], NoThread}
  <2> DEFINE m == Msg(u, type)
  <2>1. /\ kstate[u] = from /\ kstate' = [kstate EXCEPT ![u] = to]
        /\ kcur' = [c \in Cpus |-> IF kcur[c] = u THEN NoThread ELSE kcur[c]]
        /\ mq' = Append(mq, m)
    BY <1>2 DEF Event
  <2>2. m \in CosMsg /\ m.pid = PidOf(u) /\ m.type = type /\ type # "COS_PREEMPT"
    <3>1. m \in CosMsg /\ m.pid = PidOf(u) /\ m.type = type
      BY PidsLemma DEF Msg
    <3> QED  BY <3>1, <1>2
  <2> HIDE DEF m
  <2>3. \A t \in Threads : PidOf(t) = PidOf(u) => t = u
    BY DEF PidsDistinct
  <2>4. /\ kstate'[u] = to
        /\ \A t \in Threads : t # u => kstate'[t] = kstate[t]
        /\ \A t \in Threads : kstate'[t] \in KStates
    BY <2>1 DEF KernelTypeOK, KStates
  <2>5. KernelTypeOK'
    <3>1. kstate' \in [Threads -> {"absent", "blocked", "runnable", "running"}]
      BY <2>1 DEF KernelTypeOK, KStates
    <3>2. kcur' \in [Cpus -> Threads \cup {NoThread}]
      BY <2>1 DEF KernelTypeOK
    <3>3. mq' \in Seq(CosMsg)
      BY <2>1, <2>2 DEF KernelTypeOK
    <3> QED  BY <3>1, <3>2, <3>3 DEF KernelTypeOK
  <2>6. \A t \in Threads : t # u /\ Silent(PidOf(t)) => Silent(PidOf(t))'
    BY <2>1, <2>2, <2>3 DEF Silent, KernelTypeOK, PidOf
  <2>7. \A t \in Threads : \A k : Leads(t, k) => Leads(t, k)'
    <3> SUFFICES ASSUME NEW t \in Threads, NEW k, Leads(t, k)
                 PROVE  Leads(t, k)'
      OBVIOUS
    <3>1. IF m.pid = PidOf(t) THEN <<kstate[t], m.type, kstate'[t]>> \in Changes
                              ELSE kstate'[t] = kstate[t]
      <4>1. CASE t = u
        BY <4>1, <1>2, <2>1, <2>2, <2>4
      <4>2. CASE t # u
        BY <4>2, <2>2, <2>3, <2>4
      <4> QED  BY <4>1, <4>2
    <3> HIDE DEF KernelInv
    <3>2. KernelTypeOK
      BY DEF KernelInv
    <3> QED  BY <2>1, <2>2, <2>4, <3>1, <3>2, LeadsAppend
  <2>8. \A c \in Cpus : kcur'[c] # NoThread => kcur'[c] = kcur[c] /\ kcur[c] # u
    BY <2>1
  <2>9. \A t \in Threads : kstate'[t] = "running" => kstate[t] = "running" /\ t # u
    BY <1>2, <2>4
  <2>10. KernelInv'
    <3>1. ASSUME NEW c \in Cpus, kcur'[c] # NoThread
          PROVE  kstate'[kcur'[c]] = "running" /\ Silent(PidOf(kcur[c]))'
      <4>1. kcur'[c] = kcur[c] /\ kcur[c] # u /\ kcur[c] \in Threads
        BY <2>8, <3>1 DEF KernelTypeOK
      <4>2. kstate[kcur[c]] = "running" /\ Silent(PidOf(kcur[c]))
        BY <3>1, <4>1
      <4> QED  BY <2>4, <2>6, <4>1, <4>2 DEF Silent, PidOf
    <3>2. ASSUME NEW t \in Threads, kstate'[t] = "running"
          PROVE  \E c \in Cpus : kcur'[c] = t
      <4>1. kstate[t] = "running" /\ t # u
        BY <2>9, <3>2
      <4>2. PICK c \in Cpus : kcur[c] = t
        BY <4>1
      <4> QED  BY <2>1, <4>1, <4>2
    <3>3. \A c, d \in Cpus : kcur'[c] = kcur'[d] /\ kcur'[c] # NoThread => c = d
      BY <2>8
    <3>4. \A i \in DOMAIN mq' : mq'[i].pid \in Pids
      BY <2>1, <2>2 DEF KernelTypeOK, Pids
    <3> QED  BY <2>5, <3>1, <3>2, <3>3, <3>4 DEF KernelInv, Pids, PidOf
  <2>11. \A c \in Cpus : kcur'[c] \in {kcur[c], NoThread}
    BY <2>1
  <2>12. \A t \in Threads : PidOf(t) # m.pid => kstate'[t] = kstate[t]
    BY <2>2, <2>4
  <2> QED  BY <2>1, <2>2, <2>7, <2>9, <2>10, <2>11, <2>12
<1> QED  BY <1>1, <1>2, EventsTell
-----------------------------------------------------------------------------
(* Reading a message, and the shot.                                        *)

LEMMA ReceiveLemma ==
    ASSUME KernelInv, mq # <<>>, mq' = Tail(mq), UNCHANGED <<kstate, kcur>>
    PROVE  KernelInv'
<1>1. /\ mq \in Seq(CosMsg) /\ mq' \in Seq(CosMsg)
      /\ \A i \in DOMAIN mq' : i + 1 \in DOMAIN mq /\ mq'[i] = mq[i + 1]
  BY DEF KernelInv, KernelTypeOK
<1>2. \A pid : Silent(pid) => Silent(pid)'
  BY <1>1 DEF Silent
<1> QED  BY <1>1, <1>2 DEF KernelInv, KernelTypeOK, PidOf, Pids, Silent

\* The CPUs whose shots are taken, and the threads that lose their CPU.
Taken(shots, bad)     == {c \in Cpus : shots[c] # 0} \ bad
Displaced(shots, bad) == {kcur[c] : c \in Taken(shots, bad)} \ {NoThread}

\* An order that is executable: threads of the class, each at one CPU.
Executable(shots) ==
    /\ \A c \in Cpus : shots[c] # 0 => \E u \in Threads : shots[c] = PidOf(u)
    /\ \A c, d \in Cpus : shots[c] # 0 /\ shots[c] = shots[d] => c = d

\* The messages s are a COS_PREEMPT of each of the threads of D.
Telling(s, D) ==
    /\ \A i \in DOMAIN s : \E u \in D : s[i] = Msg(u, "COS_PREEMPT")
    /\ \A u \in D : \E j \in DOMAIN s :
          s[j] = Msg(u, "COS_PREEMPT") /\ \A i \in DOMAIN s : s[i].pid = PidOf(u) => i = j

\* Every displaced thread sends one COS_PREEMPT, and no one else anything.
LEMMA DisplacedLemma ==
    ASSUME PidsDistinct, KernelInv, NEW shots, NEW bad, Shoot(shots, bad)
    PROVE  \E s \in Seq(CosMsg) : mq' = mq \o s /\ Telling(s, Displaced(shots, bad))
<1> DEFINE D == Displaced(shots, bad)
<1>1. Cpus = 0 .. CpuNum - 1 /\ IsFiniteSet(Cpus)
  BY LordAssumption, FS_Interval DEF Cpus
<1>2. D \subseteq {kcur[c] : c \in Cpus} /\ D \subseteq Threads
  BY DEF Displaced, Taken, KernelInv, KernelTypeOK, NoThread
<1>3. kcur \in Surjection(Cpus, {kcur[c] : c \in Cpus})
  BY DEF KernelInv, KernelTypeOK, Surjection
<1>4. IsFiniteSet({kcur[c] : c \in Cpus})
  BY <1>1, <1>3, FS_Surjection
<1>5. Cardinality(D) \in Nat
  BY <1>2, <1>4, FS_Subset, FS_CardinalityType
<1>6. PICK order \in Bijection(1 .. Cardinality(D), D) :
         mq' = mq \o [i \in 1 .. Cardinality(D) |-> Msg(order[i], "COS_PREEMPT")]
  BY DEF Shoot, Displaced, Taken
<1>7. PICK s : s = [i \in 1 .. Cardinality(D) |-> Msg(order[i], "COS_PREEMPT")]
  OBVIOUS
<1>8. /\ order \in [1 .. Cardinality(D) -> D]
      /\ \A i, j \in 1 .. Cardinality(D) : order[i] = order[j] => i = j
      /\ \A u \in D : \E i \in 1 .. Cardinality(D) : order[i] = u
  BY DEF Bijection, Injection, Surjection, IsInjective
<1> HIDE DEF D
<1>9. \A u \in D : Msg(u, "COS_PREEMPT") \in CosMsg
  BY <1>2, PidsLemma DEF MsgTypes
<1>10. /\ s \in Seq(CosMsg) /\ DOMAIN s = 1 .. Cardinality(D)
       /\ \A i \in 1 .. Cardinality(D) : s[i] = Msg(order[i], "COS_PREEMPT")
  <2>1. \A i \in 1 .. Cardinality(D) : Msg(order[i], "COS_PREEMPT") \in CosMsg
    BY <1>8, <1>9
  <2> QED  BY <1>5, <1>7, <2>1
<1>11. \A i \in DOMAIN s : \E u \in D : s[i] = Msg(u, "COS_PREEMPT")
  BY <1>8, <1>10
<1>12. ASSUME NEW u \in D
       PROVE  \E j \in DOMAIN s : /\ s[j] = Msg(u, "COS_PREEMPT")
                                  /\ \A i \in DOMAIN s : s[i].pid = PidOf(u) => i = j
  <2>1. PICK j \in DOMAIN s : order[j] = u
    BY <1>8, <1>10
  <2>2. ASSUME NEW i \in DOMAIN s, s[i].pid = PidOf(u)
        PROVE  i = j
    <3>1. PidOf(order[i]) = PidOf(u) /\ order[i] \in D
      BY <1>8, <1>10, <2>2 DEF Msg
    <3>2. order[i] = u
      BY <1>2, <3>1 DEF PidsDistinct
    <3> QED  BY <1>8, <1>10, <2>1, <3>2
  <2> QED  BY <1>10, <2>1, <2>2
<1>13. Telling(s, D)
  BY <1>11, <1>12, Zenon DEF Telling
<1> QED  BY <1>6, <1>7, <1>10, <1>13 DEF D

\* What a shot does when the kernel refuses the threads with unread messages:
\* the threads shot had said all and get their CPUs, the threads displaced say
\* so, and the unread messages still lead to where each thread is.
LEMMA KernelShootLemma ==
    ASSUME PidsDistinct, SeqBarrier # "none", KernelInv,
           NEW shots, NEW bad, Executable(shots), Shoot(shots, bad)
    PROVE  /\ KernelInv'
           /\ \A c \in Taken(shots, bad) :
                 /\ shots[c] \in Threads
                 /\ PidOf(shots[c]) = shots[c]
                 /\ kstate[shots[c]] = "runnable" /\ kstate'[shots[c]] = "running"
                 /\ Silent(shots[c])
                 /\ Leads(shots[c], "running")'
           /\ \A t \in Threads : (\A c \in Taken(shots, bad) : shots[c] # t) =>
                 /\ \A k : Leads(t, k) => Leads(t, k)'
                 /\ kstate'[t] = IF t \in Displaced(shots, bad) THEN "runnable" ELSE kstate[t]
           /\ kcur' = [c \in Cpus |-> IF c \in Taken(shots, bad) THEN shots[c] ELSE kcur[c]]
           /\ \A t \in Displaced(shots, bad) :
                 t \in Threads /\ kstate[t] = "running" /\ Silent(PidOf(t))
<1> DEFINE T == Taken(shots, bad)
           D == Displaced(shots, bad)
<1>1. /\ kcur' = [c \in Cpus |-> IF c \in T THEN shots[c] ELSE kcur[c]]
      /\ kstate' = [t \in Threads |-> IF t \in D THEN "runnable"
                                      ELSE IF \E c \in T : shots[c] = t THEN "running"
                                      ELSE kstate[t]]
  BY DEF Shoot, Taken, Displaced
<1>2. \A t \in D : t \in Threads /\ kstate[t] = "running" /\ Silent(PidOf(t)) /\ t # NoThread
  BY DEF Displaced, Taken, KernelInv, KernelTypeOK
<1>3. ASSUME NEW c \in T
      PROVE  /\ shots[c] \in Threads /\ PidOf(shots[c]) = shots[c]
             /\ kstate[shots[c]] = "runnable" /\ Silent(shots[c]) /\ shots[c] \notin D
             /\ c \in Cpus /\ shots[c] # 0
  <2>1. c \in Cpus /\ shots[c] # 0 /\ Runnable(shots[c])
    BY DEF Shoot, Taken, MustRefuse
  <2>2. PICK u \in Threads : shots[c] = PidOf(u)
    BY <2>1 DEF Executable
  <2>3. PidOf(shots[c]) = shots[c]
    BY <2>1, <2>2, PidOfPid DEF Runnable
  <2>4. Silent(shots[c])
    <3>1. CASE SeqBarrier = "thread"
      BY <2>1, <3>1 DEF Runnable, Fresh, Silent
    <3>2. CASE SeqBarrier = "all"
      <4>1. mq = <<>>
        BY <2>1, <3>2 DEF Runnable, Fresh
      <4> QED  BY <4>1 DEF Silent
    <3> QED  BY <3>1, <3>2, KernelAssumption
  <2> QED  BY <1>2, <2>1, <2>3, <2>4 DEF Runnable
<1> HIDE DEF T, D
<1> D = Displaced(shots, bad)
  BY DEF D
<1>4. PICK s \in Seq(CosMsg) :
         /\ mq' = mq \o s
         /\ \A i \in DOMAIN s : \E u \in D : s[i] = Msg(u, "COS_PREEMPT")
         /\ \A u \in D : \E j \in DOMAIN s :
               s[j] = Msg(u, "COS_PREEMPT") /\ \A i \in DOMAIN s : s[i].pid = PidOf(u) => i = j
  <2>1. PICK s \in Seq(CosMsg) : mq' = mq \o s /\ Telling(s, Displaced(shots, bad))
    BY DisplacedLemma
  <2> QED  BY <2>1 DEF Telling
<1>5. /\ \A t \in D : kstate'[t] = "runnable"
      /\ \A c \in T : kstate'[shots[c]] = "running"
      /\ \A t \in Threads : t \notin D /\ (\A c \in T : shots[c] # t) => kstate'[t] = kstate[t]
  BY <1>1, <1>2, <1>3
<1>6. \A t \in Threads : t \notin D => \A i \in DOMAIN s : s[i].pid # PidOf(t)
  BY <1>2, <1>4 DEF PidsDistinct, Msg
<1>7. KernelTypeOK'
  <2>1. kstate' \in [Threads -> {"absent", "blocked", "runnable", "running"}]
    BY <1>1 DEF KernelInv, KernelTypeOK
  <2>2. kcur' \in [Cpus -> Threads \cup {NoThread}]
    BY <1>1, <1>3 DEF KernelInv, KernelTypeOK
  <2>3. mq' \in Seq(CosMsg)
    BY <1>4 DEF KernelInv, KernelTypeOK
  <2> QED  BY <2>1, <2>2, <2>3 DEF KernelTypeOK
<1>8. \A t \in Threads : t \notin D /\ Silent(PidOf(t)) => Silent(PidOf(t))'
  <2> SUFFICES ASSUME NEW t \in Threads, t \notin D, Silent(PidOf(t)),
                      NEW i \in DOMAIN mq'
               PROVE  mq'[i].pid # PidOf(t)
    BY DEF Silent, PidOf
  <2>1. /\ Len(mq) \in Nat /\ Len(s) \in Nat /\ i \in 1 .. Len(mq) + Len(s)
        /\ mq'[i] = IF i <= Len(mq) THEN mq[i] ELSE s[i - Len(mq)]
    BY <1>4, ConcatProperties DEF KernelInv, KernelTypeOK
  <2>2. CASE i <= Len(mq)
    BY <2>1, <2>2 DEF Silent, KernelInv, KernelTypeOK
  <2>3. CASE ~(i <= Len(mq))
    BY <1>6, <2>1, <2>3
  <2> QED  BY <2>2, <2>3
<1>9. ASSUME NEW c \in T
      PROVE  Leads(shots[c], "running")'
  <2>1. Silent(PidOf(shots[c]))'
    BY <1>3, <1>8
  <2> QED  BY <1>3, <1>5, <1>7, <2>1, LeadsSilentNext
<1>10. ASSUME NEW t \in Threads, \A c \in T : shots[c] # t, NEW k, Leads(t, k)
       PROVE  Leads(t, k)'
  <2>0. KernelTypeOK
    BY DEF KernelInv
  <2>1. CASE t \in D
    <3>1. PICK j \in DOMAIN s : /\ s[j] = Msg(t, "COS_PREEMPT")
                                /\ \A i \in DOMAIN s : s[i].pid = PidOf(t) => i = j
      BY <1>4, <2>1
    <3>2. kstate[t] = "running" /\ kstate'[t] = "runnable"
      BY <1>2, <1>5, <2>1
    <3> QED  BY <1>4, <1>10, <2>0, <3>1, <3>2, LeadsDisplaced
  <2>2. CASE t \notin D
    <3>1. kstate'[t] = kstate[t] /\ \A i \in DOMAIN s : s[i].pid # PidOf(t)
      BY <1>5, <1>6, <1>10, <2>2
    <3> QED  BY <1>4, <1>10, <2>0, <3>1, LeadsConcat
  <2> QED  BY <2>1, <2>2
<1>11. \A c \in Cpus : c \notin T => kcur[c] \notin D
  <2> SUFFICES ASSUME NEW c \in Cpus, kcur[c] \in D PROVE c \in T
    OBVIOUS
  <2>1. PICK d \in T : kcur[d] = kcur[c] /\ kcur[c] # NoThread
    BY DEF D, T, Displaced
  <2> QED  BY <1>3, <2>1 DEF KernelInv
<1>12. ASSUME NEW c \in Cpus, kcur'[c] # NoThread
       PROVE  kstate'[kcur'[c]] = "running" /\ Silent(PidOf(kcur[c]))'
  <2>1. CASE c \in T
    <3>1. kcur'[c] = shots[c]
      BY <1>1, <2>1
    <3> QED  BY <1>3, <1>5, <1>8, <2>1, <3>1 DEF Silent, PidOf
  <2>2. CASE c \notin T
    <3>1. /\ kcur'[c] = kcur[c] /\ kcur[c] \in Threads /\ kcur[c] \notin D
          /\ kstate[kcur[c]] = "running" /\ Silent(PidOf(kcur[c]))
      BY <1>1, <1>11, <1>12, <2>2 DEF KernelInv, KernelTypeOK
    <3>2. \A d \in T : shots[d] # kcur[c]
      BY <1>3, <3>1
    <3>3. kstate'[kcur[c]] = "running"
      BY <1>5, <3>1, <3>2
    <3> QED  BY <1>8, <3>1, <3>3 DEF Silent, PidOf
  <2> QED  BY <2>1, <2>2
<1>13. ASSUME NEW t \in Threads, kstate'[t] = "running"
       PROVE  \E c \in Cpus : kcur'[c] = t
  <2>1. CASE \E c \in T : shots[c] = t
    BY <1>1, <1>3, <2>1
  <2>2. CASE \A c \in T : shots[c] # t
    <3>1. t \notin D /\ kstate[t] = "running"
      BY <1>5, <1>13, <2>2
    <3>2. PICK c \in Cpus : kcur[c] = t
      BY <3>1 DEF KernelInv
    <3>3. c \notin T
      BY <3>1, <3>2, KernelAssumption DEF D, T, Displaced, NoThread
    <3> QED  BY <1>1, <3>2, <3>3
  <2> QED  BY <2>1, <2>2
<1>14. ASSUME NEW c \in Cpus, NEW d \in Cpus, kcur'[c] = kcur'[d], kcur'[c] # NoThread
       PROVE  c = d
  <2>1. CASE c \in T /\ d \in T
    BY <1>1, <1>3, <1>14, <2>1 DEF Executable
  <2>2. CASE c \notin T /\ d \notin T
    BY <1>1, <1>14, <2>2 DEF KernelInv
  <2>3. ASSUME NEW x \in T, NEW y \in Cpus, y \notin T, kcur'[x] = kcur'[y],
               kcur'[y] # NoThread
        PROVE  FALSE
    <3>1. kcur'[x] = shots[x] /\ kcur'[y] = kcur[y]
      BY <1>1, <1>3, <2>3
    <3> QED  BY <1>3, <2>3, <3>1 DEF KernelInv
  <2> QED  BY <1>14, <2>1, <2>2, <2>3
<1>15. ASSUME NEW i \in DOMAIN mq'
       PROVE  mq'[i].pid \in Pids
  <2>1. /\ Len(mq) \in Nat /\ Len(s) \in Nat /\ i \in 1 .. Len(mq) + Len(s)
        /\ mq'[i] = IF i <= Len(mq) THEN mq[i] ELSE s[i - Len(mq)]
    BY <1>4, ConcatProperties DEF KernelInv, KernelTypeOK
  <2>2. CASE i <= Len(mq)
    BY <2>1, <2>2 DEF KernelInv, KernelTypeOK
  <2>3. CASE ~(i <= Len(mq))
    BY <1>2, <1>4, <2>1, <2>3 DEF Pids, Msg
  <2> QED  BY <2>2, <2>3
<1>16. KernelInv'
  BY <1>7, <1>12, <1>13, <1>14, <1>15 DEF KernelInv, Pids, PidOf
<1> QED  BY <1>1, <1>2, <1>3, <1>5, <1>9, <1>10, <1>16 DEF T, D

LEMMA KernelInitLemma ==
    ASSUME KernelInit
    PROVE  KernelInv /\ \A t \in Threads : Leads(t, "absent")
<1> USE DEF KernelInit
<1>1. KernelTypeOK /\ mq = <<>>
  BY DEF KernelTypeOK
<1>2. KernelInv
  BY <1>1 DEF KernelInv
<1>3. ASSUME NEW t \in Threads
      PROVE  Leads(t, "absent")
  <2>1. Silent(PidOf(t)) /\ kstate[t] = "absent"
    BY DEF Silent
  <2> QED  BY <1>1, <2>1, LeadsSilent
<1> QED  BY <1>2, <1>3

=============================================================================
