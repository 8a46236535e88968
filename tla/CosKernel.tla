----------------------------- MODULE CosKernel ------------------------------
(***************************************************************************)
(* The COS kernel as a lord relies on it.  The kernel lives in another     *)
(* repository: this is the contract the lords' handlers, early returns and *)
(* "kernel BUG" exits spell out.  A thread of the class sends one message  *)
(* per change of its state, in order, into the queue; a shot puts a        *)
(* runnable thread on a CPU, displacing what ran there, or is refused.     *)
(***************************************************************************)
EXTENDS Lord, SequencesExt

CONSTANTS
    Threads,    \* the pids of the threads that may join the class (32 bits)
    PidMod,     \* 2^16: what the pid of a message keeps of a pid
    MqBound,    \* bound of the model: events wait while the queue is this long
    MayLeave,   \* may a thread leave the class while it is off the CPU?
    MayRefuse,  \* may a shot be refused, or the whole call fail, at will?
    SeqBarrier  \* the shots the kernel refuses as stale (cos_shoot_area.seq):
                \* "none", those of a "thread" with a message the lord had not
                \* read when it committed, or "all" when any was unread

ASSUME KernelAssumption ==
    /\ Threads \subseteq Nat \ {0, LordPid}
    /\ PidMod \in Nat \ {0}
    /\ \A t \in Threads \cup {LordPid} : t % PidMod \in Tids
    /\ MqBound \in Nat
    /\ {MayLeave, MayRefuse} \subseteq BOOLEAN
    /\ SeqBarrier \in {"none", "thread", "all"}

VARIABLES
    kstate, \* where each thread is
    kcur,   \* the COS thread each CPU runs, or NoThread
    mq      \* the messages the lord has not read

kernelVars == <<kstate, kcur, mq>>

NoThread == 0

KernelTypeOK ==
    /\ kstate \in [Threads -> {"absent", "blocked", "runnable", "running"}]
    /\ kcur \in [Cpus -> Threads \cup {NoThread}]
    /\ mq \in Seq(CosMsg)

KernelInit ==
    /\ kstate = [t \in Threads |-> "absent"]
    /\ kcur = [c \in Cpus |-> NoThread]
    /\ mq = <<>>

PidOf(t) == t % PidMod

Msg(t, type) == [pid |-> PidOf(t), type |-> type]

\* Thread t goes from one of the states of from to to, and says so.
Event(t, from, to, type) ==
    /\ Len(mq) < MqBound
    /\ kstate[t] \in from
    /\ kstate' = [kstate EXCEPT ![t] = to]
    /\ kcur' = [c \in Cpus |-> IF kcur[c] = t THEN NoThread ELSE kcur[c]]
    /\ mq' = Append(mq, Msg(t, type))

JoinRunnable(t) == Event(t, {"absent"},  "runnable", "NEW")
JoinBlocked(t)  == Event(t, {"absent"},  "blocked",  "NEW_BLOCKED")
Wake(t)         == Event(t, {"blocked"}, "runnable", "RUNNABLE")
Block(t)        == Event(t, {"running"}, "blocked",  "BLOCKED")
Exit(t)         == Event(t, {"running"}, "absent",   "DEAD")
CfsPreempt(t)   == Event(t, {"running"}, "runnable", "PREEMPT")
Leave(t)        == MayLeave /\ Event(t, {"blocked", "runnable"}, "absent", "DEAD")

\* The handlers of these two ignore a thread they do not know: it may be on
\* its way into the class, or out of it.
Stray(t) == \/ Event(t, {"absent"}, "absent", "RUNNABLE")
            \/ Event(t, {"absent"}, "absent", "BLOCKED")

\* A message about the lord's own thread: of the types the kernel may send,
\* NEW stands for all, as the one that would make the lord its own task.
LordMessage ==
    /\ Len(mq) < MqBound
    /\ mq' = Append(mq, Msg(LordPid, "NEW"))
    /\ UNCHANGED <<kstate, kcur>>

LeaveCpu(t) == Block(t) \/ Exit(t) \/ CfsPreempt(t)

KernelEvent ==
    \/ \E t \in Threads : \/ JoinRunnable(t)
                          \/ JoinBlocked(t)
                          \/ Wake(t)
                          \/ LeaveCpu(t)
                          \/ Leave(t)
                          \/ Stray(t)
    \/ LordMessage

-----------------------------------------------------------------------------
(* shoot_task: shots[c] is the thread to run on CPU c, or 0.  The threads  *)
(* displaced send their messages in any order.                             *)

Fresh(pid) ==
    CASE SeqBarrier = "none"   -> TRUE
      [] SeqBarrier = "thread" -> \A i \in DOMAIN mq : mq[i].pid # pid
      [] SeqBarrier = "all"    -> mq = <<>>

Runnable(pid) ==
    /\ pid \in Threads
    /\ kstate[pid] = "runnable"
    /\ Fresh(pid)

\* The kernel must refuse the CPUs whose thread cannot run.
MustRefuse(shots) == {c \in Cpus : shots[c] # 0 /\ ~Runnable(shots[c])}

Shoot(shots, bad) ==
    LET taken     == {c \in Cpus : shots[c] # 0} \ bad
        displaced == {kcur[c] : c \in taken} \ {NoThread}
    IN /\ MustRefuse(shots) \subseteq bad
       /\ bad = MustRefuse(shots) \/ MayRefuse
       /\ kcur' = [c \in Cpus |-> IF c \in taken THEN shots[c] ELSE kcur[c]]
       /\ kstate' = [t \in Threads |->
                        IF t \in displaced THEN "runnable"
                        ELSE IF \E c \in taken : shots[c] = t THEN "running"
                        ELSE kstate[t]]
       /\ \E order \in Bijection(1 .. Cardinality(displaced), displaced) :
             mq' = mq \o [i \in 1 .. Cardinality(displaced) |-> Msg(order[i], "COS_PREEMPT")]

ShootFails == MayRefuse /\ UNCHANGED kernelVars
=============================================================================
