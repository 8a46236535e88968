--------------------------- MODULE MCShinjukuLord ---------------------------
(***************************************************************************)
(* The Shinjuku lord on two CPUs above one it leaves alone, with one of    *)
(* two kernels: the one of CosKernel, which keeps its contract, or one     *)
(* that sends every message and answers a shot in every way.               *)
(***************************************************************************)
EXTENDS ShinjukuSystem

\* Bound: the thread ids a kernel without contract sends messages about.
CONSTANT AnyTids

VARIABLE keeps      \* whether the kernel keeps its contract

KernelsInit == SysInit /\ keeps \in BOOLEAN

AnyNext ==
    /\ \/ \E msg \in CosMsg : msg.pid \in AnyTids /\ Consume(msg)
       \/ EnterSchedule
       \/ ScheduleStep
       \/ ShootStep
    /\ UNCHANGED kernelVars

KernelsNext ==
    /\ \/ keeps /\ SysNext
       \/ ~keeps /\ AnyNext
    /\ UNCHANGED keeps

KernelsSpec == KernelsInit /\ [][KernelsNext]_<<sysVars, keeps>>
=============================================================================
