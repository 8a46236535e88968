# COS userspace: specifications, model checking and proofs

COS delegates the scheduling of a Linux scheduling class to a user-space
process, the *lord*. The kernel tells the lord what happens to the threads of
the class through a message queue in shared memory; the lord answers by writing
which thread each CPU shall run into a *shoot area*, also shared, and calling
`shoot_task`. This directory models that program in TLA+, checks the models
with TLC and proves theorems about them with TLAPS. Paths below are relative to
the root of the repository.

## Inventory

| part | state | operations | interacts through |
|---|---|---|---|
| `lib/lord.h` Lord | `lord_cpu_`, `lord_pid_`, `seq_` | `consume_message` (drain, drop own messages, dispatch) | message queue; virtual handlers |
| `scheduler/fifo` FifoLord | run queue, `alive_tasks_`, task state and CPU, `cpu_states_` | seven handlers, `schedule()` | shoot area, `shoot_task` |
| `scheduler/shinjuku` ShinjukuLord | the same, CPU state with the task it runs, slice start | the same; preempts by slice or idle mark | the same, and the epistle |
| `lib/message_queue.h`, `kernel/message_queue.h` | `head`, `tail`, 511 slots | `empty`, `consume_msg`; the kernel appends | shared memory, no lock |
| `lib/shoot_area.h`, `kernel/shoot_area.h` | thread and verdict per CPU, `seq` | commit, check | shared memory |
| kernel (`lib/cos.h`) | threads, CPUs | messages, `shoot_task`, set-up calls | another repository |
| `lib/epistle.h` | open-addressing table of marks | `add`, `get` | shared memory between processes |
| `workload/rocksdb.cpp` | batches, counters, flags | Worker, LoadGenerator, main | epistle, plain shared variables |
| `lib/thread.h` CosThread | `thread_`, `tid_` | constructors (the thread fills in `tid_`, joins the class, calls its function), `tid`, `join` | the class; readers of `tid_` |
| `lib/cos_cgroup.h` CosCgroup | `coscg_id_`, `rate_` | create, `adjust_rate`, `add_thread`, `erase_thread`, delete | system calls |
| `workload/simple_exp.cpp`, `task_delegation_latency_load.cpp`, `cgroup_latency_load.cpp` | `should_exit` | start COS threads that sleep, spin or calculate; join them | the class; the control group |
| latency scripts | - | start the programs, average what they print | - |

What is hard here: the kernel never waits for the lord, so whatever the lord
decides it decides on a view that messages still in the queue have already made
stale; one shot of several may be refused, or the call may fail, after the lord
has changed its books; the ring has no lock and its counters wrap; ids are
narrower in messages than elsewhere; every inconsistency ends the process
(`exit`, `assert`), and with it the scheduling of the class. `PROJECT.json`
lists each hazard at its line with the property that covers it, or why none does.

## Modules

| module | models | correspondence |
|---|---|---|
| `Lord` | base class | CPUs, messages, the filter `IsOwn`, the ways the process ends |
| `RunQueue` | `FifoRq`, `ShinjukuRq` | operators on a sequence |
| `FifoLord` | FIFO lord | `consume_msg_task_*` are the handlers; `schedule()` is `SkipCpu`, `NothingQueued`, `AssignHead` (one round of the loop), `NothingAssigned`, `Commit`, `ShootOk`/`ShootErr`, `RevertOne`, `CheckOne`, `Return` |
| `ShinjukuLord` | Shinjuku lord | the same, with `Classify` (one CPU), `PassOver`, `AssignHead`, `EndPick` |
| `CosKernel` | kernel contract (external) | one action per change of a thread's state, each sending its message; `Shoot` judges an order |
| `FifoSystem`, `ShinjukuSystem` | lord, queue and kernel | the kernel acts between any two steps of the lord; `shoot_task` is a step of both |
| `CosClass` | what lord and kernel promise the threads | `phase` and `running` are the kernel's `kstate` and `kcur`; `Run` is one order |
| `FifoPrograms` | `FifoSystem` with the programs of `src/workload` that start COS threads | one action per statement that blocks, changes a shared word or the class; `todo` is what a thread has still to do |
| `ShinjukuWorkers` | `ShinjukuSystem` with the workers of the RocksDB workload | the lord's tests of the epistle read the marks the workers set |
| `MessageQueue` | the ring | `Write`, `Publish` (kernel), `NotEmpty`, `Read`, `Advance` (lord): one shared access each |
| `MsgChannel` | what the ring promises | the variable `mq` of the systems |
| `Statistics` | the percentiles of `PrintStage` | operators |
| `Epistle` | the table of marks | one action per access to shared memory |
| `Marks` | what the table promises | the variable `mark` of the workload |
| `RocksdbWorkload` | `rocksdb.cpp` | `Worker`, `LoadGenerator`, `main`, the signal handlers: one action per access to a mark, a flag or a batch |
| `FifoProofs`, `ShinjukuLordProofs`, `ShinjukuSystemProofs`, `MessageQueueProofs`, `EpistleProofs`, `WorkloadProofs` | - | theorems |
| `RunQueueProofs`, `CosKernelProofs` | - | lemmas on the list and on the messages, for both lords |
| `MC*` | - | instances for TLC |

The lords are modelled twice over: alone, where messages and verdicts are
arbitrary (so the result needs nothing of the kernel but that a failed call
leaves no verdicts), and in a system, where they come from a kernel that keeps
its contract. `pc` and `cursor` say where the lord's thread is; `assigned`,
`old_cpu_states`, `pools` and `onqueue_idle` are locals of `schedule()`. A task
that is freed has the values its constructor gives; `alive` holds the keys of
`alive_tasks_`. A failed `exit` or `assert` sets `status` and nothing follows.
The revert after a failed call undoes tasks and CPUs in two loops; the model
does both in one round per CPU, which nobody can observe. Left out: logging,
clocks, `last_shoot_time` (the slice test may come out either way) and `seq_`.

### What is assumed of the kernel

The kernel is not in this repository. `CosKernel` gives it the behaviour the
handlers spell out: it reports a thread once per change of state, in order; a
shot runs a runnable thread on a CPU or is refused; a thread so displaced is
reported with `COS_PREEMPT`, several of them in any order. Four parameters keep apart what cannot be read from
the code:

- `SeqBarrier`: what the kernel refuses as stale by `cos_shoot_area.seq`. The
  passing runs take `"thread"`: a shot at a thread that has a message the lord
  had not read when it committed is refused. With `"none"`, a thread that leaves
  and another that joins under its id between drain and shot break `ViewExact`
  and `ImplementsClass`; without such departures (`MayLeave = FALSE`) no barrier is
  needed. `"all"`, which refuses every shot while any message is unread, also
  makes `OnCpuMeansCos` true, but `commit_shoot_message` passes the number
  through a `u_int16_t` and messages about the lord do not advance `seq_`.
- `MayRefuse`: may it refuse, or fail the call, at will?
- `MayLeave`: may a thread leave the class while it is off the CPU?
- `ErrLeavesInfo`: may a failed call leave verdicts in the area? With `TRUE`,
  `check_shoot_state` would apply them to the next call's CPUs and `RqExact`
  fails: the code relies on `FALSE`.

### The epistle and its users

`Epistle` makes every access to the shared table a step: `AddProbe` and
`GetProbe` look at a key, `AddCas` is the compare-and-swap, `AddStore` and
`GetLoad` touch the value. It is shown to implement `Marks`, an atomic map. Two
things are assumed: at least as many slots as keys (`EpistleAssumption`;
otherwise `add` and `get` never end), and that no two callers add a *new* key
at the same time (`FirstAddAlone`, a guard of `Call`), because the loser of the
compare-and-swap goes on without a look at the winner's key and would enter it
twice.

`RocksdbWorkload` is the user that has to keep to this, with the epistle taken
for the map it implements: `FirstAddAlone` there says that the generator adds a
worker's mark only after the worker has. In the drain at the end of
`LoadGenerator` it need not be so: a worker that has not come to
`rocksdb.cpp:450` yet may race with `:573`. The property leaves out the drain;
a second entry is never read, since probing finds the first, and the marking is
repeated, so nothing follows from it. A worker begins in the constructor of
`CosThread`: it fills in `tid_`, moves into the class and calls `Worker`.
`InitBeforeUse` says that nobody asks for its id before. `SigInt` and `SigAlrm`
are the two handlers; a second SIGINT ends the process (`"forced"`). `Init` takes it
that no worker has the thread id of a worker of an earlier workload under the
same lord: `main` takes the epistle over as it is (`rocksdb.cpp:850`) and keys are
never removed, so a reused id may be marked idle from the start. The lord would
pass over such a worker, it would never announce itself, and `main` would wait
for ever. Did it run all the same, as a thread of CFS because its change of class
failed, it could be given a batch before it marks itself idle. `Terminates`,
`NoAssertFails` and `FirstAddAlone` do not hold without the assumption. A request is
a number, in the order of arrival; the first `Discard` arrive in the discard
period. `PrintStage` filters what the workers have pushed (`filtered` holds the
places of the requests in their vectors, which is what the code copies them
from), divides by the whole
seconds tracked, which ends the process if there is none (`"division"`:
possible with the code's own options, 3 s less 1 s of discard less the second or
so by which the generator's sleep delays `start_time`, and certain once a
request was handled if SIGINT comes in the first second after the discard
period), and reads percentiles by index; `Statistics`
has the indices.

### The programs

`FifoPrograms` puts the programs of `src/workload` on top of the FIFO lord and
the kernel. `prog` is chosen in `ProgInit`; `"any"` leaves the threads of
`FifoSystem` free to do what they like. Of the others `main` creates and joins
the threads (numbered from 1: `ProgramsAssumption`), and each thread works off `todo`: fill in `tid_`, change its class
(which may fail: it goes on as a thread of CFS), then what its function does. A
step of its function needs the CPU. In the same way `ShinjukuWorkers` has `"any"`
threads or workers that mark themselves idle while they run and are marked
runnable at any time; with workers, the lord's reads of the epistle return what
is marked, and only the slice is left open.

### What the systems promise

`CosClass` has neither queue nor messages: a thread is absent, blocked, runnable
or running, a CPU of the class runs one thread, and an order gives CPUs to
runnable threads, displacing threads only if the class preempts. `FifoSystem`
implements it without preemption and `ShinjukuSystem` with it, the lord's CPU
(and those below `FirstCpu`) being none of the class. The refinement mapping is
the kernel's own state: what it shows is that the lord, on a view that may be
stale, never gives an order that a kernel which checks only what it must would
carry out to the detriment of a thread.

## Runs

| run | instance | what it shows |
|---|---|---|
| `fifo_lord_any` | 3 CPUs, ids 0, 1, 2 and the lord's; every message and verdict | queue, CPUs and shots consistent; FIFO order; only a message that breaks the contract ends the process |
| `fifo_system_safety` | 2 CPUs + the lord's, 2 threads, 3 unread messages | never ends; implements `CosClass` without preemption; the view is exact when all is read |
| `fifo_system_live` | 1 CPU + the lord's, 3 threads, fair | a runnable thread gets the CPU; every program ends and leaves nothing with the lord |
| `shinjuku_two_cpus` | 2 CPUs, the lord's between them and one below the first; two kernels | queue, pools and shots consistent, whatever the kernel sends; with one that keeps its contract it implements `CosClass` with preemption |
| `shinjuku_system` | 1 CPU + the lord's, 3 threads, 2 unread messages | never ends; the view is exact when all is read; a worker marked runnable gets the CPU |
| `message_queue` | 5 slots, all of them used, counters modulo 18; a kernel that minds the wrap and one that does not | with the first the ring is a FIFO channel, also across the wrap; with the second exactly one unread message per write can be lost, and only there |
| `fifo_leak`, `pid_alias`, `shinjuku_stale` | as small as shows it | see Findings |
| `epistle` | 2 callers, 3 keys, 4 slots | the table is an atomic map that answers every call |
| `workload` | 2 workers, batches of 2, 3 requests | no assert fails, no request lost or handled twice, the final results count each handled one once, the program ends |
| `lord_restart` | 1 worker, batches of 1, 2 requests | see Findings |

Bounds. Two usable CPUs and two threads already give every pair the code
relates: two shots in one order with one refused, a queue in which one thread
may overtake another, two tasks that may claim one CPU. Id 0 is among the ids of
`fifo_lord_any` and `shinjuku_two_cpus` because `peek()` returns 0 for an empty
queue, and the lord's id
because its messages are filtered. `MqBound` makes the kernel wait while that
many messages are unread (the displaced threads of a shot may exceed it): two
messages of one thread, or one of each of two, is what makes an order of
messages interesting. Three threads on two CPUs (`MqBound` 2, 6.9 million
states) were also checked for the safety properties of `FifoSystem`. The ring
uses 5 and 18 because 18 is no multiple of 5, as 2^32 is none of 511: the slots
jump at the wrap, and the kernel fills all 5 of them.

`shinjuku_two_cpus` has two kernels, `keeps` saying which. With the one that
sends and answers anything, the ids are 0 to 3, the lord's among them, and
the books of the lord must survive it. With the one of `CosKernel` there are
three threads, of which two may run at once, on CPUs 1 and 3: `FirstCpu` is 1,
so that CPU 0 is below the first, and the lord has CPU 2. There `ImplementsClass`
could fail in each way it speaks of: a thread on two CPUs, one on CPU 0 or 2,
one displaced and not runnable again. `MqBound` is 1 in it (a shot that
displaces two threads sends a second message all the same); two unread
messages of one thread, and shots refused or failed at will, are the matter of
`shinjuku_system`; here the contract's kernel refuses only what it must, the
other whatever it likes.

The ring at the wrap. 2^32 is 32 modulo 511, so the first 32 messages after the
counters wrap have the slots of the last 32 before it. A kernel that leaves
fewer than 32 messages unread while it wraps, or that looks for the collision,
destroys none; one that only tests whether the ring is full destroys, with 32
or more unread, the message 32 places before the one it writes, and the lord
reads the later message in its stead. Which of the two the kernel is cannot be
read from this repository, so the model has both (`spares`) and `NoOverwrite`
says what each does: of the first that it writes into no unread slot, of the
second exactly which one it writes into. `ImplementsChannel` is a property
of the first only; the systems, whose queue is `MsgChannel`, rest on it.
`CopyIsHead` holds with both but for the messages before the wrap.

Deadlock checking is off in `fifo_lord_any` and `shinjuku_two_cpus`, where a
message that breaks the contract rightly ends the process, and in the workload, which ends; it is on
everywhere else. The epistle has two keys that start at the last slot and wrap
and one that starts where they wrap to; three callers with two colliding keys
were checked as well. Two workers, batches of two and three requests give a full
batch, a short one and a worker that gets none.

Fairness. The lord is alone on its CPU and never blocks: weak fairness of its
steps. A thread of any program ends its turn some day: strong fairness of
`LeaveCpu(t)`, strong only because `MqBound`, a bound of the model, disables it
from time to time. A thread of one of the programs gets on with its work when it
has the CPU (`Proceeds`): strong because CFS may preempt it before it does, and
justified because a preempted `spin_for` or training does not start over
(`simple_exp.cpp:49-55`). `main` and the spinning threads are of CFS. `RunnableRuns` is conditional on `DrainEnds`: the loop of
`consume_message` ends only if the kernel does not fill the queue for ever, and
nothing in the code ensures that. The run refuses no shot it need not refuse
and threads stay in the class while off the CPU, because of the first finding:
with a refused shot the CPU is lost and the property is false. `ProgramEnds`
asks in addition that nothing of a program stays with the lord: no task, no
queued id, no CPU marked COS. `MarkedRuns`, for Shinjuku, needs less: a slice
ends (strong fairness of `SliceOver`, as the test at `shinjuku_lord.h:126` can
only fail for so long), and nothing is asked of the threads, because one that
never ends its turn is preempted. There the kernel refuses only what it must.
In the instance of `shinjuku_system` the lord has the second of two CPUs, so that
`Classify` meets it. The lord polls
for ever: weak fairness of the lord's steps in `MessageQueue`. A thread inside
`add` or `get` runs on. In the workload, `main` and the generator are ordinary
threads and the timer fires; a worker is only promised a CPU while its mark is
RUNNABLE, because the Shinjuku lord passes over the others
(`shinjuku_lord.h:143`). `Terminates` holds under that: it is why the drain marks
all workers again and again, and marking each once is not enough.

## Proofs

Every invariant that a passing run checks is proved for every value of the
constants, and so are the action property `NoOvertaking`, both refinements of
`CosClass`, and the safety part of the refinements of `MsgChannel` and `Marks`.
Each inductive invariant was checked by TLC on the run's instance before it was
proved. What the theorems assume, beyond the named assumptions on the constants:

| hypothesis | of | what it says of the system |
|---|---|---|
| `ErrLeavesInfo = FALSE` | all theorems about the lords | a failed `shoot_task` leaves no verdicts in the area; with `TRUE` `RqExact` is false, so the code relies on it |
| `PidsDistinct` | the systems | no two threads of the class, the lord among them, agree modulo 2^16, and the lord's id fits in 16 bits; without it `NeverStops` is false (finding 2) |
| `SeqBarrier # "none"` | the systems | the kernel refuses at least the shots at threads with a message unread at the commit; without it `ViewExact` is false (see above) |

Nothing is asked of `MqBound`, `MayLeave` or `MayRefuse`: the theorems hold of
threads that leave off the CPU and of a kernel that refuses at will.

### The lords alone (`FifoProofs`, `ShinjukuLordProofs`)

- FIFO: `TypeCorrect`, `RunQueueExact`, `CpuOwnership`, `ShotsAreSound`,
  `NoSelfInflictedStop`, the five invariants of run `fifo_lord_any`.
- Shinjuku: `TypeCorrect`, `RunQueueExact`, `NoCpuTwice`, `ShotsAreSound`,
  `QueueNeverFails`, the five invariants of run `shinjuku_two_cpus`.

All follow from `Inductive` of the module. For FIFO its `IInv` adds to the
invariants what a call of `schedule()` has still to settle (`Pending`): the
thread of every such shot is on that CPU in the lord's books, the area names it,
and a verdict in the area is always one on such a shot. Without this, requeueing
a refused thread could queue a thread that is queued already. Shinjuku's has in
addition `PoolInv` (a CPU is in one pool, or shot at, or neither, and while the
pools are filled only CPUs below the cursor are in one) and `StageInv` (what is
empty at which stage: a handler never meets a thread that is passed over).
Shinjuku's tasks need not own their CPU, which is the third finding; hence
`QueueNeverFails` speaks of the queue's exits only. Each action has a lemma; the
handlers share lemmas on putting a task into the queue, taking it out and
freeing its CPU, which rest on what `RunQueueProofs` shows of the list:
appending an absent thread, dropping the head and erasing one occurrence keep
the elements distinct and change the set by that thread.

- `ServesInOrder`: the action property `NoOvertaking` of run `fifo_lord_any`.
  Under `IInv` every step is one of four as far as the queue is concerned
  (`QueueStep`): a thread that is not queued joins at the end, one leaves
  without a CPU, the head leaves for a CPU, or the queue stays and nobody gets
  a CPU. `QueueStepInOrder` shows of each that nothing queued is overtaken, from
  lemmas on what `Enqueue`, `Dequeue` and `RemoveFromRq` do to the order of a
  list without duplicates. A requeue is a join only because `IInv` says that the
  thread of a refused shot is not queued.

### Lord, queue and kernel (`CosKernelProofs`, `FifoProofs`, `ShinjukuSystemProofs`)

Of each system: `LordNeverStops` (`NeverStops`), `LordKnowsTruth` (`ViewExact`)
and `FifoImplementsClass`, `ShinjukuImplementsClass` (`ImplementsClass`), from
`SysInductive`. They hold of the specifications with programs and workers too:
these only restrict what threads and lord do (`ProgramsAreThreads`:
`ProgSpec => SysSpec`, `WorkersAreThreads`: `WorkSpec => SysSpec`), whence
`ProgramsAreSafe` and `WorkersAreSafe`.

The invariant says how a stale view relates to the truth: `Know(pid)` is where
the lord knows a thread to be, a thread it has shot at a CPU being runnable
until the call has succeeded; `Leads(t, k)` says that the unread messages about
`t`, one after the other, lead from state `k` to the state the thread is in; and
a thread on a CPU has nothing unread, and the lord has it on that CPU.
`CosKernelProofs` shows, without a word about either lord, that an event of the
kernel, the reading of a message and a shot each keep `Leads`. Each handler is
then safe because the message it is given is a change from where the lord knows
the thread to be (`Changes`), and a shot is safe because a kernel with a barrier
carries out only those at threads of which nothing is unread; the CPU one goes
to is free, since the lord would have a thread that runs there on that very CPU
(FIFO), or run by nobody but the thread the lord has there (Shinjuku).

For Shinjuku three facts more are needed. `MarksHold`: a CPU marked COS has the
task it is marked with, and so has one that will be marked so again when a
refused shot is taken back. `OwnCpus`: from the drained queue to the shot no two
tasks are known to run on one CPU, although between the shot and the message of
the displaced thread they are. `PreemptsTell`: no message before that of a
displaced thread is about a task on its CPU, so that the assert at
`shinjuku_lord.h:397` holds of every `COS_PREEMPT` although the condition does
not hold of every running task (finding 3). The refinements follow from the
same invariant: every step is one of `CosClass` on the kernel's state, or none.

### The ring (`MessageQueueProofs`)

For every size of the ring and every range of the counters that is larger
(`RingAssumption`), 511 slots and 2^32 among them, with as many messages unread
as there are slots:

- `RingTypeCorrect`, `RingNoOverwrite`, `RingCopyIsHead`: the invariants of run
  `message_queue`;
- `RingIsChannel`: `Spec => Channel!Spec`. With a kernel that minds the wrap the
  ring implements `MsgChannel` under the refinement mapping `Pending`, the
  unread messages in order. With one that does not it claims nothing: the
  mapping is then an empty channel.

They follow from `RingInductive`. Its invariant adds to the types that there are
at most `Size` unread messages, fewer while the kernel is between its two
stores, at least one while the lord is past its test, and that the lord's copy
is the message at `tail` unless that lies before the wrap and may be
overwritten. The argument is arithmetic: two counters fewer than `Size` places
apart have different slots as long as the wrap does not lie between them; where
it does, the slots have moved by `Mod % Size`, and are the same exactly if the
counters are as many places apart. Nothing bounds the unread messages below
`Size`.

### The epistle (`EpistleProofs`)

For every capacity, any keys that fit in it, any values and any callers, from
`EpistleAssumption`:

- `TypeCorrect`, `PathsAreWhole`: the invariants of run `epistle`;
- `TableIsMap`: `Spec => Map!Spec`, the table is an atomic map. An add takes
  effect at its store, a get at its load or at the empty slot it meets.

The invariant of `Inductive` says what a caller knows of the slots it has passed
(`CallInv`: they are taken, by other keys, and stay so), that of the callers
adding one key all but one find it in the table (`AddsAlone`, from the guard of
`Call`), and that a slot without key holds 0 (`FreshSlots`): the entering of a
key, visible before its value, therefore changes no mark. An empty slot proves a
key absent (`EmptySlotMeansAbsent`) because distances from the key's first slot
are distinct (`DistanceInjective`) and probing advances by one
(`NextDistance`), around the end of the table too.

### The workload (`WorkloadProofs`)

For any number of workers, batch size and number of requests, from
`WorkloadAssumption` (in the code there are 100 workers, which is also the size
of `worker_lock`, `rocksdb.cpp:208`, `:437`):

- `TypeCorrect`, `AssertsNeverFail`, `OneAtABatch`, `MapsAreFilled`,
  `NoneLostOrTwice`, `ResultsAreFinal`, `WorkerAddsFirst`: the seven invariants
  of run `workload`;
- `PercentilesInRange`: for every number of latencies the index of each
  percentile is one of the sorted vector, so that `at()` does not throw;
- `MedianInTheMiddle`: the correction for even numbers does what its comment
  says.

`Inductive` rests on one idea: a mark is set to idle by the worker only and to
runnable by the generator only, each after the other, so the mark says whose
turn it is (`Handshake`): while it is idle the count and the batch are the
generator's, while it is runnable the worker's, and the generator serves one
worker at a time. `MainInv` orders the start and the joins. `GivenInv` is the
conservation of requests: what the worker has handled followed by what waits for
it (`Given`) holds each delivered request at one place of one worker; handing
over, handling and resetting only move a request along that sequence.

### What stays with TLC

All liveness (`RunnableRuns`, `ProgramEnds`, `MarkedRuns`, `BatchTaken`,
`Terminates`, and the fairness parts of `ImplementsChannel` and
`ImplementsMarks`): fairness and ENABLED are out of the prover's reach. The
four expected violations, which are about single behaviours.

## Findings

1. `fifo_leak`: `fifo_lord.h:102-103` saves the state of a CPU after setting it
   to COS, so "revert the cpu states" (`:129`, `:143`) restores COS. A refused
   shot loses the CPU: it stays COS with no task on it and is skipped by every
   later `schedule()`. Saving first, as `shinjuku_lord.h:180` does, makes
   `NoPhantomCos` hold and keeps every other property.
2. `pid_alias`: `cos_msg.pid` has 16 bits. Two threads whose ids agree modulo
   65536 are one to the lord, which exits with "kernel BUGGGGGG!"
   (`fifo_lord.h:200`) although the kernel did nothing wrong. An id that is a
   multiple of 65536 becomes 0 and stops the queue: `peek()` takes it for empty.
3. `shinjuku_stale`: a displaced thread's BLOCKED or DEAD message sets idle the
   CPU its successor runs on (`shinjuku_lord.h:283-285`, `:336-338`); the
   condition asserted at `:397` is then false of a running task, and the next
   round displaces it before its slice is over.
4. `lord_restart`: every start of the Shinjuku lord opens the epistle as its
   first user (`shinjuku_lord.h:86`), which truncates the file and zeroes the
   table (`epistle.h:27`, `:45`) although a workload may have it mapped. The
   generator's `assert(epistle->get(tid) == EPISTLE_THREAD_IDLE)`
   (`rocksdb.cpp:556`) then fails; a worker that was waiting idle spins instead
   and gets no more work, since the generator takes it for busy.

## Not modelled

The kernel beyond its contract, and so what a control group's rate does to a
thread; `erase_thread`, the destructor of `CosCgroup` and `joinable`, which have
no caller; the contents of the database and of requests (a lookup's result is
ignored by `HandleGet` and `HandleRange`), when a request arrives, the layout of
the printed tables; the neural network, one step of a thread; the set-up calls
before `Init`; `seq_`; the latency scripts. A lord that is restarted while
threads are in the class: what the kernel tells it is not in this repository.
A thread id that one workload after another gets under the same lord (see `RocksdbWorkload`).
The programs start two COS threads where the code starts 5 or 41. `cpu_states_` is
reserved and never resized, so every access to it is out of the bounds of an
empty vector: the models take the array the reserved storage amounts to.

## Plan

Done, in the order of importance: the two lords alone, each with the kernel and
with the programs of this repository on top, the abstract class both implement,
the ring, the epistle and the workload; proofs of every invariant of the passing
runs, of the FIFO order and of the four refinements' safety. What is left:

1. The workload over the epistle instead of over the map: its calls keep to what
   `Call` of `Epistle` guards, from `WorkerAddsFirst`.
2. What a Shinjuku task still owns: the strongest statement about CPU and mark
   that holds between a shot and the message of the displaced thread
   (`MarksHold` and `PreemptsTell`, as properties of a run).

