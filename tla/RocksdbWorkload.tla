-------------------------- MODULE RocksdbWorkload ---------------------------
(***************************************************************************)
(* The RocksDB workload: main starts the workers, which are COS threads,   *)
(* and a generator, which polls requests and hands them over in batches.   *)
(* A batch changes hands through two shared words, the mark of the worker  *)
(* in the epistle and num_requests.  Every access to one is a step.        *)
(***************************************************************************)
EXTENDS Sequences, FiniteSets, Statistics

CONSTANTS
    NumWorkers,     \* options.num_workers
    Batch,          \* options.batch
    MaxRequests,    \* bound of the model: how many requests arrive
    Discard         \* how many of them arrive within options.discard_duration

ASSUME WorkloadAssumption ==
    /\ NumWorkers \in Nat \ {0} /\ Batch \in Nat \ {0}
    /\ MaxRequests \in Nat /\ Discard \in Nat

VARIABLES
    mark,           \* the epistle, an atomic map (Epistle implements Marks)
    worker_lock,    \* notify1
    ready,          \* the workers main has entered into the two maps
    generator_lock, \* notify2
    should_exit, exit_all, exit_generator,
    num_requests,   \* WorkerWork::num_requests
    batch,          \* WorkerWork::requests
    handled,        \* the global requests: what each worker has finished
    sent,           \* how many requests the network has delivered
    wpc, n, i,      \* each worker: where it is, its locals num_requests and i
    gpc, gcur,      \* the generator: where it is, the worker it looks at
    mpc, mcur,      \* main: the same
    force_exit,     \* static of the SIGINT handler
    short,          \* the tracked part of runtime is less than a second
    filtered,       \* the places of the requests the last call of PrintResults counts
    ended           \* what ended the process: an assert, "forced", "division", or "none"

flags    == <<worker_lock, ready, generator_lock, should_exit, exit_all, exit_generator>>
data     == <<num_requests, batch, handled, sent>>
wVars    == <<wpc, n, i>>
gVars    == <<gpc, gcur>>
mVars    == <<mpc, mcur, short, filtered>>
endVars  == <<force_exit, ended>>
vars     == <<mark, flags, data, wVars, gVars, mVars, endVars>>

RUNNABLE == 0   \* also what get returns for a thread without a mark
IDLE     == 1

Workers == 1 .. NumWorkers

\* Where the sequences of f have something: the worker, and the index there.
Places(f) == UNION {{w} \X DOMAIN f[w] : w \in Workers}

At(f, p) == f[p[1]][p[2]]

TypeOK ==
    /\ mark \in [Workers -> {RUNNABLE, IDLE}]
    /\ worker_lock \in [Workers -> BOOLEAN] /\ ready \subseteq Workers
    /\ {generator_lock, should_exit, exit_all, exit_generator} \subseteq BOOLEAN
    /\ num_requests \in [Workers -> 0 .. Batch]
    /\ {batch, handled} \subseteq [Workers -> Seq(1 .. MaxRequests)]
    /\ \A w \in Workers : Len(batch[w]) <= Batch
    /\ sent \in 0 .. MaxRequests
    /\ wpc \in [Workers -> {"unborn", "tid", "class", "announce", "first", "loop", "look", "check", "load",
                            "handle", "reset", "idle", "done"}]
    /\ n \in [Workers -> 0 .. Batch] /\ i \in [Workers -> 0 .. Batch]
    /\ gpc \in {"wait", "pass", "look", "clear", "poll", "publish", "confirm", "mark",
                "drain", "remark", "done"}
    /\ mpc \in {"create", "wait1", "notify2", "run", "join", "release", "joingen", "done"}
    /\ gcur \in Workers /\ mcur \in Workers
    /\ {force_exit, short} \subseteq BOOLEAN
    /\ filtered \subseteq Places(handled)
    /\ ended \in {"none", "forced", "division", "range", "check", "size", "count",
                 "confirm"}

\* An assumption: no thread id of a worker was one of an earlier workload
\* under the same lord.  main takes the epistle over as it is
\* (rocksdb.cpp:850) and nobody removes a key, so the mark of such a worker
\* could be idle before the worker has added one, and the lord would pass
\* over it.  A new id has no mark, which counts as runnable (epistle.h:72).
Init ==
    /\ mark = [w \in Workers |-> RUNNABLE]
    /\ worker_lock = [w \in Workers |-> FALSE] /\ ready = {}
    /\ generator_lock = FALSE
    /\ should_exit = FALSE /\ exit_all = FALSE /\ exit_generator = FALSE
    /\ num_requests = [w \in Workers |-> 0]
    /\ batch = [w \in Workers |-> <<>>] /\ handled = [w \in Workers |-> <<>>]
    /\ sent = 0
    /\ wpc = [w \in Workers |-> "unborn"]
    /\ n = [w \in Workers |-> 0] /\ i = [w \in Workers |-> 0]
    /\ gpc = "wait" /\ gcur = 1
    /\ mpc = "create" /\ mcur = 1
    /\ short = FALSE /\ filtered = {}
    /\ force_exit = FALSE /\ ended = "none"

-----------------------------------------------------------------------------
(* Worker                                                                  *)

WAt(w, label)   == ended = "none" /\ wpc[w] = label
WGoto(w, label) == wpc' = [wpc EXCEPT ![w] = label]

\* An assert: the process goes on, or ends there.
MustHold(condition, name) ==
    /\ ended' = IF condition THEN ended ELSE name
    /\ UNCHANGED force_exit

\* The constructor of CosThread: the thread itself fills in tid_, moves into
\* the class whether or not that succeeds, and calls Worker.
SetTid(w) ==
    /\ WAt(w, "tid")
    /\ WGoto(w, "class")
    /\ UNCHANGED <<mark, flags, data, n, i, gVars, mVars, endVars>>

SetClass(w) ==
    /\ WAt(w, "class")
    /\ WGoto(w, "announce")
    /\ UNCHANGED <<mark, flags, data, n, i, gVars, mVars, endVars>>

\* tid() may be asked for: before, it is whatever the memory held.
HasTid(w) == wpc[w] \notin {"unborn", "tid"}

Announce(w) ==
    /\ WAt(w, "announce")
    /\ worker_lock' = [worker_lock EXCEPT ![w] = TRUE]
    /\ WGoto(w, "first")
    /\ UNCHANGED <<mark, ready, generator_lock, should_exit, exit_all, exit_generator, data,
                   n, i, gVars, mVars, endVars>>

\* epistle->add(tid, EPISTLE_THREAD_IDLE), at the start or after a batch
MarkIdle(w) ==
    /\ WAt(w, "first") \/ WAt(w, "idle")
    /\ mark' = [mark EXCEPT ![w] = IDLE]
    /\ WGoto(w, "loop")
    /\ UNCHANGED <<flags, data, n, i, gVars, mVars, endVars>>

Loop(w) ==
    /\ WAt(w, "loop")
    /\ WGoto(w, IF exit_all THEN "done" ELSE "look")
    /\ UNCHANGED <<mark, flags, data, n, i, gVars, mVars, endVars>>

Look(w) ==
    /\ WAt(w, "look")
    /\ WGoto(w, IF mark[w] = IDLE THEN "loop" ELSE "check")
    /\ UNCHANGED <<mark, flags, data, n, i, gVars, mVars, endVars>>

Check(w) ==
    /\ WAt(w, "check")
    /\ MustHold(mark[w] = RUNNABLE, "check")
    /\ WGoto(w, "load")
    /\ UNCHANGED <<mark, flags, data, n, i, gVars, mVars>>

\* num_requests is read once; with nothing to do the loop starts over.
Load(w) ==
    /\ WAt(w, "load")
    /\ n' = [n EXCEPT ![w] = num_requests[w]]
    /\ i' = [i EXCEPT ![w] = 0]
    /\ IF num_requests[w] = 0
       THEN WGoto(w, "loop") /\ UNCHANGED endVars
       ELSE /\ WGoto(w, "handle")
            /\ MustHold(num_requests[w] <= Batch /\ num_requests[w] = Len(batch[w]), "size")
    /\ UNCHANGED <<mark, flags, data, gVars, mVars>>

Handle(w) ==
    /\ WAt(w, "handle")
    /\ handled' = [handled EXCEPT ![w] = Append(@, batch[w][i[w] + 1])]
    /\ i' = [i EXCEPT ![w] = @ + 1]
    /\ WGoto(w, IF i[w] + 1 < n[w] THEN "handle" ELSE "reset")
    /\ UNCHANGED <<mark, flags, num_requests, batch, sent, n, gVars, mVars, endVars>>

\* Mutant: the count is left as it was.
Reset_Not(w) ==
    /\ WAt(w, "reset")
    /\ WGoto(w, "idle")
    /\ UNCHANGED <<mark, flags, data, n, i, gVars, mVars, endVars>>

Reset(w) ==
    /\ WAt(w, "reset")
    /\ num_requests' = [num_requests EXCEPT ![w] = 0]
    /\ WGoto(w, "idle")
    /\ UNCHANGED <<mark, flags, batch, handled, sent, n, i, gVars, mVars, endVars>>

Worker(w) ==
    \/ SetTid(w)
    \/ SetClass(w)
    \/ Announce(w)
    \/ MarkIdle(w)
    \/ Loop(w)
    \/ Look(w)
    \/ Check(w)
    \/ Load(w)
    \/ Handle(w)
    \/ Reset(w)

-----------------------------------------------------------------------------
(* LoadGenerator                                                           *)

GAt(label) == ended = "none" /\ gpc = label

Wait2 ==
    /\ GAt("wait")
    /\ generator_lock
    /\ gpc' = "pass"
    /\ UNCHANGED <<mark, flags, data, wVars, gcur, mVars, endVars>>

\* One more pass over the workers, unless the experiment is over.
Pass ==
    /\ GAt("pass")
    /\ gpc' = IF exit_all THEN "drain" ELSE "look"
    /\ gcur' = 1
    /\ UNCHANGED <<mark, flags, data, wVars, mVars, endVars>>

\* Mutant: the pass goes on behind the last worker.
NextWorker_Past(label, after) ==
    /\ gcur' = gcur + 1
    /\ gpc' = label

\* The next worker of a pass over all of them, or what follows the pass.
NextWorker(label, after) ==
    /\ gcur' = IF gcur = NumWorkers THEN 1 ELSE gcur + 1
    /\ gpc' = IF gcur = NumWorkers THEN after ELSE label

\* Mutant: a batch is given whatever the mark says.
LookAt_Blind ==
    /\ GAt("look")
    /\ gpc' = "clear" /\ UNCHANGED gcur
    /\ UNCHANGED <<mark, flags, data, wVars, mVars, endVars>>

LookAt ==
    /\ GAt("look")
    /\ IF mark[gcur] = RUNNABLE THEN NextWorker("look", "pass") ELSE gpc' = "clear" /\ UNCHANGED gcur
    /\ UNCHANGED <<mark, flags, data, wVars, mVars, endVars>>

\* Mutant: requests.clear() is forgotten.
Clear_Not ==
    /\ GAt("clear")
    /\ MustHold(num_requests[gcur] = 0, "count")
    /\ gpc' = "poll"
    /\ UNCHANGED <<mark, flags, data, wVars, gcur, mVars>>

Clear ==
    /\ GAt("clear")
    /\ MustHold(num_requests[gcur] = 0, "count")
    /\ batch' = [batch EXCEPT ![gcur] = <<>>]
    /\ gpc' = "poll"
    /\ UNCHANGED <<mark, flags, num_requests, handled, sent, wVars, gcur, mVars>>

\* The next arrival is due: when, the network's clock decides.
HasNewArrival == sent < MaxRequests

\* What the request asks for is left out.
PollRequest == HasNewArrival /\ sent' = sent + 1

Poll ==
    /\ GAt("poll")
    /\ Len(batch[gcur]) < Batch /\ PollRequest
    /\ batch' = [batch EXCEPT ![gcur] = Append(@, sent')]
    /\ UNCHANGED <<mark, flags, num_requests, handled, wVars, gVars, mVars, endVars>>

\* The batch is full, or no request is waiting: with none at all the pass ends.
PollEnds ==
    /\ GAt("poll")
    /\ gpc' = IF batch[gcur] = <<>> THEN "pass" ELSE "publish"
    /\ UNCHANGED <<mark, flags, data, wVars, gcur, mVars, endVars>>

Publish ==
    /\ GAt("publish")
    /\ MustHold(Len(batch[gcur]) <= Batch, "size")
    /\ num_requests' = [num_requests EXCEPT ![gcur] = Len(batch[gcur])]
    /\ gpc' = "confirm"
    /\ UNCHANGED <<mark, flags, batch, handled, sent, wVars, gcur, mVars>>

Confirm ==
    /\ GAt("confirm")
    /\ MustHold(mark[gcur] = IDLE, "confirm")
    /\ gpc' = "mark"
    /\ UNCHANGED <<mark, flags, data, wVars, gcur, mVars>>

\* Mutant: the worker is not told.
MarkRunnable_Not ==
    /\ GAt("mark")
    /\ NextWorker("look", "pass")
    /\ UNCHANGED <<mark, flags, data, wVars, mVars, endVars>>

\* epistle->add(tid, EPISTLE_THREAD_RUNNABLE); on to the next worker
MarkRunnable ==
    /\ GAt("mark")
    /\ mark' = [mark EXCEPT ![gcur] = RUNNABLE]
    /\ NextWorker("look", "pass")
    /\ UNCHANGED <<flags, data, wVars, mVars, endVars>>

\* After the experiment: all workers are marked runnable again and again.
Drain ==
    /\ GAt("drain")
    /\ gpc' = IF exit_generator THEN "done" ELSE "remark"
    /\ gcur' = 1
    /\ UNCHANGED <<mark, flags, data, wVars, mVars, endVars>>

\* Mutant: every worker is marked once.
Remark_Once ==
    /\ GAt("remark")
    /\ mark' = [mark EXCEPT ![gcur] = RUNNABLE]
    /\ NextWorker("remark", "done")
    /\ UNCHANGED <<flags, data, wVars, mVars, endVars>>

Remark ==
    /\ GAt("remark")
    /\ mark' = [mark EXCEPT ![gcur] = RUNNABLE]
    /\ NextWorker("remark", "drain")
    /\ UNCHANGED <<flags, data, wVars, mVars, endVars>>

LoadGenerator ==
    \/ Wait2
    \/ Pass
    \/ LookAt
    \/ Clear
    \/ Poll
    \/ PollEnds
    \/ Publish
    \/ Confirm
    \/ MarkRunnable
    \/ Drain
    \/ Remark

-----------------------------------------------------------------------------
(* main                                                                    *)

MAt(label) == ended = "none" /\ mpc = label

\* The next worker of a loop over all of them, or what follows the loop.
MNext(after) ==
    /\ mcur' = IF mcur = NumWorkers THEN 1 ELSE mcur + 1
    /\ mpc' = IF mcur = NumWorkers THEN after ELSE mpc

CreateWorker ==
    /\ MAt("create")
    /\ WGoto(mcur, "tid")
    /\ MNext("wait1")
    /\ UNCHANGED <<mark, flags, data, n, i, gVars, short, filtered, endVars>>

\* Mutant: main does not wait for the worker.
Prepare_Early ==
    /\ MAt("wait1")
    /\ ready' = ready \cup {mcur}
    /\ MNext("notify2")
    /\ UNCHANGED <<mark, worker_lock, generator_lock, should_exit, exit_all, exit_generator,
                   data, wVars, gVars, short, filtered, endVars>>

\* wait1, then the worker is entered into worker_works and requests.
Prepare ==
    /\ MAt("wait1")
    /\ worker_lock[mcur]
    /\ ready' = ready \cup {mcur}
    /\ MNext("notify2")
    /\ UNCHANGED <<mark, worker_lock, generator_lock, should_exit, exit_all, exit_generator,
                   data, wVars, gVars, short, filtered, endVars>>

\* notify2, and the timer is set
Notify2 ==
    /\ MAt("notify2")
    /\ generator_lock' = TRUE
    /\ mpc' = "run"
    /\ UNCHANGED <<mark, worker_lock, ready, should_exit, exit_all, exit_generator, data,
                   wVars, gVars, mcur, short, filtered, endVars>>

\* A request that arrived in the discard period; requests arrive in order.
ShouldDiscard(r) == r <= Discard

\* What the workers have pushed so far, without the requests to discard.
FilterRequests == {p \in Places(handled) : ~ShouldDiscard(At(handled, p))}

\* PrintResults, down to PrintStage: the throughput is divided by the whole
\* seconds tracked, and at() throws if a percentile is out of range.  It reads
\* in one step: the vectors only grow, and only the output depends on when.
PrintStage(noSecond, next) ==
    LET num == Cardinality(FilterRequests) IN
    IF num > 0 /\ noSecond
    THEN ended' = "division" /\ UNCHANGED <<mpc, force_exit>>
    ELSE /\ MustHold(num > 0 => \A p \in Percentiles : Rank(num, p) < num, "range")
         /\ mpc' = next

\* while (!should_exit), then the end of the experiment.  start_time may be up
\* to a second later than the timer, or never come.
Terminal ==
    /\ MAt("run")
    /\ should_exit
    /\ exit_all' = TRUE
    /\ short' \in BOOLEAN
    /\ PrintStage(short', "join")
    /\ UNCHANGED <<mark, worker_lock, ready, generator_lock, should_exit, exit_generator,
                   data, wVars, gVars, mcur, filtered>>

\* Mutant: main goes on before the worker has returned.
JoinWorker_Not ==
    /\ MAt("join")
    /\ MNext("release")
    /\ UNCHANGED <<mark, flags, data, wVars, gVars, short, filtered, endVars>>

JoinWorker ==
    /\ MAt("join")
    /\ wpc[mcur] = "done"
    /\ MNext("release")
    /\ UNCHANGED <<mark, flags, data, wVars, gVars, short, filtered, endVars>>

Release ==
    /\ MAt("release")
    /\ exit_generator' = TRUE
    /\ mpc' = "joingen"
    /\ UNCHANGED <<mark, worker_lock, ready, generator_lock, should_exit, exit_all, data,
                   wVars, gVars, mcur, short, filtered, endVars>>

\* generator.join(), and the final results
JoinGenerator ==
    /\ MAt("joingen")
    /\ gpc = "done"
    /\ filtered' = FilterRequests
    /\ PrintStage(short, "done")
    /\ UNCHANGED <<mark, flags, data, wVars, gVars, mcur, short>>

Main ==
    \/ CreateWorker
    \/ Prepare
    \/ Notify2
    \/ Terminal
    \/ JoinWorker
    \/ Release
    \/ JoinGenerator

\* The first SIGINT asks for the end, the second one is the end.
SigInt ==
    /\ ended = "none" /\ mpc # "done"
    /\ IF force_exit
       THEN ended' = "forced" /\ UNCHANGED <<should_exit, force_exit>>
       ELSE should_exit' = TRUE /\ force_exit' = TRUE /\ UNCHANGED ended
    /\ UNCHANGED <<mark, worker_lock, ready, generator_lock, exit_all, exit_generator, data,
                   wVars, gVars, mVars>>

\* The timer fires once; after an earlier SIGINT it changes nothing.
SigAlrm ==
    /\ ended = "none" /\ mpc = "run"
    /\ should_exit' = TRUE
    /\ UNCHANGED <<mark, worker_lock, ready, generator_lock, exit_all, exit_generator, data,
                   wVars, gVars, mVars, endVars>>

Next == Main \/ LoadGenerator \/ SigInt \/ SigAlrm \/ \E w \in Workers : Worker(w)

Spec == Init /\ [][Next]_vars

\* main and the generator are ordinary threads, and the timer fires.  The
\* workers run when the lord shoots them, and the Shinjuku lord passes over
\* those marked idle (shinjuku_lord.h:143): only a runnable mark promises a
\* worker a CPU.
Fairness ==
    /\ WF_vars(Main)
    /\ WF_vars(LoadGenerator)
    /\ WF_vars(SigAlrm)
    /\ \A w \in Workers : WF_vars(mark[w] = RUNNABLE /\ Worker(w))

FairSpec == Spec /\ Fairness

\* Every start of the Shinjuku lord truncates the epistle and sets it to
\* zero, also while a workload has it mapped (epistle.h:27, :45).
LordRestart ==
    /\ ended = "none" /\ mpc # "done"
    /\ mark' = [w \in Workers |-> RUNNABLE]
    /\ UNCHANGED <<flags, data, wVars, gVars, mVars, endVars>>

RestartSpec == Init /\ [][Next \/ LordRestart]_vars

-----------------------------------------------------------------------------
(* Safety.                                                                 *)

\* Not by an assert: by the user, or by the division of PrintStage.
EndedOtherwise == ended \in {"forced", "division"}

\* None of the asserts of the handshake fails (rocksdb.cpp:462, :469-470,
\* :529, :552, :556): each states of one thread what another must have done.
NoAssertFails == ended = "none" \/ EndedOtherwise

Filling(w) == gpc \in {"poll", "publish"} /\ gcur = w

\* The worker and the generator are never at the same batch: the vector is
\* not cleared or refilled while the worker goes through it
\* (rocksdb.cpp:472-485, :532-546).
BatchOwned ==
    \A w \in Workers : wpc[w] \in {"handle", "reset"} => ~Filling(w) /\ ~(gpc = "clear" /\ gcur = w)

\* No worker looks into worker_works or requests before main has entered the
\* last one: operator[] on a std::map inserts (rocksdb.cpp:463, :485, :882-887).
\* And nobody asks for the id of a worker that has not filled it in yet: it is
\* not initialised (thread.h:47; rocksdb.cpp:521, :572, :883, :928).
InitBeforeUse ==
    /\ (\E w \in Workers : wpc[w] \in {"load", "handle"}) \/ gpc = "clear" => ready = Workers
    /\ ready \cup (IF gpc \in {"look", "remark"} THEN {gcur} ELSE {})
            \subseteq {w \in Workers : HasTid(w)}

\* What the worker has still to handle, or the generator to hand over.
Waiting(w) ==
    CASE Filling(w) -> batch[w]
      [] wpc[w] \in {"handle", "reset"} -> SubSeq(batch[w], i[w] + 1, Len(batch[w]))
      [] OTHER -> SubSeq(batch[w], 1, num_requests[w])

Occurrences(f, r) == {p \in Places(f) : At(f, p) = r}

\* Every request the network delivered is in one place, once: in one batch or
\* in one worker's results.  None is lost or handled twice.
EachOnce ==
    \A r \in 1 .. sent :
        Cardinality(Occurrences(handled, r))
            + Cardinality(Occurrences([w \in Workers |-> Waiting(w)], r)) = 1

\* The final results count every request that was handed over and handled and
\* not to be discarded, once each: no worker pushes into a vector after main
\* has read it (rocksdb.cpp:485, :926-936).
ResultsFinal ==
    mpc = "done" =>
        /\ \A p, q \in filtered : At(handled, p) = At(handled, q) => p = q
        /\ {At(handled, p) : p \in filtered} =
               {r \in 1 .. sent : Occurrences(handled, r) # {} /\ ~ShouldDiscard(r)}

\* Outside the drain, the generator adds the mark of a worker only after the
\* worker has added it first: what Epistle asks of its callers.
FirstAddAlone == gpc = "mark" => wpc[gcur] \notin {"unborn", "tid", "class", "announce", "first"}

-----------------------------------------------------------------------------
(* Liveness.                                                               *)

\* A batch handed over is handled, also when the experiment ends meanwhile or
\* the worker leaves without it.
BatchTaken ==
    \A w \in Workers :
        num_requests[w] > 0 ~> num_requests[w] = 0 \/ wpc[w] = "done" \/ EndedOtherwise

\* The workload ends: every worker leaves its loop although the lord does not
\* run those marked idle, and main gets to the end of its joins
\* (rocksdb.cpp:570-575, :926-934), unless something else ends it.
Terminates == <>(mpc = "done" \/ EndedOtherwise)
=============================================================================
