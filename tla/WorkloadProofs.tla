--------------------------- MODULE WorkloadProofs ---------------------------
(***************************************************************************)
(* That the workers, the generator and main of the RocksDB workload keep   *)
(* out of each other's way and lose no request, for any number of workers, *)
(* any batch size and any number of requests; and that for any number of   *)
(* latencies the percentiles printed are in range.                         *)
(***************************************************************************)
EXTENDS RocksdbWorkload, SequenceTheorems, FiniteSetTheorems, TLAPS

-----------------------------------------------------------------------------
(* The inductive invariant.                                                *)

\* The worker has added its mark to the epistle.
Started(w) == wpc[w] \notin {"unborn", "tid", "class", "announce", "first"}

\* The generator found the worker idle and has not told it yet.
Serving(w) == gpc \in {"clear", "poll", "publish", "confirm", "mark"} /\ gcur = w

\* main starts and joins one worker after the other, and the generator waits
\* until all of them are entered.
MainInv ==
    /\ mpc = "create" => ready = {} /\ \A w \in Workers : w >= mcur => wpc[w] = "unborn"
    /\ mpc = "wait1" => ready = 1 .. mcur - 1
    /\ mpc \notin {"create", "wait1"} => ready = Workers
    /\ mpc \in {"create", "wait1", "notify2"} => ~generator_lock
    /\ mpc \in {"notify2", "run"} => mcur = 1
    /\ ~generator_lock => gpc = "wait"
    /\ \A w \in Workers : worker_lock[w] => HasTid(w)
    /\ \A w \in ready : worker_lock[w]
    /\ mpc = "join" => \A w \in 1 .. mcur - 1 : wpc[w] = "done"
    /\ mpc \in {"release", "joingen", "done"} => \A w \in Workers : wpc[w] = "done"
    /\ mpc = "done" => gpc = "done" /\ filtered = FilterRequests

\* A mark is set to idle by the worker and to runnable by the generator, each
\* only after the other's: so the mark says whose turn it is, and the count is
\* the generator's while it is idle and the worker's while it is runnable.
Handshake(w) ==
    /\ ~Started(w) => mark[w] = RUNNABLE /\ num_requests[w] = 0
    /\ Started(w) /\ mark[w] = RUNNABLE => gpc # "wait"
    /\ wpc[w] \in {"check", "load", "handle", "reset", "idle"} => mark[w] = RUNNABLE
    /\ wpc[w] = "idle" => num_requests[w] = 0
    /\ Serving(w) => mark[w] = IDLE
    /\ mark[w] = IDLE /\ num_requests[w] # 0 => gpc \in {"confirm", "mark"} /\ gcur = w
    /\ num_requests[w] # 0 => num_requests[w] = Len(batch[w])
    /\ wpc[w] \in {"handle", "reset"} => n[w] = num_requests[w] /\ num_requests[w] # 0
    /\ wpc[w] = "handle" => i[w] < n[w]
    /\ wpc[w] = "reset" => i[w] = n[w]

HandshakeInv == \A w \in Workers : Handshake(w)

\* What was ever polled for a worker, in order.
Given == [w \in Workers |-> handled[w] \o Waiting(w)]

\* Every request the network delivered was given to one worker, once.
GivenInv ==
    /\ \A p \in Places(Given) : At(Given, p) \in 1 .. sent
    /\ \A p, q \in Places(Given) : At(Given, p) = At(Given, q) => p = q
    /\ \A r \in 1 .. sent : \E p \in Places(Given) : At(Given, p) = r

IInv == TypeOK /\ NoAssertFails /\ MainInv /\ HandshakeInv /\ GivenInv

-----------------------------------------------------------------------------
(* Types.                                                                  *)

LEMMA WorkersType ==
    /\ NumWorkers \in Nat \ {0} /\ 1 \in Workers /\ NumWorkers \in Workers
    /\ \A w \in Workers : w \in Nat \ {0} /\ w <= NumWorkers
    /\ \A w \in Workers : w # NumWorkers => w + 1 \in Workers
    /\ Batch \in Nat \ {0} /\ MaxRequests \in Nat
BY WorkloadAssumption DEF Workers

LEMMA PlacesGrow ==
    ASSUME NEW f, NEW g, \A w \in Workers : DOMAIN f[w] \subseteq DOMAIN g[w]
    PROVE  Places(f) \subseteq Places(g)
BY DEF Places

LEMMA MainType ==
    ASSUME TypeOK, Main
    PROVE  TypeOK'
<1>. USE WorkersType DEF TypeOK
<1>1. CASE CreateWorker
  BY <1>1 DEF CreateWorker, MAt, WGoto, MNext, flags, data, gVars, endVars
<1>2. CASE Prepare
  BY <1>2 DEF Prepare, MAt, MNext, data, wVars, gVars, endVars
<1>3. CASE Notify2
  BY <1>3 DEF Notify2, data, wVars, gVars, endVars
<1>4. CASE Terminal
  BY <1>4 DEF Terminal, MustHold, PrintStage, data, wVars, gVars
<1>5. CASE JoinWorker
  BY <1>5 DEF JoinWorker, MAt, MNext, flags, data, wVars, gVars, endVars
<1>6. CASE Release
  BY <1>6 DEF Release, data, wVars, gVars, endVars
<1>7. CASE JoinGenerator
  <2>1. filtered' \subseteq Places(handled') BY <1>7 DEF JoinGenerator, FilterRequests, data
  <2>2. QED BY <1>7, <2>1 DEF JoinGenerator, MustHold, PrintStage, flags, data, wVars, gVars
<1>8. QED BY <1>1, <1>2, <1>3, <1>4, <1>5, <1>6, <1>7 DEF Main

LEMMA GeneratorType ==
    ASSUME TypeOK, LoadGenerator
    PROVE  TypeOK'
<1>. USE WorkersType DEF TypeOK, GAt
<1>1. CASE Wait2
  BY <1>1 DEF Wait2, flags, data, wVars, mVars, endVars
<1>2. CASE Pass
  BY <1>2 DEF Pass, flags, data, wVars, mVars, endVars
<1>3. CASE LookAt
  BY <1>3 DEF LookAt, NextWorker, flags, data, wVars, mVars, endVars
<1>4. CASE Clear
  <2>1. <<>> \in Seq(1 .. MaxRequests) /\ Len(<<>>) <= Batch OBVIOUS
  <2>2. batch' \in [Workers -> Seq(1 .. MaxRequests)] BY <1>4, <2>1 DEF Clear
  <2>3. \A w \in Workers : Len(batch'[w]) <= Batch BY <1>4, <2>1 DEF Clear
  <2>4. QED BY <1>4, <2>2, <2>3 DEF Clear, MustHold, flags, wVars, mVars
<1>5. CASE Poll
  <2>1. sent' \in 1 .. MaxRequests
    BY <1>5 DEF Poll, PollRequest, HasNewArrival
  <2>2. batch[gcur] \in Seq(1 .. MaxRequests) /\ Len(batch[gcur]) < Batch
    BY <1>5 DEF Poll
  <2>3. Append(batch[gcur], sent') \in Seq(1 .. MaxRequests)
    BY <2>1, <2>2
  <2>7. Len(Append(batch[gcur], sent')) = Len(batch[gcur]) + 1 /\ Len(batch[gcur]) \in Nat
    BY <2>1, <2>2
  <2>8. Len(Append(batch[gcur], sent')) <= Batch BY <2>2, <2>7
  <2>4. batch' \in [Workers -> Seq(1 .. MaxRequests)]
    BY <1>5, <2>3 DEF Poll
  <2>5. \A w \in Workers : Len(batch'[w]) <= Batch
    BY <1>5, <2>8 DEF Poll
  <2>6. UNCHANGED <<mark, flags, num_requests, handled, wVars, gVars, mVars, endVars>>
    BY <1>5 DEF Poll
  <2>10. sent' \in 0 .. MaxRequests BY <2>1
  <2>9. QED BY <2>10, <2>4, <2>5, <2>6 DEF flags, wVars, gVars, mVars, endVars
<1>6. CASE PollEnds
  BY <1>6 DEF PollEnds, flags, data, wVars, mVars, endVars
<1>7. CASE Publish
  <2>1. ended = "none" BY <1>7 DEF Publish
  <2>2. Len(batch[gcur]) \in 0 .. Batch OBVIOUS
  <2>3. QED BY <1>7, <2>2 DEF Publish, MustHold, flags, wVars, mVars
<1>8. CASE Confirm
  BY <1>8 DEF Confirm, MustHold, flags, data, wVars, mVars
<1>9. CASE MarkRunnable
  BY <1>9 DEF MarkRunnable, NextWorker, flags, data, wVars, mVars, endVars
<1>10. CASE Drain
  BY <1>10 DEF Drain, flags, data, wVars, mVars, endVars
<1>11. CASE Remark
  BY <1>11 DEF Remark, NextWorker, flags, data, wVars, mVars, endVars
<1>12. QED
  BY <1>1, <1>2, <1>3, <1>4, <1>5, <1>6, <1>7, <1>8, <1>9, <1>10, <1>11 DEF LoadGenerator

\* What Handle appends is an element of the batch.
LEMMA HandleElement ==
    ASSUME TypeOK, HandshakeInv, NEW w \in Workers, Handle(w)
    PROVE  /\ i[w] + 1 \in DOMAIN batch[w] /\ batch[w][i[w] + 1] \in 1 .. MaxRequests
           /\ i[w] \in Nat /\ n[w] = Len(batch[w]) /\ i[w] < n[w]
<1>1. n[w] = Len(batch[w]) /\ i[w] < n[w] BY DEF Handle, WAt, HandshakeInv, Handshake
<1>2. batch[w] \in Seq(1 .. MaxRequests) /\ i[w] \in Nat BY DEF TypeOK
<1>3. Len(batch[w]) \in Nat /\ DOMAIN batch[w] = 1 .. Len(batch[w]) BY <1>2
<1>4. i[w] + 1 \in 1 .. Len(batch[w]) BY <1>1, <1>2, <1>3
<1>5. batch[w][i[w] + 1] \in 1 .. MaxRequests BY <1>2, <1>4, ElementOfSeq
<1>6. QED BY <1>1, <1>2, <1>3, <1>4, <1>5, Zenon

LEMMA WorkerType ==
    ASSUME TypeOK, HandshakeInv, NEW w \in Workers, Worker(w)
    PROVE  TypeOK'
<1>. USE WorkersType DEF TypeOK, WAt, WGoto
<1>1. CASE SetTid(w)
  BY <1>1 DEF SetTid, flags, data, gVars, mVars, endVars
<1>2. CASE SetClass(w)
  BY <1>2 DEF SetClass, flags, data, gVars, mVars, endVars
<1>3. CASE Announce(w)
  BY <1>3 DEF Announce, data, gVars, mVars, endVars
<1>4. CASE MarkIdle(w)
  BY <1>4 DEF MarkIdle, flags, data, gVars, mVars, endVars
<1>5. CASE Loop(w)
  BY <1>5 DEF Loop, flags, data, gVars, mVars, endVars
<1>6. CASE Look(w)
  BY <1>6 DEF Look, flags, data, gVars, mVars, endVars
<1>7. CASE Check(w)
  BY <1>7 DEF Check, MustHold, flags, data, gVars, mVars
<1>8. CASE Load(w)
  <2>6. num_requests[w] \in 0 .. Batch /\ 0 \in 0 .. Batch OBVIOUS
  <2>1. n' \in [Workers -> 0 .. Batch] /\ i' \in [Workers -> 0 .. Batch]
    BY <1>8, <2>6 DEF Load
  <2>2. wpc' = [wpc EXCEPT ![w] = "loop"] \/ wpc' = [wpc EXCEPT ![w] = "handle"]
    BY <1>8 DEF Load
  <2>3. ended' \in {ended, "size"} /\ force_exit' = force_exit BY <1>8 DEF Load, MustHold, endVars
  <2>7. wpc' \in [Workers -> {"unborn", "tid", "class", "announce", "first", "loop", "look", "check",
                             "load", "handle", "reset", "idle", "done"}]
    BY <2>2
  <2>8. ended' \in {"none", "forced", "division", "range", "check", "size", "count", "confirm"}
    BY <2>3
  <2>4. UNCHANGED <<mark, flags, data, gVars, mVars>> BY <1>8 DEF Load
  <2>5. QED BY <2>1, <2>3, <2>4, <2>7, <2>8 DEF flags, data, gVars, mVars
<1>9. CASE Handle(w)
  <2>1. PICK r \in 1 .. MaxRequests : r = batch[w][i[w] + 1]
    BY <1>9, HandleElement
  <2>2. handled' = [handled EXCEPT ![w] = Append(@, r)]
    BY <1>9, <2>1 DEF Handle
  <2>3. handled[w] \in Seq(1 .. MaxRequests) OBVIOUS
  <2>4. Append(handled[w], r) \in Seq(1 .. MaxRequests) BY <2>3
  <2>5. handled' \in [Workers -> Seq(1 .. MaxRequests)] BY <2>2, <2>4
  <2>10. DOMAIN handled[w] \subseteq DOMAIN Append(handled[w], r)
    <3>. HIDE DEF TypeOK
    <3>1. QED BY <2>3
  <2>6. \A v \in Workers : DOMAIN handled[v] \subseteq DOMAIN handled'[v]
    BY <2>2, <2>10
  <2>7. Places(handled) \subseteq Places(handled') BY <2>6, PlacesGrow
  <2>11. n[w] \in 0 .. Batch OBVIOUS
  <2>12. i[w] + 1 \in 0 .. Batch
    <3>1. i[w] \in Nat /\ i[w] < n[w] BY <1>9, HandleElement
    <3>. HIDE DEF TypeOK
    <3>2. QED BY <2>11, <3>1
  <2>8. i' \in [Workers -> 0 .. Batch]
    BY <1>9, <2>12 DEF Handle
  <2>9. QED BY <1>9, <2>5, <2>7, <2>8 DEF Handle, flags, gVars, mVars, endVars
<1>10. CASE Reset(w)
  <2>1. num_requests' \in [Workers -> 0 .. Batch] BY <1>10 DEF Reset
  <2>2. wpc' = [wpc EXCEPT ![w] = "idle"] BY <1>10 DEF Reset
  <2>3. UNCHANGED <<mark, flags, batch, handled, sent, n, i, gVars, mVars, endVars>>
    BY <1>10 DEF Reset
  <2>4. QED BY <2>1, <2>2, <2>3 DEF flags, gVars, mVars, endVars
<1>11. QED
  BY <1>1, <1>2, <1>3, <1>4, <1>5, <1>6, <1>7, <1>8, <1>9, <1>10 DEF Worker

LEMMA SignalType ==
    ASSUME TypeOK, SigInt \/ SigAlrm
    PROVE  TypeOK'
BY DEF TypeOK, SigInt, SigAlrm, data, wVars, gVars, mVars, endVars

-----------------------------------------------------------------------------
(* What waits at a worker, and what was given to it.                       *)

\* The worker that goes through its batch has been told, the one the
\* generator is busy with has not.
LEMMA ServedIsIdle ==
    ASSUME TypeOK, HandshakeInv, NEW w \in Workers, Serving(w)
    PROVE  /\ mark[w] = IDLE /\ Started(w)
           /\ wpc[w] \notin {"check", "load", "handle", "reset", "idle"}
           /\ gpc \notin {"confirm", "mark"} => num_requests[w] = 0
<1>1. mark[w] = IDLE /\ mark[w] # RUNNABLE BY DEF HandshakeInv, Handshake, IDLE, RUNNABLE
<1>2. QED BY <1>1 DEF HandshakeInv, Handshake

\* Of a batch, all or nothing waits, or what the worker has not handled yet.
WaitingIs(w) ==
    /\ Filling(w) => Waiting(w) = batch[w]
    /\ wpc[w] = "handle" => Waiting(w) = SubSeq(batch[w], i[w] + 1, Len(batch[w]))
    /\ wpc[w] = "reset" => Waiting(w) = <<>>
    /\ ~Filling(w) /\ wpc[w] \notin {"handle", "reset"} =>
           Waiting(w) = IF num_requests[w] = 0 THEN <<>> ELSE batch[w]

LEMMA WaitingValue ==
    ASSUME TypeOK, HandshakeInv, NEW w \in Workers
    PROVE  WaitingIs(w)
<1>1. Filling(w) => wpc[w] \notin {"handle", "reset"} BY ServedIsIdle DEF Filling, Serving
<1>2. PICK b \in Seq(1 .. MaxRequests) : b = batch[w] BY DEF TypeOK
<1>3. i[w] \in Nat /\ n[w] \in Nat /\ num_requests[w] \in Nat BY DEF TypeOK
<1>4. SubSeq(b, 1, Len(b)) = b /\ SubSeq(b, 1, 0) = <<>> /\ SubSeq(b, Len(b) + 1, Len(b)) = <<>>
  BY <1>2
<1>5. Filling(w) => Waiting(w) = b BY <1>1, <1>2, Zenon DEF Waiting
<1>6. wpc[w] = "handle" => Waiting(w) = SubSeq(b, i[w] + 1, Len(b))
  BY <1>1, <1>2, Zenon DEF Waiting
<1>7. wpc[w] = "reset" => Waiting(w) = SubSeq(b, i[w] + 1, Len(b))
  BY <1>1, <1>2, Zenon DEF Waiting
<1>8. wpc[w] = "reset" => i[w] = Len(b) BY <1>2 DEF HandshakeInv, Handshake
<1>9. ~Filling(w) /\ wpc[w] \notin {"handle", "reset"} => Waiting(w) = SubSeq(b, 1, num_requests[w])
  BY <1>2, Zenon DEF Waiting
<1>10. num_requests[w] # 0 => num_requests[w] = Len(b) BY <1>2 DEF HandshakeInv, Handshake
<1>11. wpc[w] = "reset" => Waiting(w) = <<>>
  BY <1>4, <1>7, <1>8, Zenon
<1>12. ~Filling(w) /\ wpc[w] \notin {"handle", "reset"} =>
           Waiting(w) = IF num_requests[w] = 0 THEN <<>> ELSE b
  BY <1>4, <1>9, <1>10, Zenon
<1>13. QED BY <1>2, <1>5, <1>6, <1>11, <1>12, Zenon DEF WaitingIs

LEMMA WaitingValues == TypeOK /\ HandshakeInv => \A w \in Workers : WaitingIs(w)
BY WaitingValue

LEMMA WaitingValuesNext == (TypeOK /\ HandshakeInv)' => (\A w \in Workers : WaitingIs(w))'
BY WaitingValues, PTL

LEMMA WaitingType ==
    ASSUME TypeOK, HandshakeInv, NEW w \in Workers
    PROVE  Waiting(w) \in Seq(1 .. MaxRequests)
<1>1. PICK b \in Seq(1 .. MaxRequests) : b = batch[w] BY DEF TypeOK
<1>2. <<>> \in Seq(1 .. MaxRequests) OBVIOUS
<1>3. CASE wpc[w] = "handle"
  <2>1. PICK m \in Nat : m = i[w] BY DEF TypeOK
  <2>2. Len(b) \in Nat BY <1>1
  <2>3. ASSUME NEW k \in m + 1 .. Len(b) PROVE b[k] \in 1 .. MaxRequests
    <3>1. k \in 1 .. Len(b) BY <2>1, <2>2
    <3>2. QED BY <1>1, <3>1, ElementOfSeq
  <2>4. m + 1 \in Int /\ Len(b) \in Int BY <2>2
  <2>5. SubSeq(b, m + 1, Len(b)) \in Seq(1 .. MaxRequests) BY <2>3, <2>4, SubSeqProperties
  <2>6. QED BY <1>1, <1>3, <2>1, <2>5, WaitingValue, Zenon DEF WaitingIs
<1>4. CASE wpc[w] # "handle" BY <1>1, <1>2, <1>4, WaitingValue, Zenon DEF WaitingIs
<1>5. QED BY <1>3, <1>4

LEMMA GivenType ==
    ASSUME TypeOK, HandshakeInv
    PROVE  /\ Given \in [Workers -> Seq(1 .. MaxRequests)]
           /\ \A w \in Workers :
                  /\ Len(Given[w]) = Len(handled[w]) + Len(Waiting(w))
                  /\ \A j \in DOMAIN handled[w] :
                         j \in DOMAIN Given[w] /\ Given[w][j] = handled[w][j]
                  /\ \A j \in DOMAIN Waiting(w) :
                         /\ Len(handled[w]) + j \in DOMAIN Given[w]
                         /\ Given[w][Len(handled[w]) + j] = Waiting(w)[j]
<1>1. ASSUME NEW h \in Seq(1 .. MaxRequests), NEW v \in Seq(1 .. MaxRequests)
      PROVE  /\ h \o v \in Seq(1 .. MaxRequests)
             /\ Len(h \o v) = Len(h) + Len(v)
             /\ \A j \in DOMAIN h : j \in DOMAIN (h \o v) /\ (h \o v)[j] = h[j]
             /\ \A j \in DOMAIN v : Len(h) + j \in DOMAIN (h \o v) /\ (h \o v)[Len(h) + j] = v[j]
  OBVIOUS
<1>2. ASSUME NEW w \in Workers
      PROVE  handled[w] \in Seq(1 .. MaxRequests) /\ Waiting(w) \in Seq(1 .. MaxRequests)
  BY WaitingType DEF TypeOK
<1>3. Given = [w \in Workers |-> handled[w] \o Waiting(w)] BY DEF Given
<1>4. \A w \in Workers : Given[w] = handled[w] \o Waiting(w) BY <1>3, Zenon
<1>5. Given \in [Workers -> Seq(1 .. MaxRequests)] BY <1>1, <1>2, <1>3, Zenon
<1>6. ASSUME NEW w \in Workers
      PROVE  /\ Len(Given[w]) = Len(handled[w]) + Len(Waiting(w))
             /\ \A j \in DOMAIN handled[w] :
                    j \in DOMAIN Given[w] /\ Given[w][j] = handled[w][j]
             /\ \A j \in DOMAIN Waiting(w) :
                    /\ Len(handled[w]) + j \in DOMAIN Given[w]
                    /\ Given[w][Len(handled[w]) + j] = Waiting(w)[j]
  <2>1. PICK h \in Seq(1 .. MaxRequests) : h = handled[w] BY <1>2
  <2>2. PICK v \in Seq(1 .. MaxRequests) : v = Waiting(w) BY <1>2
  <2>3. Given[w] = h \o v BY <1>4, <2>1, <2>2
  <2>4. /\ Len(h \o v) = Len(h) + Len(v)
        /\ \A j \in DOMAIN h : j \in DOMAIN (h \o v) /\ (h \o v)[j] = h[j]
        /\ \A j \in DOMAIN v : Len(h) + j \in DOMAIN (h \o v) /\ (h \o v)[Len(h) + j] = v[j]
    BY <1>1
  <2>5. QED BY <2>1, <2>2, <2>3, <2>4
<1>7. QED BY <1>5, <1>6, Zenon

-----------------------------------------------------------------------------
(* Percentiles.                                                            *)

LEMMA SizeBounds ==
    ASSUME NEW num \in Nat \ {0}
    PROVE  /\ Size(num) \in 1 .. num
           /\ num - 1 <= Size(num)
           /\ \E k \in Nat : Size(num) = 2 * k + 1
<1>1. num \in Int /\ num >= 1 OBVIOUS
<1>2. num % 2 \in 0 .. 1 /\ num = 2 * (num \div 2) + (num % 2) /\ num \div 2 \in Int BY <1>1
<1>3. CASE num % 2 = 0
  <2>1. Size(num) = num - 1 BY <1>3 DEF Size
  <2>2. num \div 2 - 1 \in Nat /\ num - 1 = 2 * (num \div 2 - 1) + 1 BY <1>1, <1>2, <1>3
  <2>3. num - 1 \in 1 .. num BY <1>1, <2>2
  <2>4. \E k \in Nat : num - 1 = 2 * k + 1 BY <2>2
  <2>5. num - 1 <= num - 1 BY <1>1
  <2>6. QED BY <2>1, <2>3, <2>4, <2>5
<1>4. CASE num % 2 # 0
  <2>1. Size(num) = num BY <1>4 DEF Size
  <2>2. num \div 2 \in Nat /\ num = 2 * (num \div 2) + 1 BY <1>1, <1>2, <1>4
  <2>3. \E k \in Nat : num = 2 * k + 1 BY <2>2
  <2>4. num \in 1 .. num /\ num - 1 <= num BY <1>1
  <2>5. QED BY <2>1, <2>3, <2>4
<1>5. QED BY <1>3, <1>4

\* durations.at(size * p) never throws: of any latencies there are, each
\* percentile PrintStage asks for is one (rocksdb.cpp:706-713).
THEOREM PercentilesInRange ==
    \A num \in Nat \ {0}, p \in Percentiles : Rank(num, p) \in 0 .. num - 1
<1>1. SUFFICES ASSUME NEW num \in Nat \ {0}, NEW p \in Percentiles
               PROVE  Rank(num, p) \in 0 .. num - 1
  OBVIOUS
<1>2. PICK s \in 1 .. num : s = Size(num) BY SizeBounds
<1>3. (s * 500) \div 1000 \in 0 .. s - 1 /\ (s * 990) \div 1000 \in 0 .. s - 1
  OBVIOUS
<1>4. (s * 995) \div 1000 \in 0 .. s - 1 /\ (s * 999) \div 1000 \in 0 .. s - 1
  OBVIOUS
<1>5. QED BY <1>2, <1>3, <1>4 DEF Rank, Percentiles

\* "When the size is 10, I want the 50th percentile to correspond to index 4
\* [...] when the number of latencies is 9 [...] to index 4"
\* (rocksdb.cpp:701-705): as many latencies lie below the median printed as
\* above it, or, of an even number, one less.
THEOREM MedianInTheMiddle ==
    \A num \in Nat \ {0} :
        LET below == Rank(num, 500)
            above == num - 1 - below
        IN above - below \in 0 .. 1
<1>1. SUFFICES ASSUME NEW num \in Nat \ {0}
               PROVE  num - 1 - Rank(num, 500) - Rank(num, 500) \in 0 .. 1
  OBVIOUS
<1>2. PICK k \in Nat : Size(num) = 2 * k + 1 BY SizeBounds
<1>3. num - 1 <= 2 * k + 1 /\ 2 * k + 1 <= num BY <1>2, SizeBounds
<1>4. ((2 * k + 1) * 500) \div 1000 = k OBVIOUS
<1>5. Rank(num, 500) = k BY <1>2, <1>4 DEF Rank
<1>6. QED BY <1>3, <1>5

-----------------------------------------------------------------------------
(* The asserts.                                                            *)

LEMMA HandledOnce ==
    ASSUME IInv
    PROVE  /\ \A p \in Places(handled) :
                  p \in Places(Given) /\ At(Given, p) = At(handled, p)
           /\ \A p \in Places(handled) : At(handled, p) \in 1 .. sent
           /\ \A p, q \in Places(handled) : At(handled, p) = At(handled, q) => p = q
<1>1. ASSUME NEW p \in Places(handled)
      PROVE  p \in Places(Given) /\ At(Given, p) = At(handled, p)
  <2>1. PICK w \in Workers : p \in {w} \X DOMAIN handled[w] BY DEF Places
  <2>2. PICK j \in DOMAIN handled[w] : p = <<w, j>> BY <2>1
  <2>3. j \in DOMAIN Given[w] /\ Given[w][j] = handled[w][j] BY <2>2, GivenType DEF IInv
  <2>4. QED BY <2>2, <2>3 DEF Places, At
<1>2. QED BY <1>1 DEF IInv, GivenInv

\* What the results count can be counted, and the percentiles of it exist.
LEMMA ResultsInRange ==
    ASSUME IInv
    PROVE  LET num == Cardinality(FilterRequests)
           IN  num \in Nat /\ (num > 0 => \A p \in Percentiles : Rank(num, p) < num)
<1>1. PICK F : F = FilterRequests OBVIOUS
<1>2. F \subseteq Places(handled) BY <1>1 DEF FilterRequests
<1>3. PICK f : f = [p \in F |-> At(handled, p)] OBVIOUS
<1>4. f \in Injection(F, 1 .. sent)
  BY <1>2, <1>3, HandledOnce DEF Injection, IsInjective
<1>5. sent \in Int BY DEF IInv, TypeOK
<1>6. IsFiniteSet(F) BY <1>4, <1>5, FS_Injection, FS_Interval
<1>7. PICK num \in Nat : num = Cardinality(F) BY <1>6, FS_CardinalityType
<1>8. ASSUME num > 0, NEW p \in Percentiles PROVE Rank(num, p) < num
  BY <1>8, PercentilesInRange
<1>9. QED BY <1>1, <1>7, <1>8

LEMMA PrintStageHolds ==
    ASSUME IInv, ended = "none", NEW noSecond, NEW next, PrintStage(noSecond, next)
    PROVE  /\ ended' \in {"none", "division"}
           /\ ended' = "division" => mpc' = mpc
           /\ ended' = "none" => mpc' = next
           /\ force_exit' = force_exit
BY ResultsInRange DEF PrintStage, MustHold

LEMMA AssertsHold ==
    ASSUME IInv, Next
    PROVE  NoAssertFails'
<1>. USE DEF NoAssertFails, EndedOtherwise
<1>0. TypeOK /\ HandshakeInv /\ NoAssertFails BY DEF IInv
<1>1. CASE UNCHANGED ended BY <1>0, <1>1
<1>2. ASSUME NEW w \in Workers, Check(w) PROVE UNCHANGED ended
  <2>1. wpc[w] = "check" BY <1>2 DEF Check, WAt
  <2>2. mark[w] = RUNNABLE BY <1>0, <2>1 DEF HandshakeInv, Handshake
  <2>3. QED BY <1>2, <2>2 DEF Check, MustHold
<1>3. ASSUME NEW w \in Workers, Load(w) PROVE UNCHANGED ended
  <2>1. num_requests[w] \in 0 .. Batch BY <1>0 DEF TypeOK
  <2>2. num_requests[w] <= Batch BY <2>1, WorkersType
  <2>3. num_requests[w] # 0 => num_requests[w] = Len(batch[w])
    BY <1>0 DEF HandshakeInv, Handshake
  <2>4. QED BY <1>0, <1>3, <2>2, <2>3 DEF Load, MustHold, endVars
<1>4. CASE Clear
  <2>1. Serving(gcur) /\ gpc = "clear" /\ gcur \in Workers
    BY <1>0, <1>4 DEF Clear, GAt, Serving, TypeOK
  <2>2. num_requests[gcur] = 0 BY <1>0, <2>1, ServedIsIdle
  <2>3. QED BY <1>0, <1>4, <2>2 DEF Clear, MustHold
<1>5. CASE Publish
  <2>1. Len(batch[gcur]) <= Batch BY <1>0 DEF TypeOK
  <2>2. QED BY <1>0, <1>5, <2>1 DEF Publish, MustHold
<1>6. CASE Confirm
  <2>1. Serving(gcur) /\ gcur \in Workers
    BY <1>0, <1>6 DEF Confirm, GAt, Serving, TypeOK
  <2>2. mark[gcur] = IDLE BY <1>0, <2>1, ServedIsIdle
  <2>3. QED BY <1>0, <1>6, <2>2 DEF Confirm, MustHold
<1>7. CASE Terminal BY <1>7, PrintStageHolds DEF Terminal, MAt
<1>8. CASE JoinGenerator BY <1>8, PrintStageHolds DEF JoinGenerator, MAt
<1>9. CASE SigInt BY <1>0, <1>9 DEF SigInt
<1>10. ASSUME NEW w \in Workers, Worker(w) PROVE UNCHANGED ended
  <2>1. CASE Check(w) \/ Load(w) BY <1>2, <1>3, <2>1
  <2>2. CASE ~(Check(w) \/ Load(w))
    BY <1>10, <2>2 DEF Worker, SetTid, SetClass, Announce, MarkIdle, Loop, Look, Handle, Reset, endVars
  <2>3. QED BY <2>1, <2>2
<1>11. CASE LoadGenerator
  <2>1. CASE ~(Clear \/ Publish \/ Confirm)
    <3>1. UNCHANGED ended
      BY <1>11, <2>1 DEF LoadGenerator, Wait2, Pass, LookAt, Poll, PollEnds, MarkRunnable, Drain, Remark, endVars
    <3>2. QED BY <1>1, <3>1
  <2>2. QED BY <1>4, <1>5, <1>6, <2>1
<1>12. CASE Main
  <2>1. CASE ~(Terminal \/ JoinGenerator)
    <3>1. UNCHANGED ended
      BY <1>12, <2>1 DEF Main, CreateWorker, Prepare, Notify2, JoinWorker, Release, endVars
    <3>2. QED BY <1>1, <3>1
  <2>2. QED BY <1>7, <1>8, <2>1
<1>13. CASE SigAlrm BY <1>1, <1>13 DEF SigAlrm, endVars
<1>14. QED BY <1>1, <1>9, <1>10, <1>11, <1>12, <1>13 DEF Next

-----------------------------------------------------------------------------
(* main.                                                                   *)

LEMMA BelowMcur ==
    ASSUME TypeOK
    PROVE  1 .. mcur - 1 \subseteq Workers /\ mcur \in Workers
<1>1. mcur \in Workers BY DEF TypeOK
<1>2. QED BY <1>1, WorkersType DEF Workers

\* What main relies on of a worker's step.
LEMMA WorkerFrame ==
    ASSUME TypeOK, NEW w \in Workers, Worker(w)
    PROVE  /\ UNCHANGED <<mpc, mcur, ready, generator_lock, gpc, gcur, filtered>>
           /\ wpc[w] \notin {"unborn", "done"}
           /\ wpc'[w] # "unborn"
           /\ \A v \in Workers \ {w} : wpc'[v] = wpc[v] /\ worker_lock'[v] = worker_lock[v]
           /\ HasTid(w) => HasTid(w)'
           /\ worker_lock'[w] => worker_lock[w] \/ HasTid(w)'
           /\ worker_lock[w] => worker_lock'[w]
<1>. USE DEF WAt, WGoto, HasTid, TypeOK, flags, data, gVars, mVars
<1>1. CASE SetTid(w) BY <1>1 DEF SetTid
<1>2. CASE SetClass(w) BY <1>2 DEF SetClass
<1>3. CASE Announce(w) BY <1>3 DEF Announce
<1>4. CASE MarkIdle(w) BY <1>4 DEF MarkIdle
<1>5. CASE Loop(w) BY <1>5 DEF Loop
<1>6. CASE Look(w) BY <1>6 DEF Look
<1>7. CASE Check(w) BY <1>7 DEF Check
<1>8. CASE Load(w) BY <1>8 DEF Load
<1>9. CASE Handle(w) BY <1>9 DEF Handle
<1>10. CASE Reset(w) BY <1>10 DEF Reset
<1>11. QED
  BY <1>1, <1>2, <1>3, <1>4, <1>5, <1>6, <1>7, <1>8, <1>9, <1>10 DEF Worker

LEMMA MainByWorker ==
    ASSUME TypeOK, MainInv, NEW w \in Workers, Worker(w)
    PROVE  MainInv'
<1>1. mpc \notin {"release", "joingen", "done"} BY WorkerFrame DEF MainInv
<1>2. UNCHANGED <<mpc, mcur, ready, generator_lock, gpc>> /\ Workers' = Workers
  BY WorkerFrame DEF Workers
<1>3. mpc = "create" => \A v \in Workers : v >= mcur => wpc'[v] = "unborn"
  BY WorkerFrame DEF MainInv
<1>4. \A v \in Workers : worker_lock'[v] => HasTid(v)'
  <2>1. ASSUME NEW v \in Workers \ {w} PROVE HasTid(v)' <=> HasTid(v)
    BY WorkerFrame DEF HasTid
  <2>2. QED BY <2>1, WorkerFrame DEF MainInv
<1>5. \A v \in ready : worker_lock'[v]
  BY WorkerFrame DEF MainInv, TypeOK
<1>6. mpc = "join" => \A v \in 1 .. mcur - 1 : wpc'[v] = "done"
  <2>1. 1 .. mcur - 1 \subseteq Workers BY BelowMcur
  <2>2. QED BY <2>1, WorkerFrame DEF MainInv
<1>7. QED BY <1>1, <1>2, <1>3, <1>4, <1>5, <1>6 DEF MainInv

LEMMA MainByGenerator ==
    ASSUME TypeOK, MainInv, LoadGenerator
    PROVE  MainInv'
<1>1. UNCHANGED <<mpc, mcur, ready, generator_lock, worker_lock, wpc, filtered, handled>>
  BY DEF LoadGenerator, Wait2, Pass, LookAt, Clear, Poll, PollEnds, Publish, Confirm,
         MarkRunnable, Drain, Remark, flags, data, wVars, mVars
<1>2. gpc # "done" /\ (gpc = "wait" => generator_lock)
  BY DEF LoadGenerator, Wait2, Pass, LookAt, Clear, Poll, PollEnds, Publish, Confirm,
         MarkRunnable, Drain, Remark, GAt
<1>3. QED BY <1>1, <1>2 DEF MainInv, HasTid

\* A pass of main over the workers has done those before mcur.
LEMMA NextMcur ==
    ASSUME TypeOK, NEW after, MNext(after)
    PROVE  /\ mcur # NumWorkers => mpc' = mpc /\ 1 .. mcur' - 1 = (1 .. mcur - 1) \cup {mcur}
                                   /\ mcur' = mcur + 1
           /\ mcur = NumWorkers => mpc' = after /\ mcur' = 1 /\ 1 .. mcur' - 1 = {}
                                   /\ Workers = (1 .. mcur - 1) \cup {mcur}
<1>1. PICK m \in Workers : m = mcur BY BelowMcur
<1>2. m \in Nat /\ m >= 1 /\ NumWorkers \in Nat BY WorkersType DEF Workers
<1>3. 1 .. m + 1 - 1 = (1 .. m - 1) \cup {m} /\ 1 .. m = (1 .. m - 1) \cup {m} BY <1>2
<1>4. 1 .. 1 - 1 = {} OBVIOUS
<1>5. QED BY <1>1, <1>3, <1>4 DEF MNext, Workers

LEMMA MainByMain ==
    ASSUME IInv, Main
    PROVE  MainInv'
<1>0. TypeOK /\ MainInv /\ Workers' = Workers BY DEF IInv, Workers
<1>1. CASE CreateWorker
  <2>1. mpc = "create" /\ MNext("wait1") /\ wpc' = [wpc EXCEPT ![mcur] = "tid"]
    BY <1>1 DEF CreateWorker, MAt, WGoto
  <2>2. UNCHANGED <<ready, generator_lock, worker_lock, gpc>>
    BY <1>1 DEF CreateWorker, flags, gVars
  <2>3. ready = {} /\ ~generator_lock BY <1>0, <2>1 DEF MainInv
  <2>8. mcur \in Workers /\ mcur \in Int /\ mcur >= mcur
    <3>1. mcur \in Workers BY <1>0, BelowMcur
    <3>2. QED BY <3>1, WorkersType
  <2>4. \A w \in Workers : worker_lock[w] => HasTid(w)'
    <3>1. wpc[mcur] = "unborn" BY <1>0, <2>1, <2>8 DEF MainInv
    <3>2. QED BY <1>0, <2>1, <3>1 DEF MainInv, HasTid, TypeOK
  <2>5. CASE mcur # NumWorkers
    <3>1. mpc' = "create" /\ mcur' = mcur + 1 BY <1>0, <2>1, <2>5, NextMcur
    <3>2. \A w \in Workers : w >= mcur' => w >= mcur /\ w # mcur
      BY <2>8, <3>1 DEF Workers
    <3>3. \A w \in Workers : w >= mcur' => wpc'[w] = "unborn"
      BY <1>0, <2>1, <3>2 DEF MainInv, TypeOK
    <3>4. QED BY <1>0, <2>2, <2>3, <2>4, <3>1, <3>3 DEF MainInv
  <2>6. CASE mcur = NumWorkers
    <3>1. mpc' = "wait1" /\ 1 .. mcur' - 1 = {} BY <1>0, <2>1, <2>6, NextMcur
    <3>2. QED BY <1>0, <2>2, <2>3, <2>4, <3>1 DEF MainInv
  <2>7. QED BY <2>5, <2>6
<1>2. CASE Prepare
  <2>1. mpc = "wait1" /\ worker_lock[mcur] /\ ready' = ready \cup {mcur} /\ MNext("notify2")
    BY <1>2 DEF Prepare, MAt
  <2>2. UNCHANGED <<generator_lock, worker_lock, gpc, wpc>>
    BY <1>2 DEF Prepare, gVars, wVars
  <2>3. \A w \in ready' : worker_lock[w] BY <1>0, <2>1 DEF MainInv
  <2>4. ready = 1 .. mcur - 1 BY <1>0, <2>1 DEF MainInv
  <2>5. CASE mcur # NumWorkers
    <3>1. mpc' = "wait1" /\ ready' = 1 .. mcur' - 1 BY <1>0, <2>1, <2>4, <2>5, NextMcur
    <3>2. QED BY <1>0, <2>1, <2>2, <2>3, <3>1 DEF MainInv, HasTid
  <2>6. CASE mcur = NumWorkers
    <3>1. mpc' = "notify2" /\ mcur' = 1 /\ ready' = Workers BY <1>0, <2>1, <2>4, <2>6, NextMcur
    <3>2. QED BY <1>0, <2>1, <2>2, <2>3, <3>1 DEF MainInv, HasTid
  <2>7. QED BY <2>5, <2>6
<1>3. CASE Notify2
  BY <1>0, <1>3 DEF MainInv, HasTid, Notify2, MAt, wVars, gVars
<1>4. CASE Terminal
  <2>1. mpc = "run" /\ ended = "none" /\ mpc' \in {"run", "join"}
    BY <1>4, PrintStageHolds DEF Terminal, MAt, MustHold, PrintStage
  <2>2. UNCHANGED <<ready, generator_lock, worker_lock, gpc, wpc, mcur>>
    BY <1>4 DEF Terminal, wVars, gVars
  <2>3. mcur = 1 /\ 1 .. mcur - 1 = {} BY <1>0, <2>1 DEF MainInv
  <2>4. QED BY <1>0, <2>1, <2>2, <2>3 DEF MainInv, HasTid
<1>5. CASE JoinWorker
  <2>1. mpc = "join" /\ wpc[mcur] = "done" /\ MNext("release")
    BY <1>5 DEF JoinWorker, MAt
  <2>2. UNCHANGED <<ready, generator_lock, worker_lock, gpc, wpc>>
    BY <1>5 DEF JoinWorker, flags, gVars, wVars
  <2>3. \A w \in (1 .. mcur - 1) \cup {mcur} : wpc[w] = "done"
    BY <1>0, <2>1 DEF MainInv
  <2>4. CASE mcur # NumWorkers
    <3>1. mpc' = "join" /\ 1 .. mcur' - 1 = (1 .. mcur - 1) \cup {mcur}
      BY <1>0, <2>1, <2>4, NextMcur
    <3>2. QED BY <1>0, <2>1, <2>2, <2>3, <3>1 DEF MainInv, HasTid
  <2>5. CASE mcur = NumWorkers
    <3>1. mpc' = "release" /\ \A w \in Workers : wpc[w] = "done"
      BY <1>0, <2>1, <2>3, <2>5, NextMcur
    <3>2. QED BY <1>0, <2>1, <2>2, <3>1 DEF MainInv, HasTid
  <2>6. QED BY <2>4, <2>5
<1>6. CASE Release
  BY <1>0, <1>6 DEF MainInv, HasTid, Release, MAt, wVars, gVars
<1>7. CASE JoinGenerator
  <2>1. mpc = "joingen" /\ gpc = "done" /\ ended = "none" /\ mpc' \in {"joingen", "done"}
    BY <1>7, PrintStageHolds DEF JoinGenerator, MAt, MustHold, PrintStage
  <2>2. UNCHANGED <<ready, generator_lock, worker_lock, gpc, wpc, mcur, handled>>
    BY <1>7 DEF JoinGenerator, flags, data, wVars, gVars
  <2>3. FilterRequests' = FilterRequests BY <2>2 DEF FilterRequests, Places, At, Workers
  <2>4. filtered' = FilterRequests BY <1>7 DEF JoinGenerator
  <2>5. QED BY <1>0, <2>1, <2>2, <2>3, <2>4 DEF MainInv, HasTid
<1>8. QED BY <1>1, <1>2, <1>3, <1>4, <1>5, <1>6, <1>7 DEF Main

LEMMA MainStep ==
    ASSUME IInv, Next
    PROVE  MainInv'
<1>0. TypeOK /\ MainInv BY DEF IInv
<1>1. CASE Main BY <1>1, MainByMain
<1>2. CASE LoadGenerator BY <1>0, <1>2, MainByGenerator
<1>3. ASSUME NEW w \in Workers, Worker(w) PROVE MainInv' BY <1>0, <1>3, MainByWorker
<1>4. CASE SigInt \/ SigAlrm
  <2>1. UNCHANGED <<mpc, mcur, ready, generator_lock, worker_lock, gpc, wpc, handled, filtered>>
    BY <1>4 DEF SigInt, SigAlrm, data, wVars, gVars, mVars
  <2>2. FilterRequests' = FilterRequests BY <2>1 DEF FilterRequests, Places, At, Workers
  <2>3. QED BY <1>0, <2>1, <2>2 DEF MainInv, HasTid, Workers
<1>5. QED BY <1>1, <1>2, <1>3, <1>4 DEF Next

-----------------------------------------------------------------------------
(* The handshake.                                                          *)

-----------------------------------------------------------------------------
(* The handshake.                                                          *)

LEMMA HandshakeFrame ==
    ASSUME NEW v \in Workers, Handshake(v), UNCHANGED <<gpc, gcur>>,
           mark'[v] = mark[v], num_requests'[v] = num_requests[v], batch'[v] = batch[v],
           wpc'[v] = wpc[v], n'[v] = n[v], i'[v] = i[v]
    PROVE  Handshake(v)'
BY DEF Handshake, Started, Serving

LEMMA HandshakeByWorker ==
    ASSUME TypeOK, HandshakeInv, NEW w \in Workers, Worker(w)
    PROVE  HandshakeInv'
<1>0. Handshake(w) BY DEF HandshakeInv
<1>. USE DEF WAt, WGoto
<1>1. UNCHANGED <<batch, gpc, gcur>>
  BY DEF Worker, SetTid, SetClass, Announce, MarkIdle, Loop, Look, Check, Load, Handle, Reset,
         data, gVars
<1>2. ASSUME NEW v \in Workers \ {w}
      PROVE  /\ mark'[v] = mark[v] /\ num_requests'[v] = num_requests[v]
             /\ wpc'[v] = wpc[v] /\ n'[v] = n[v] /\ i'[v] = i[v]
  <2>. USE DEF TypeOK, data
  <2>1. CASE SetTid(w) \/ SetClass(w) \/ Announce(w) \/ MarkIdle(w) \/ Loop(w)
    BY <2>1 DEF SetTid, SetClass, Announce, MarkIdle, Loop
  <2>2. CASE Look(w) \/ Check(w) BY <2>2 DEF Look, Check
  <2>3. CASE Load(w) BY <2>3 DEF Load
  <2>4. CASE Handle(w) BY <2>4 DEF Handle
  <2>5. CASE Reset(w) BY <2>5 DEF Reset
  <2>6. QED BY <2>1, <2>2, <2>3, <2>4, <2>5 DEF Worker
<1>3. ASSUME NEW v \in Workers \ {w} PROVE Handshake(v)'
  <2>1. Handshake(v) BY DEF HandshakeInv
  <2>2. QED BY <1>1, <1>2, <2>1, HandshakeFrame
<1>4. Handshake(w)'
  <2>. USE DEF TypeOK, Handshake, Started, Serving, data, gVars
  <2>1. CASE SetTid(w) BY <1>0, <2>1 DEF SetTid
  <2>2. CASE SetClass(w) BY <1>0, <2>2 DEF SetClass
  <2>3. CASE Announce(w) BY <1>0, <2>3 DEF Announce
  <2>4. CASE MarkIdle(w)
    <3>1. num_requests[w] = 0 BY <1>0, <2>4 DEF MarkIdle
    <3>2. QED BY <1>0, <2>4, <3>1 DEF MarkIdle, IDLE, RUNNABLE
  <2>5. CASE Loop(w) BY <1>0, <2>5 DEF Loop
  <2>6. CASE Look(w) BY <1>0, <2>6 DEF Look
  <2>7. CASE Check(w) BY <1>0, <2>7 DEF Check
  <2>8. CASE Load(w) BY <1>0, <2>8 DEF Load
  <2>9. CASE Handle(w)
    <3>1. PICK m \in Nat, k \in Nat : m = n[w] /\ k = i[w] OBVIOUS
    <3>2. k < m BY <1>0, <2>9, <3>1 DEF Handle
    <3>7. wpc'[w] = IF k + 1 < m THEN "handle" ELSE "reset"
      BY <2>9, <3>1 DEF Handle
    <3>8. k + 1 < m \/ k + 1 = m
      <4>. HIDE DEF TypeOK
      <4>1. QED BY <3>2
    <3>3. IF k + 1 < m THEN wpc'[w] = "handle" ELSE wpc'[w] = "reset" /\ k + 1 = m
      BY <3>7, <3>8
    <3>4. i'[w] = k + 1 /\ n'[w] = m BY <2>9, <3>1 DEF Handle
    <3>5. UNCHANGED <<mark, num_requests>> /\ wpc[w] = "handle" BY <2>9 DEF Handle
    <3>6. QED BY <1>0, <1>1, <3>1, <3>3, <3>4, <3>5
  <2>10. CASE Reset(w) BY <1>0, <2>10 DEF Reset
  <2>11. QED
    BY <2>1, <2>2, <2>3, <2>4, <2>5, <2>6, <2>7, <2>8, <2>9, <2>10 DEF Worker
<1>5. QED BY <1>3, <1>4 DEF HandshakeInv, Workers

LEMMA HandshakeByGenerator ==
    ASSUME TypeOK, HandshakeInv, LoadGenerator
    PROVE  HandshakeInv'
<1>1. SUFFICES ASSUME NEW w \in Workers PROVE Handshake(w)'
  BY DEF HandshakeInv, Workers
<1>0. Handshake(w) BY DEF HandshakeInv
<1>. USE DEF TypeOK, Handshake, Started, Serving, GAt, IDLE, RUNNABLE
<1>2. CASE Wait2 BY <1>0, <1>2 DEF Wait2, data, wVars
<1>3. CASE Pass BY <1>0, <1>3 DEF Pass, data, wVars
<1>4. CASE LookAt BY <1>0, <1>4 DEF LookAt, NextWorker, data, wVars
<1>5. CASE Clear BY <1>0, <1>5 DEF Clear, wVars
<1>6. CASE Poll BY <1>0, <1>6 DEF Poll, wVars, gVars
<1>7. CASE PollEnds BY <1>0, <1>7 DEF PollEnds, data, wVars
<1>8. CASE Publish BY <1>0, <1>8 DEF Publish, wVars
<1>9. CASE Confirm BY <1>0, <1>9 DEF Confirm, data, wVars
<1>10. CASE MarkRunnable BY <1>0, <1>10 DEF MarkRunnable, NextWorker, data, wVars
<1>11. CASE Drain BY <1>0, <1>11 DEF Drain, data, wVars
<1>12. CASE Remark BY <1>0, <1>12 DEF Remark, NextWorker, data, wVars
<1>13. QED
  BY <1>2, <1>3, <1>4, <1>5, <1>6, <1>7, <1>8, <1>9, <1>10, <1>11, <1>12 DEF LoadGenerator

LEMMA HandshakeByMain ==
    ASSUME TypeOK, MainInv, HandshakeInv, Main \/ SigInt \/ SigAlrm
    PROVE  HandshakeInv'
<1>1. SUFFICES ASSUME NEW w \in Workers PROVE Handshake(w)'
  BY DEF HandshakeInv, Workers
<1>0. Handshake(w) BY DEF HandshakeInv
<1>2. CASE CreateWorker
  <2>1. UNCHANGED <<mark, gpc, gcur, num_requests, batch, n, i>>
    BY <1>2 DEF CreateWorker, data, gVars
  <2>2. wpc[mcur] = "unborn" /\ wpc' = [wpc EXCEPT ![mcur] = "tid"]
    <3>1. mcur \in Workers /\ mcur >= mcur
      <4>1. PICK m \in Workers : m = mcur BY BelowMcur
      <4>2. m >= m BY WorkersType
      <4>3. QED BY <4>1, <4>2
    <3>2. QED BY <1>2, <3>1 DEF CreateWorker, MAt, WGoto, MainInv
  <2>3. wpc'[w] = wpc[w] \/ (wpc[w] = "unborn" /\ wpc'[w] = "tid") BY <2>2 DEF TypeOK
  <2>4. QED BY <1>0, <2>1, <2>3 DEF Handshake, Started, Serving
<1>3. CASE ~CreateWorker
  <2>1. UNCHANGED <<mark, gpc, gcur, num_requests, batch, wpc, n, i>>
    BY <1>3 DEF Main, Prepare, Notify2, Terminal, JoinWorker, Release, JoinGenerator, SigInt, SigAlrm,
                data, wVars, gVars
  <2>2. QED BY <1>0, <2>1, HandshakeFrame
<1>4. QED BY <1>2, <1>3

-----------------------------------------------------------------------------
(* No request is lost or handed out twice.                                 *)

LEMMA WaitingFrame ==
    ASSUME NEW v \in Workers, batch'[v] = batch[v], num_requests'[v] = num_requests[v],
           Filling(v)' <=> Filling(v),
           wpc'[v] \in {"handle", "reset"} <=> wpc[v] \in {"handle", "reset"},
           wpc[v] \in {"handle", "reset"} => i'[v] = i[v]
    PROVE  Waiting(v)' = Waiting(v)
BY DEF Waiting

\* The request the worker handles leaves what waits at its head and is
\* appended to what it has handled.
LEMMA HeadMoves ==
    ASSUME NEW S, NEW h \in Seq(S), NEW b \in Seq(S), NEW k \in Nat, k < Len(b)
    PROVE  Append(h, b[k + 1]) \o SubSeq(b, k + 2, Len(b)) = h \o SubSeq(b, k + 1, Len(b))
<1>1. Len(b) \in Nat /\ k + 1 \in 1 .. Len(b) /\ Len(b) \in k + 1 .. Len(b) OBVIOUS
<1>2. PICK a \in S : a = b[k + 1] BY <1>1, ElementOfSeq
<1>3. PICK t : t = SubSeq(b, k + 2, Len(b)) OBVIOUS
<1>4. k + 1 + 1 = k + 2 OBVIOUS
<1>5. SubSeq(b, k + 1, Len(b)) = <<a>> \o t
  BY <1>1, <1>2, <1>3, <1>4, SubSeqRecursiveFirst
<1>6. t \in Seq(S)
  <2>1. k + 2 \in Int /\ Len(b) \in Int BY <1>1
  <2>2. ASSUME NEW j \in k + 2 .. Len(b) PROVE b[j] \in S
    <3>1. j \in 1 .. Len(b) BY <1>1
    <3>2. QED BY <3>1, ElementOfSeq
  <2>3. QED BY <1>3, <2>1, <2>2, SubSeqProperties
<1>7. <<a>> \in Seq(S) OBVIOUS
<1>8. Append(h, a) = h \o <<a>> BY AppendIsConcat
<1>9. (h \o <<a>>) \o t = h \o (<<a>> \o t) BY <1>6, <1>7, ConcatAssociative
<1>10. QED BY <1>2, <1>3, <1>5, <1>8, <1>9

LEMMA GivenByWorker ==
    ASSUME IInv, TypeOK', HandshakeInv', NEW w \in Workers, Worker(w)
    PROVE  Given' = Given /\ sent' = sent
<1>0. TypeOK /\ HandshakeInv /\ WaitingIs(w) BY WaitingValue DEF IInv
<1>2. WaitingIs(w)' BY WaitingValuesNext DEF Workers
<1>3. UNCHANGED <<batch, sent, gpc, gcur>>
  BY DEF Worker, SetTid, SetClass, Announce, MarkIdle, Loop, Look, Check, Load, Handle, Reset,
         data, gVars
<1>4. ASSUME NEW v \in Workers \ {w} PROVE Waiting(v)' = Waiting(v)
  <2>1. num_requests'[v] = num_requests[v] /\ wpc'[v] = wpc[v] /\ i'[v] = i[v]
    <3>1. CASE Load(w) BY <1>0, <3>1 DEF Load, data, WGoto, TypeOK
    <3>2. CASE ~Load(w)
      BY <1>0, <3>2 DEF Worker, SetTid, SetClass, Announce, MarkIdle, Loop, Look, Check, Handle, Reset,
                        data, WGoto, TypeOK
    <3>3. QED BY <3>1, <3>2
  <2>2. Filling(v)' <=> Filling(v) BY <1>3 DEF Filling
  <2>3. QED BY <1>3, <2>1, <2>2, WaitingFrame
<1>5. Filling(w)' <=> Filling(w) BY <1>3 DEF Filling
<1>6. Filling(w) => wpc[w] \notin {"check", "load", "handle", "reset", "idle"}
  BY <1>0, ServedIsIdle DEF Filling, Serving
<1>7. ASSUME handled' = handled, Waiting(w)' = Waiting(w)
      PROVE  Given' = Given
  BY <1>4, <1>7 DEF Given, Workers
<1>8. CASE SetTid(w) \/ SetClass(w) \/ Announce(w) \/ MarkIdle(w) \/ Loop(w) \/ Look(w) \/ Check(w)
  <2>1. /\ UNCHANGED <<handled, num_requests, i>>
        /\ wpc[w] \notin {"handle", "reset"} /\ wpc'[w] \notin {"handle", "reset"}
    BY <1>0, <1>8 DEF SetTid, SetClass, Announce, MarkIdle, Loop, Look, Check, data, WAt, WGoto, TypeOK
  <2>2. Waiting(w)' = Waiting(w) BY <1>3, <1>5, <2>1, WaitingFrame
  <2>3. QED BY <1>3, <1>7, <2>1, <2>2
<1>9. CASE Load(w)
  <2>1. wpc[w] = "load" /\ UNCHANGED <<handled, num_requests>> BY <1>9 DEF Load, WAt, data
  <2>2. ~Filling(w) /\ ~Filling(w)' BY <1>5, <1>6, <2>1
  <2>3. CASE num_requests[w] = 0
    <3>1. wpc'[w] = "loop" BY <1>0, <1>9, <2>3 DEF Load, WGoto, TypeOK
    <3>2. Waiting(w)' = Waiting(w) BY <1>3, <1>5, <2>1, <3>1, WaitingFrame
    <3>3. QED BY <1>3, <1>7, <2>1, <3>2
  <2>4. CASE num_requests[w] # 0
    <3>1. wpc'[w] = "handle" /\ i'[w] = 0 BY <1>0, <1>9, <2>4 DEF Load, WGoto, TypeOK
    <3>2. PICK b \in Seq(1 .. MaxRequests) : b = batch[w] BY <1>0 DEF TypeOK
    <3>3. Waiting(w) = b BY <1>0, <2>1, <2>2, <2>4, <3>2 DEF WaitingIs
    <3>4. Waiting(w)' = SubSeq(b, 0 + 1, Len(b)) BY <1>2, <1>3, <3>1, <3>2 DEF WaitingIs
    <3>5. SubSeq(b, 0 + 1, Len(b)) = b BY SubSeqFull
    <3>6. QED BY <1>3, <1>7, <2>1, <3>3, <3>4, <3>5
  <2>5. QED BY <2>3, <2>4
<1>10. CASE Handle(w)
  <2>1. wpc[w] = "handle" BY <1>10 DEF Handle, WAt
  <2>2. PICK b \in Seq(1 .. MaxRequests), h \in Seq(1 .. MaxRequests), k \in Nat :
            b = batch[w] /\ h = handled[w] /\ k = i[w]
    <3>1. /\ batch[w] \in Seq(1 .. MaxRequests) /\ handled[w] \in Seq(1 .. MaxRequests)
          /\ i[w] \in Nat
      BY <1>0 DEF TypeOK
    <3>2. QED BY <3>1, Zenon
  <2>3. k < Len(b) /\ n[w] = Len(b) BY <1>0, <1>10, <2>2, HandleElement
  <2>4. handled' = [handled EXCEPT ![w] = Append(h, b[k + 1])] BY <1>10, <2>2 DEF Handle
  <2>5. Waiting(w) = SubSeq(b, k + 1, Len(b)) BY <1>0, <2>1, <2>2 DEF WaitingIs
  <2>6. Waiting(w)' = SubSeq(b, k + 2, Len(b))
    <3>1. i'[w] = k + 1 /\ wpc'[w] = IF k + 1 < Len(b) THEN "handle" ELSE "reset"
      BY <1>0, <1>10, <2>2, <2>3 DEF Handle, WGoto, TypeOK
    <3>2. CASE k + 1 < Len(b)
      <4>1. Waiting(w)' = SubSeq(b, (k + 1) + 1, Len(b))
        BY <1>2, <1>3, <2>2, <3>1, <3>2 DEF WaitingIs
      <4>2. (k + 1) + 1 = k + 2 OBVIOUS
      <4>3. QED BY <4>1, <4>2
    <3>3. CASE ~(k + 1 < Len(b))
      <4>1. Waiting(w)' = <<>> BY <1>2, <3>1, <3>3 DEF WaitingIs
      <4>2. Len(b) \in Int /\ k + 2 \in Int /\ Len(b) < k + 2 BY <2>3, <3>3
      <4>3. SubSeq(b, k + 2, Len(b)) = <<>> BY <4>2, SubSeqEmpty
      <4>4. QED BY <4>1, <4>3
    <3>4. QED BY <3>2, <3>3
  <2>7. handled'[w] \o Waiting(w)' = handled[w] \o Waiting(w)
    <3>1. handled'[w] = Append(h, b[k + 1]) BY <1>0, <2>4 DEF TypeOK
    <3>2. Append(h, b[k + 1]) \o SubSeq(b, k + 2, Len(b)) = h \o SubSeq(b, k + 1, Len(b))
      BY <2>3, HeadMoves
    <3>3. QED BY <2>2, <2>5, <2>6, <3>1, <3>2, Zenon
  <2>8. \A v \in Workers \ {w} : handled'[v] = handled[v] BY <1>0, <2>4 DEF TypeOK
  <2>9. \A v \in Workers : handled'[v] \o Waiting(v)' = handled[v] \o Waiting(v)
    BY <1>4, <2>7, <2>8
  <2>10. QED BY <1>3, <2>9 DEF Given, Workers
<1>11. CASE Reset(w)
  <2>1. wpc[w] = "reset" /\ wpc'[w] = "idle" /\ num_requests'[w] = 0 /\ UNCHANGED handled
    BY <1>0, <1>11 DEF Reset, WAt, WGoto, TypeOK
  <2>2. ~Filling(w)' BY <1>5, <1>6, <2>1
  <2>3. Waiting(w) = <<>> BY <1>0, <2>1 DEF WaitingIs
  <2>4. Waiting(w)' = <<>> BY <1>2, <2>1, <2>2 DEF WaitingIs
  <2>5. QED BY <1>3, <1>7, <2>1, <2>3, <2>4
<1>12. QED BY <1>8, <1>9, <1>10, <1>11 DEF Worker

\* A request that is polled is given to the worker the generator looks at.
GivenMore ==
    \E w \in Workers : sent' = sent + 1 /\ Given' = [Given EXCEPT ![w] = Append(@, sent')]

LEMMA GivenByGenerator ==
    ASSUME IInv, TypeOK', HandshakeInv', LoadGenerator
    PROVE  (Given' = Given /\ sent' = sent) \/ GivenMore
<1>0. TypeOK /\ HandshakeInv /\ gcur \in Workers /\ \A v \in Workers : WaitingIs(v)
  BY WaitingValue DEF IInv, TypeOK
<1>1. \A v \in Workers : WaitingIs(v)' BY WaitingValuesNext DEF Workers
<1>2. UNCHANGED <<wpc, i, handled>>
  BY DEF LoadGenerator, Wait2, Pass, LookAt, Clear, Poll, PollEnds, Publish, Confirm,
         MarkRunnable, Drain, Remark, data, wVars
<1>3. ASSUME \A v \in Workers : Waiting(v)' = Waiting(v) PROVE Given' = Given
  BY <1>2, <1>3 DEF Given, Workers
<1>4. ASSUME UNCHANGED <<batch, num_requests>>, \A v \in Workers : Filling(v)' <=> Filling(v)
      PROVE  Given' = Given
  <2>1. ASSUME NEW v \in Workers PROVE Waiting(v)' = Waiting(v)
    BY <1>2, <1>4, WaitingFrame
  <2>2. QED BY <1>3, <2>1
<1>5. ASSUME NEW v \in Workers, v # gcur, batch'[v] = batch[v], num_requests'[v] = num_requests[v],
             gcur' = gcur
      PROVE  Waiting(v)' = Waiting(v)
  <2>1. ~Filling(v) /\ ~Filling(v)' BY <1>5 DEF Filling
  <2>2. QED BY <1>2, <1>5, <2>1, WaitingFrame
<1>6. ASSUME gpc \in {"clear", "poll", "publish"}
      PROVE  wpc[gcur] \notin {"handle", "reset"} /\ num_requests[gcur] = 0
  BY <1>0, <1>6, ServedIsIdle DEF Serving
<1>7. CASE Wait2 \/ Pass \/ LookAt \/ Confirm \/ MarkRunnable \/ Drain \/ Remark
  <2>1. UNCHANGED <<batch, num_requests, sent>>
    BY <1>7 DEF Wait2, Pass, LookAt, Confirm, MarkRunnable, Drain, Remark, data
  <2>2. \A v \in Workers : ~Filling(v) /\ ~Filling(v)'
    BY <1>7 DEF Wait2, Pass, LookAt, Confirm, MarkRunnable, Drain, Remark, GAt, NextWorker, Filling
  <2>3. QED BY <1>4, <2>1, <2>2
<1>8. CASE Clear
  <2>1. /\ gpc = "clear" /\ gpc' = "poll" /\ gcur' = gcur /\ UNCHANGED <<num_requests, sent>>
        /\ batch' = [batch EXCEPT ![gcur] = <<>>]
    BY <1>8 DEF Clear, GAt
  <2>2. batch'[gcur] = <<>> /\ \A v \in Workers : v # gcur => batch'[v] = batch[v]
    BY <1>0, <2>1 DEF TypeOK
  <2>3. Waiting(gcur) = <<>> BY <1>0, <1>6, <2>1 DEF WaitingIs, Filling
  <2>4. ASSUME NEW v \in Workers, v = gcur PROVE Waiting(v)' = <<>>
    BY <1>1, <2>1, <2>2, <2>4 DEF WaitingIs, Filling
  <2>5. \A v \in Workers : Waiting(v)' = Waiting(v)
    BY <1>5, <2>1, <2>2, <2>3, <2>4
  <2>6. QED BY <1>3, <2>1, <2>5
<1>9. CASE Poll
  <2>1. /\ gpc = "poll" /\ gpc' = "poll" /\ gcur' = gcur /\ UNCHANGED num_requests
        /\ sent' = sent + 1 /\ batch' = [batch EXCEPT ![gcur] = Append(@, sent')]
    BY <1>9 DEF Poll, PollRequest, GAt, gVars
  <2>2. PICK b \in Seq(1 .. MaxRequests), h \in Seq(1 .. MaxRequests) :
            b = batch[gcur] /\ h = handled[gcur]
    <3>1. batch[gcur] \in Seq(1 .. MaxRequests) /\ handled[gcur] \in Seq(1 .. MaxRequests)
      BY <1>0 DEF TypeOK
    <3>2. QED BY <3>1, Zenon
  <2>3. PICK r \in 1 .. MaxRequests : r = sent'
    BY <1>9 DEF Poll, PollRequest, HasNewArrival, TypeOK
  <2>4. batch'[gcur] = Append(b, r) /\ \A v \in Workers : v # gcur => batch'[v] = batch[v]
    BY <1>0, <2>1, <2>2, <2>3 DEF TypeOK
  <2>5. Waiting(gcur) = b BY <1>0, <2>1, <2>2 DEF WaitingIs, Filling
  <2>6. ASSUME NEW v \in Workers, v = gcur PROVE Waiting(v)' = Append(b, r)
    BY <1>1, <2>1, <2>4, <2>6 DEF WaitingIs, Filling
  <2>7. h \o Append(b, r) = Append(h \o b, r)
    <3>1. Append(b, r) = b \o <<r>> /\ <<r>> \in Seq(1 .. MaxRequests) BY AppendIsConcat
    <3>2. h \o b \in Seq(1 .. MaxRequests) BY ConcatProperties
    <3>3. Append(h \o b, r) = (h \o b) \o <<r>> BY <3>2, AppendIsConcat
    <3>4. (h \o b) \o <<r>> = h \o (b \o <<r>>) BY <3>1, ConcatAssociative
    <3>5. QED BY <3>1, <3>3, <3>4
  <2>8. \A v \in Workers : v # gcur => handled'[v] \o Waiting(v)' = handled[v] \o Waiting(v)
    BY <1>2, <1>5, <2>1, <2>4
  <2>9. \A v \in Workers : v = gcur => handled'[v] \o Waiting(v)' = Append(h \o b, r)
    BY <1>2, <2>2, <2>6, <2>7
  <2>10. Given[gcur] = h \o b BY <1>0, <2>2, <2>5 DEF Given
  <2>11. Given' = [Given EXCEPT ![gcur] = Append(@, r)]
    BY <2>8, <2>9, <2>10 DEF Given, Workers
  <2>12. QED BY <1>0, <2>1, <2>3, <2>11 DEF GivenMore
<1>10. CASE PollEnds
  <2>1. gpc = "poll" /\ gcur' = gcur /\ UNCHANGED <<num_requests, batch, sent>>
    BY <1>10 DEF PollEnds, GAt, data
  <2>2. CASE batch[gcur] = <<>>
    <3>1. gpc' = "pass" BY <1>10, <2>2 DEF PollEnds
    <3>2. Waiting(gcur) = <<>> BY <1>0, <2>1, <2>2 DEF WaitingIs, Filling
    <3>3. ASSUME NEW v \in Workers, v = gcur PROVE Waiting(v)' = <<>>
      BY <1>1, <1>2, <1>6, <2>1, <3>1, <3>3 DEF WaitingIs, Filling
    <3>4. \A v \in Workers : Waiting(v)' = Waiting(v) BY <1>5, <2>1, <3>2, <3>3
    <3>5. QED BY <1>3, <2>1, <3>4
  <2>3. CASE batch[gcur] # <<>>
    <3>1. gpc' = "publish" BY <1>10, <2>3 DEF PollEnds
    <3>2. \A v \in Workers : Filling(v)' <=> Filling(v) BY <2>1, <3>1 DEF Filling
    <3>3. QED BY <1>4, <2>1, <3>2
  <2>4. QED BY <2>2, <2>3
<1>11. CASE Publish
  <2>1. /\ gpc = "publish" /\ gpc' = "confirm" /\ gcur' = gcur /\ UNCHANGED <<batch, sent>>
        /\ num_requests' = [num_requests EXCEPT ![gcur] = Len(batch[gcur])]
    BY <1>11 DEF Publish, GAt
  <2>2. /\ num_requests'[gcur] = Len(batch[gcur])
        /\ \A v \in Workers : v # gcur => num_requests'[v] = num_requests[v]
    BY <1>0, <2>1 DEF TypeOK
  <2>3. Waiting(gcur) = batch[gcur] BY <1>0, <2>1 DEF WaitingIs, Filling
  <2>4. batch[gcur] \in Seq(1 .. MaxRequests) BY <1>0 DEF TypeOK
  <2>5. Len(batch[gcur]) = 0 => batch[gcur] = <<>> BY <2>4, EmptySeq
  <2>6. ASSUME NEW v \in Workers, v = gcur PROVE Waiting(v)' = batch[gcur]
    BY <1>1, <1>2, <1>6, <2>1, <2>2, <2>5, <2>6 DEF WaitingIs, Filling
  <2>7. \A v \in Workers : Waiting(v)' = Waiting(v) BY <1>5, <2>1, <2>2, <2>3, <2>6
  <2>8. QED BY <1>3, <2>1, <2>7
<1>12. QED BY <1>7, <1>8, <1>9, <1>10, <1>11 DEF LoadGenerator

LEMMA GivenByMain ==
    ASSUME IInv, Main \/ SigInt \/ SigAlrm
    PROVE  Given' = Given /\ sent' = sent
<1>0. TypeOK /\ MainInv BY DEF IInv
<1>1. UNCHANGED <<batch, num_requests, handled, sent, i, gpc, gcur>>
  BY DEF Main, CreateWorker, Prepare, Notify2, Terminal, JoinWorker, Release, JoinGenerator,
         SigInt, SigAlrm, data, wVars, gVars
<1>2. ASSUME NEW v \in Workers
      PROVE  wpc'[v] \in {"handle", "reset"} <=> wpc[v] \in {"handle", "reset"}
  <2>1. CASE CreateWorker
    <3>1. mcur \in Workers /\ mcur >= mcur
      <4>1. PICK m \in Workers : m = mcur BY <1>0, BelowMcur
      <4>2. m >= m BY WorkersType
      <4>3. QED BY <4>1, <4>2
    <3>2. wpc[mcur] = "unborn" /\ wpc' = [wpc EXCEPT ![mcur] = "tid"]
      BY <1>0, <2>1, <3>1 DEF CreateWorker, MAt, WGoto, MainInv
    <3>3. QED BY <1>0, <3>2 DEF TypeOK
  <2>2. CASE ~CreateWorker
    BY <2>2 DEF Main, Prepare, Notify2, Terminal, JoinWorker, Release, JoinGenerator,
                SigInt, SigAlrm, wVars
  <2>3. QED BY <2>1, <2>2
<1>3. ASSUME NEW v \in Workers PROVE Waiting(v)' = Waiting(v)
  <2>1. Filling(v)' <=> Filling(v) BY <1>1 DEF Filling
  <2>2. QED BY <1>1, <1>2, <2>1, WaitingFrame
<1>4. QED BY <1>1, <1>3 DEF Given, Workers

LEMMA GivenKept ==
    ASSUME GivenInv, Given' = Given, sent' = sent
    PROVE  GivenInv'
BY DEF GivenInv, Places, At, Workers

LEMMA GivenExtended ==
    ASSUME TypeOK, HandshakeInv, GivenInv, GivenMore
    PROVE  GivenInv'
<1>1. PICK w \in Workers : sent' = sent + 1 /\ Given' = [Given EXCEPT ![w] = Append(@, sent')]
  BY DEF GivenMore
<1>2. PICK g, h, r, s : g = Given /\ h = Given' /\ r = sent' /\ s = sent OBVIOUS
<1>3. g \in [Workers -> Seq(1 .. MaxRequests)] /\ s \in Nat
  <2>1. sent \in Nat BY DEF TypeOK
  <2>2. Given \in [Workers -> Seq(1 .. MaxRequests)] BY GivenType
  <2>3. QED BY <1>2, <2>1, <2>2
<1>4. PICK l \in Nat : l = Len(g[w]) BY <1>3
<1>5. r = s + 1 /\ h = [g EXCEPT ![w] = Append(g[w], r)] BY <1>1, <1>2
<1>6. \A v \in Workers : v # w => h[v] = g[v] BY <1>3, <1>5
<1>7. /\ DOMAIN h[w] = (DOMAIN g[w]) \cup {l + 1} /\ l + 1 \notin DOMAIN g[w]
      /\ h[w][l + 1] = r /\ \A j \in DOMAIN g[w] : h[w][j] = g[w][j]
  <2>1. PICK q \in Seq(1 .. MaxRequests) : q = g[w] BY <1>3
  <2>2. PICK t : t = Append(q, r) OBVIOUS
  <2>3. Len(q) = l /\ DOMAIN q = 1 .. l BY <1>4, <2>1
  <2>4. DOMAIN t = 1 .. l + 1 /\ t[l + 1] = r /\ \A j \in 1 .. l : t[j] = q[j]
    BY <2>2, <2>3
  <2>5. 1 .. l + 1 = (1 .. l) \cup {l + 1} /\ l + 1 \notin 1 .. l OBVIOUS
  <2>6. h[w] = t BY <1>3, <1>5, <2>1, <2>2
  <2>7. QED BY <2>1, <2>3, <2>4, <2>5, <2>6
<1>8. Places(h) = Places(g) \cup {<<w, l + 1>>} /\ <<w, l + 1>> \notin Places(g)
  BY <1>6, <1>7 DEF Places
<1>9. At(h, <<w, l + 1>>) = r /\ \A p \in Places(g) : At(h, p) = At(g, p)
  <2>1. At(h, <<w, l + 1>>) = r BY <1>7 DEF At
  <2>2. ASSUME NEW p \in Places(g) PROVE At(h, p) = At(g, p)
    <3>1. PICK v \in Workers : p \in {v} \X DOMAIN g[v] BY DEF Places
    <3>2. PICK j \in DOMAIN g[v] : p = <<v, j>> BY <3>1
    <3>3. h[v][j] = g[v][j] BY <1>6, <1>7
    <3>4. QED BY <3>2, <3>3 DEF At
  <2>3. QED BY <2>1, <2>2
<1>10. /\ \A p \in Places(g) : At(g, p) \in 1 .. s
       /\ \A p, q \in Places(g) : At(g, p) = At(g, q) => p = q
       /\ \A x \in 1 .. s : \E p \in Places(g) : At(g, p) = x
  BY <1>2 DEF GivenInv
<1>11. r \notin 1 .. s /\ 1 .. r = (1 .. s) \cup {r} BY <1>3, <1>5
<1>12. \A p \in Places(h) : At(h, p) \in 1 .. r BY <1>8, <1>9, <1>10, <1>11
<1>13. \A p, q \in Places(h) : At(h, p) = At(h, q) => p = q
  BY <1>8, <1>9, <1>10, <1>11
<1>14. \A x \in 1 .. r : \E p \in Places(h) : At(h, p) = x
  BY <1>8, <1>9, <1>10, <1>11
<1>15. QED BY <1>2, <1>12, <1>13, <1>14 DEF GivenInv, Places, At, Workers

-----------------------------------------------------------------------------
(* The theorems.                                                           *)

LEMMA InitLemma ==
    ASSUME Init
    PROVE  IInv
<1>1. TypeOK
  <2>1. <<>> \in Seq(1 .. MaxRequests) /\ Len(<<>>) = 0 OBVIOUS
  <2>2. {batch, handled} \subseteq [Workers -> Seq(1 .. MaxRequests)]
    BY <2>1 DEF Init
  <2>3. \A w \in Workers : Len(batch[w]) <= Batch BY <2>1, WorkersType DEF Init
  <2>4. filtered \subseteq Places(handled) BY DEF Init
  <2>5. 0 \in 0 .. Batch /\ 0 \in 0 .. MaxRequests /\ 1 \in Workers BY WorkersType
  <2>6. /\ num_requests \in [Workers -> 0 .. Batch] /\ sent \in 0 .. MaxRequests
        /\ n \in [Workers -> 0 .. Batch] /\ i \in [Workers -> 0 .. Batch]
    BY <2>5 DEF Init
  <2>7. /\ mark \in [Workers -> {RUNNABLE, IDLE}] /\ worker_lock \in [Workers -> BOOLEAN]
        /\ wpc \in [Workers -> {"unborn", "tid", "class", "announce", "first", "loop", "look",
                               "check", "load", "handle", "reset", "idle", "done"}]
    BY DEF Init
  <2>8. /\ ready \subseteq Workers /\ gcur \in Workers /\ mcur \in Workers
        /\ {generator_lock, should_exit, exit_all, exit_generator} \subseteq BOOLEAN
        /\ {force_exit, short} \subseteq BOOLEAN
    BY <2>5 DEF Init
  <2>9. gpc = "wait" /\ mpc = "create" /\ ended = "none" BY DEF Init
  <2>10. QED BY <2>2, <2>3, <2>4, <2>6, <2>7, <2>8, <2>9 DEF TypeOK
<1>2. NoAssertFails BY DEF Init, NoAssertFails
<1>3. MainInv BY DEF Init, MainInv
<1>4. HandshakeInv BY DEF Init, HandshakeInv, Handshake, Started, Serving, RUNNABLE, IDLE
<1>5. GivenInv
  <2>1. \A w \in Workers : WaitingIs(w) BY <1>1, <1>4, WaitingValue
  <2>2. \A w \in Workers : Waiting(w) = <<>> BY <2>1 DEF Init, WaitingIs, Filling
  <2>3. <<>> \o <<>> = <<>> OBVIOUS
  <2>4. \A w \in Workers : Given[w] = <<>> BY <2>2, <2>3 DEF Given, Init
  <2>5. DOMAIN <<>> = {} OBVIOUS
  <2>6. Places(Given) = {} BY <2>4, <2>5 DEF Places
  <2>7. sent = 0 /\ 1 .. 0 = {} BY DEF Init
  <2>8. QED BY <2>6, <2>7 DEF GivenInv
<1>6. QED BY <1>1, <1>2, <1>3, <1>4, <1>5 DEF IInv

LEMMA StepLemma ==
    ASSUME IInv, Next
    PROVE  IInv'
<1>0. TypeOK /\ MainInv /\ HandshakeInv /\ GivenInv BY DEF IInv
<1>1. NoAssertFails' /\ MainInv' BY AssertsHold, MainStep
<1>2. CASE Main \/ SigInt \/ SigAlrm
  <2>1. TypeOK' BY <1>0, <1>2, MainType, SignalType
  <2>2. HandshakeInv' BY <1>0, <1>2, HandshakeByMain
  <2>3. GivenInv' BY <1>0, <1>2, GivenByMain, GivenKept
  <2>4. QED BY <1>1, <2>1, <2>2, <2>3 DEF IInv
<1>3. CASE LoadGenerator
  <2>1. TypeOK' BY <1>0, <1>3, GeneratorType
  <2>2. HandshakeInv' BY <1>0, <1>3, HandshakeByGenerator
  <2>3. GivenInv'
    <3>1. (Given' = Given /\ sent' = sent) \/ GivenMore BY <1>3, <2>1, <2>2, GivenByGenerator
    <3>2. QED BY <1>0, <3>1, GivenKept, GivenExtended
  <2>4. QED BY <1>1, <2>1, <2>2, <2>3 DEF IInv
<1>4. ASSUME NEW w \in Workers, Worker(w) PROVE IInv'
  <2>1. TypeOK' BY <1>0, <1>4, WorkerType
  <2>2. HandshakeInv' BY <1>0, <1>4, HandshakeByWorker
  <2>3. Given' = Given /\ sent' = sent BY <1>4, <2>1, <2>2, GivenByWorker
  <2>4. GivenInv' BY <1>0, <2>3, GivenKept
  <2>5. QED BY <1>1, <2>1, <2>2, <2>4 DEF IInv
<1>5. QED BY <1>2, <1>3, <1>4 DEF Next

LEMMA StutterLemma ==
    ASSUME IInv, UNCHANGED vars
    PROVE  IInv'
<1>1. Workers' = Workers BY DEF Workers
<1>2. TypeOK' /\ NoAssertFails' /\ MainInv'
  <2>. USE DEF IInv, vars, flags, data, wVars, gVars, mVars, endVars
  <2>1. TypeOK' BY DEF TypeOK
  <2>2. NoAssertFails' BY DEF NoAssertFails, EndedOtherwise
  <2>3. FilterRequests' = FilterRequests BY DEF FilterRequests, Places, At, Workers
  <2>4. MainInv' BY <1>1, <2>3 DEF MainInv, HasTid
  <2>5. QED BY <2>1, <2>2, <2>4
<1>3. HandshakeInv'
  BY <1>1 DEF IInv, HandshakeInv, Handshake, Started, Serving, vars, data, wVars, gVars
<1>4. Given' = Given /\ sent' = sent
  BY <1>1 DEF Given, Waiting, Filling, vars, data, wVars, gVars
<1>5. GivenInv' BY <1>4, GivenKept DEF IInv
<1>6. QED BY <1>2, <1>3, <1>5 DEF IInv

\* The mark, the count and the batch of each worker are the generator's or
\* the worker's, never both's, and every request is with one of them.
THEOREM Inductive == Spec => []IInv
<1>1. Init => IInv BY InitLemma
<1>2. IInv /\ [Next]_vars => IInv' BY StepLemma, StutterLemma
<1>3. QED BY <1>1, <1>2, PTL DEF Spec

\* TypeOK for any number of workers, batch size and number of requests.
THEOREM TypeCorrect == Spec => []TypeOK
<1>1. IInv => TypeOK BY DEF IInv
<1>2. QED BY <1>1, Inductive, PTL

\* The asserts of the worker and of the generator, and the at() of PrintStage
\* (rocksdb.cpp:462, :469-470, :529, :552, :556, :706-713), hold whatever the
\* interleaving of the workers, the generator, main and the signals.
THEOREM AssertsNeverFail == Spec => []NoAssertFails
<1>1. IInv => NoAssertFails BY DEF IInv
<1>2. QED BY <1>1, Inductive, PTL

\* The vector of requests has one user at a time (rocksdb.cpp:472-485,
\* :532-546), without a lock.
THEOREM OneAtABatch == Spec => []BatchOwned
<1>1. ASSUME IInv PROVE BatchOwned
  <2>1. TypeOK /\ HandshakeInv BY <1>1 DEF IInv
  <2>2. \A w \in Workers : Serving(w) => wpc[w] \notin {"handle", "reset"}
    BY <2>1, ServedIsIdle
  <2>3. QED BY <2>2 DEF BatchOwned, Filling, Serving
<1>2. QED BY <1>1, Inductive, PTL

\* No worker reads one of the maps main fills before it is filled, and no
\* thread id is asked for before it is known (rocksdb.cpp:463, :485, :521,
\* :882-887).
THEOREM MapsAreFilled == Spec => []InitBeforeUse
<1>1. ASSUME IInv PROVE InitBeforeUse
  <2>0. TypeOK /\ MainInv /\ HandshakeInv BY <1>1 DEF IInv
  <2>1. gpc # "wait" => ready = Workers BY <2>0 DEF MainInv
  <2>2. ASSUME NEW w \in Workers, wpc[w] \in {"load", "handle"} PROVE ready = Workers
    <3>1. Started(w) /\ mark[w] = RUNNABLE BY <2>0, <2>2 DEF HandshakeInv, Handshake, Started
    <3>2. gpc # "wait" BY <2>0, <3>1 DEF HandshakeInv, Handshake
    <3>3. QED BY <2>1, <3>2
  <2>3. ready \subseteq {w \in Workers : HasTid(w)} BY <2>0 DEF MainInv, TypeOK
  <2>4. gpc \in {"look", "remark"} => gcur \in ready BY <2>0, <2>1 DEF TypeOK
  <2>5. QED BY <2>1, <2>2, <2>3, <2>4 DEF InitBeforeUse
<1>2. QED BY <1>1, Inductive, PTL

LEMMA PlaceOf ==
    ASSUME NEW f, NEW p \in Places(f)
    PROVE  \E w \in Workers : \E j \in DOMAIN f[w] : p = <<w, j>> /\ At(f, p) = f[w][j]
<1>1. PICK w \in Workers : p \in {w} \X DOMAIN f[w] BY DEF Places
<1>2. PICK j \in DOMAIN f[w] : p = <<w, j>> BY <1>1
<1>3. QED BY <1>2 DEF At

\* A request is either among the handled or among the waiting, in one place.
LEMMA OneOccurrence ==
    ASSUME IInv, NEW r \in 1 .. sent
    PROVE  Cardinality(Occurrences(handled, r))
               + Cardinality(Occurrences([w \in Workers |-> Waiting(w)], r)) = 1
<1>1. PICK f : f = [w \in Workers |-> Waiting(w)] OBVIOUS
<1>2. PICK H : H = Occurrences(handled, r) OBVIOUS
<1>3. PICK V : V = Occurrences(f, r) OBVIOUS
<1>4. Cardinality({}) = 0 /\ \A p : Cardinality({p}) = 1 BY FS_EmptySet, FS_Singleton
<1>5. TypeOK /\ HandshakeInv /\ GivenInv BY DEF IInv
<1>6. PICK L : L = [w \in Workers |-> Len(handled[w])] OBVIOUS
<1>7. \A w \in Workers : /\ L[w] \in Nat /\ DOMAIN handled[w] = 1 .. L[w] /\ L[w] = Len(handled[w])
                         /\ f[w] = Waiting(w)
  BY <1>5, <1>6, <1>1 DEF TypeOK
<1>8. \A w \in Workers : Len(f[w]) \in Nat /\ DOMAIN f[w] = 1 .. Len(f[w])
  BY <1>5, <1>7, WaitingType
<1>9. \A w \in Workers : DOMAIN Given[w] = 1 .. L[w] + Len(f[w])
  <2>1. ASSUME NEW w \in Workers PROVE DOMAIN Given[w] = 1 .. L[w] + Len(f[w])
    <3>1. Given[w] \in Seq(1 .. MaxRequests) /\ Len(Given[w]) = Len(handled[w]) + Len(Waiting(w))
      BY <1>5, GivenType
    <3>2. QED BY <1>7, <3>1
  <2>2. QED BY <2>1
<1>10. ASSUME NEW p \in H
      PROVE  /\ p \in Places(Given) /\ At(Given, p) = r
             /\ \E w \in Workers : \E j \in 1 .. L[w] : p = <<w, j>>
  <2>1. p \in Places(handled) /\ At(handled, p) = r BY <1>2 DEF Occurrences
  <2>2. PICK w \in Workers : \E j \in DOMAIN handled[w] : p = <<w, j>> BY <2>1, PlaceOf
  <2>3. QED BY <1>7, <2>1, <2>2, HandledOnce
<1>11. ASSUME NEW p \in V
      PROVE  \E w \in Workers : \E j \in 1 .. Len(f[w]) :
                 /\ p = <<w, j>>
                 /\ <<w, L[w] + j>> \in Places(Given) /\ At(Given, <<w, L[w] + j>>) = r
  <2>1. p \in Places(f) /\ At(f, p) = r BY <1>3 DEF Occurrences
  <2>2. PICK w \in Workers : \E j \in DOMAIN f[w] : p = <<w, j>> /\ At(f, p) = f[w][j]
    BY <2>1, PlaceOf
  <2>3. PICK j \in DOMAIN f[w] : p = <<w, j>> /\ At(f, p) = f[w][j] BY <2>2
  <2>4. j \in DOMAIN Waiting(w) /\ f[w][j] = Waiting(w)[j] BY <1>7, <2>3
  <2>5. L[w] + j \in DOMAIN Given[w] /\ Given[w][L[w] + j] = f[w][j]
    BY <1>5, <1>7, <2>4, GivenType
  <2>6. <<w, L[w] + j>> \in Places(Given) /\ At(Given, <<w, L[w] + j>>) = r
    BY <2>1, <2>3, <2>5 DEF Places, At
  <2>7. QED BY <1>8, <2>3, <2>6
<1>12. PICK q \in Places(Given) : At(Given, q) = r BY <1>5 DEF GivenInv
<1>13. \A p \in Places(Given) : At(Given, p) = r => p = q BY <1>5, <1>12 DEF GivenInv
<1>14. PICK w \in Workers : \E j \in DOMAIN Given[w] : q = <<w, j>> /\ At(Given, q) = Given[w][j]
  BY <1>12, PlaceOf
<1>15. PICK j \in DOMAIN Given[w] : q = <<w, j>> /\ At(Given, q) = Given[w][j] BY <1>14
<1>16. j \in 1 .. L[w] + Len(f[w]) /\ L[w] \in Nat /\ Len(f[w]) \in Nat BY <1>7, <1>8, <1>9, <1>15
<1>17. CASE j <= L[w]
  <2>1. j \in DOMAIN handled[w] BY <1>7, <1>16, <1>17
  <2>2. <<w, j>> \in Places(handled) /\ At(handled, <<w, j>>) = Given[w][j]
    BY <1>5, <2>1, GivenType DEF Places, At
  <2>3. <<w, j>> \in H BY <1>12, <1>15, <1>2, <2>2 DEF Occurrences
  <2>4. H = {<<w, j>>} BY <1>10, <1>13, <1>15, <2>3
  <2>5. ASSUME NEW p \in V PROVE FALSE
    <3>1. PICK v \in Workers : \E k \in 1 .. Len(f[v]) : <<v, L[v] + k>> = q
      BY <1>11, <1>13
    <3>2. PICK k \in 1 .. Len(f[v]) : <<v, L[v] + k>> = q BY <3>1
    <3>3. v = w /\ L[w] + k = j BY <1>15, <3>2
    <3>4. k >= 1 /\ k \in Int BY <1>16, <3>2, <3>3
    <3>5. QED BY <1>16, <1>17, <3>3, <3>4
  <2>6. V = {} BY <2>5
  <2>7. Cardinality(H) = 1 /\ Cardinality(V) = 0 BY <1>4, <2>4, <2>6
  <2>8. QED BY <1>1, <1>2, <1>3, <2>7
<1>18. CASE j > L[w]
  <2>1. PICK k \in 1 .. Len(f[w]) : j = L[w] + k
    <3>1. j - L[w] \in 1 .. Len(f[w]) /\ j = L[w] + (j - L[w]) BY <1>16, <1>18
    <3>2. QED BY <3>1
  <2>2. k \in DOMAIN f[w] /\ k \in DOMAIN Waiting(w) /\ f[w][k] = Waiting(w)[k] BY <1>7, <1>8
  <2>3. f[w][k] = r BY <1>5, <1>7, <1>12, <1>15, <2>1, <2>2, GivenType
  <2>4. <<w, k>> \in V BY <1>3, <2>2, <2>3 DEF Occurrences, Places, At
  <2>5. ASSUME NEW p \in V PROVE p = <<w, k>>
    <3>1. PICK v \in Workers : \E m \in 1 .. Len(f[v]) : p = <<v, m>> /\ <<v, L[v] + m>> = q
      BY <1>11, <1>13
    <3>2. PICK m \in 1 .. Len(f[v]) : p = <<v, m>> /\ <<v, L[v] + m>> = q BY <3>1
    <3>3. v = w /\ L[w] + m = L[w] + k BY <1>15, <2>1, <3>2
    <3>4. m \in Int /\ k \in Int BY <1>16, <3>2, <3>3
    <3>5. m = k BY <1>16, <3>3, <3>4
    <3>6. QED BY <3>2, <3>3, <3>5
  <2>6. ASSUME NEW p \in H PROVE FALSE
    <3>1. p = q BY <1>10, <1>13
    <3>2. PICK v \in Workers : \E m \in 1 .. L[v] : p = <<v, m>> BY <1>10
    <3>3. PICK m \in 1 .. L[v] : p = <<v, m>> BY <3>2
    <3>4. v = w /\ m = j BY <1>15, <3>1, <3>3
    <3>5. QED BY <1>16, <1>18, <3>3, <3>4
  <2>7. V = {<<w, k>>} /\ H = {} BY <2>4, <2>5, <2>6
  <2>8. Cardinality(V) = 1 /\ Cardinality(H) = 0 BY <1>4, <2>7
  <2>9. QED BY <1>1, <1>2, <1>3, <2>8
<1>19. j \in Int /\ L[w] \in Int BY <1>16
<1>20. j <= L[w] \/ j > L[w] BY <1>19
<1>21. QED BY <1>17, <1>18, <1>20, Zenon

\* Every request that was delivered is in one batch or one worker's results,
\* and in one place of it (rocksdb.cpp:472-485, :532-556).
THEOREM NoneLostOrTwice == Spec => []EachOnce
<1>1. IInv => EachOnce BY OneOccurrence DEF EachOnce
<1>2. QED BY <1>1, Inductive, PTL

\* The final results are complete, and count no request twice
\* (rocksdb.cpp:485, :926-936).
THEOREM ResultsAreFinal == Spec => []ResultsFinal
<1>1. ASSUME IInv, mpc = "done"
      PROVE  /\ \A p, q \in filtered : At(handled, p) = At(handled, q) => p = q
             /\ {At(handled, p) : p \in filtered} =
                    {r \in 1 .. sent : Occurrences(handled, r) # {} /\ ~ShouldDiscard(r)}
  <2>1. filtered = {p \in Places(handled) : ~ShouldDiscard(At(handled, p))}
    BY <1>1 DEF IInv, MainInv, FilterRequests
  <2>2. \A p, q \in filtered : At(handled, p) = At(handled, q) => p = q
    BY <1>1, <2>1, HandledOnce
  <2>3. \A p \in Places(handled) : At(handled, p) \in 1 .. sent BY <1>1, HandledOnce
  <2>4. \A r : Occurrences(handled, r) # {} <=> \E p \in Places(handled) : At(handled, p) = r
    BY DEF Occurrences
  <2>5. QED BY <2>1, <2>2, <2>3, <2>4
<1>2. IInv => ResultsFinal BY <1>1 DEF ResultsFinal
<1>3. QED BY <1>2, Inductive, PTL

\* Until the drain, the first to add a worker's mark is the worker
\* (rocksdb.cpp:450, :560), which Epistle::add relies on (epistle.h:59-69).
THEOREM WorkerAddsFirst == Spec => []FirstAddAlone
<1>1. ASSUME IInv PROVE FirstAddAlone
  <2>1. TypeOK /\ HandshakeInv BY <1>1 DEF IInv
  <2>2. gpc = "mark" => Serving(gcur) /\ gcur \in Workers BY <2>1 DEF Serving, TypeOK
  <2>3. QED BY <2>1, <2>2, ServedIsIdle DEF FirstAddAlone, Started
<1>2. QED BY <1>1, Inductive, PTL

=============================================================================
