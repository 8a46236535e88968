------------------------------ MODULE RunQueue ------------------------------
(***************************************************************************)
(* The run queue both lords keep (FifoRq, ShinjukuRq): a std::list of      *)
(* thread ids, as operators on a sequence.                                 *)
(***************************************************************************)
EXTENDS Integers, SequencesExt

Enqueue(q, tid) == Append(q, tid)

Dequeue(q) == IF q = <<>> THEN q ELSE Tail(q)

\* 0 stands for "empty": thread id 0 cannot be told from an empty queue.
Peek(q) == IF q = <<>> THEN 0 ELSE Head(q)

InRq(q, tid) == tid \in ToSet(q)

\* Erases the first occurrence.  The code exits when there is none: the
\* callers test InRq for that (Removal in FifoLord).
RemoveFromRq(q, tid) ==
    IF InRq(q, tid) THEN RemoveAt(q, Min({i \in DOMAIN q : q[i] = tid})) ELSE q
=============================================================================
