------------------------------- MODULE Marks --------------------------------
(***************************************************************************)
(* What the epistle promises its callers: one word per thread id, 0 until  *)
(* it is set, read and written at one point between a call and its return. *)
(***************************************************************************)
EXTENDS Integers

CONSTANTS
    Procs,  \* the threads of all the processes that map the table
    Keys,   \* thread ids
    Values  \* EPISTLE_THREAD_RUNNABLE is 0, EPISTLE_THREAD_IDLE is 1

VARIABLES marks, call, got

Idle == [op |-> "none"]

Adds == [op : {"add"}, key : Keys, value : Values]
Gets == [op : {"get"}, key : Keys]

Init ==
    /\ marks = [k \in Keys |-> 0]
    /\ call = [p \in Procs |-> Idle]
    /\ got = [p \in Procs |-> 0]

Begin(p, c) ==
    /\ call[p] = Idle
    /\ call' = [call EXCEPT ![p] = c]
    /\ UNCHANGED <<marks, got>>

Add(p) ==
    /\ call[p].op = "add"
    /\ marks' = [marks EXCEPT ![call[p].key] = call[p].value]
    /\ call' = [call EXCEPT ![p] = Idle]
    /\ UNCHANGED got

Get(p) ==
    /\ call[p].op = "get"
    /\ got' = [got EXCEPT ![p] = marks[call[p].key]]
    /\ call' = [call EXCEPT ![p] = Idle]
    /\ UNCHANGED marks

Next == \E p \in Procs : Add(p) \/ Get(p) \/ \E c \in Adds \cup Gets : Begin(p, c)

vars == <<marks, call, got>>

Spec == Init /\ [][Next]_vars

\* A call returns, whatever the other callers do.
FairSpec == Spec /\ \A p \in Procs : WF_vars(Add(p) \/ Get(p))
=============================================================================
