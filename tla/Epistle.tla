------------------------------ MODULE Epistle -------------------------------
(***************************************************************************)
(* The epistle: a table of thread ids and marks in shared memory, with     *)
(* open addressing.  A slot is taken by a compare-and-swap of its key and  *)
(* never given back; there is no lock.  Every access to shared memory is a *)
(* step of its own.                                                        *)
(***************************************************************************)
EXTENDS Integers, FiniteSets

CONSTANTS
    Procs, Keys, Values,
    Capacity    \* capacity_: 512 entries in 4096 bytes

\* assert(key != 0); with more keys than slots add and get never end.
ASSUME EpistleAssumption ==
    /\ Keys \subseteq Nat \ {0}
    /\ 0 \in Values
    /\ Capacity \in Nat \ {0}
    /\ IsFiniteSet(Keys) /\ Cardinality(Keys) <= Capacity

VARIABLES
    key, value, \* table_: the two words of every slot
    call,       \* the call each thread is in: its arguments
    pc,         \* and where it is in it
    idx,        \* the local of add and get
    got         \* what its last get returned

vars == <<key, value, call, pc, idx, got>>

Slots == 0 .. Capacity - 1

Idle == [op |-> "none"]
Adds == [op : {"add"}, key : Keys, value : Values]
Gets == [op : {"get"}, key : Keys]

\* hash
Hash(k) == k % Capacity

TypeOK ==
    /\ key \in [Slots -> Keys \cup {0}]
    /\ value \in [Slots -> Values]
    /\ call \in [Procs -> Adds \cup Gets \cup {Idle}]
    /\ pc \in [Procs -> {"idle", "probe", "cas", "store", "load"}]
    /\ idx \in [Procs -> Slots]
    /\ got \in [Procs -> Values]

\* The first to open the table sets it to zero.
Init ==
    /\ key = [s \in Slots |-> 0]
    /\ value = [s \in Slots |-> 0]
    /\ call = [p \in Procs |-> Idle]
    /\ pc = [p \in Procs |-> "idle"]
    /\ idx = [p \in Procs |-> 0]
    /\ got = [p \in Procs |-> 0]

Entered(k) == \E s \in Slots : key[s] = k

Adding(p, k) == call[p].op = "add" /\ call[p].key = k

\* The callers' side of the bargain: no two of them add a key that is not in
\* the table at the same time.
FirstAddAlone(c) ==
    c.op = "add" => Entered(c.key) \/ \A q \in Procs : ~Adding(q, c.key)

Call(p, c) ==
    /\ pc[p] = "idle"
    /\ FirstAddAlone(c)
    /\ call' = [call EXCEPT ![p] = c]
    /\ pc' = [pc EXCEPT ![p] = "probe"]
    /\ idx' = [idx EXCEPT ![p] = Hash(c.key)]
    /\ UNCHANGED <<key, value, got>>

Goto(p, label) == pc' = [pc EXCEPT ![p] = label]

\* Mutants: the table does not wrap, or every other slot is probed.
NextSlot_NoWrap(p) ==
    /\ idx' = [idx EXCEPT ![p] = @ + 1]
    /\ Goto(p, "probe")

NextSlot_Skip(p) ==
    /\ idx' = [idx EXCEPT ![p] = (@ + 2) % Capacity]
    /\ Goto(p, "probe")

NextSlot(p) ==
    /\ idx' = [idx EXCEPT ![p] = (@ + 1) % Capacity]
    /\ Goto(p, "probe")

Return(p, result) ==
    /\ call' = [call EXCEPT ![p] = Idle]
    /\ got' = [got EXCEPT ![p] = result]
    /\ idx' = [idx EXCEPT ![p] = 0]
    /\ Goto(p, "idle")

\* add looks at the key of a slot.
AddProbe(p) ==
    /\ pc[p] = "probe" /\ call[p].op = "add"
    /\ \/ key[idx[p]] = 0 /\ Goto(p, "cas") /\ UNCHANGED idx
       \/ key[idx[p]] = call[p].key /\ Goto(p, "store") /\ UNCHANGED idx
       \/ key[idx[p]] \notin {0, call[p].key} /\ NextSlot(p)
    /\ UNCHANGED <<key, value, call, got>>

\* Mutant: the key is stored without a look at what is there by now.
AddCas_Store(p) ==
    /\ pc[p] = "cas"
    /\ key' = [key EXCEPT ![idx[p]] = call[p].key] /\ Goto(p, "store") /\ UNCHANGED idx
    /\ UNCHANGED <<value, call, got>>

\* __sync_bool_compare_and_swap: the loser goes on to the next slot, without
\* a look at the key the winner put there.
AddCas(p) ==
    /\ pc[p] = "cas"
    /\ \/ /\ key[idx[p]] = 0
          /\ key' = [key EXCEPT ![idx[p]] = call[p].key]
          /\ Goto(p, "store")
          /\ UNCHANGED idx
       \/ key[idx[p]] # 0 /\ NextSlot(p) /\ UNCHANGED key
    /\ UNCHANGED <<value, call, got>>

AddStore(p) ==
    /\ pc[p] = "store"
    /\ value' = [value EXCEPT ![idx[p]] = call[p].value]
    /\ Return(p, got[p])
    /\ UNCHANGED key

\* get looks at the key of a slot.
GetProbe(p) ==
    /\ pc[p] = "probe" /\ call[p].op = "get"
    /\ \/ key[idx[p]] = 0 /\ Return(p, 0)
       \/ key[idx[p]] = call[p].key /\ Goto(p, "load") /\ UNCHANGED <<call, got, idx>>
       \/ key[idx[p]] \notin {0, call[p].key} /\ NextSlot(p) /\ UNCHANGED <<call, got>>
    /\ UNCHANGED <<key, value>>

GetLoad(p) ==
    /\ pc[p] = "load"
    /\ Return(p, value[idx[p]])
    /\ UNCHANGED <<key, value>>

Step(p) == AddProbe(p) \/ AddCas(p) \/ AddStore(p) \/ GetProbe(p) \/ GetLoad(p)

Next == \E p \in Procs : Step(p) \/ \E c \in Adds \cup Gets : Call(p, c)

Spec == Init /\ [][Next]_vars

\* Every thread inside a call runs on.
FairSpec == Spec /\ \A p \in Procs : WF_vars(Step(p))

-----------------------------------------------------------------------------

\* A key is entered once, and every slot between where its probing starts
\* and where it is has a key: nobody gives up looking for it too early, and
\* two callers never hold different slots for the same key (epistle.h:54-62,
\* :71-77).
Distance(k, s) == (s - Hash(k)) % Capacity

ProbePaths ==
    \A k \in Keys : \A s \in Slots :
        key[s] = k =>
            /\ \A r \in Slots : key[r] = k => r = s
            /\ \A r \in Slots : Distance(k, r) < Distance(k, s) => key[r] # 0

\* The mark of a thread, 0 when it has none.
MarkOf == [k \in Keys |-> IF Entered(k) THEN value[CHOOSE s \in Slots : key[s] = k] ELSE 0]

Map == INSTANCE Marks WITH marks <- MarkOf

\* The table is an atomic map, although a key is visible before its value,
\* and no caller keeps another one waiting (epistle.h:52-80).
ImplementsMarks == Map!FairSpec
=============================================================================
