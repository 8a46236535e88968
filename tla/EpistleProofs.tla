--------------------------- MODULE EpistleProofs ----------------------------
(***************************************************************************)
(* That the epistle, a table without a lock, is an atomic map for any      *)
(* number of callers, any keys and any capacity that holds them.           *)
(***************************************************************************)
EXTENDS Epistle, TLAPS

\* What a caller knows of the slots it has passed, and of the one it is at.
CallInv(p) ==
    LET k == call[p].key IN
    /\ pc[p] = "idle" <=> call[p] = Idle
    /\ pc[p] \in {"cas", "store"} => call[p].op = "add"
    /\ pc[p] = "load" => call[p].op = "get"
    /\ pc[p] \in {"probe", "cas"} =>
           \A r \in Slots : Distance(k, r) < Distance(k, idx[p]) => key[r] \notin {0, k}
    /\ pc[p] = "cas" => key[idx[p]] # k
    /\ pc[p] \in {"store", "load"} => key[idx[p]] = k

\* Of the threads adding a key at the same time all but one find it there.
AddsAlone ==
    \A p, q \in Procs : \A k \in Keys : Adding(p, k) /\ Adding(q, k) => p = q \/ Entered(k)

\* A key becomes visible before its value, and until then the value is 0.
FreshSlots == \A s \in Slots : key[s] = 0 => value[s] = 0

IInv ==
    /\ TypeOK
    /\ ProbePaths
    /\ \A p \in Procs : CallInv(p)
    /\ AddsAlone
    /\ FreshSlots

-----------------------------------------------------------------------------
(* Distances around the table.                                             *)

LEMMA HashType ==
    ASSUME NEW k \in Keys
    PROVE  Hash(k) \in Slots /\ k # 0 /\ Hash(k) \in 0 .. Capacity - 1
<1>1. k \in Nat \ {0} /\ Capacity \in Nat \ {0} BY EpistleAssumption
<1>2. (k % Capacity) \in 0 .. Capacity - 1 BY <1>1
<1>3. QED BY <1>1, <1>2 DEF Hash, Slots

LEMMA DistanceIs ==
    ASSUME NEW k \in Keys, NEW s \in Slots
    PROVE  Distance(k, s) = IF s >= Hash(k) THEN s - Hash(k) ELSE s - Hash(k) + Capacity
<1>1. PICK h \in 0 .. Capacity - 1 : h = Hash(k) BY HashType
<1>2. PICK x \in Int : x = s - h BY EpistleAssumption DEF Slots
<1>3. Capacity \in Nat \ {0} /\ s \in 0 .. Capacity - 1 BY EpistleAssumption DEF Slots
<1>4. CASE s >= h
  <2>1. x \in 0 .. Capacity - 1 BY <1>2, <1>3, <1>4
  <2>2. (x % Capacity) = x BY <1>3, <2>1
  <2>3. QED BY <1>1, <1>2, <1>4, <2>2 DEF Distance
<1>5. CASE ~(s >= h)
  <2>1. x \in 1 - Capacity .. -1 BY <1>2, <1>3, <1>5
  <2>2. (x % Capacity) = x + Capacity BY <1>3, <2>1
  <2>3. QED BY <1>1, <1>2, <1>5, <2>2 DEF Distance
<1>6. QED BY <1>4, <1>5

LEMMA DistanceInjective ==
    ASSUME NEW k \in Keys, NEW r \in Slots, NEW s \in Slots
    PROVE  /\ Distance(k, r) \in 0 .. Capacity - 1
           /\ Distance(k, r) = Distance(k, s) => r = s
           /\ Distance(k, r) < Distance(k, s) \/ r = s \/ Distance(k, s) < Distance(k, r)
           /\ Distance(k, Hash(k)) = 0
<1>1. PICK h \in 0 .. Capacity - 1 : h = Hash(k) /\ h \in Slots BY HashType
<1>2. PICK a, b : a = Distance(k, r) /\ b = Distance(k, s) OBVIOUS
<1>3. a = IF r >= h THEN r - h ELSE r - h + Capacity BY <1>1, <1>2, DistanceIs
<1>4. b = IF s >= h THEN s - h ELSE s - h + Capacity BY <1>1, <1>2, DistanceIs
<1>5. Distance(k, h) = IF h >= h THEN h - h ELSE h - h + Capacity BY <1>1, DistanceIs
<1>6. Capacity \in Nat \ {0} /\ s \in 0 .. Capacity - 1 /\ r \in 0 .. Capacity - 1
  BY EpistleAssumption DEF Slots
<1>7. a \in 0 .. Capacity - 1 /\ b \in 0 .. Capacity - 1 /\ (a = b => r = s) BY <1>3, <1>4, <1>6
<1>8. a < b \/ r = s \/ b < a BY <1>7
<1>9. Distance(k, h) = 0 BY <1>5, <1>6
<1>10. QED BY <1>1, <1>2, <1>7, <1>8, <1>9

\* The next slot is one further away, or the first again.
LEMMA NextDistance ==
    ASSUME NEW k \in Keys, NEW s \in Slots, NEW t, t = (s + 1) % Capacity
    PROVE  /\ t \in Slots
           /\ Distance(k, t) = 0 \/ Distance(k, t) = Distance(k, s) + 1
<1>1. PICK h \in 0 .. Capacity - 1 : h = Hash(k) /\ h \in Slots BY HashType
<1>2. Capacity \in Nat \ {0} /\ s \in 0 .. Capacity - 1 BY EpistleAssumption DEF Slots
<1>3. t = IF s + 1 = Capacity THEN 0 ELSE s + 1
  <2>1. CASE s + 1 = Capacity
    <3>1. (Capacity % Capacity) = 0 BY <1>2
    <3>2. QED BY <2>1, <3>1
  <2>2. CASE s + 1 # Capacity
    <3>1. PICK x \in 0 .. Capacity - 1 : x = s + 1 BY <1>2, <2>2
    <3>2. (x % Capacity) = x BY <1>2
    <3>3. QED BY <2>2, <3>1, <3>2
  <2>3. QED BY <2>1, <2>2
<1>4. t \in 0 .. Capacity - 1 /\ t \in Slots BY <1>2, <1>3 DEF Slots
<1>5. Distance(k, s) = IF s >= h THEN s - h ELSE s - h + Capacity BY <1>1, DistanceIs
<1>6. Distance(k, t) = IF t >= h THEN t - h ELSE t - h + Capacity BY <1>1, <1>4, DistanceIs
<1>7. QED BY <1>2, <1>3, <1>4, <1>5, <1>6

-----------------------------------------------------------------------------
(* The callers.                                                            *)

LEMMA CallType ==
    ASSUME IInv, NEW p \in Procs
    PROVE  /\ CallInv(p) /\ idx[p] \in Slots /\ got[p] \in Values
           /\ pc[p] \in {"idle", "probe", "cas", "store", "load"}
           /\ pc[p] # "idle" => call[p] \in Adds \cup Gets /\ call[p].key \in Keys
           /\ call[p].op = "add" => call[p] \in Adds /\ call[p].key \in Keys /\ call[p].value \in Values
           /\ call[p].op = "get" => call[p] \in Gets /\ call[p].key \in Keys
           /\ call[p].op \in {"add", "get"} <=> pc[p] # "idle"
<1>1. /\ call[p] \in Adds \cup Gets \cup {Idle} /\ idx[p] \in Slots /\ got[p] \in Values
      /\ pc[p] \in {"idle", "probe", "cas", "store", "load"}
  BY DEF IInv, TypeOK
<1>2. CallInv(p) BY DEF IInv
<1>3. CASE call[p] = Idle
  <2>1. pc[p] = "idle" /\ call[p].op = "none" BY <1>2, <1>3 DEF CallInv, Idle
  <2>2. QED BY <1>1, <1>2, <2>1
<1>4. CASE call[p] \in Adds
  <2>1. call[p].op = "add" /\ call[p].key \in Keys /\ call[p].value \in Values /\ call[p] # Idle
    BY <1>4 DEF Adds, Idle
  <2>2. QED BY <1>1, <1>2, <1>4, <2>1 DEF CallInv
<1>5. CASE call[p] \in Gets
  <2>1. call[p].op = "get" /\ call[p].key \in Keys /\ call[p] # Idle
    BY <1>5 DEF Gets, Idle
  <2>2. QED BY <1>1, <1>2, <1>5, <2>1 DEF CallInv
<1>6. QED BY <1>1, <1>3, <1>4, <1>5

\* A key that is not in the slots passed, nor in the empty one they lead to,
\* is not in the table.
LEMMA EmptySlotMeansAbsent ==
    ASSUME IInv, NEW p \in Procs, pc[p] \in {"probe", "cas"}, key[idx[p]] = 0
    PROVE  ~Entered(call[p].key)
<1>1. PICK k \in Keys : k = call[p].key BY CallType
<1>2. idx[p] \in Slots /\ k # 0 BY CallType, HashType
<1>3. \A r \in Slots : Distance(k, r) < Distance(k, idx[p]) => key[r] # k
  BY <1>1, CallType DEF CallInv
<1>4. ASSUME NEW s \in Slots, key[s] = k PROVE FALSE
  <2>1. ~(Distance(k, idx[p]) < Distance(k, s)) BY <1>2, <1>4 DEF IInv, ProbePaths
  <2>2. s # idx[p] BY <1>2, <1>4
  <2>3. Distance(k, s) < Distance(k, idx[p]) BY <1>2, <2>1, <2>2, DistanceInjective
  <2>4. QED BY <1>3, <1>4, <2>3
<1>5. QED BY <1>1, <1>4 DEF Entered

\* The probing goes on behind a slot that another key has taken.
LEMMA Advance ==
    ASSUME IInv, NEW p \in Procs, pc[p] \in {"probe", "cas"},
           key[idx[p]] \notin {0, call[p].key}, NEW t, t = (idx[p] + 1) % Capacity
    PROVE  /\ t \in Slots
           /\ LET k == call[p].key
              IN  \A r \in Slots : Distance(k, r) < Distance(k, t) => key[r] \notin {0, k}
<1>1. PICK k \in Keys : k = call[p].key BY CallType
<1>2. PICK s \in Slots : s = idx[p] BY CallType
<1>3. t \in Slots /\ (Distance(k, t) = 0 \/ Distance(k, t) = Distance(k, s) + 1)
  BY <1>2, NextDistance
<1>4. ASSUME NEW r \in Slots, Distance(k, r) < Distance(k, t) PROVE key[r] \notin {0, k}
  <2>1. PICK a, b, c : a = Distance(k, r) /\ b = Distance(k, s) /\ c = Distance(k, t) OBVIOUS
  <2>2. /\ a \in 0 .. Capacity - 1 /\ b \in 0 .. Capacity - 1
        /\ (a < b \/ r = s \/ b < a)
    BY <2>1, DistanceInjective
  <2>3. Capacity \in Nat BY EpistleAssumption
  <2>4. c = b + 1 /\ a < c BY <1>3, <1>4, <2>1, <2>2, <2>3
  <2>5. a < b \/ r = s BY <2>2, <2>3, <2>4
  <2>6. Distance(k, r) < Distance(k, s) => key[r] \notin {0, k}
    BY <1>1, <1>2, CallType DEF CallInv
  <2>7. key[s] \notin {0, k} BY <1>1, <1>2
  <2>8. QED BY <2>1, <2>5, <2>6, <2>7
<1>5. QED BY <1>1, <1>3, <1>4

\* A caller that does not move keeps what it knows, also when a slot that was
\* empty is taken by a key it does not add.
LEMMA CallerKeeps ==
    ASSUME NEW p \in Procs, CallInv(p), \A s \in Slots : key[s] # 0 => key'[s] = key[s],
           idx[p] \in Slots, pc[p] \in {"store", "load"} => call[p].key # 0,
           pc[p] = "cas" => key'[idx[p]] # call[p].key,
           pc'[p] = pc[p], call'[p] = call[p], idx'[p] = idx[p]
    PROVE  CallInv(p)'
BY DEF CallInv, Slots, Distance, Hash

LEMMA StepType ==
    ASSUME IInv, NEW p \in Procs, Step(p) \/ \E c \in Adds \cup Gets : Call(p, c)
    PROVE  TypeOK'
<1>0. TypeOK /\ 0 \in Values /\ 0 \in Slots BY EpistleAssumption DEF IInv, Slots
<1>1. ASSUME NEW c \in Adds \cup Gets, Call(p, c) PROVE TypeOK'
  <2>1. c.key \in Keys BY DEF Adds, Gets
  <2>2. Hash(c.key) \in Slots BY <2>1, HashType
  <2>3. QED BY <1>0, <1>1, <2>2 DEF Call, TypeOK
<1>2. ASSUME NEW result \in Values, Return(p, result), UNCHANGED key, value' \in [Slots -> Values]
      PROVE  TypeOK'
  BY <1>0, <1>2 DEF Return, Goto, TypeOK
<1>3. ASSUME NextSlot(p), UNCHANGED <<key, value, call, got>> PROVE TypeOK'
  <2>1. idx[p] \in Slots BY CallType
  <2>2. (idx[p] + 1) % Capacity \in Slots
    <3>1. PICK s \in Slots : s = idx[p] BY <2>1
    <3>2. s + 1 \in Nat /\ Capacity \in Nat \ {0} BY EpistleAssumption DEF Slots
    <3>3. ((s + 1) % Capacity) \in 0 .. Capacity - 1 BY <3>2
    <3>4. QED BY <3>1, <3>3 DEF Slots
  <2>3. QED BY <1>0, <1>3, <2>2 DEF NextSlot, Goto, TypeOK
<1>4. ASSUME NEW label \in {"cas", "store", "load"}, Goto(p, label), UNCHANGED <<idx, value, call, got>>,
             key' \in [Slots -> Keys \cup {0}]
      PROVE  TypeOK'
  BY <1>0, <1>4 DEF Goto, TypeOK
<1>5. CASE AddProbe(p) BY <1>0, <1>3, <1>4, <1>5 DEF AddProbe, TypeOK
<1>6. CASE AddCas(p)
  <2>1. call[p].key \in Keys BY <1>6, CallType DEF AddCas
  <2>2. [key EXCEPT ![idx[p]] = call[p].key] \in [Slots -> Keys \cup {0}]
    BY <1>0, <2>1 DEF TypeOK
  <2>3. QED BY <1>0, <1>3, <1>4, <1>6, <2>2 DEF AddCas
<1>7. CASE AddStore(p)
  <2>1. call[p].value \in Values /\ got[p] \in Values
    BY <1>7, CallType DEF AddStore, CallInv
  <2>2. [value EXCEPT ![idx[p]] = call[p].value] \in [Slots -> Values]
    BY <1>0, <2>1 DEF TypeOK
  <2>3. QED BY <1>2, <1>7, <2>1, <2>2 DEF AddStore
<1>8. CASE GetProbe(p)
  <2>1. value \in [Slots -> Values] BY <1>0 DEF TypeOK
  <2>2. CASE Return(p, 0) BY <1>0, <1>2, <1>8, <2>1, <2>2 DEF GetProbe
  <2>3. CASE ~Return(p, 0)
    <3>1. key \in [Slots -> Keys \cup {0}] BY <1>0 DEF TypeOK
    <3>2. QED BY <1>3, <1>4, <1>8, <2>3, <3>1 DEF GetProbe
  <2>4. QED BY <2>2, <2>3
<1>9. CASE GetLoad(p)
  <2>1. value \in [Slots -> Values] /\ value[idx[p]] \in Values BY <1>0, CallType DEF TypeOK
  <2>2. QED BY <1>2, <1>9, <2>1 DEF GetLoad
<1>10. QED BY <1>1, <1>5, <1>6, <1>7, <1>8, <1>9 DEF Step

\* A caller's step leaves what the others know, as long as the slots that
\* are taken stay taken.
LEMMA OthersKeep ==
    ASSUME IInv, NEW p \in Procs, \A s \in Slots : key[s] # 0 => key'[s] = key[s],
           \A q \in Procs \ {p} : pc[q] = "cas" => key'[idx[q]] # call[q].key,
           \A q \in Procs \ {p} : pc'[q] = pc[q] /\ call'[q] = call[q] /\ idx'[q] = idx[q]
    PROVE  \A q \in Procs \ {p} : CallInv(q)'
<1>1. ASSUME NEW q \in Procs \ {p} PROVE CallInv(q)'
  <2>1. CallInv(q) /\ idx[q] \in Slots BY CallType
  <2>2. pc[q] \in {"store", "load"} => call[q].key # 0 BY CallType, HashType
  <2>3. QED BY <1>1, <2>1, <2>2, CallerKeeps
<1>2. QED BY <1>1

\* A step that enters no key.
LEMMA TableKept ==
    ASSUME IInv, NEW p \in Procs, UNCHANGED key, TypeOK', CallInv(p)',
           \A q \in Procs \ {p} : pc'[q] = pc[q] /\ call'[q] = call[q] /\ idx'[q] = idx[q],
           call'[p] = call[p] \/ call'[p] = Idle \/ FirstAddAlone(call'[p]),
           \A s \in Slots : key[s] = 0 => value'[s] = 0
    PROVE  IInv'
<1>1. ProbePaths' BY DEF IInv, ProbePaths, Slots, Distance, Hash
<1>2. \A q \in Procs \ {p} : pc[q] = "cas" => key'[idx[q]] # call[q].key
  BY CallType DEF CallInv
<1>3. \A q \in Procs \ {p} : CallInv(q)' BY <1>2, OthersKeep
<1>4. AddsAlone'
  <2>1. ASSUME NEW q \in Procs, NEW r \in Procs, NEW k \in Keys, q # r, Adding(q, k)', Adding(r, k)'
        PROVE  Entered(k)
    <3>1. CASE q # p /\ r # p BY <2>1, <3>1 DEF IInv, AddsAlone, Adding
    <3>2. ASSUME NEW u \in Procs \ {p}, Adding(u, k), call'[p].op = "add", call'[p].key = k
          PROVE  Entered(k)
      <4>1. CASE call'[p] = call[p] BY <3>2, <4>1 DEF IInv, AddsAlone, Adding
      <4>2. CASE call'[p] = Idle BY <3>2, <4>2 DEF Idle
      <4>3. CASE FirstAddAlone(call'[p]) BY <3>2, <4>3 DEF FirstAddAlone
      <4>4. QED BY <4>1, <4>2, <4>3
    <3>3. QED BY <2>1, <3>1, <3>2 DEF Adding
  <2>2. \A k \in Keys : Entered(k)' <=> Entered(k) BY DEF Entered, Slots
  <2>3. QED BY <2>1, <2>2 DEF AddsAlone
<1>5. FreshSlots' BY DEF FreshSlots, Slots
<1>6. QED BY <1>1, <1>3, <1>4, <1>5 DEF IInv

-----------------------------------------------------------------------------
(* The steps.                                                              *)

LEMMA CallKeeps ==
    ASSUME IInv, NEW p \in Procs, NEW c \in Adds \cup Gets, Call(p, c)
    PROVE  IInv'
<1>0. TypeOK BY DEF IInv
<1>1. TypeOK' BY StepType
<1>2. /\ pc'[p] = "probe" /\ call'[p] = c /\ idx'[p] = Hash(c.key) /\ UNCHANGED <<key, value>>
      /\ \A q \in Procs \ {p} : pc'[q] = pc[q] /\ call'[q] = call[q] /\ idx'[q] = idx[q]
  BY <1>0 DEF Call, TypeOK
<1>3. c.key \in Keys /\ c # Idle BY DEF Adds, Gets, Idle
<1>4. CallInv(p)'
  <2>1. \A r \in Slots : ~(Distance(c.key, r) < Distance(c.key, Hash(c.key)))
    <3>1. ASSUME NEW r \in Slots PROVE ~(Distance(c.key, r) < Distance(c.key, Hash(c.key)))
      <4>1. PICK a : a = Distance(c.key, r) OBVIOUS
      <4>2. a \in 0 .. Capacity - 1 /\ Distance(c.key, Hash(c.key)) = 0
        BY <1>3, <4>1, DistanceInjective
      <4>3. ~(a < 0) BY <4>2, EpistleAssumption
      <4>4. QED BY <4>1, <4>2, <4>3
    <3>2. QED BY <3>1
  <2>2. QED BY <1>2, <1>3, <2>1 DEF CallInv, Slots, Distance, Hash, Idle
<1>5. FirstAddAlone(c) BY DEF Call
<1>6. \A s \in Slots : key[s] = 0 => value'[s] = 0 BY <1>2 DEF IInv, FreshSlots
<1>7. QED BY <1>1, <1>2, <1>4, <1>5, <1>6, TableKept

LEMMA NextSlotKeeps ==
    ASSUME IInv, NEW p \in Procs, pc[p] \in {"probe", "cas"}, key[idx[p]] \notin {0, call[p].key},
           NextSlot(p), UNCHANGED <<key, value, call, got>>, TypeOK'
    PROVE  IInv'
<1>0. TypeOK BY DEF IInv
<1>1. PICK t : t = (idx[p] + 1) % Capacity OBVIOUS
<1>2. /\ pc'[p] = "probe" /\ call'[p] = call[p] /\ idx'[p] = t
      /\ \A q \in Procs \ {p} : pc'[q] = pc[q] /\ call'[q] = call[q] /\ idx'[q] = idx[q]
  BY <1>0, <1>1 DEF NextSlot, Goto, TypeOK
<1>3. PICK k \in Keys : k = call[p].key BY CallType
<1>4. \A r \in Slots : Distance(k, r) < Distance(k, t) => key[r] \notin {0, k}
  BY <1>1, <1>3, Advance
<1>5. CallInv(p)' BY <1>2, <1>3, <1>4, CallType DEF CallInv, Slots, Distance, Hash, Idle
<1>6. \A s \in Slots : key[s] = 0 => value'[s] = 0 BY DEF IInv, FreshSlots
<1>7. QED BY <1>2, <1>5, <1>6, TableKept

LEMMA GotoKeeps ==
    ASSUME IInv, NEW p \in Procs, NEW label, Goto(p, label),
           UNCHANGED <<key, value, call, got, idx>>, TypeOK', CallInv(p)'
    PROVE  IInv'
<1>0. TypeOK BY DEF IInv
<1>1. \A q \in Procs \ {p} : pc'[q] = pc[q] BY <1>0 DEF Goto, TypeOK
<1>2. \A s \in Slots : key[s] = 0 => value'[s] = 0 BY DEF IInv, FreshSlots
<1>3. QED BY <1>1, <1>2, TableKept

LEMMA ReturnKeeps ==
    ASSUME IInv, NEW p \in Procs, NEW result, Return(p, result), UNCHANGED key, TypeOK',
           \A s \in Slots : key[s] = 0 => value'[s] = 0
    PROVE  IInv'
<1>0. TypeOK BY DEF IInv
<1>1. /\ pc'[p] = "idle" /\ call'[p] = Idle
      /\ \A q \in Procs \ {p} : pc'[q] = pc[q] /\ call'[q] = call[q] /\ idx'[q] = idx[q]
  BY <1>0 DEF Return, Goto, TypeOK
<1>2. CallInv(p)' BY <1>1 DEF CallInv
<1>3. QED BY <1>1, <1>2, TableKept

\* The key that is entered is new, and all slots on the way to it are taken.
LEMMA EnterKeeps ==
    ASSUME IInv, NEW p \in Procs, pc[p] = "cas", key[idx[p]] = 0,
           key' = [key EXCEPT ![idx[p]] = call[p].key], Goto(p, "store"),
           UNCHANGED <<idx, value, call, got>>, TypeOK'
    PROVE  IInv'
<1>0. TypeOK BY DEF IInv
<1>1. PICK k \in Keys : k = call[p].key BY CallType
<1>2. PICK s \in Slots : s = idx[p] BY CallType
<1>3. k # 0 /\ key[s] = 0 BY <1>1, <1>2, HashType
<1>4. key'[s] = k /\ \A r \in Slots : r # s => key'[r] = key[r] BY <1>0, <1>1, <1>2 DEF TypeOK
<1>5. \A r \in Slots : key[r] # k BY <1>1, EmptySlotMeansAbsent DEF Entered
<1>6. \A r \in Slots : Distance(k, r) < Distance(k, s) => key[r] # 0
  BY <1>1, <1>2, CallType DEF CallInv
<1>7. ProbePaths'
  <2>1. ASSUME NEW j \in Keys, NEW t \in Slots, key'[t] = j
        PROVE  /\ \A r \in Slots : key'[r] = j => r = t
               /\ \A r \in Slots : Distance(j, r) < Distance(j, t) => key'[r] # 0
    <3>1. CASE j = k
      <4>1. t = s BY <1>4, <1>5, <2>1, <3>1
      <4>2. QED BY <1>3, <1>4, <1>5, <1>6, <3>1, <4>1
    <3>2. CASE j # k
      <4>1. t # s /\ key[t] = j BY <1>4, <2>1, <3>2
      <4>2. /\ \A r \in Slots : key[r] = j => r = t
            /\ \A r \in Slots : Distance(j, r) < Distance(j, t) => key[r] # 0
        BY <4>1 DEF IInv, ProbePaths
      <4>3. QED BY <1>3, <1>4, <3>2, <4>2
    <3>3. QED BY <3>1, <3>2
  <2>2. QED BY <2>1 DEF ProbePaths, Slots, Distance, Hash
<1>8. pc'[p] = "store" /\ \A q \in Procs \ {p} : pc'[q] = pc[q] BY <1>0 DEF Goto, TypeOK
<1>9. CallInv(p)'
  <2>1. call[p].op = "add" /\ call[p] # Idle BY CallType DEF CallInv
  <2>2. QED BY <1>1, <1>2, <1>4, <1>8, <2>1 DEF CallInv
<1>10. \A q \in Procs \ {p} : CallInv(q)'
  <2>1. ASSUME NEW q \in Procs \ {p}, pc[q] = "cas" PROVE key'[idx[q]] # call[q].key
    <3>1. key[idx[q]] # call[q].key /\ idx[q] \in Slots BY <2>1, CallType DEF CallInv
    <3>2. CASE idx[q] # s BY <1>4, <3>1, <3>2
    <3>3. CASE call[q].key = k
      <4>1. Adding(p, k) /\ Adding(q, k) BY <1>1, <2>1, <3>3, CallType DEF CallInv, Adding
      <4>2. Entered(k) BY <2>1, <4>1 DEF IInv, AddsAlone
      <4>3. QED BY <1>5, <4>2 DEF Entered
    <3>4. QED BY <1>4, <3>2, <3>3
  <2>2. \A r \in Slots : key[r] # 0 => key'[r] = key[r] BY <1>3, <1>4
  <2>3. QED BY <1>8, <2>1, <2>2, OthersKeep
<1>11. AddsAlone'
  <2>1. \A j \in Keys : Entered(j) => Entered(j)'
    <3>1. ASSUME NEW j \in Keys, Entered(j) PROVE \E r \in Slots : key'[r] = j
      <4>1. PICK r \in Slots : key[r] = j BY <3>1 DEF Entered
      <4>2. r # s BY <1>3, <4>1, HashType
      <4>3. QED BY <1>4, <4>1, <4>2
    <3>2. QED BY <3>1 DEF Entered, Slots
  <2>2. QED BY <2>1 DEF IInv, AddsAlone, Adding
<1>12. FreshSlots'
  <2>1. \A r \in Slots : key'[r] = 0 => key[r] = 0 BY <1>3, <1>4
  <2>2. QED BY <2>1 DEF IInv, FreshSlots, Slots
<1>13. QED BY <1>7, <1>9, <1>10, <1>11, <1>12 DEF IInv

LEMMA StepKeeps ==
    ASSUME IInv, NEW p \in Procs, Step(p)
    PROVE  IInv'
<1>0. TypeOK' /\ TypeOK BY StepType DEF IInv
<1>1. \A s \in Slots : key[s] = 0 => value[s] = 0 BY DEF IInv, FreshSlots
<1>2. PICK k \in Keys : k = call[p].key
  BY CallType DEF Step, AddProbe, AddCas, AddStore, GetProbe, GetLoad
<1>3. CallInv(p) /\ idx[p] \in Slots /\ k # 0 BY CallType, HashType
<1>4. ASSUME NEW label, Goto(p, label) PROVE pc'[p] = label BY <1>0, <1>4 DEF Goto, TypeOK
<1>5. CASE AddProbe(p)
  <2>0. pc[p] = "probe" /\ call[p].op = "add" /\ UNCHANGED <<key, value, call, got>>
    BY <1>5 DEF AddProbe
  <2>1. CASE key[idx[p]] = 0 /\ Goto(p, "cas") /\ UNCHANGED idx
    <3>1. CallInv(p)' BY <1>2, <1>3, <1>4, <2>0, <2>1 DEF CallInv, Slots, Distance, Hash, Idle
    <3>2. QED BY <1>0, <2>0, <2>1, <3>1, GotoKeeps
  <2>2. CASE key[idx[p]] = call[p].key /\ Goto(p, "store") /\ UNCHANGED idx
    <3>1. CallInv(p)' BY <1>2, <1>3, <1>4, <2>0, <2>2 DEF CallInv, Idle
    <3>2. QED BY <1>0, <2>0, <2>2, <3>1, GotoKeeps
  <2>3. CASE key[idx[p]] \notin {0, call[p].key} /\ NextSlot(p)
    BY <1>0, <2>0, <2>3, NextSlotKeeps
  <2>4. QED BY <1>5, <2>1, <2>2, <2>3 DEF AddProbe
<1>6. CASE AddCas(p)
  <2>0. pc[p] = "cas" /\ UNCHANGED <<value, call, got>> BY <1>6 DEF AddCas
  <2>1. CASE /\ key[idx[p]] = 0 /\ key' = [key EXCEPT ![idx[p]] = call[p].key]
             /\ Goto(p, "store") /\ UNCHANGED idx
    BY <1>0, <2>0, <2>1, EnterKeeps
  <2>2. CASE key[idx[p]] # 0 /\ NextSlot(p) /\ UNCHANGED key
    <3>1. key[idx[p]] \notin {0, call[p].key} BY <1>3, <2>0, <2>2 DEF CallInv
    <3>2. QED BY <1>0, <2>0, <2>2, <3>1, NextSlotKeeps
  <2>3. QED BY <1>6, <2>1, <2>2 DEF AddCas
<1>7. CASE AddStore(p)
  <2>1. pc[p] = "store" /\ value' = [value EXCEPT ![idx[p]] = call[p].value] BY <1>7 DEF AddStore
  <2>2. key[idx[p]] # 0 BY <1>2, <1>3, <2>1 DEF CallInv
  <2>3. \A s \in Slots : key[s] = 0 => value'[s] = 0 BY <1>0, <1>1, <2>1, <2>2 DEF TypeOK
  <2>4. QED BY <1>0, <1>7, <2>3, ReturnKeeps DEF AddStore
<1>8. CASE GetProbe(p)
  <2>0. pc[p] = "probe" /\ call[p].op = "get" /\ UNCHANGED <<key, value>>
    BY <1>8 DEF GetProbe
  <2>1. CASE Return(p, 0) BY <1>0, <1>1, <2>0, <2>1, ReturnKeeps
  <2>2. CASE key[idx[p]] = call[p].key /\ Goto(p, "load") /\ UNCHANGED <<call, got, idx>>
    <3>1. CallInv(p)' BY <1>2, <1>3, <1>4, <2>0, <2>2 DEF CallInv, Idle
    <3>2. QED BY <1>0, <2>0, <2>2, <3>1, GotoKeeps
  <2>3. CASE key[idx[p]] \notin {0, call[p].key} /\ NextSlot(p) /\ UNCHANGED <<call, got>>
    BY <1>0, <2>0, <2>3, NextSlotKeeps
  <2>4. QED BY <1>8, <2>1, <2>2, <2>3 DEF GetProbe
<1>9. CASE GetLoad(p) BY <1>0, <1>1, <1>9, ReturnKeeps DEF GetLoad
<1>10. QED BY <1>5, <1>6, <1>7, <1>8, <1>9 DEF Step

LEMMA InitHolds == Init => IInv
<1> SUFFICES ASSUME Init PROVE IInv
  OBVIOUS
<1>1. 0 \in Slots /\ 0 \in Values BY EpistleAssumption DEF Slots
<1>2. TypeOK BY <1>1 DEF Init, TypeOK
<1>3. \A s \in Slots : key[s] = 0 /\ value[s] = 0 BY DEF Init
<1>4. ProbePaths BY <1>3, HashType DEF ProbePaths
<1>5. \A p \in Procs : pc[p] = "idle" /\ call[p] = Idle BY DEF Init
<1>6. \A p \in Procs : CallInv(p) BY <1>5 DEF CallInv
<1>7. AddsAlone BY <1>5 DEF AddsAlone, Adding, Idle
<1>8. FreshSlots BY <1>3 DEF FreshSlots
<1>9. QED BY <1>2, <1>4, <1>6, <1>7, <1>8 DEF IInv

LEMMA NextKeeps == IInv /\ [Next]_vars => IInv'
<1>1. ASSUME IInv, Next PROVE IInv'
  BY <1>1, StepKeeps, CallKeeps DEF Next
<1>2. ASSUME IInv, UNCHANGED vars PROVE IInv'
  <2>1. TypeOK' BY <1>2 DEF IInv, TypeOK, vars
  <2>2. ProbePaths' BY <1>2 DEF IInv, ProbePaths, vars, Slots, Distance, Hash
  <2>3. \A p \in Procs : CallInv(p)'
    BY <1>2 DEF IInv, CallInv, vars, Slots, Distance, Hash
  <2>4. AddsAlone' BY <1>2 DEF IInv, AddsAlone, Adding, Entered, vars, Slots
  <2>5. FreshSlots' BY <1>2 DEF IInv, FreshSlots, vars, Slots
  <2>6. QED BY <2>1, <2>2, <2>3, <2>4, <2>5 DEF IInv
<1>3. QED BY <1>1, <1>2

\* Every reachable state of the table and its callers: what a caller has
\* passed stays taken, and of the callers that add one key all but one find
\* it in the table (epistle.h:52-80).
THEOREM Inductive == Spec => []IInv
<1>1. Init => IInv BY InitHolds
<1>2. IInv /\ [Next]_vars => IInv' BY NextKeeps
<1>3. QED BY <1>1, <1>2, PTL DEF Spec

\* The slots hold keys and values, and every index is one of the table's:
\* the probing wraps around (epistle.h:61, :76).
THEOREM TypeCorrect == Spec => []TypeOK
<1>1. IInv => TypeOK BY DEF IInv
<1>2. QED BY <1>1, Inductive, PTL

\* A key is in one slot, and no slot on the way to it is empty
\* (epistle.h:54-62, :71-77).
THEOREM PathsAreWhole == Spec => []ProbePaths
<1>1. IInv => ProbePaths BY DEF IInv
<1>2. QED BY <1>1, Inductive, PTL

-----------------------------------------------------------------------------
(* The table is an atomic map: an add takes effect at its store, a get at  *)
(* its load or at the empty slot it meets.                                 *)

LEMMA MarkIs ==
    ASSUME IInv
    PROVE  /\ \A k \in Keys : \A s \in Slots : key[s] = k => MarkOf[k] = value[s]
           /\ \A k \in Keys : ~Entered(k) => MarkOf[k] = 0
           /\ MarkOf = [k \in Keys |-> MarkOf[k]]
<1>1. ASSUME NEW k \in Keys, NEW s \in Slots, key[s] = k PROVE MarkOf[k] = value[s]
  <2>1. Entered(k) BY <1>1 DEF Entered
  <2>2. PICK t : t = CHOOSE r \in Slots : key[r] = k OBVIOUS
  <2>3. t \in Slots /\ key[t] = k BY <1>1, <2>2
  <2>4. t = s BY <1>1, <2>3 DEF IInv, ProbePaths
  <2>5. QED BY <2>1, <2>2, <2>4 DEF MarkOf
<1>2. \A k \in Keys : ~Entered(k) => MarkOf[k] = 0 BY DEF MarkOf
<1>3. MarkOf = [k \in Keys |-> MarkOf[k]] BY DEF MarkOf
<1>4. QED BY <1>1, <1>2, <1>3

\* The same of the next state.
LEMMA MarkIsNext ==
    IInv' => /\ \A k \in Keys : \A s \in Slots : key'[s] = k => MarkOf'[k] = value'[s]
             /\ \A k \in Keys : ~Entered(k)' => MarkOf'[k] = 0
             /\ MarkOf' = [k \in Keys |-> MarkOf'[k]]
<1>1. IInv => /\ \A k \in Keys : \A s \in Slots : key[s] = k => MarkOf[k] = value[s]
              /\ \A k \in Keys : ~Entered(k) => MarkOf[k] = 0
              /\ MarkOf = [k \in Keys |-> MarkOf[k]]
  BY MarkIs
<1>2. (IInv => /\ \A k \in Keys : \A s \in Slots : key[s] = k => MarkOf[k] = value[s]
               /\ \A k \in Keys : ~Entered(k) => MarkOf[k] = 0
               /\ MarkOf = [k \in Keys |-> MarkOf[k]])'
  BY <1>1, PTL
<1>3. QED BY <1>2 DEF Slots

\* A step that stores no value leaves the marks as they are, also when it
\* enters a key.
LEMMA MarksKept ==
    ASSUME IInv, IInv', UNCHANGED value,
           \A s \in Slots : key[s] # 0 => key'[s] = key[s]
    PROVE  UNCHANGED MarkOf
<1>1. ASSUME NEW k \in Keys PROVE MarkOf'[k] = MarkOf[k]
  <2>1. k # 0 BY HashType
  <2>2. CASE Entered(k)
    <3>1. PICK s \in Slots : key[s] = k BY <2>2 DEF Entered
    <3>2. key'[s] = k BY <2>1, <3>1
    <3>3. QED BY <3>1, <3>2, MarkIs, MarkIsNext
  <2>3. CASE ~Entered(k) /\ ~Entered(k)' BY <2>3, MarkIs, MarkIsNext
  <2>4. CASE ~Entered(k) /\ Entered(k)'
    <3>1. PICK s \in Slots : key'[s] = k BY <2>4 DEF Entered, Slots
    <3>2. key[s] # k BY <2>4 DEF Entered
    <3>3. key[s] = 0 BY <3>1, <3>2
    <3>4. value[s] = 0 BY <3>3 DEF IInv, FreshSlots
    <3>5. MarkOf'[k] = value'[s] BY <3>1, MarkIsNext
    <3>6. QED BY <2>4, <3>4, <3>5, MarkIs
  <2>5. QED BY <2>2, <2>3, <2>4
<1>2. QED BY <1>1, MarkIs, MarkIsNext

LEMMA InitMaps == Init => Map!Init
<1> SUFFICES ASSUME Init PROVE Map!Init
  OBVIOUS
<1>1. \A k \in Keys : ~Entered(k) BY HashType DEF Init, Entered
<1>2. MarkOf = [k \in Keys |-> 0] BY <1>1 DEF MarkOf
<1>3. QED BY <1>2 DEF Init, Map!Init, Idle, Map!Idle

LEMMA StepMaps ==
    ASSUME IInv, IInv', NEW p \in Procs, Step(p)
    PROVE  Map!Add(p) \/ Map!Get(p) \/ UNCHANGED <<MarkOf, call, got>>
<1>0. TypeOK /\ idx[p] \in Slots /\ CallInv(p) BY CallType DEF IInv
<1>1. PICK s \in Slots : s = idx[p] BY <1>0
<1>2. PICK k \in Keys : k = call[p].key
  BY CallType DEF Step, AddProbe, AddCas, AddStore, GetProbe, GetLoad
<1>3. k # 0 BY HashType
<1>4. ASSUME UNCHANGED <<key, value>> PROVE UNCHANGED MarkOf BY <1>4, MarksKept
<1>5. CASE AddProbe(p)
  <2>1. UNCHANGED <<key, value, call, got>> BY <1>5 DEF AddProbe
  <2>2. QED BY <1>4, <2>1
<1>6. CASE AddCas(p)
  <2>1. UNCHANGED <<value, call, got>> BY <1>6 DEF AddCas
  <2>2. \A r \in Slots : key[r] # 0 => key'[r] = key[r]
    BY <1>0, <1>6 DEF AddCas, TypeOK
  <2>3. QED BY <2>1, <2>2, MarksKept
<1>7. CASE AddStore(p)
  <2>1. /\ pc[p] = "store" /\ UNCHANGED key /\ value' = [value EXCEPT ![s] = call[p].value]
        /\ call' = [call EXCEPT ![p] = Idle] /\ got' = [got EXCEPT ![p] = got[p]]
    BY <1>1, <1>7 DEF AddStore, Return
  <2>2. call[p].op = "add" /\ key[s] = k BY <1>0, <1>1, <1>2, <2>1 DEF CallInv
  <2>3. UNCHANGED got BY <1>0, <2>1 DEF TypeOK
  <2>4. ASSUME NEW j \in Keys PROVE MarkOf'[j] = IF j = k THEN call[p].value ELSE MarkOf[j]
    <3>1. CASE j = k
      <4>1. value'[s] = call[p].value BY <1>0, <2>1 DEF TypeOK
      <4>2. MarkOf'[k] = value'[s] BY <2>1, <2>2, MarkIsNext
      <4>3. QED BY <3>1, <4>1, <4>2
    <3>2. CASE j # k /\ Entered(j)
      <4>1. PICK r \in Slots : key[r] = j BY <3>2 DEF Entered
      <4>2. r # s BY <2>2, <3>2, <4>1
      <4>3. value'[r] = value[r] BY <1>0, <2>1, <4>2 DEF TypeOK
      <4>4. MarkOf'[j] = value'[r] /\ MarkOf[j] = value[r]
        BY <2>1, <4>1, MarkIs, MarkIsNext
      <4>5. QED BY <3>2, <4>3, <4>4
    <3>3. CASE j # k /\ ~Entered(j)
      <4>1. ~Entered(j)' BY <2>1, <3>3 DEF Entered, Slots
      <4>2. QED BY <3>3, <4>1, MarkIs, MarkIsNext
    <3>4. QED BY <3>1, <3>2, <3>3
  <2>5. MarkOf' = [MarkOf EXCEPT ![k] = call[p].value] BY <2>4, MarkIs, MarkIsNext
  <2>6. Map!Add(p) BY <1>2, <2>1, <2>2, <2>3, <2>5 DEF Map!Add, Idle, Map!Idle
  <2>7. QED BY <2>6
<1>8. CASE GetProbe(p)
  <2>1. pc[p] = "probe" /\ call[p].op = "get" /\ UNCHANGED <<key, value>>
    BY <1>8 DEF GetProbe
  <2>2. UNCHANGED MarkOf BY <1>4, <2>1
  <2>3. CASE key[s] = 0 /\ Return(p, 0)
    <3>1. MarkOf[k] = 0 BY <1>1, <1>2, <2>1, <2>3, EmptySlotMeansAbsent, MarkIs
    <3>2. Map!Get(p) BY <1>2, <2>1, <2>2, <2>3, <3>1 DEF Return, Map!Get, Idle, Map!Idle
    <3>3. QED BY <3>2
  <2>4. CASE UNCHANGED <<call, got>> BY <2>2, <2>4
  <2>5. QED BY <1>1, <1>8, <2>3, <2>4 DEF GetProbe
<1>9. CASE GetLoad(p)
  <2>1. pc[p] = "load" /\ Return(p, value[s]) /\ UNCHANGED <<key, value>>
    BY <1>1, <1>9 DEF GetLoad
  <2>2. call[p].op = "get" /\ key[s] = k BY <1>0, <1>1, <1>2, <2>1 DEF CallInv
  <2>3. UNCHANGED MarkOf BY <1>4, <2>1
  <2>4. MarkOf[k] = value[s] BY <2>2, MarkIs
  <2>5. Map!Get(p) BY <1>2, <2>1, <2>2, <2>3, <2>4 DEF Return, Map!Get, Idle, Map!Idle
  <2>6. QED BY <2>5
<1>10. QED BY <1>5, <1>6, <1>7, <1>8, <1>9 DEF Step

LEMMA NextMaps == IInv /\ IInv' /\ [Next]_vars => [Map!Next]_<<MarkOf, call, got>>
<1>1. ASSUME IInv, IInv', NEW p \in Procs, Step(p) PROVE [Map!Next]_<<MarkOf, call, got>>
  BY <1>1, StepMaps DEF Map!Next
<1>2. ASSUME IInv, IInv', NEW p \in Procs, NEW c \in Adds \cup Gets, Call(p, c)
      PROVE  [Map!Next]_<<MarkOf, call, got>>
  <2>1. UNCHANGED <<key, value, got>> /\ call' = [call EXCEPT ![p] = c] /\ pc[p] = "idle"
    BY <1>2 DEF Call
  <2>2. UNCHANGED MarkOf BY <1>2, <2>1, MarksKept
  <2>3. call[p] = Idle BY <1>2, <2>1 DEF IInv, CallInv
  <2>4. Map!Begin(p, c) BY <2>1, <2>2, <2>3 DEF Map!Begin, Idle, Map!Idle
  <2>5. QED BY <2>4 DEF Map!Next, Adds, Gets, Map!Adds, Map!Gets
<1>3. ASSUME IInv, IInv', UNCHANGED vars PROVE UNCHANGED <<MarkOf, call, got>>
  BY <1>3, MarksKept DEF vars
<1>4. QED BY <1>1, <1>2, <1>3 DEF Next

\* The table is an atomic map: what a get returns is the value of the last
\* add of its key whose store came before it, or 0 when there was none,
\* although keys and values are two words and there is no lock
\* (epistle.h:52-80).
THEOREM TableIsMap == Spec => Map!Spec
<1>1. Init => Map!Init BY InitMaps
<1>2. IInv /\ IInv' /\ [Next]_vars => [Map!Next]_<<MarkOf, call, got>> BY NextMaps
<1>3. QED BY <1>1, <1>2, Inductive, PTL DEF Spec, Map!Spec, Map!vars

=============================================================================
