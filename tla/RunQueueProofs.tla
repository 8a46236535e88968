--------------------------- MODULE RunQueueProofs ---------------------------
(***************************************************************************)
(* What the operations of the run queue do to a queue without duplicates.  *)
(***************************************************************************)
EXTENDS RunQueue, SequenceTheorems, TLAPS

\* What a list of members of S holds.
LEMMA ElementLemma ==
    ASSUME NEW S, NEW q \in Seq(S)
    PROVE  /\ \A i \in DOMAIN q : q[i] \in S /\ i \in Nat
           /\ ToSet(q) \subseteq S
BY DEF ToSet

\* push_back of a thread that is not in the list (FifoRq::enqueue).
LEMMA EnqueueLemma ==
    ASSUME NEW S, NEW q \in Seq(S), NEW t \in S,
           IsInjective(q), t \notin ToSet(q)
    PROVE  /\ Enqueue(q, t) \in Seq(S)
           /\ IsInjective(Enqueue(q, t))
           /\ ToSet(Enqueue(q, t)) = ToSet(q) \cup {t}
BY DEF Enqueue, IsInjective, ToSet

\* pop_front of a list that is not empty (FifoRq::dequeue, peek).
LEMMA DequeueLemma ==
    ASSUME NEW S, NEW q \in Seq(S), IsInjective(q), q # <<>>
    PROVE  /\ Peek(q) = q[1]
           /\ Peek(q) \in ToSet(q)
           /\ Dequeue(q) \in Seq(S)
           /\ IsInjective(Dequeue(q))
           /\ ToSet(Dequeue(q)) = ToSet(q) \ {Peek(q)}
<1>1. Peek(q) = q[1] /\ 1 \in DOMAIN q /\ Dequeue(q) = Tail(q)
  BY DEF Peek, Dequeue
<1>2. /\ Tail(q) \in Seq(S) /\ Len(Tail(q)) = Len(q) - 1
      /\ \A i \in 1 .. Len(q) - 1 : Tail(q)[i] = q[i + 1]
  OBVIOUS
<1>3. IsInjective(Tail(q))
  BY <1>2 DEF IsInjective
<1>4. ToSet(Tail(q)) \subseteq ToSet(q) \ {q[1]}
  BY <1>1, <1>2 DEF IsInjective, ToSet
<1>5. ASSUME NEW x \in ToSet(q), x # q[1]
      PROVE  x \in ToSet(Tail(q))
  <2>1. PICK i \in DOMAIN q : q[i] = x
    BY DEF ToSet
  <2>2. i - 1 \in DOMAIN Tail(q) /\ Tail(q)[i - 1] = x
    BY <1>2, <1>5, <2>1
  <2> QED  BY <2>2 DEF ToSet
<1>6. Peek(q) \in ToSet(q)
  BY <1>1 DEF ToSet
<1> QED  BY <1>1, <1>2, <1>3, <1>4, <1>5, <1>6

\* erase moves every element behind the erased one a place forward
\* (FifoRq::remove_from_rq).
LEMMA RemoveShifts ==
    ASSUME NEW S, NEW q \in Seq(S), IsInjective(q), NEW t \in ToSet(q)
    PROVE  \E k \in DOMAIN q :
             /\ q[k] = t
             /\ RemoveFromRq(q, t) \in Seq(S)
             /\ Len(RemoveFromRq(q, t)) = Len(q) - 1
             /\ \A i \in 1 .. Len(q) - 1 :
                   RemoveFromRq(q, t)[i] = IF i < k THEN q[i] ELSE q[i + 1]
<1>1. PICK k \in DOMAIN q : q[k] = t
  BY DEF ToSet
<1> DEFINE r == RemoveAt(q, k)
<1>2. RemoveFromRq(q, t) = r
  <2>1. {i \in DOMAIN q : q[i] = t} = {k}
    BY <1>1 DEF IsInjective
  <2>2. Min({k}) = k
    BY DEF Min
  <2> QED  BY <2>1, <2>2 DEF RemoveFromRq, InRq
<1>3. /\ r \in Seq(S) /\ Len(r) = Len(q) - 1
      /\ \A i \in 1 .. Len(q) - 1 : r[i] = IF i < k THEN q[i] ELSE q[i + 1]
  <2> DEFINE a == SubSeq(q, 1, k - 1)
             b == SubSeq(q, k + 1, Len(q))
  <2>1. /\ a \in Seq(S) /\ Len(a) = k - 1
        /\ \A i \in 1 .. k - 1 : a[i] = q[i]
    BY SubSeqProperties
  <2>2. /\ b \in Seq(S) /\ Len(b) = Len(q) - k
        /\ \A i \in 1 .. Len(q) - k : b[i] = q[k + i]
    BY SubSeqProperties
  <2> HIDE DEF a, b
  <2>3. /\ a \o b \in Seq(S) /\ Len(a \o b) = Len(q) - 1
        /\ \A i \in 1 .. Len(q) - 1 :
              (a \o b)[i] = IF i <= k - 1 THEN a[i] ELSE b[i - (k - 1)]
    <3>1. /\ a \o b \in Seq(S) /\ Len(a \o b) = Len(a) + Len(b)
          /\ \A i \in 1 .. Len(a) + Len(b) :
                (a \o b)[i] = IF i <= Len(a) THEN a[i] ELSE b[i - Len(a)]
      BY <2>1, <2>2, ConcatProperties, Zenon
    <3>2. Len(a) + Len(b) = Len(q) - 1
      BY <2>1, <2>2
    <3> QED  BY <2>1, <3>1, <3>2, Zenon
  <2>4. ASSUME NEW i \in 1 .. Len(q) - 1
        PROVE  (a \o b)[i] = IF i < k THEN q[i] ELSE q[i + 1]
    <3>1. k \in 1 .. Len(q) /\ Len(q) \in Nat
      OBVIOUS
    <3>2. CASE i < k
      BY <2>1, <2>3, <3>1, <3>2
    <3>3. CASE ~(i < k)
      <4> DEFINE m == i - (k - 1)
      <4>1. m \in 1 .. Len(q) - k /\ k + m = i + 1
        BY <3>1, <3>3
      <4>2. b[m] = q[i + 1]
        BY <2>2, <4>1
      <4>3. (a \o b)[i] = b[m]
        <5>1. (a \o b)[i] = IF i <= k - 1 THEN a[i] ELSE b[i - (k - 1)]
          BY <2>3
        <5>2. ~(i <= k - 1)
          BY <3>1, <3>3
        <5> QED  BY <5>1, <5>2
      <4> QED  BY <4>2, <4>3, <3>3
    <3> QED  BY <3>2, <3>3
  <2> QED  BY <2>3, <2>4 DEF RemoveAt, a, b
<1> HIDE DEF r
<1> QED  BY <1>1, <1>2, <1>3, Zenon

\* erase of a thread that is in the list (FifoRq::remove_from_rq).
LEMMA RemoveLemma ==
    ASSUME NEW S, NEW q \in Seq(S), IsInjective(q), NEW t \in ToSet(q)
    PROVE  /\ RemoveFromRq(q, t) \in Seq(S)
           /\ IsInjective(RemoveFromRq(q, t))
           /\ ToSet(RemoveFromRq(q, t)) = ToSet(q) \ {t}
<1> DEFINE r == RemoveFromRq(q, t)
<1>1. PICK k \in DOMAIN q :
        /\ q[k] = t
        /\ r \in Seq(S) /\ Len(r) = Len(q) - 1
        /\ \A i \in 1 .. Len(q) - 1 : r[i] = IF i < k THEN q[i] ELSE q[i + 1]
  BY RemoveShifts
<1> HIDE DEF r
<1> DEFINE origin(i) == IF i < k THEN i ELSE i + 1
<1>2. ASSUME NEW i \in DOMAIN r
      PROVE  origin(i) \in DOMAIN q /\ r[i] = q[origin(i)] /\ origin(i) # k
  BY <1>1
<1>3. IsInjective(r)
  <2> SUFFICES ASSUME NEW i \in DOMAIN r, NEW j \in DOMAIN r, r[i] = r[j] PROVE i = j
    BY DEF IsInjective
  <2>1. origin(i) = origin(j)
    BY <1>2 DEF IsInjective
  <2>2. i \in Int /\ j \in Int /\ k \in Int
    BY <1>1
  <2> QED  BY <2>1, <2>2
<1>4. ToSet(r) \subseteq ToSet(q) \ {t}
  <2> SUFFICES ASSUME NEW i \in DOMAIN r PROVE r[i] \in ToSet(q) /\ r[i] # t
    BY DEF ToSet
  <2> QED  BY <1>1, <1>2 DEF IsInjective, ToSet
<1>5. ASSUME NEW x \in ToSet(q), x # t
      PROVE  x \in ToSet(r)
  <2>1. PICK i \in DOMAIN q : q[i] = x
    BY DEF ToSet
  <2>2. CASE i < k
    <3>1. i \in DOMAIN r /\ r[i] = x
      BY <1>1, <2>1, <2>2
    <3> QED  BY <3>1 DEF ToSet
  <2>3. CASE i > k
    <3>1. i - 1 \in DOMAIN r /\ r[i - 1] = x
      BY <1>1, <2>1, <2>3
    <3> QED  BY <3>1 DEF ToSet
  <2> QED  BY <1>1, <1>5, <2>1, <2>2, <2>3
<1> QED  BY <1>1, <1>3, <1>4, <1>5 DEF r

\* Two lists without a common element, spliced.
LEMMA ConcatLemma ==
    ASSUME NEW S, NEW a \in Seq(S), NEW b \in Seq(S),
           IsInjective(a), IsInjective(b), ToSet(a) \cap ToSet(b) = {}
    PROVE  /\ a \o b \in Seq(S)
           /\ IsInjective(a \o b)
           /\ ToSet(a \o b) = ToSet(a) \cup ToSet(b)
<1> DEFINE r == a \o b
<1>1. /\ r \in Seq(S) /\ Len(r) = Len(a) + Len(b)
      /\ \A i \in 1 .. Len(a) + Len(b) : r[i] = IF i <= Len(a) THEN a[i] ELSE b[i - Len(a)]
  BY ConcatProperties, Zenon
<1> HIDE DEF r
<1>2. /\ DOMAIN r = 1 .. Len(a) + Len(b) /\ Len(a) \in Nat /\ Len(b) \in Nat
      /\ DOMAIN a = 1 .. Len(a) /\ DOMAIN b = 1 .. Len(b)
  BY <1>1
<1>3. ASSUME NEW i \in DOMAIN r
      PROVE  \/ i \in DOMAIN a /\ r[i] = a[i]
             \/ i - Len(a) \in DOMAIN b /\ r[i] = b[i - Len(a)] /\ i \notin DOMAIN a
  BY <1>1, <1>2
<1>4. IsInjective(r)
  <2> SUFFICES ASSUME NEW i \in DOMAIN r, NEW j \in DOMAIN r, r[i] = r[j] PROVE i = j
    BY DEF IsInjective
  <2>1. CASE i \in DOMAIN a /\ r[i] = a[i] /\ j \in DOMAIN a /\ r[j] = a[j]
    BY <2>1 DEF IsInjective
  <2>2. CASE /\ i - Len(a) \in DOMAIN b /\ r[i] = b[i - Len(a)]
             /\ j - Len(a) \in DOMAIN b /\ r[j] = b[j - Len(a)]
    <3>1. i - Len(a) = j - Len(a)
      BY <2>2 DEF IsInjective
    <3> QED  BY <1>2, <3>1
  <2>3. CASE \/ i \in DOMAIN a /\ r[i] = a[i] /\ j - Len(a) \in DOMAIN b /\ r[j] = b[j - Len(a)]
             \/ j \in DOMAIN a /\ r[j] = a[j] /\ i - Len(a) \in DOMAIN b /\ r[i] = b[i - Len(a)]
    <3>1. r[i] \in ToSet(a) \cap ToSet(b)
      BY <2>3 DEF ToSet
    <3> QED  BY <3>1
  <2> QED  BY <1>3, <2>1, <2>2, <2>3
<1>5. ToSet(r) \subseteq ToSet(a) \cup ToSet(b)
  BY <1>3 DEF ToSet
<1>6. ToSet(a) \cup ToSet(b) \subseteq ToSet(r)
  <2>1. \A i \in DOMAIN a : i \in DOMAIN r /\ r[i] = a[i]
    BY <1>1, <1>2
  <2>2. \A i \in DOMAIN b : i + Len(a) \in DOMAIN r /\ r[i + Len(a)] = b[i]
    <3> SUFFICES ASSUME NEW i \in DOMAIN b
                 PROVE  i + Len(a) \in DOMAIN r /\ r[i + Len(a)] = b[i]
      OBVIOUS
    <3>1. /\ i + Len(a) \in 1 .. Len(a) + Len(b) /\ ~(i + Len(a) <= Len(a))
          /\ (i + Len(a)) - Len(a) = i
      BY <1>2
    <3> QED  BY <1>1, <1>2, <3>1
  <2> QED  BY <2>1, <2>2 DEF ToSet
<1> QED  BY <1>1, <1>4, <1>5, <1>6 DEF r
=============================================================================
