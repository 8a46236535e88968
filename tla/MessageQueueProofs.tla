------------------------- MODULE MessageQueueProofs -------------------------
(***************************************************************************)
(* The ring, for every size and every range of the counters, filled to the *)
(* last slot: which unread message a wrap can destroy, and that the ring   *)
(* implements the FIFO channel for a kernel that minds the wrap.           *)
(***************************************************************************)
EXTENDS MessageQueue, TLAPS

-----------------------------------------------------------------------------
(* Remainders.                                                             *)

\* A number is a multiple of the divisor and its remainder.
LEMMA Quotient ==
    ASSUME NEW b \in Nat \ {0}, NEW a \in Int
    PROVE  /\ a % b \in 0 .. b - 1
           /\ \E q \in Int : a = b * q + (a % b)
<1>1. /\ a % b \in 0 .. b - 1
      /\ a \div b \in Int
      /\ a = b * (a \div b) + (a % b)
  BY SMT
<1> QED
  BY <1>1

\* ... and of no other remainder.
LEMMA Remainder ==
    ASSUME NEW b \in Nat \ {0}, NEW q \in Int, NEW r \in 0 .. b - 1, NEW a \in Int,
           a = b * q + r
    PROVE  a % b = r
BY SMT

\* Two numbers closer than the divisor have different remainders.
LEMMA CloseNumbersDiffer ==
    ASSUME NEW b \in Nat \ {0}, NEW a \in Int, NEW c \in Int, c - a \in 1 .. b - 1
    PROVE  c % b # a % b
<1> SUFFICES ASSUME c % b = a % b PROVE FALSE
  OBVIOUS
<1>1. PICK p \in Int : a = b * p + (a % b)
  BY Quotient
<1>2. PICK q \in Int : c = b * q + (c % b)
  BY Quotient
<1>3. a % b \in Int
  BY Quotient
<1>4. c - a = b * (q - p)
  BY <1>1, <1>2, <1>3
<1> QED
  BY <1>4, SMT

\* The remainder of a number within one turn of the range.
LEMMA OneTurn ==
    ASSUME NEW b \in Nat \ {0}, NEW a \in Int
    PROVE  /\ a \in 0 .. b - 1 => a % b = a
           /\ a \in b .. 2 * b - 1 => a % b = a - b
           /\ a \in 1 - b .. -1 => a % b = a + b
<1>1. a \in 0 .. b - 1 => a % b = a
  BY SMT
<1>2. a \in b .. 2 * b - 1 => a % b = a - b
  <2> SUFFICES ASSUME a \in b .. 2 * b - 1 PROVE a % b = a - b
    OBVIOUS
  <2>1. a = b * 1 + (a - b) /\ a - b \in 0 .. b - 1
    OBVIOUS
  <2> QED
    BY <2>1, Remainder
<1>3. a \in 1 - b .. -1 => a % b = a + b
  <2> SUFFICES ASSUME a \in 1 - b .. -1 PROVE a % b = a + b
    OBVIOUS
  <2>1. a = b * (-1) + (a + b) /\ a + b \in 0 .. b - 1
    OBVIOUS
  <2> QED
    BY <2>1, Remainder
<1> QED
  BY <1>1, <1>2, <1>3

-----------------------------------------------------------------------------
(* Counters that wrap.                                                     *)

\* What u32 arithmetic makes of a sum ...
LEMMA WrappedSum ==
    ASSUME NEW m \in Nat \ {0}, NEW x \in 0 .. m - 1, NEW y \in 0 .. m - 1
    PROVE  (x + y) % m = IF x + y < m THEN x + y ELSE x + y - m
<1>1. PICK a \in Int : a = x + y
  OBVIOUS
<1>2. CASE a \in 0 .. m - 1
  <2>1. a % m = a
    BY <1>2, OneTurn
  <2> QED
    BY <1>1, <1>2, <2>1
<1>3. CASE a \in m .. 2 * m - 1
  <2>1. a % m = a - m
    BY <1>3, OneTurn
  <2> QED
    BY <1>1, <1>3, <2>1
<1> QED
  BY <1>1, <1>2, <1>3

\* ... and of a difference.
LEMMA WrappedDifference ==
    ASSUME NEW m \in Nat \ {0}, NEW x \in 0 .. m - 1, NEW y \in 0 .. m - 1
    PROVE  (x - y) % m = IF x >= y THEN x - y ELSE x - y + m
<1>1. PICK a \in Int : a = x - y
  OBVIOUS
<1>2. CASE a \in 0 .. m - 1
  <2>1. a % m = a
    BY <1>2, OneTurn
  <2> QED
    BY <1>1, <1>2, <2>1
<1>3. CASE a \in 1 - m .. -1
  <2>1. a % m = a + m
    BY <1>3, OneTurn
  <2> QED
    BY <1>1, <1>3, <2>1
<1> QED
  BY <1>1, <1>2, <1>3

\* From x to y it is as far as from x over any z in between.
LEMMA Between ==
    ASSUME NEW m \in Nat \ {0}, NEW x \in 0 .. m - 1, NEW y \in 0 .. m - 1,
           NEW i \in 0 .. m - 1, i <= (y - x) % m
    PROVE  /\ (x + i) % m \in 0 .. m - 1
           /\ (y - ((x + i) % m)) % m = ((y - x) % m) - i
<1>1. PICK u \in Int : u = (y - x) % m
  BY Quotient
<1>2. u = IF y >= x THEN y - x ELSE y - x + m
  BY <1>1, WrappedDifference
<1>3. PICK z \in 0 .. m - 1 : z = (x + i) % m
  BY Quotient
<1>4. z = IF x + i < m THEN x + i ELSE x + i - m
  BY <1>3, WrappedSum
<1>5. PICK v \in Int : v = (y - z) % m
  BY Quotient
<1>6. v = IF y >= z THEN y - z ELSE y - z + m
  BY <1>5, WrappedDifference
<1>7. i <= u
  BY <1>1
<1>8. v = u - i
  BY <1>2, <1>4, <1>6, <1>7
<1> QED
  BY <1>1, <1>3, <1>5, <1>8

\* One step of the counter that leads.
LEMMA OneMore ==
    ASSUME NEW m \in Nat \ {0}, NEW x \in 0 .. m - 1, NEW y \in 0 .. m - 1,
           ((y - x) % m) + 1 < m
    PROVE  (((y + 1) % m) - x) % m = ((y - x) % m) + 1
<1>1. PICK u \in 0 .. m - 1 : u = (y - x) % m
  BY Quotient
<1>2. u = IF y >= x THEN y - x ELSE y - x + m
  BY <1>1, WrappedDifference
<1>3. PICK z \in 0 .. m - 1 : z = (y + 1) % m
  BY Quotient
<1>4. u + 1 < m
  BY <1>1
<1>5. 1 \in 0 .. m - 1
  BY <1>4
<1>6. z = IF y + 1 < m THEN y + 1 ELSE y + 1 - m
  BY <1>3, <1>5, WrappedSum
<1>7. PICK v \in Int : v = (z - x) % m
  BY Quotient
<1>8. v = IF z >= x THEN z - x ELSE z - x + m
  BY <1>7, WrappedDifference
<1>9. v = u + 1
  BY <1>2, <1>4, <1>6, <1>8
<1> QED
  BY <1>1, <1>3, <1>7, <1>9

\* Numbers a multiple of the divisor apart have the same remainder.
LEMMA SameRemainder ==
    ASSUME NEW b \in Nat \ {0}, NEW a \in Int, NEW c \in Int,
           NEW k \in Int, c = b * k + a
    PROVE  c % b = a % b
<1>1. PICK u \in 0 .. b - 1 : u = a % b
  BY Quotient
<1>2. PICK v \in 0 .. b - 1 : v = c % b
  BY Quotient
<1>3. PICK q \in Int : a = b * q + u
  BY <1>1, Quotient
<1>4. PICK t \in Int : c = b * t + v
  BY <1>2, Quotient
<1>5. v - u = b * (k + q - t)
  BY <1>3, <1>4, SMT
<1>6. PICK w \in Int : w = k + q - t
  OBVIOUS
<1>7. v - u = b * w
  BY <1>5, <1>6
<1>8. v = u \/ v - u \in 1 .. b - 1 \/ u - v \in 1 .. b - 1
  OBVIOUS
<1>9. v = u
  BY <1>7, <1>8, SMT
<1> QED
  BY <1>1, <1>2, <1>9

\* Across the wrap of a range of m numbers, two of them d apart have different
\* remainders modulo n, unless d is that of m.
LEMMA ApartAcrossWrap ==
    ASSUME NEW n \in Nat \ {0}, NEW q \in Int, NEW r \in 0 .. n - 1,
           NEW m \in Int, m = n * q + r,
           NEW x \in Int, NEW y \in Int, NEW d \in 1 .. n - 1,
           y - x + m = d, d < r \/ r < d
    PROVE  y % n # x % n
<1> SUFFICES ASSUME y % n = x % n PROVE FALSE
  OBVIOUS
<1>1. PICK p \in Int : x = n * p + (x % n)
  BY Quotient
<1>2. PICK s \in Int : y = n * s + (y % n)
  BY Quotient
<1>3. PICK e \in 0 .. n - 1 : e = x % n
  BY Quotient
<1>4. d - r = n * (s - p + q)
  BY <1>1, <1>2, <1>3, SMT
<1>5. PICK k \in Int : k = s - p + q
  OBVIOUS
<1>6. d - r = n * k
  BY <1>4, <1>5
<1>7. d - r \in 1 .. n - 1 \/ r - d \in 1 .. n - 1
  OBVIOUS
<1> QED
  BY <1>6, <1>7, SMT

\* Of two counters less than Size apart the later one has the slot of the
\* earlier one only if it is one of the first Mod % Size counters and as many
\* places further on.
LEMMA SlotsShared ==
    ASSUME NEW x \in Counters, NEW y \in Counters, NEW d \in 1 .. Size - 1,
           d = (y - x) % Mod
    PROVE  y % Size = x % Size <=> y < Mod % Size /\ d = Mod % Size
<1>1. Size \in Nat \ {0} /\ Mod \in Nat \ {0} /\ Mod \in Int
  BY RingAssumption, SMT
<1>2. x \in 0 .. Mod - 1 /\ y \in 0 .. Mod - 1
  BY Zenon DEF Counters
<1>3. x \in Int /\ y \in Int
  BY <1>1, <1>2
<1>4. d = IF y >= x THEN y - x ELSE y - x + Mod
  BY <1>1, <1>2, WrappedDifference, Zenon
<1>5. PICK r \in 0 .. Size - 1 : r = Mod % Size
  BY <1>1, Quotient, Zenon
<1>6. PICK q \in Int : Mod = Size * q + r
  BY <1>1, <1>5, Quotient, Zenon
<1>7. CASE y >= x
  <2>1. y - x \in 1 .. Size - 1 /\ ~ (y < r /\ d = r)
    BY <1>1, <1>2, <1>4, <1>7
  <2>2. y % Size # x % Size
    BY <1>1, <1>3, <2>1, CloseNumbersDiffer, Zenon
  <2> QED
    BY <1>5, <2>1, <2>2, Zenon
<1>8. CASE ~ (y >= x)
  <2>1. y - x + Mod = d /\ (d = r => y < r)
    BY <1>1, <1>2, <1>4, <1>8
  <2>2. CASE d = r
    <3>1. PICK k \in Int : k = -q
      OBVIOUS
    <3>2. y = Size * k + x
      BY <1>1, <1>3, <1>6, <2>1, <2>2, <3>1, SMT
    <3>3. y % Size = x % Size
      BY <1>1, <1>3, <3>2, SameRemainder
    <3> QED
      BY <1>5, <2>1, <2>2, <3>3, Zenon
  <2>3. CASE d < r \/ r < d
    <3>1. y % Size # x % Size
      BY <1>1, <1>3, <1>6, <2>1, <2>3, ApartAcrossWrap, Zenon
    <3>2. d # r
      BY <2>3
    <3> QED
      BY <1>5, <3>1, <3>2, Zenon
  <2>4. d = r \/ d < r \/ r < d
    OBVIOUS
  <2> QED
    BY <2>2, <2>3, <2>4, Zenon
<1> QED
  BY <1>7, <1>8, Zenon

-----------------------------------------------------------------------------
(* The ring.                                                               *)

\* What the lord copied is still in the slot of tail, unless a kernel that does
\* not mind the wrap has overwritten it.
CopyInSlot ==
    \/ ret = data[tail % Size]
    \/ ~ spares /\ Mod - tail <= Mod % Size /\ Mod % Size <= Unread

\* Between two steps the kernel has left at most Size unread messages, room for
\* the one it has written, and the lord is past its test only with a message
\* to read.
IInv ==
    /\ TypeOK
    /\ kpc = "idle" => Unread <= Size
    /\ kpc = "written" =>
           /\ Unread < Size /\ data[head % Size] \in Messages
           /\ spares => ~ WrapCollides
    /\ lpc \in {"read", "advance"} => Unread > 0
    /\ lpc = "advance" => CopyInSlot

\* What the provers need of the constants.
LEMMA Constants ==
    /\ Size \in Nat \ {0} /\ Mod \in Nat \ {0} /\ Size < Mod
    /\ 1 \in 0 .. Mod - 1
    /\ Mod % Size \in 0 .. Size - 1
<1>1. Size \in Nat \ {0} /\ Mod \in Nat /\ Size < Mod
  BY RingAssumption, Zenon
<1>2. Mod % Size \in 0 .. Size - 1
  BY <1>1, Quotient, SMT
<1> QED
  BY <1>1, <1>2

\* The number of unread messages is a counter, and zero only if head = tail.
LEMMA UnreadInRange ==
    ASSUME head \in Counters, tail \in Counters
    PROVE  /\ Unread \in 0 .. Mod - 1
           /\ Unread = IF head >= tail THEN head - tail ELSE head - tail + Mod
           /\ head # tail <=> Unread > 0
<1>1. head \in 0 .. Mod - 1 /\ tail \in 0 .. Mod - 1
  BY Zenon DEF Counters
<1>2. Unread = IF head >= tail THEN head - tail ELSE head - tail + Mod
  BY <1>1, Constants, WrappedDifference, Zenon DEF Unread
<1> QED
  BY <1>1, <1>2, Constants

\* A remainder modulo Size is a slot.
LEMMA SlotInRange ==
    ASSUME NEW x \in Counters
    PROVE  x % Size \in Slots
<1>1. x \in Int
  BY Constants, SMT DEF Counters
<1> QED
  BY <1>1, Constants, Quotient, Zenon DEF Slots

\* The unread messages whose slot the kernel would write next: none, or the
\* one the wrap has given the same slot.
LEMMA NextSlotUsed ==
    ASSUME head \in Counters, tail \in Counters, Unread < Size,
           NEW i \in 0 .. Unread - 1
    PROVE  Slot(i) = head % Size <=> head < Mod % Size /\ Unread - i = Mod % Size
<1>1. head \in 0 .. Mod - 1 /\ tail \in 0 .. Mod - 1
  BY Zenon DEF Counters
<1>2. i \in 0 .. Mod - 1 /\ i <= Unread /\ Unread - i \in 1 .. Size - 1
  BY UnreadInRange, Constants
<1>3. /\ Mod \in Nat \ {0} /\ i \in 0 .. Mod - 1
      /\ i <= (head - tail) % Mod
  BY <1>2, Constants, Zenon DEF Unread
<1>4. /\ (tail + i) % Mod \in 0 .. Mod - 1
      /\ (head - ((tail + i) % Mod)) % Mod = ((head - tail) % Mod) - i
  BY <1>1, <1>3, Between, Zenon
<1>5. (head - ((tail + i) % Mod)) % Mod = Unread - i
  BY <1>4, Zenon DEF Unread
<1>6. head % Size = ((tail + i) % Mod) % Size
        <=> head < Mod % Size /\ Unread - i = Mod % Size
  BY <1>1, <1>2, <1>4, <1>5, SlotsShared, Zenon DEF Counters
<1> QED
  BY <1>6, Zenon DEF Slot

\* ... none, where the wrap does not matter.
LEMMA FreeSlot ==
    ASSUME head \in Counters, tail \in Counters, Unread < Size, ~ WrapCollides,
           NEW i \in 0 .. Unread - 1
    PROVE  Slot(i) # head % Size
<1>1. ~ (head < Mod % Size /\ Unread - i = Mod % Size)
  BY UnreadInRange, Constants DEF WrapCollides
<1> QED
  BY <1>1, NextSlotUsed, Zenon

\* The oldest unread message is in the slot of tail.
LEMMA FirstSlot ==
    ASSUME tail \in Counters
    PROVE  Slot(0) = tail % Size
<1>1. tail \in 0 .. Mod - 1
  BY Zenon DEF Counters
<1>2. tail + 0 = tail /\ tail \in Int
  BY <1>1, Constants
<1>3. tail % Mod = tail
  BY <1>1, <1>2, Constants, OneTurn, Zenon
<1> QED
  BY <1>2, <1>3, Zenon DEF Slot

\* Once the oldest message is gone, each one is a place further on.
LEMMA NextSlot ==
    ASSUME tail \in Counters, NEW i \in Nat, i + 1 < Mod
    PROVE  ((((tail + 1) % Mod) + i) % Mod) % Size = Slot(i + 1)
<1>1. tail \in 0 .. Mod - 1 /\ i \in 0 .. Mod - 1 /\ i + 1 \in 0 .. Mod - 1
  BY Constants DEF Counters
<1>2. PICK z \in 0 .. Mod - 1 : z = (tail + 1) % Mod
  <2>1. tail + 1 \in Int
    BY <1>1, Constants
  <2> QED
    BY <2>1, Constants, Quotient, Zenon
<1>3. z = IF tail + 1 < Mod THEN tail + 1 ELSE tail + 1 - Mod
  BY <1>1, <1>2, Constants, WrappedSum, Zenon
<1>4. (z + i) % Mod = IF z + i < Mod THEN z + i ELSE z + i - Mod
  BY <1>1, Constants, WrappedSum, Zenon
<1>5. (tail + (i + 1)) % Mod = IF tail + (i + 1) < Mod THEN tail + (i + 1)
                               ELSE tail + (i + 1) - Mod
  BY <1>1, Constants, WrappedSum, Zenon
<1>6. \/ tail + 1 < Mod /\ z + i = tail + (i + 1)
      \/ ~ (tail + 1 < Mod) /\ z = 0 /\ z + i = tail + (i + 1) - Mod
  BY <1>1, <1>3, Constants
<1>7. CASE tail + 1 < Mod /\ z + i = tail + (i + 1)
  BY <1>2, <1>7, Zenon DEF Slot
<1>8. CASE ~ (tail + 1 < Mod) /\ z = 0 /\ z + i = tail + (i + 1) - Mod
  <2>1. z + i < Mod /\ ~ (tail + (i + 1) < Mod)
    BY <1>1, <1>8, Constants
  <2>2. (z + i) % Mod = (tail + (i + 1)) % Mod
    BY <1>4, <1>5, <1>8, <2>1, Zenon
  <2> QED
    BY <1>2, <2>2, Zenon DEF Slot
<1> QED
  BY <1>6, <1>7, <1>8, Zenon

\* The message after the unread ones is in the slot of head.
LEMMA LastSlot ==
    ASSUME head \in Counters, tail \in Counters
    PROVE  Slot(Unread) = head % Size
<1>1. head \in 0 .. Mod - 1 /\ tail \in 0 .. Mod - 1
  BY Zenon DEF Counters
<1>2. (tail + Unread) % Mod = IF tail + Unread < Mod THEN tail + Unread
                              ELSE tail + Unread - Mod
  BY <1>1, UnreadInRange, Constants, WrappedSum, Zenon
<1>3. CASE head >= tail
  <2>1. tail + Unread = head /\ tail + Unread < Mod
    BY <1>1, <1>3, UnreadInRange, Constants
  <2> QED
    BY <1>2, <2>1, Zenon DEF Slot
<1>4. CASE ~ (head >= tail)
  <2>1. tail + Unread - Mod = head /\ ~ (tail + Unread < Mod)
    BY <1>1, <1>4, UnreadInRange, Constants
  <2> QED
    BY <1>2, <2>1, Zenon DEF Slot
<1> QED
  BY <1>3, <1>4, Zenon

\* The kernel adds one to the unread messages ...
LEMMA OneMoreUnread ==
    ASSUME head \in Counters, tail \in Counters, Unread < Size,
           head' = (head + 1) % Mod, tail' = tail
    PROVE  head' \in Counters /\ Unread' = Unread + 1
<1>1. head \in 0 .. Mod - 1 /\ tail \in 0 .. Mod - 1
  BY Zenon DEF Counters
<1>2. Unread + 1 < Mod /\ head + 1 \in Int
  BY <1>1, UnreadInRange, Constants
<1>3. Mod \in Nat \ {0} /\ ((head - tail) % Mod) + 1 < Mod
  BY <1>2, Constants, Zenon DEF Unread
<1>4. (((head + 1) % Mod) - tail) % Mod = ((head - tail) % Mod) + 1
  BY <1>1, <1>3, OneMore, Zenon
<1>5. (head + 1) % Mod \in 0 .. Mod - 1
  BY <1>2, <1>3, Quotient, Zenon
<1> QED
  BY <1>4, <1>5, Zenon DEF Unread, Counters

\* ... consume_msg takes one away.
LEMMA OneLessUnread ==
    ASSUME head \in Counters, tail \in Counters, Unread > 0,
           head' = head, tail' = (tail + 1) % Mod
    PROVE  tail' \in Counters /\ Unread' = Unread - 1
<1>1. head \in 0 .. Mod - 1 /\ tail \in 0 .. Mod - 1
  BY Zenon DEF Counters
<1>2. 1 <= Unread
  BY UnreadInRange
<1>3. /\ Mod \in Nat \ {0} /\ 1 \in 0 .. Mod - 1
      /\ 1 <= (head - tail) % Mod
  BY <1>2, Constants, Zenon DEF Unread
<1>4. /\ (tail + 1) % Mod \in 0 .. Mod - 1
      /\ (head - ((tail + 1) % Mod)) % Mod = ((head - tail) % Mod) - 1
  BY <1>1, <1>3, Between, Zenon
<1> QED
  BY <1>4, Zenon DEF Unread, Counters

-----------------------------------------------------------------------------
(* The invariant is inductive.                                             *)

\* The queue starts empty.
LEMMA InitIInv == Init => IInv
<1> SUFFICES ASSUME Init PROVE IInv
  OBVIOUS
<1>1. head = 0 /\ tail = 0 /\ kpc = "idle" /\ lpc = "poll"
  BY Zenon DEF Init
<1>2. head \in Counters /\ tail \in Counters
  BY <1>1, Constants DEF Counters
<1>3. TypeOK
  BY <1>1, <1>2 DEF Init, TypeOK
<1>4. Unread <= Size
  BY <1>1, <1>2, UnreadInRange, Constants
<1> QED
  BY <1>1, <1>3, <1>4 DEF IInv

\* Every step of either side keeps the invariant.
LEMMA NextIInv == IInv /\ [Next]_vars => IInv'
<1> SUFFICES ASSUME IInv, [Next]_vars PROVE IInv'
  OBVIOUS
<1>1. /\ TypeOK
      /\ head \in Counters /\ tail \in Counters
      /\ data \in [Slots -> Messages \cup {NoMessage}]
  BY DEF IInv, TypeOK
<1>2. Unread \in 0 .. Mod - 1
  BY <1>1, UnreadInRange
<1>3. head % Size \in Slots /\ tail % Size \in Slots
  BY <1>1, SlotInRange
<1>4. ASSUME NEW m \in Messages, Write(m) PROVE IInv'
  <2>1. /\ kpc = "idle" /\ Unread < Size /\ kpc' = "written"
        /\ spares => ~ WrapCollides
        /\ data' = [data EXCEPT ![head % Size] = m]
        /\ UNCHANGED <<head, tail, lpc, ret, delivered, spares>>
    BY <1>4, Zenon DEF Write
  <2>2. Unread' = Unread /\ WrapCollides' = WrapCollides
    BY <2>1, Zenon DEF Unread, WrapCollides
  <2>3. TypeOK'
    BY <1>1, <2>1 DEF TypeOK
  <2>4. data'[head % Size] \in Messages
    BY <1>1, <1>3, <2>1
  <2>5. ASSUME lpc = "advance" PROVE CopyInSlot'
    <3>1. CopyInSlot /\ 0 \in 0 .. Unread - 1
      BY <1>2, <2>5 DEF IInv
    <3>2. CASE tail % Size # head % Size
      <4>1. data'[tail % Size] = data[tail % Size]
        BY <1>1, <1>3, <2>1, <3>2
      <4> QED
        BY <2>1, <2>2, <3>1, <4>1, Zenon DEF CopyInSlot
    <3>3. CASE tail % Size = head % Size
      <4>1. head < Mod % Size /\ Unread - 0 = Mod % Size
        BY <1>1, <2>1, <3>1, <3>3, NextSlotUsed, FirstSlot, Zenon
      <4>2. Mod - tail <= Mod % Size /\ Mod % Size <= Unread
        BY <1>1, <4>1, UnreadInRange, Constants DEF Counters
      <4>3. ~ spares
        BY <2>1, <4>1, <4>2, Zenon DEF WrapCollides
      <4> QED
        BY <2>1, <2>2, <4>2, <4>3, Zenon DEF CopyInSlot
    <3> QED
      BY <3>2, <3>3, Zenon
  <2> QED
    BY <2>1, <2>2, <2>3, <2>4, <2>5, Zenon DEF IInv
<1>5. CASE Publish
  <2>1. /\ kpc = "written" /\ kpc' = "idle" /\ head' = (head + 1) % Mod
        /\ UNCHANGED <<tail, data, lpc, ret, delivered, spares>>
    BY <1>5, Zenon DEF Publish
  <2>2. Unread < Size
    BY <2>1, Zenon DEF IInv
  <2>3. head' \in Counters /\ Unread' = Unread + 1
    BY <1>1, <2>1, <2>2, OneMoreUnread, Zenon
  <2>4. TypeOK'
    BY <1>1, <2>1, <2>3, Zenon DEF TypeOK
  <2>5. /\ Unread' <= Size /\ Unread' > 0
        /\ Mod % Size <= Unread => Mod % Size <= Unread'
    BY <1>2, <2>2, <2>3, Constants
  <2>6. CopyInSlot => CopyInSlot'
    BY <2>1, <2>5, Zenon DEF CopyInSlot
  <2> QED
    BY <2>1, <2>4, <2>5, <2>6, Zenon DEF IInv
<1>6. CASE NotEmpty
  <2>1. /\ lpc = "poll" /\ tail # head /\ lpc' = "read"
        /\ UNCHANGED <<head, tail, data, kpc, ret, delivered, spares>>
    BY <1>6, Zenon DEF NotEmpty
  <2>2. Unread > 0 /\ Unread' = Unread /\ WrapCollides' = WrapCollides
    BY <1>1, <2>1, UnreadInRange, Zenon DEF Unread, WrapCollides
  <2>3. TypeOK'
    BY <1>1, <2>1 DEF TypeOK
  <2> QED
    BY <2>1, <2>2, <2>3, Zenon DEF IInv
<1>7. CASE Read
  <2>1. /\ lpc = "read" /\ lpc' = "advance" /\ ret' = data[tail % Size]
        /\ UNCHANGED <<head, tail, data, kpc, delivered, spares>>
    BY <1>7, Zenon DEF Read
  <2>2. Unread > 0 /\ Unread' = Unread /\ WrapCollides' = WrapCollides
    BY <2>1, Zenon DEF IInv, Unread, WrapCollides
  <2>3. TypeOK' /\ CopyInSlot'
    BY <1>1, <1>3, <2>1 DEF TypeOK, CopyInSlot
  <2> QED
    BY <2>1, <2>2, <2>3, Zenon DEF IInv
<1>8. CASE Advance
  <2>1. /\ lpc = "advance" /\ lpc' = "poll" /\ tail' = (tail + 1) % Mod
        /\ delivered' = ret
        /\ UNCHANGED <<head, data, kpc, ret, spares>>
    BY <1>8, Zenon DEF Advance
  <2>2. Unread > 0
    BY <2>1, Zenon DEF IInv
  <2>3. tail' \in Counters /\ Unread' = Unread - 1
    BY <1>1, <2>1, <2>2, OneLessUnread, Zenon
  <2>4. TypeOK'
    BY <1>1, <2>1, <2>3 DEF TypeOK
  <2>5. /\ Unread <= Size => Unread' <= Size
        /\ Unread < Size => Unread' < Size
        /\ Mod % Size <= Unread' => Mod % Size <= Unread
    BY <1>2, <2>3, Constants
  <2>6. ~ WrapCollides => ~ WrapCollides'
    BY <2>1, <2>5, Zenon DEF WrapCollides
  <2> QED
    BY <2>1, <2>4, <2>5, <2>6, Zenon DEF IInv
<1>9. CASE UNCHANGED vars
  BY <1>9, Zenon DEF IInv, TypeOK, CopyInSlot, vars, Unread, WrapCollides
<1> QED
  BY <1>4, <1>5, <1>6, <1>7, <1>8, <1>9, Zenon DEF Next, Lord

\* The inductive invariant: with at most Size unread messages, a kernel that
\* minds the wrap has a free slot, and the lord's copy is the oldest message.
THEOREM RingInductive == Spec => []IInv
<1> QED
  BY InitIInv, NextIInv, PTL DEF Spec

\* Every variable keeps its type: the counters never leave their range
\* (message_queue.h:27-34).
THEOREM RingTypeCorrect == Spec => []TypeOK
<1>1. IInv => TypeOK
  BY DEF IInv
<1> QED
  BY <1>1, RingInductive, PTL

\* What a kernel that only keeps the ring from overflowing can destroy, for
\* every size of the ring and every range of the counters: nothing but, with
\* each of the first Mod % Size messages after the wrap, the one Mod % Size
\* places before it.  A kernel that minds the wrap destroys nothing.
THEOREM RingNoOverwrite == Spec => []NoOverwrite
<1>1. IInv => NoOverwrite
  <2> SUFFICES ASSUME IInv, kpc = "written" PROVE NoOverwrite
    BY Zenon DEF NoOverwrite
  <2>1. /\ head \in Counters /\ tail \in Counters
        /\ Unread < Size /\ (spares => ~ WrapCollides)
    BY Zenon DEF IInv, TypeOK
  <2>2. ASSUME NEW i \in 0 .. Unread - 1
        PROVE  Slot(i) = head % Size <=> head < Mod % Size /\ Unread - i = Mod % Size
    BY <2>1, NextSlotUsed, Zenon
  <2>3. ASSUME spares, NEW i \in 0 .. Unread - 1 PROVE Slot(i) # head % Size
    BY <2>1, <2>3, FreeSlot, Zenon
  <2> QED
    BY <2>2, <2>3, Zenon DEF NoOverwrite
<1> QED
  BY <1>1, RingInductive, PTL

\* What consume_msg copied is still the oldest unread message when it advances
\* the counter, unless the kernel does not mind the wrap and the message is one
\* of the last Mod % Size before it.
THEOREM RingCopyIsHead == Spec => []CopyIsHead
<1>1. IInv => CopyIsHead
  <2> SUFFICES ASSUME IInv, lpc = "advance" PROVE CopyIsHead
    BY Zenon DEF CopyIsHead
  <2>1. Unread > 0 /\ CopyInSlot /\ head \in Counters /\ tail \in Counters
    BY Zenon DEF IInv, TypeOK
  <2>2. 1 \in 1 .. Unread /\ 1 - 1 = 0
    BY <2>1, UnreadInRange
  <2>3. Pending[1] = data[Slot(0)]
    BY <2>2 DEF Pending
  <2>4. Pending[1] = data[tail % Size]
    BY <2>1, <2>3, FirstSlot, Zenon
  <2> QED
    BY <2>1, <2>4, Zenon DEF CopyIsHead, CopyInSlot
<1> QED
  BY <1>1, RingInductive, PTL

-----------------------------------------------------------------------------
(* The ring is a FIFO channel.                                             *)

\* The slots of the unread messages exist.
LEMMA SlotExists ==
    ASSUME TypeOK, NEW i \in 0 .. Mod - 1
    PROVE  Slot(i) \in Slots
<1>1. tail + i \in Int
  BY Constants DEF TypeOK, Counters
<1>2. (tail + i) % Mod \in Counters
  BY <1>1, Constants, Quotient, Zenon DEF Counters
<1> QED
  BY <1>2, SlotInRange, Zenon DEF Slot

\* The unread messages are a sequence, as long as their number.
PendingIsSeq ==
    /\ Unread \in Nat
    /\ Pending \in Seq(Messages \cup {NoMessage})
    /\ Len(Pending) = Unread
    /\ \A i \in 1 .. Unread : Pending[i] = data[Slot(i - 1)]

\* ... in every state of the right type.
LEMMA PendingSeq == TypeOK => PendingIsSeq
<1> SUFFICES ASSUME TypeOK PROVE PendingIsSeq
  OBVIOUS
<1>1. Unread \in 0 .. Mod - 1
  BY UnreadInRange, Zenon DEF TypeOK
<1>2. ASSUME NEW i \in 1 .. Unread PROVE data[Slot(i - 1)] \in Messages \cup {NoMessage}
  <2>1. i - 1 \in 0 .. Mod - 1
    BY <1>1, Constants
  <2> QED
    BY <2>1, SlotExists, Zenon DEF TypeOK
<1>3. Unread \in Nat
  BY <1>1, Constants
<1> QED
  BY <1>2, <1>3 DEF Pending, PendingIsSeq

\* ... after every step, too.
LEMMA PendingSeqNext == TypeOK' => PendingIsSeq'
BY PendingSeq, PTL

\* With a kernel that minds the wrap a step of the ring is a step of the
\* channel, or none.
LEMMA SparedStep ==
    ASSUME IInv, IInv', [Next]_vars, spares, spares' = spares
    PROVE  [Channel!Next]_<<Chan, Handed>>
<1> Chan = Pending /\ Chan' = Pending' /\ Handed = delivered /\ Handed' = delivered'
  BY Zenon DEF Chan, Handed
<1>1. /\ TypeOK /\ TypeOK'
      /\ head \in Counters /\ tail \in Counters
      /\ data \in [Slots -> Messages \cup {NoMessage}]
  BY Zenon DEF IInv, TypeOK
<1>2. Unread \in 0 .. Mod - 1 /\ head % Size \in Slots
  BY <1>1, UnreadInRange, SlotInRange, Zenon
<1>3. ASSUME NEW m \in Messages, Write(m) PROVE UNCHANGED <<Chan, Handed>>
  <2>1. /\ Unread < Size /\ ~ WrapCollides
        /\ data' = [data EXCEPT ![head % Size] = m]
        /\ UNCHANGED <<head, tail, delivered>>
    BY <1>3, Zenon DEF Write
  <2>2. Unread' = Unread /\ \A i : Slot(i)' = Slot(i)
    BY <2>1, Zenon DEF Unread, Slot
  <2>3. ASSUME NEW i \in 1 .. Unread PROVE data'[Slot(i - 1)] = data[Slot(i - 1)]
    <3>1. i - 1 \in 0 .. Unread - 1 /\ i - 1 \in 0 .. Mod - 1
      BY <1>2, Constants
    <3>2. Slot(i - 1) # head % Size /\ Slot(i - 1) \in Slots
      BY <1>1, <2>1, <3>1, FreeSlot, SlotExists, Zenon
    <3> QED
      BY <1>1, <2>1, <3>2
  <2>4. Pending' = [i \in 1 .. Unread |-> data'[Slot(i - 1)]]
    BY <2>2, Zenon DEF Pending
  <2>5. Pending' = Pending
    BY <2>3, <2>4, Zenon DEF Pending
  <2> QED
    BY <2>1, <2>5, Zenon
<1>4. ASSUME Publish PROVE Channel!Send(data[head % Size]) /\ data[head % Size] \in Messages
  <2>1. /\ kpc = "written" /\ head' = (head + 1) % Mod
        /\ UNCHANGED <<tail, data, delivered>>
    BY <1>4, Zenon DEF Publish
  <2>2. Unread < Size /\ data[head % Size] \in Messages
    BY <2>1, Zenon DEF IInv
  <2>3. Unread' = Unread + 1 /\ \A i : Slot(i)' = Slot(i)
    BY <1>1, <2>1, <2>2, OneMoreUnread, Zenon DEF Slot
  <2>4. ASSUME NEW i \in 1 .. Unread + 1
        PROVE  Pending'[i] = IF i <= Unread THEN Pending[i] ELSE data[head % Size]
    <3>1. Pending'[i] = data[Slot(i - 1)]
      BY <1>1, <2>1, <2>3, PendingSeq, Zenon DEF PendingIsSeq, Pending
    <3>2. CASE i <= Unread
      <4>1. i \in 1 .. Unread
        BY <1>2, <3>2
      <4> QED
        BY <1>1, <3>1, <3>2, <4>1, PendingSeq, Zenon DEF PendingIsSeq
    <3>3. CASE ~ (i <= Unread)
      <4>1. i - 1 = Unread
        BY <1>2, <3>3
      <4> QED
        BY <1>1, <3>1, <3>3, <4>1, LastSlot, Zenon
    <3> QED
      BY <3>2, <3>3, Zenon
  <2>5. /\ Pending \in Seq(Messages \cup {NoMessage}) /\ Len(Pending) = Unread
        /\ Pending' \in Seq(Messages \cup {NoMessage}) /\ Len(Pending') = Unread + 1
    <3>1. Pending' \in Seq(Messages \cup {NoMessage}) /\ Len(Pending') = Unread'
      BY <1>1, PendingSeqNext, Zenon DEF PendingIsSeq
    <3> QED
      BY <1>1, <2>3, <3>1, PendingSeq, Zenon DEF PendingIsSeq
  <2>6. Pending' = Append(Pending, data[head % Size])
    BY <2>4, <2>5
  <2>7. Len(Pending) < Size
    BY <2>2, <2>5, Zenon
  <2> QED
    BY <2>1, <2>2, <2>6, <2>7, Zenon DEF Channel!Send
<1>5. ASSUME Advance PROVE Channel!Receive
  <2>1. /\ lpc = "advance" /\ tail' = (tail + 1) % Mod /\ delivered' = ret
        /\ UNCHANGED <<head, data>>
    BY <1>5, Zenon DEF Advance
  <2>2. Unread > 0 /\ ret = data[tail % Size]
    BY <2>1, Zenon DEF IInv, CopyInSlot
  <2>3. Unread' = Unread - 1
    BY <1>1, <2>1, <2>2, OneLessUnread, Zenon
  <2>4. ASSUME NEW i \in 1 .. Unread - 1 PROVE Pending'[i] = Pending[i + 1]
    <3>1. i \in 1 .. Unread' /\ i + 1 \in 1 .. Unread /\ (i + 1) - 1 = (i - 1) + 1
      BY <1>2, <2>3, Constants
    <3>2. i - 1 \in Nat /\ (i - 1) + 1 < Mod
      BY <1>2, Constants
    <3>3. Slot(i - 1)' = Slot((i + 1) - 1)
      BY <1>1, <2>1, <3>1, <3>2, NextSlot, Zenon DEF Slot
    <3>4. Pending'[i] = data'[Slot(i - 1)']
      BY <1>1, <3>1, PendingSeqNext, Zenon DEF PendingIsSeq
    <3>5. Pending[i + 1] = data[Slot((i + 1) - 1)]
      BY <1>1, <3>1, PendingSeq, Zenon DEF PendingIsSeq
    <3> QED
      BY <2>1, <3>3, <3>4, <3>5, Zenon
  <2>5. /\ Pending \in Seq(Messages \cup {NoMessage}) /\ Len(Pending) = Unread
        /\ Pending' \in Seq(Messages \cup {NoMessage}) /\ Len(Pending') = Unread - 1
    BY <1>1, <2>3, PendingSeq, PendingSeqNext, Zenon DEF PendingIsSeq
  <2>6. Pending # <<>> /\ Pending' = Tail(Pending)
    BY <1>2, <2>2, <2>4, <2>5
  <2>7. Head(Pending) = data[tail % Size]
    <3>1. 1 \in 1 .. Unread /\ 1 - 1 = 0
      BY <1>2, <2>2
    <3>2. Pending[1] = data[Slot(0)]
      BY <1>1, <3>1, PendingSeq, Zenon DEF PendingIsSeq
    <3>3. Head(Pending) = Pending[1]
      BY <2>5, <2>6
    <3> QED
      BY <1>1, <3>2, <3>3, FirstSlot, Zenon
  <2> QED
    BY <2>1, <2>2, <2>6, <2>7, Zenon DEF Channel!Receive
<1>6. ASSUME UNCHANGED <<head, tail, data, delivered>> PROVE UNCHANGED <<Chan, Handed>>
  <2>1. Unread' = Unread /\ \A i : Slot(i)' = Slot(i)
    BY <1>6, Zenon DEF Unread, Slot
  <2> QED
    BY <1>6, <2>1, Zenon DEF Pending
<1>7. \/ \E m \in Messages : Write(m)
      \/ Publish
      \/ Advance
      \/ UNCHANGED <<head, tail, data, delivered>>
  BY Zenon DEF Next, Lord, NotEmpty, Read, vars
<1> QED
  BY <1>3, <1>4, <1>5, <1>6, <1>7, Zenon DEF Channel!Next

\* With any other kernel nothing is said of the channel.
LEMMA RingStep ==
    ASSUME IInv, IInv', [Next]_vars
    PROVE  [Channel!Next]_<<Chan, Handed>>
<1>1. spares' = spares
  BY Zenon DEF Next, Lord, Write, Publish, NotEmpty, Read, Advance, vars
<1>2. CASE spares
  BY <1>1, <1>2, SparedStep, Zenon
<1>3. CASE ~ spares
  BY <1>1, <1>3, Zenon DEF Chan, Handed
<1> QED
  BY <1>2, <1>3, Zenon

\* Both start empty.
LEMMA RingInit == Init => Channel!Init
<1> SUFFICES ASSUME Init PROVE Channel!Init
  OBVIOUS
<1>1. head = 0 /\ tail = 0 /\ delivered = NoMessage
  BY Zenon DEF Init
<1>2. head \in Counters /\ tail \in Counters
  BY <1>1, Constants DEF Counters
<1>3. Unread = 0
  BY <1>1, <1>2, UnreadInRange
<1>4. Pending = <<>>
  BY <1>3 DEF Pending
<1> QED
  BY <1>1, <1>4, Zenon DEF Channel!Init, Chan, Handed

\* With a kernel that minds the wrap the ring implements the FIFO channel of
\* MsgChannel: no message is lost, duplicated, reordered or altered, for every
\* size and every range of the counters, up to the last slot.  (That every message is handed over, ImplementsChannel
\* in full, is left to the model checker.)
THEOREM RingIsChannel == Spec => Channel!Spec
<1>1. Init => Channel!Init
  BY RingInit
<1>2. IInv /\ IInv' /\ [Next]_vars => [Channel!Next]_<<Chan, Handed>>
  BY RingStep
<1> QED
  BY <1>1, <1>2, RingInductive, PTL DEF Spec, Channel!Spec
=============================================================================
