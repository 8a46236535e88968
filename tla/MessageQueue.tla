---------------------------- MODULE MessageQueue ----------------------------
(***************************************************************************)
(* The message queue: a ring in memory shared by the kernel, which writes  *)
(* a slot and then advances head, and the lord, which reads a slot and     *)
(* then advances tail.  Both counters run on for ever, modulo 2^32; a slot *)
(* is the counter modulo the size of the ring.  2^32 is no multiple of     *)
(* 511: the first 2^32 % 511 = 32 messages after the wrap have the slots   *)
(* of the last 32 before it.                                               *)
(***************************************************************************)
EXTENDS Integers, Sequences

CONSTANTS
    Messages,
    NoMessage,  \* an empty slot, or nothing delivered
    Size,       \* _MQ_DATA_SIZE, 511
    Mod         \* 2^32, the range of the u32 counters

ASSUME RingAssumption ==
    /\ NoMessage \notin Messages
    /\ Size \in Nat \ {0} /\ Mod \in Nat /\ Size < Mod

VARIABLES
    head, tail, \* cos_message_queue.head, .tail
    data,       \* cos_message_queue.data
    kpc,        \* the kernel: "idle" or "written", between the two stores
    lpc,        \* the lord: "poll", "read" or "advance"
    ret,        \* the local of consume_msg
    delivered,  \* what the last call of consume_msg returned
    spares      \* whether the kernel minds the wrap; its code is elsewhere

vars == <<head, tail, data, kpc, lpc, ret, delivered, spares>>

Counters == 0 .. Mod - 1
Slots    == 0 .. Size - 1

\* The number of unread messages.
Unread == (head - tail) % Mod

\* The slot of the message that i unread ones precede.
Slot(i) == ((tail + i) % Mod) % Size

\* The message Mod % Size places before head is unread and from before the
\* wrap, head is not: both have the same slot.
WrapCollides == head < Mod % Size /\ Mod % Size <= Unread

TypeOK ==
    /\ head \in Counters /\ tail \in Counters
    /\ data \in [Slots -> Messages \cup {NoMessage}]
    /\ kpc \in {"idle", "written"}
    /\ lpc \in {"poll", "read", "advance"}
    /\ {ret, delivered} \subseteq Messages \cup {NoMessage}
    /\ spares \in BOOLEAN

\* The kernel creates the queue; create_mq maps it.
Init ==
    /\ head = 0 /\ tail = 0
    /\ data = [s \in Slots |-> NoMessage]
    /\ kpc = "idle" /\ lpc = "poll"
    /\ ret = NoMessage /\ delivered = NoMessage
    /\ spares \in BOOLEAN

\* The kernel: the message first, if the ring is not full.
Write(m) ==
    /\ kpc = "idle"
    /\ Unread < Size
    /\ spares => ~ WrapCollides
    /\ data' = [data EXCEPT ![head % Size] = m]
    /\ kpc' = "written"
    /\ UNCHANGED <<head, tail, lpc, ret, delivered, spares>>

\* The kernel: the counter after the message.
Publish ==
    /\ kpc = "written"
    /\ head' = (head + 1) % Mod
    /\ kpc' = "idle"
    /\ UNCHANGED <<tail, data, lpc, ret, delivered, spares>>

\* empty() returns false; consume_msg is called.
NotEmpty ==
    /\ lpc = "poll"
    /\ tail # head
    /\ lpc' = "read"
    /\ UNCHANGED <<head, tail, data, kpc, ret, delivered, spares>>

\* Mutant: the counter is advanced before the slot is computed.
Read_Next ==
    /\ lpc = "read"
    /\ ret' = data[(tail + 1) % Size]
    /\ lpc' = "advance"
    /\ UNCHANGED <<head, tail, data, kpc, delivered, spares>>

\* ret = data[tail % 511]; smp_mb()
Read ==
    /\ lpc = "read"
    /\ ret' = data[tail % Size]
    /\ lpc' = "advance"
    /\ UNCHANGED <<head, tail, data, kpc, delivered, spares>>

\* Mutant: one call consumes all there is.
Advance_ToHead ==
    /\ lpc = "advance"
    /\ tail' = head
    /\ delivered' = ret
    /\ lpc' = "poll"
    /\ UNCHANGED <<head, data, kpc, ret, spares>>

\* Mutant: the counter is wider than its type.
Advance_NoWrap ==
    /\ lpc = "advance"
    /\ tail' = tail + 1
    /\ delivered' = ret
    /\ lpc' = "poll"
    /\ UNCHANGED <<head, data, kpc, ret, spares>>

\* Mutant: the counter is advanced twice.
Advance_Twice ==
    /\ lpc = "advance"
    /\ tail' = (tail + 2) % Mod
    /\ delivered' = ret
    /\ lpc' = "poll"
    /\ UNCHANGED <<head, data, kpc, ret, spares>>

\* tail++; smp_mb(); return ret
Advance ==
    /\ lpc = "advance"
    /\ tail' = (tail + 1) % Mod
    /\ delivered' = ret
    /\ lpc' = "poll"
    /\ UNCHANGED <<head, data, kpc, ret, spares>>

Lord == NotEmpty \/ Read \/ Advance

Next == Publish \/ Lord \/ \E m \in Messages : Write(m)

Spec == Init /\ [][Next]_vars

\* The lord polls for ever; nothing is asked of the kernel.
FairSpec == Spec /\ WF_vars(Lord)

-----------------------------------------------------------------------------

\* The unread messages, oldest first.
Pending == [i \in 1 .. Unread |-> data[Slot(i - 1)]]

\* The channel the ring implements if the kernel minds the wrap.
Chan   == IF spares THEN Pending ELSE <<>>
Handed == IF spares THEN delivered ELSE NoMessage

Channel == INSTANCE MsgChannel WITH
    Cap <- Size, chan <- Chan, delivered <- Handed

\* With a kernel that minds the wrap the ring is the FIFO channel the lord takes
\* it for, full or not, and a message that was published is handed over: each
\* two-step operation of one side may run between the two steps of the other,
\* and the counters may wrap (message_queue.h:27-38).
ImplementsChannel == Channel!FairSpec

\* A message is read where it was written: what the lord copied is still the
\* oldest message when it advances the counter, also while the kernel fills
\* the ring.  The one exception needs a kernel that does not mind the wrap: the
\* message is one of the last Mod % Size before it, and as many are unread.
CopyIsHead ==
    lpc = "advance" =>
        /\ Unread > 0
        /\ \/ ret = Pending[1]
           \/ ~ spares /\ Mod - tail <= Mod % Size /\ Mod % Size <= Unread

\* What a kernel that leaves at most Size messages unread can destroy: the slot
\* it writes is that of an unread message only for the first Mod % Size
\* messages after the counters wrap, and then of the one Mod % Size places
\* before, if that is unread.  A kernel that minds the wrap destroys none
\* (message_queue.h:29-31, kernel/message_queue.h:13).
NoOverwrite ==
    kpc = "written" =>
        /\ \A i \in 0 .. Unread - 1 :
               Slot(i) = head % Size
                 <=> head < Mod % Size /\ Unread - i = Mod % Size
        /\ spares => \A i \in 0 .. Unread - 1 : Slot(i) # head % Size
=============================================================================
