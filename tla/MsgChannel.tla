----------------------------- MODULE MsgChannel -----------------------------
(***************************************************************************)
(* What the message queue promises: a FIFO channel that neither loses, nor *)
(* duplicates, nor reorders, nor alters a message.  The systems that join  *)
(* a lord with the kernel use it as their variable mq.                     *)
(***************************************************************************)
EXTENDS Naturals, Sequences

CONSTANTS Messages, NoMessage, Cap

VARIABLES chan,      \* the messages sent and not yet handed to the lord
          delivered  \* the last message handed to the lord, or NoMessage

Init == chan = <<>> /\ delivered = NoMessage

Send(m) ==
    /\ Len(chan) < Cap
    /\ chan' = Append(chan, m)
    /\ UNCHANGED delivered

Receive ==
    /\ chan # <<>>
    /\ delivered' = Head(chan)
    /\ chan' = Tail(chan)

Next == Receive \/ \E m \in Messages : Send(m)

Spec == Init /\ [][Next]_<<chan, delivered>>

\* The lord polls for ever.
FairSpec == Spec /\ WF_<<chan, delivered>>(Receive)
=============================================================================
