------------------------------ MODULE LossyFifo ------------------------------
(****************************************************************************)
(* What can_service_send() promises its callers: a frame it accepts goes    *)
(* out on the bus with the content the caller passed, after the frames      *)
(* accepted before it, or, if the controller goes bus-off while it is on    *)
(* the wire, is lost.  Nothing is sent twice, altered or overtaken, and a   *)
(* refused frame is never sent.                                             *)
(****************************************************************************)
EXTENDS Sequences

CONSTANTS Sender, Frames, NoFrame

VARIABLES asked,   \* sender |-> the frame it is in a call with, or NoFrame
          fifo,    \* accepted frames, oldest first
          sent     \* the frame that last completed on the bus

Init == asked = [t \in Sender |-> NoFrame] /\ fifo = <<>> /\ sent = NoFrame

Ask(t, f) ==
    /\ asked[t] = NoFrame
    /\ asked' = [asked EXCEPT ![t] = f]
    /\ UNCHANGED <<fifo, sent>>

Accept(t) ==
    /\ asked[t] # NoFrame
    /\ fifo'  = Append(fifo, asked[t])
    /\ asked' = [asked EXCEPT ![t] = NoFrame]
    /\ UNCHANGED sent

Refuse(t) ==
    /\ asked[t] # NoFrame
    /\ asked' = [asked EXCEPT ![t] = NoFrame]
    /\ UNCHANGED <<fifo, sent>>

Deliver ==
    /\ fifo # <<>>
    /\ sent' = Head(fifo) /\ fifo' = Tail(fifo)
    /\ UNCHANGED asked

Lose == fifo # <<>> /\ fifo' = Tail(fifo) /\ UNCHANGED <<asked, sent>>

Next ==
    \/ \E t \in Sender : (\E f \in Frames : Ask(t, f)) \/ Accept(t) \/ Refuse(t)
    \/ Deliver
    \/ Lose

Spec == Init /\ [][Next]_<<asked, fifo, sent>>
==============================================================================
