------------------------------- MODULE TxPool -------------------------------
(****************************************************************************)
(* The transmit side of main/services/can.c: the pool of frames that        *)
(* can_service_send() lends to the TWAI driver, called by several tasks at  *)
(* once, with on_tx_done() returning slots from interrupt context.          *)
(*                                                                          *)
(* The driver is external.  From how can.c uses it: twai_node_transmit()    *)
(* queues a pointer to the slot and reads the slot only when the frame      *)
(* starts on the wire; on_tx_done() reports the slot when the frame is      *)
(* complete; a frame on the wire when bus-off begins is dropped without     *)
(* on_tx_done(); frames behind it stay queued until the bus has recovered.  *)
(*                                                                          *)
(* Time is abstract: a busy slot is `old` once it was claimed more than     *)
(* TX_SLOT_STALE_US ago.                                                    *)
(****************************************************************************)
EXTENDS Naturals, Sequences, FiniteSets

CONSTANTS Sender,           \* tasks that call can_service_send()
          Frames,           \* frame contents
          TX_POOL_SIZE,
          QueueDepth,       \* tx_queue_depth of the driver
          LongOutage,       \* may a bus-off last longer than TX_SLOT_STALE_US?
          NoFrame, NoSlot

ASSUME PoolAssumption ==
    /\ TX_POOL_SIZE \in Nat \ {0}
    /\ QueueDepth \in Nat \ {0}
    /\ LongOutage \in BOOLEAN
    /\ NoFrame \notin Frames

Slots == 0..TX_POOL_SIZE-1

ASSUME NoSlotAssumption == NoSlot \notin Slots

VARIABLES busy,      \* s_tx_busy, as a set of slots
          old,       \* busy slots whose s_tx_claimed_at_us is stale
          data,      \* slot |-> content of s_tx_data / s_tx_pool
          pc,        \* sender |-> where it is in can_service_send()
          idx,       \* sender |-> the slot it has claimed
          msg,       \* sender |-> the frame it was called with
          queue,     \* slots queued in the driver
          wire,      \* the slot whose frame is on the wire, or NoSlot
          onWire,    \* the content the controller is sending
          busOff,    \* the controller is in bus-off
          sent       \* the content that last completed on the bus

driver == <<queue, wire, onWire, busOff, sent>>
vars   == <<busy, old, data, pc, idx, msg, driver>>

Init ==
    /\ busy = {} /\ old = {}
    /\ data = [s \in Slots |-> NoFrame]
    /\ pc   = [t \in Sender |-> "idle"]
    /\ idx  = [t \in Sender |-> NoSlot]
    /\ msg  = [t \in Sender |-> NoFrame]
    /\ queue = <<>> /\ wire = NoSlot /\ onWire = NoFrame
    /\ busOff = FALSE /\ sent = NoFrame

------------------------------------------------------------------------------
(* can_service_send(), one action per critical section or driver call.      *)

(* A task calls it; other tasks and interrupts run between its steps.       *)
Call(t, f) ==
    /\ pc[t] = "idle"
    /\ pc'  = [pc EXCEPT ![t] = "claim"]
    /\ msg' = [msg EXCEPT ![t] = f]
    /\ UNCHANGED <<busy, old, data, idx, driver>>

(* Variant: the search runs one slot past the end of the pool.              *)
ClaimOnePast(t) ==
    /\ pc[t] \in {"claim", "reclaimed"}
    /\ \E s \in 0..TX_POOL_SIZE :
          /\ \A r \in 0..TX_POOL_SIZE : r \in busy \/ s <= r
          /\ s \notin busy
          /\ busy' = busy \cup {s}
          /\ old'  = old \ {s}
          /\ idx'  = [idx EXCEPT ![t] = s]
    /\ pc' = [pc EXCEPT ![t] = "fill"]
    /\ UNCHANGED <<data, msg, driver>>

(* try_claim_tx_slot(): the lowest free slot, stamped with the time.        *)
Claim(t) ==
    /\ pc[t] \in {"claim", "reclaimed"}
    /\ \E s \in Slots \ busy :
          /\ \A r \in Slots \ busy : s <= r
          /\ busy' = busy \cup {s}
          /\ old'  = old \ {s}
          /\ idx'  = [idx EXCEPT ![t] = s]
    /\ pc' = [pc EXCEPT ![t] = "fill"]
    /\ UNCHANGED <<data, msg, driver>>

(* Variants: every slot is freed, however young; no slot is.                *)
ReclaimAll(t) ==
    /\ pc[t] = "claim" /\ Slots \subseteq busy
    /\ busy' = {} /\ old' = {}
    /\ pc'   = [pc EXCEPT ![t] = "reclaimed"]
    /\ UNCHANGED <<data, idx, msg, driver>>

ReclaimNothing(t) ==
    /\ pc[t] = "claim" /\ Slots \subseteq busy
    /\ pc'   = [pc EXCEPT ![t] = "reclaimed"]
    /\ UNCHANGED <<busy, old, data, idx, msg, driver>>

(* The pool looked full: reclaim_stale_tx_slots().                          *)
Reclaim(t) ==
    /\ pc[t] = "claim" /\ Slots \subseteq busy
    /\ busy' = busy \ old
    /\ old'  = {}
    /\ pc'   = [pc EXCEPT ![t] = "reclaimed"]
    /\ UNCHANGED <<data, idx, msg, driver>>

(* Still full: ESP_ERR_NO_MEM.                                              *)
Exhausted(t) ==
    /\ pc[t] = "reclaimed" /\ Slots \subseteq busy
    /\ pc'  = [pc EXCEPT ![t] = "idle"]
    /\ msg' = [msg EXCEPT ![t] = NoFrame]
    /\ UNCHANGED <<busy, old, data, idx, driver>>

(* Variant: the slot keeps what an earlier frame left in it.                *)
FillOnce(t) ==
    /\ pc[t] = "fill"
    /\ data' = IF data[idx[t]] = NoFrame
               THEN [data EXCEPT ![idx[t]] = msg[t]] ELSE data
    /\ pc'   = [pc EXCEPT ![t] = "transmit"]
    /\ UNCHANGED <<busy, old, idx, msg, driver>>

(* The caller's frame is copied into the slot.                              *)
Fill(t) ==
    /\ pc[t] = "fill"
    /\ data' = [data EXCEPT ![idx[t]] = msg[t]]
    /\ pc'   = [pc EXCEPT ![t] = "transmit"]
    /\ UNCHANGED <<busy, old, idx, msg, driver>>

(* twai_node_transmit() takes the slot.                                     *)
Transmit(t) ==
    /\ pc[t] = "transmit"
    /\ ~busOff /\ Len(queue) < QueueDepth
    /\ queue' = Append(queue, idx[t])
    /\ pc'    = [pc EXCEPT ![t] = "idle"]
    /\ idx'   = [idx EXCEPT ![t] = NoSlot]
    /\ msg'   = [msg EXCEPT ![t] = NoFrame]
    /\ UNCHANGED <<busy, old, data, wire, onWire, busOff, sent>>

(* It refuses (bus-off, queue full for timeout_ms): the slot is released.   *)
TransmitFails(t) ==
    /\ pc[t] = "transmit"
    /\ busOff \/ Len(queue) >= QueueDepth
    /\ busy' = busy \ {idx[t]}
    /\ old'  = old \ {idx[t]}
    /\ pc'   = [pc EXCEPT ![t] = "idle"]
    /\ idx'  = [idx EXCEPT ![t] = NoSlot]
    /\ msg'  = [msg EXCEPT ![t] = NoFrame]
    /\ UNCHANGED <<data, driver>>

------------------------------------------------------------------------------
(* The driver and its interrupt, and time.                                  *)

StartFrame ==
    /\ wire = NoSlot /\ queue # <<>> /\ ~busOff
    /\ wire'   = Head(queue)
    /\ onWire' = data[Head(queue)]
    /\ queue'  = Tail(queue)
    /\ UNCHANGED <<busy, old, data, pc, idx, msg, busOff, sent>>

(* on_tx_done()                                                             *)
TxDone ==
    /\ wire # NoSlot
    /\ busy'   = busy \ {wire}
    /\ old'    = old \ {wire}
    /\ wire'   = NoSlot
    /\ onWire' = NoFrame
    /\ sent'   = onWire
    /\ UNCHANGED <<data, pc, idx, msg, queue, busOff>>

(* Only a frame it is sending takes the controller to bus-off.  That frame  *)
(* is dropped, and no interrupt reports its slot.                           *)
GoBusOff ==
    /\ ~busOff /\ wire # NoSlot
    /\ busOff' = TRUE
    /\ wire'   = NoSlot
    /\ onWire' = NoFrame
    /\ UNCHANGED <<busy, old, data, pc, idx, msg, queue, sent>>

Recover ==
    /\ busOff
    /\ busOff' = FALSE
    /\ UNCHANGED <<busy, old, data, pc, idx, msg, queue, wire, onWire, sent>>

(* The slots that somebody still refers to.                                 *)
Claimed  == {idx[t] : t \in Sender} \ {NoSlot}
Queued   == {queue[i] : i \in 1..Len(queue)}
Referred == Claimed \cup Queued \cup ({wire} \ {NoSlot})

(* TX_SLOT_STALE_US passes for a slot.  A healthy bus works off the whole   *)
(* queue in well under that (can.c:27-28), so only a slot that a bus-off    *)
(* stranded is held that long, or one that waits for a long bus-off to end. *)
GrowOld(s) ==
    /\ s \in busy \ old
    /\ s \notin Referred \/ (LongOutage /\ busOff /\ s \in Queued)
    /\ old' = old \cup {s}
    /\ UNCHANGED <<busy, data, pc, idx, msg, driver>>

------------------------------------------------------------------------------
Send(t) ==
    \/ Claim(t)
    \/ Reclaim(t)
    \/ Exhausted(t)
    \/ Fill(t)
    \/ Transmit(t)
    \/ TransmitFails(t)

Next ==
    \/ \E t \in Sender, f \in Frames : Call(t, f)
    \/ \E t \in Sender : Send(t)
    \/ StartFrame
    \/ TxDone
    \/ GoBusOff
    \/ Recover
    \/ \E s \in Slots : GrowOld(s)

Spec == Init /\ [][Next]_vars

(* Every task that called can_service_send() goes on running, tasks keep    *)
(* sending, time passes, the controller works off its queue, and every      *)
(* bus-off ends (can_state_log_task requests recovery until it does).       *)
Fairness ==
    /\ \A t \in Sender : WF_vars(\E f \in Frames : Call(t, f))
    /\ \A t \in Sender : WF_vars(Send(t))
    /\ WF_vars(StartFrame) /\ WF_vars(TxDone) /\ WF_vars(Recover)
    /\ \A s \in Slots : WF_vars(GrowOld(s))

FairSpec == Spec /\ Fairness

------------------------------------------------------------------------------
(* Type invariant of the pool, its callers and the driver's queue.          *)
TypeOK ==
    /\ busy \in SUBSET Slots /\ old \in SUBSET busy
    /\ data \in [Slots -> Frames \cup {NoFrame}]
    /\ pc \in [Sender -> {"idle", "claim", "reclaimed", "fill", "transmit"}]
    /\ idx \in [Sender -> Slots \cup {NoSlot}]
    /\ msg \in [Sender -> Frames \cup {NoFrame}]
    /\ queue \in Seq(Slots)
    /\ wire \in Slots \cup {NoSlot}
    /\ onWire \in Frames \cup {NoFrame}
    /\ busOff \in BOOLEAN
    /\ sent \in Frames \cup {NoFrame}

(* A slot somebody refers to is marked busy, and nobody else refers to it:  *)
(* two senders never fill the same slot, and no sender fills a slot the     *)
(* driver still has to read ("both must remain valid until the on_tx_done   *)
(* ISR fires for that frame", can.c:46-48).                                 *)
SlotsAreNotShared ==
    /\ Referred \subseteq busy
    /\ \A t, u \in Sender : t # u /\ idx[t] # NoSlot => idx[t] # idx[u]
    /\ \A i, j \in 1..Len(queue) : i # j => queue[i] # queue[j]
    /\ wire \notin Queued
    /\ Claimed \cap (Queued \cup {wire}) = {}

(* s_tx_busy's bit N is set while slot N is owned by the TWAI driver, as    *)
(* can.c:48 says, also across an outage longer than TX_SLOT_STALE_US.       *)
DriverOwnsBusySlots == Queued \cup ({wire} \ {NoSlot}) \subseteq busy

(* Callers see a lossy FIFO: each accepted frame leaves in order and with   *)
(* the content it was accepted with, or is lost on the wire.                *)
Content  == [i \in 1..Len(queue) |-> data[queue[i]]]
OnItsWay == (IF wire = NoSlot THEN <<>> ELSE <<onWire>>) \o Content

Fifo == INSTANCE LossyFifo WITH asked <- msg, fifo <- OnItsWay

ImplementsFifo == Fifo!Spec

(* However many bus-offs strand slots, the pool does not stay exhausted:    *)
(* can_service_send() finds a slot again (can.c:343-352).                   *)
PoolRecovers == []<>(Slots \ busy # {})
==============================================================================
