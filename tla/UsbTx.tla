-------------------------------- MODULE UsbTx --------------------------------
(****************************************************************************)
(* The way of a received CAN frame to the USB host: the interrupt and       *)
(* can_task of main/services/can.c, the observer queue, and cdc_write() of  *)
(* main/services/usb_bridge.c, whose one buffer two tasks share under a     *)
(* binary semaphore while interrupts report the end of transfers and the    *)
(* host connecting and disconnecting.                                       *)
(*                                                                          *)
(* The USB stack is external: usbd_ep_start_write() starts a transfer out   *)
(* of the buffer, or does nothing on an endpoint that is not open; a bus    *)
(* reset closes the endpoint and a new configuration opens it, either way   *)
(* dropping the transfer without a call of usbd_cdc_acm_bulk_in().  No      *)
(* frame is a multiple of s_mps long, so that no empty packet follows one.  *)
(****************************************************************************)
EXTENDS Naturals, FiniteSets

CONSTANTS Can2usb, Usb2can,     \* the tasks that call cdc_write()
          NoTask,
          QUEUE_DEPTH,          \* 32 frames between the interrupt and can_task
          CAN_RX_QUEUE_DEPTH    \* 32 frames between can_task and the bridge

Writer == {Can2usb, Usb2can}

ASSUME WriterAssumption == Can2usb # Usb2can /\ NoTask \notin Writer

ASSUME DepthAssumption ==
    QUEUE_DEPTH \in Nat \ {0} /\ CAN_RX_QUEUE_DEPTH \in Nat \ {0}

VARIABLES s_queue,         \* frames in it
          handling,        \* does can_task have a frame?
          s_can_rx_queue,  \* frames in it
          stage,              \* where each writer is in cdc_write()
          s_usb_tx_sem,    \* 1: given
          s_usb_ready,
          notified,        \* NOTIFY_USB_CONFIGURED_BIT of cdc_acm_task
          cdc,             \* where cdc_acm_task is
          ep,              \* the IN endpoint: "closed", "open" or "busy"
          buf,             \* whose frame s_usb_write_buf holds
          changed,         \* was it written to during the transfer?
          overtaken        \* was the semaphore given by a connect or
                           \* disconnect event while it was in use?

receive == <<s_queue, handling, s_can_rx_queue>>
session == <<s_usb_ready, notified, cdc>>
usbVars == <<receive, stage, s_usb_tx_sem, session, ep, buf, changed,
             overtaken>>

UsbInit ==
    /\ s_queue = 0 /\ handling = FALSE /\ s_can_rx_queue = 0
    /\ stage = [w \in Writer |-> "idle"]
    /\ s_usb_tx_sem = 1
    /\ s_usb_ready = FALSE /\ notified = FALSE /\ cdc = "wait"
    /\ ep = "closed" /\ buf = NoTask /\ changed = FALSE
    /\ overtaken = FALSE

(* The writers between xSemaphoreTake() and the end of cdc_write(), and who *)
(* uses the buffer.                                                         *)
Owners == {w \in Writer : stage[w] \in {"recheck", "copy", "start"}}
InUse  == Owners # {} \/ ep = "busy"

(* Variant: the semaphore counts.                                           *)
GivenCounting == s_usb_tx_sem + 1

(* xSemaphoreGive() of a binary semaphore.                                  *)
Given == 1

(* Nobody is left who uses the buffer: what was overtaken is over.          *)
Settle == overtaken' = (overtaken /\ InUse')

------------------------------------------------------------------------------
(* The receive path.                                                        *)

(* on_rx_done(): a frame that finds the queue full is dropped.              *)
RxDone ==
    /\ s_queue' = IF s_queue < QUEUE_DEPTH THEN s_queue + 1 ELSE s_queue
    /\ UNCHANGED <<handling, s_can_rx_queue, stage, s_usb_tx_sem, session, ep,
                   buf, changed, overtaken>>

(* can_task takes a frame, logs it and calls can_latest_update()...         *)
CanTaskTakes ==
    /\ ~handling /\ s_queue > 0
    /\ s_queue' = s_queue - 1
    /\ handling' = TRUE
    /\ UNCHANGED <<s_can_rx_queue, stage, s_usb_tx_sem, session, ep, buf,
                   changed, overtaken>>

(* ... and passes it to the observer, if there is room at once.             *)
Observe ==
    /\ handling
    /\ handling' = FALSE
    /\ s_can_rx_queue' = IF s_can_rx_queue < CAN_RX_QUEUE_DEPTH
                         THEN s_can_rx_queue + 1 ELSE s_can_rx_queue
    /\ UNCHANGED <<s_queue, stage, s_usb_tx_sem, session, ep, buf, changed,
                   overtaken>>

------------------------------------------------------------------------------
(* cdc_write()                                                              *)

(* can_to_usb_task takes a frame; without a host it is dropped.             *)
Forward ==
    /\ stage[Can2usb] = "idle" /\ s_can_rx_queue > 0
    /\ s_can_rx_queue' = s_can_rx_queue - 1
    /\ stage' = [stage EXCEPT ![Can2usb] =
                                IF s_usb_ready THEN "take" ELSE "idle"]
    /\ UNCHANGED <<s_queue, handling, s_usb_tx_sem, session, ep, buf, changed,
                   overtaken>>

(* prog.c answers a command of the host.                                    *)
AnswerHost ==
    /\ stage[Usb2can] = "idle" /\ s_usb_ready
    /\ stage' = [stage EXCEPT ![Usb2can] = "take"]
    /\ UNCHANGED <<receive, s_usb_tx_sem, session, ep, buf, changed,
                   overtaken>>

Take(w) ==
    /\ stage[w] = "take" /\ s_usb_tx_sem > 0
    /\ s_usb_tx_sem' = s_usb_tx_sem - 1
    /\ stage' = [stage EXCEPT ![w] = "recheck"]
    /\ UNCHANGED <<receive, session, ep, buf, changed, overtaken>>

(* Variant: it waits for ever.                                              *)
TakeTimeoutNever(w) == FALSE

(* The semaphore was not given for 500 ms.                                  *)
TakeTimeout(w) ==
    /\ stage[w] = "take" /\ s_usb_tx_sem = 0
    /\ stage' = [stage EXCEPT ![w] = "idle"]
    /\ UNCHANGED <<receive, s_usb_tx_sem, session, ep, buf, changed,
                   overtaken>>

(* The host may have gone while the task waited.                            *)
Recheck(w) ==
    /\ stage[w] = "recheck"
    /\ stage' = [stage EXCEPT ![w] = IF s_usb_ready THEN "copy" ELSE "idle"]
    /\ s_usb_tx_sem' = IF s_usb_ready THEN s_usb_tx_sem ELSE Given
    /\ UNCHANGED <<receive, session, ep, buf, changed>>
    /\ Settle

Copy(w) ==
    /\ stage[w] = "copy"
    /\ buf' = w
    /\ changed' = (ep = "busy")
    /\ stage' = [stage EXCEPT ![w] = "start"]
    /\ UNCHANGED <<receive, s_usb_tx_sem, session, ep, overtaken>>

(* Variant: the semaphore is given when the transfer has started.           *)
StartWriteAndGive(w) ==
    /\ stage[w] = "start"
    /\ stage' = [stage EXCEPT ![w] = "idle"]
    /\ ep' = IF ep = "closed" THEN "closed" ELSE "busy"
    /\ s_usb_tx_sem' = Given
    /\ UNCHANGED <<receive, session, buf, changed>>
    /\ Settle

(* usbd_ep_start_write(); its result is not looked at.                      *)
StartWrite(w) ==
    /\ stage[w] = "start"
    /\ stage' = [stage EXCEPT ![w] = "idle"]
    /\ ep' = IF ep = "closed" THEN "closed" ELSE "busy"
    /\ UNCHANGED <<receive, s_usb_tx_sem, session, buf, changed>>
    /\ Settle

------------------------------------------------------------------------------
(* Interrupts, and cdc_acm_task.                                            *)

(* The host has read the frame: usbd_cdc_acm_bulk_in().                     *)
BulkIn ==
    /\ ep = "busy"
    /\ ep' = "open" /\ changed' = FALSE
    /\ s_usb_tx_sem' = Given
    /\ UNCHANGED <<receive, stage, session, buf>>
    /\ Settle

(* A bus reset; usbd_event_handler() ignores it.                            *)
BusReset ==
    /\ ep # "closed"
    /\ ep' = "closed" /\ changed' = FALSE
    /\ UNCHANGED <<receive, stage, s_usb_tx_sem, session, buf>>
    /\ Settle

(* USBD_EVENT_CONFIGURED                                                    *)
Configured ==
    /\ ep' = "open" /\ changed' = FALSE
    /\ s_usb_ready' = TRUE /\ notified' = TRUE
    /\ UNCHANGED <<receive, stage, s_usb_tx_sem, cdc, buf>>
    /\ Settle

(* USBD_EVENT_DISCONNECTED                                                  *)
Disconnected ==
    /\ ep' = "closed" /\ changed' = FALSE
    /\ s_usb_ready' = FALSE
    /\ s_usb_tx_sem' = Given
    /\ overtaken' = (Owners # {})
    /\ UNCHANGED <<receive, stage, notified, cdc, buf>>

(* Variant: the notification only starts the read.                          *)
DrainSkipped ==
    /\ cdc = "wait" /\ notified
    /\ notified' = FALSE
    /\ UNCHANGED <<receive, stage, s_usb_ready, s_usb_tx_sem, cdc, ep, buf,
                   changed, overtaken>>

(* cdc_acm_task: "drain any leftover give"...                               *)
Drain ==
    /\ cdc = "wait" /\ notified
    /\ notified' = FALSE /\ cdc' = "give"
    /\ s_usb_tx_sem' = 0
    /\ UNCHANGED <<receive, stage, s_usb_ready, ep, buf, changed, overtaken>>

(* ... "then mark semaphore free", and start to read.                       *)
MarkFree ==
    /\ cdc = "give"
    /\ cdc' = "wait"
    /\ s_usb_tx_sem' = Given
    /\ overtaken' = InUse
    /\ UNCHANGED <<receive, stage, s_usb_ready, notified, ep, buf, changed>>

------------------------------------------------------------------------------
CanTask   == CanTaskTakes \/ Observe
Writes(w) == Take(w) \/ TakeTimeout(w) \/ Recheck(w) \/ Copy(w) \/ StartWrite(w)
CdcTask   == Drain \/ MarkFree

UsbNext ==
    \/ RxDone \/ CanTask
    \/ Forward \/ AnswerHost
    \/ \E w \in Writer : Writes(w)
    \/ BulkIn \/ BusReset \/ Configured \/ Disconnected
    \/ CdcTask

UsbSpec == UsbInit /\ [][UsbNext]_usbVars

(* The tasks go on running.  Nothing is assumed of the bus or the host: it  *)
(* may never read.                                                          *)
UsbFairness ==
    /\ WF_usbVars(CanTask) /\ WF_usbVars(Forward) /\ WF_usbVars(CdcTask)
    /\ \A w \in Writer : WF_usbVars(Writes(w))

UsbFairSpec == UsbSpec /\ UsbFairness

------------------------------------------------------------------------------
(* Type invariant; the semaphore is binary.                                 *)
UsbTypeOK ==
    /\ s_queue \in 0..QUEUE_DEPTH
    /\ handling \in BOOLEAN
    /\ s_can_rx_queue \in 0..CAN_RX_QUEUE_DEPTH
    /\ stage \in [Writer -> {"idle", "take", "recheck", "copy", "start"}]
    /\ s_usb_tx_sem \in {0, 1}
    /\ s_usb_ready \in BOOLEAN /\ notified \in BOOLEAN
    /\ cdc \in {"wait", "give"}
    /\ ep \in {"closed", "open", "busy"}
    /\ buf \in Writer \cup {NoTask}
    /\ changed \in BOOLEAN /\ overtaken \in BOOLEAN

(* One user of s_usb_write_buf at a time, and none while the semaphore is   *)
(* given: a frame leaves as it was copied.  Only a connect or disconnect    *)
(* event that overtakes a user breaks this, and no longer than until that   *)
(* user and those it met are done.                                          *)
SemaphoreGuardsBuffer ==
    ~overtaken =>
        /\ Cardinality(Owners) <= 1
        /\ Owners # {} => ep # "busy"
        /\ InUse => s_usb_tx_sem = 0
        /\ \A w \in Writer : stage[w] = "start" => buf = w
        /\ ~changed

(* A transfer that a reset drops, and a write to an endpoint that is not    *)
(* open, leave the semaphore taken and nobody to give it; with a host that  *)
(* has configured the device it always comes back.                          *)
SemaphoreComesBack ==
    []<>(s_usb_tx_sem = 1 \/ ep \in {"busy", "closed"})

(* A host that is connected and does not read holds up neither the bridge   *)
(* nor can_task: a full queue has room again.                               *)
ReceiveGoesOn ==
    /\ s_queue = QUEUE_DEPTH ~> s_queue < QUEUE_DEPTH
    /\ s_can_rx_queue = CAN_RX_QUEUE_DEPTH
         ~> s_can_rx_queue < CAN_RX_QUEUE_DEPTH

(* A semaphore that is not given is with a writer or a transfer that will   *)
(* give it, or cdc_acm_task will once it runs; or no host is configured,    *)
(* and the next one to be makes cdc_acm_task run (usb_bridge.c:161-173).    *)
SemaphoreIsNotLost ==
    s_usb_tx_sem = 1 \/ InUse \/ cdc = "give" \/ notified \/ ep = "closed"
==============================================================================
