----------------------------- MODULE Can_proofs -----------------------------
(****************************************************************************)
(* Theorems about the can service of main/services/can.c, for the three     *)
(* modules that model it: BusRecovery, UsbTx and TxPool.                    *)
(****************************************************************************)
EXTENDS BusRecovery, UsbTx, TxPool, FiniteSetTheorems, SequenceTheorems, TLAPS

------------------------------------------------------------------------------
(****************************************************************************)
(* BusRecovery, for every queue depth, poll period and retry timeout, with  *)
(* or without faults of the driver.                                         *)
(****************************************************************************)

(* A request at work is one the task knows of, and is for a bus-off.        *)
RequestsAreFlagged == recovering => inFlight /\ inBusOff

(* What the task has found out stays true until it asks.                    *)
AsksOnlyWhenDue == phase = "recover" => ~inFlight \/ since > RetryTimeout

(* How long a bus-off can have gone without a request at work: since the    *)
(* last look, or since a request that got lost.                             *)
DelayIsBounded ==
    /\ ~inBusOff => unasked = 0
    /\ ~inFlight => unasked <= waited
    /\ inFlight /\ since <= RetryTimeout => unasked <= since
    /\ inFlight /\ since > RetryTimeout => unasked <= RetryTimeout + waited

RecoveryIInv ==
    /\ RecoveryTypeOK /\ RequestsAreFlagged
    /\ AsksOnlyWhenDue /\ DelayIsBounded

(* Every counter may start from zero.                                       *)
LEMMA ZeroCounters ==
  /\ 0 \in 0..EventQueueDepth /\ 0 \in 0..PollPeriod /\ 0 \in 0..RetryTimeout+1
  /\ 0 \in 0..MaxChanges /\ 0 \in 0..RetryTimeout+PollPeriod+1
  /\ 0 <= 0 /\ 0 <= RetryTimeout /\ ~(0 > RetryTimeout)
  BY RecoveryAssumption

(* The invariant holds when the task starts.                                *)
LEMMA RecoveryInitInvariance == RecoveryInit => RecoveryIInv
  <1> SUFFICES ASSUME RecoveryInit PROVE RecoveryIInv
    OBVIOUS
  <1>1. RecoveryTypeOK
    BY ZeroCounters DEF RecoveryInit, RecoveryTypeOK
  <1>2. RequestsAreFlagged /\ AsksOnlyWhenDue
    BY DEF RecoveryInit, RequestsAreFlagged, AsksOnlyWhenDue
  <1>3. DelayIsBounded
    BY ZeroCounters DEF RecoveryInit, DelayIsBounded
  <1> QED BY <1>1, <1>2, <1>3 DEF RecoveryIInv

(* Every change in the controller, and the interrupt, keeps it.             *)
LEMMA ControllerInvariance ==
  ASSUME RecoveryIInv, EnterBusOff \/ OtherChange \/ Recovered \/ RequestLost
  PROVE  RecoveryIInv'
  <1> USE RecoveryAssumption
      DEF RecoveryIInv, RecoveryTypeOK, RequestsAreFlagged, AsksOnlyWhenDue,
          DelayIsBounded, controller
  <1>0. ASSUME Notify PROVE events' \in 0..EventQueueDepth
    BY <1>0 DEF Notify
  <1>1. CASE EnterBusOff     BY <1>0, <1>1 DEF EnterBusOff
  <1>2. CASE OtherChange  BY <1>0, <1>2 DEF OtherChange
  <1>3. CASE Recovered
    <2>1. RecoveryTypeOK'
      <3>1. inBusOff' \in BOOLEAN /\ recovering' \in BOOLEAN
        BY ONLY <1>3, Zenon DEF Recovered
      <3>2. unasked' \in 0..RetryTimeout+PollPeriod+1
        BY <1>3, ZeroCounters DEF Recovered
      <3> QED BY <1>0, <1>3, <3>1, <3>2 DEF Recovered
    <2>2. RequestsAreFlagged' /\ AsksOnlyWhenDue'  BY <1>3 DEF Recovered
    <2>3. DelayIsBounded'  BY <1>3 DEF Recovered
    <2> QED BY <2>1, <2>2, <2>3
  <1>4. CASE RequestLost  BY <1>4 DEF RequestLost
  <1> QED BY <1>1, <1>2, <1>3, <1>4

(* So does every step of can_state_log_task.                                *)
LEMMA TaskInvariance ==
  ASSUME RecoveryIInv, Task
  PROVE  RecoveryIInv'
  <1> USE RecoveryAssumption
      DEF RecoveryIInv, RecoveryTypeOK, RequestsAreFlagged, AsksOnlyWhenDue,
          DelayIsBounded, controller, BackToWait
  <1>1. CASE Receive          BY <1>1 DEF Receive
  <1>2. CASE Poll             BY <1>2 DEF Poll
  <1>3. CASE LookFails        BY <1>3 DEF LookFails
  <1>4. CASE LookActive
    <2>1. RecoveryTypeOK'
      <3>1. inFlight' \in BOOLEAN
        BY ONLY <1>4, Zenon DEF LookActive
      <3> QED BY <1>4, ZeroCounters, <3>1 DEF LookActive
    <2>2. RequestsAreFlagged' /\ AsksOnlyWhenDue'  BY <1>4 DEF LookActive
    <2>3. DelayIsBounded'  BY <1>4 DEF LookActive
    <2> QED BY <2>1, <2>2, <2>3
  <1>5. CASE LookBusOff       BY <1>5 DEF LookBusOff, RetryTimedOut
  <1>6. CASE RequestRecovery  BY <1>6 DEF RequestRecovery
  <1>7. CASE RequestFails     BY <1>7 DEF RequestFails
  <1> QED BY <1>1, <1>2, <1>3, <1>4, <1>5, <1>6, <1>7 DEF Task

(* And so does the clock: the delay grows with the wait it is part of.      *)
LEMMA TickInvariance ==
  ASSUME RecoveryIInv, Tick
  PROVE  RecoveryIInv'
  <1> USE RecoveryAssumption
      DEF RecoveryIInv, RecoveryTypeOK, RequestsAreFlagged, AsksOnlyWhenDue,
          DelayIsBounded, controller, Tick, Upto
  <1>1. RecoveryTypeOK' OBVIOUS
  <1>2. RequestsAreFlagged' /\ AsksOnlyWhenDue' OBVIOUS
  <1>3. DelayIsBounded'
    <2>1. CASE ~inFlight BY <2>1
    <2>2. CASE inFlight /\ since < RetryTimeout  BY <2>2
    <2>3. CASE inFlight /\ since >= RetryTimeout  BY <2>3
    <2> QED BY <2>1, <2>2, <2>3
  <1> QED BY <1>1, <1>2, <1>3

(* The inductive invariant of the bus-off recovery.                         *)
THEOREM RecoveryInvariance == RecoverySpec => []RecoveryIInv
  <1>1. RecoveryIInv /\ [RecoveryNext]_recoveryVars => RecoveryIInv'
    <2> SUFFICES ASSUME RecoveryIInv, [RecoveryNext]_recoveryVars PROVE RecoveryIInv'
      OBVIOUS
    <2>1. CASE UNCHANGED recoveryVars
      BY <2>1
         DEF recoveryVars, controller, RecoveryIInv, RecoveryTypeOK,
             RequestsAreFlagged, AsksOnlyWhenDue, DelayIsBounded
    <2>2. CASE EnterBusOff \/ OtherChange \/ Recovered \/ RequestLost
      BY <2>2, ControllerInvariance
    <2>3. CASE Task  BY <2>3, TaskInvariance
    <2>4. CASE Tick  BY <2>4, TickInvariance
    <2> QED BY <2>1, <2>2, <2>3, <2>4 DEF RecoveryNext, Task
  <1> QED BY RecoveryInitInvariance, <1>1, PTL DEF RecoverySpec

(* The task's state and the event queue stay within their types.            *)
THEOREM RecoveryTypeCorrectness == RecoverySpec => []RecoveryTypeOK
  BY RecoveryInvariance, PTL DEF RecoveryIInv

(* A recovery in progress is never asked for again before it is overdue.    *)
THEOREM NoDoubleRequest == RecoverySpec => []NoRequestOnTopOfAnother
  <1>1. RecoveryIInv => NoRequestOnTopOfAnother
    BY DEF RecoveryIInv, RequestsAreFlagged, AsksOnlyWhenDue,
           NoRequestOnTopOfAnother
  <1> QED BY <1>1, RecoveryInvariance, PTL

(* Unless a call of the driver fails, a bus-off never goes without a        *)
(* request at work for longer than a retry timeout and a poll period.       *)
THEOREM BoundedWait == RecoverySpec => []AskedInTime
  <1>1. RecoveryIInv => AskedInTime
    BY RecoveryAssumption
       DEF RecoveryIInv, RecoveryTypeOK, DelayIsBounded, AskedInTime
  <1> QED BY <1>1, RecoveryInvariance, PTL

------------------------------------------------------------------------------
(****************************************************************************)
(* UsbTx, for any depth of the queues: unless a connect or disconnect event *)
(* overtook a user, s_usb_write_buf has one user at a time.                 *)
(*                                                                          *)
(* SemaphoreGuardsBuffer is not inductive: when the last of those that were *)
(* overtaken is done it must hold again, so that the invariant also says    *)
(* that only a running transfer can have been written over.                 *)
(****************************************************************************)

(* Only the content of a running transfer can be spoilt.                    *)
OnlyTransfersChange == changed => ep = "busy"

(* One user of the buffer, and the semaphore taken as long as there is one. *)
OneUser ==
    /\ \A v, w \in Owners : v = w
    /\ Owners # {} => ep # "busy"
    /\ InUse => s_usb_tx_sem = 0
    /\ \A w \in Writer : stage[w] = "start" => buf = w
    /\ ~changed

UsbIInv == UsbTypeOK /\ OnlyTransfersChange /\ (overtaken \/ OneUser)

USE WriterAssumption, DepthAssumption DEF receive, session

(* Nothing is in use at boot.                                               *)
LEMMA UsbInitIInv == UsbInit => UsbIInv
<1> SUFFICES ASSUME UsbInit PROVE UsbIInv
  OBVIOUS
<1>1. UsbTypeOK
  <2>1. /\ s_queue \in 0..QUEUE_DEPTH
        /\ s_can_rx_queue \in 0..CAN_RX_QUEUE_DEPTH
        /\ s_usb_tx_sem \in {0, 1}
    BY DEF UsbInit
  <2> QED BY <2>1, Zenon DEF UsbInit, UsbTypeOK
<1>2. OnlyTransfersChange /\ OneUser
  <2>1. Owners = {} /\ ep # "busy" /\ \A w \in Writer : stage[w] # "start"
    BY DEF UsbInit, Owners
  <2>2. ~changed
    BY DEF UsbInit
  <2> QED BY <2>1, <2>2 DEF OnlyTransfersChange, OneUser, InUse
<1> QED BY <1>1, <1>2 DEF UsbIInv

(* Who uses the buffer depends on where the writers are.                    *)
LEMMA OwnersStand ==
    ASSUME UNCHANGED <<stage, ep>>
    PROVE  Owners' = Owners /\ InUse' = InUse
BY DEF Owners, InUse

(* A step that leaves the writers, the endpoint and the buffer alone.       *)
LEMMA BufferStands ==
    ASSUME UsbIInv,
           UNCHANGED <<stage, s_usb_tx_sem, ep, buf, changed, overtaken>>
    PROVE  OnlyTransfersChange' /\ (overtaken \/ OneUser)'
<1>1. Owners' = Owners /\ InUse' = InUse
  BY OwnersStand
<1> QED BY <1>1 DEF UsbIInv, OnlyTransfersChange, OneUser

(* The receive path does not touch the buffer.                              *)
LEMMA ReceiveIInv ==
    ASSUME UsbIInv, RxDone \/ CanTask
    PROVE  UsbIInv'
<1>1. UNCHANGED <<stage, s_usb_tx_sem, ep, buf, changed, overtaken>>
  BY DEF RxDone, CanTask, CanTaskTakes, Observe
<1>2. UsbTypeOK'
  <2>1. CASE RxDone
    BY <2>1 DEF RxDone, UsbIInv, UsbTypeOK
  <2>2. CASE CanTaskTakes
    BY <2>2 DEF CanTaskTakes, UsbIInv, UsbTypeOK
  <2>3. CASE Observe
    <3>1. s_can_rx_queue' \in 0..CAN_RX_QUEUE_DEPTH /\ s_queue' = s_queue
      BY <2>3 DEF Observe, UsbIInv, UsbTypeOK
    <3> QED BY <2>3, <3>1, Zenon DEF Observe, UsbIInv, UsbTypeOK
  <2> QED BY <2>1, <2>2, <2>3 DEF CanTask
<1> QED BY <1>1, <1>2, BufferStands DEF UsbIInv

(* A writer between idle and take uses nothing.                             *)
LEMMA WaitIInv ==
    ASSUME UsbIInv,
           Forward \/ AnswerHost \/ (\E w \in Writer : TakeTimeout(w))
    PROVE  UsbIInv'
<1> USE DEF Forward, AnswerHost, TakeTimeout
<1>1. UsbTypeOK'
  BY DEF UsbIInv, UsbTypeOK, Writer
<1>2. Owners' = Owners /\ ep' = ep
  BY DEF UsbIInv, UsbTypeOK, Owners, Writer
<1>3. InUse' = InUse
  BY <1>2 DEF InUse
<1>4. OnlyTransfersChange' /\ (overtaken \/ OneUser)'
  BY <1>2, <1>3 DEF UsbIInv, UsbTypeOK, OnlyTransfersChange, OneUser, Writer
<1> QED BY <1>1, <1>4 DEF UsbIInv

(* The semaphore is taken when nobody uses the buffer.                      *)
LEMMA TakeIInv ==
    ASSUME UsbIInv, NEW w \in Writer, Take(w)
    PROVE  UsbIInv'
<1> USE DEF Take
<1>1. UsbTypeOK' /\ s_usb_tx_sem = 1 /\ s_usb_tx_sem' = 0
  BY DEF UsbIInv, UsbTypeOK
<1>2. Owners' = Owners \cup {w}
  BY DEF UsbIInv, UsbTypeOK, Owners
<1>3. OnlyTransfersChange'
  BY DEF UsbIInv, OnlyTransfersChange
<1>4. ASSUME OneUser PROVE OneUser'
  <2>1. Owners = {} /\ ep # "busy"
    BY <1>1, <1>4 DEF OneUser, InUse
  <2> QED BY <1>1, <1>2, <1>4, <2>1 DEF UsbIInv, UsbTypeOK, OneUser
<1> QED BY <1>1, <1>3, <1>4 DEF UsbIInv

(* Leaving on a host that has gone gives the semaphore back.                *)
LEMMA RecheckIInv ==
    ASSUME UsbIInv, NEW w \in Writer, Recheck(w)
    PROVE  UsbIInv'
<1> USE DEF Recheck, Given
<1>1. UsbTypeOK' /\ OnlyTransfersChange'
  BY DEF UsbIInv, UsbTypeOK, OnlyTransfersChange, Settle
<1>2. w \in Owners
  BY DEF Owners
<1>3. CASE s_usb_ready
  <2>1. Owners' = Owners /\ InUse' = InUse
    BY <1>3 DEF UsbIInv, UsbTypeOK, Owners, InUse
  <2>2. overtaken' = overtaken
    BY <1>2, <2>1 DEF InUse, Settle, UsbIInv, UsbTypeOK
  <2> QED BY <1>1, <1>3, <2>1, <2>2 DEF UsbIInv, UsbTypeOK, OneUser
<1>4. CASE ~s_usb_ready
  <2>1. Owners' = Owners \ {w}
    BY <1>4 DEF UsbIInv, UsbTypeOK, Owners
  <2>2. CASE InUse'
    <3>1. overtaken' = overtaken
      BY <2>2 DEF Settle, UsbIInv, UsbTypeOK
    <3>2. ~OneUser
      BY <1>2, <2>1, <2>2 DEF OneUser, InUse
    <3> QED BY <1>1, <3>1, <3>2 DEF UsbIInv
  <2>3. CASE ~InUse'
    BY <1>1, <2>3 DEF InUse, OneUser, Owners, OnlyTransfersChange, UsbIInv
  <2> QED BY <2>2, <2>3
<1> QED BY <1>3, <1>4

(* The owner copies its frame, with no transfer out of the buffer.          *)
LEMMA CopyIInv ==
    ASSUME UsbIInv, NEW w \in Writer, Copy(w)
    PROVE  UsbIInv'
<1> USE DEF Copy
<1>1. UsbTypeOK' /\ OnlyTransfersChange'
  BY DEF UsbIInv, UsbTypeOK, OnlyTransfersChange
<1>2. w \in Owners /\ Owners' = Owners /\ InUse' = InUse
  BY DEF UsbIInv, UsbTypeOK, Owners, InUse
<1>3. ASSUME OneUser PROVE OneUser'
  <2>1. ~changed'
    BY <1>2, <1>3 DEF OneUser
  <2>2. \A v \in Writer : stage'[v] = "start" => buf' = v
    BY <1>2, <1>3 DEF OneUser, Owners, UsbIInv, UsbTypeOK
  <2> QED BY <1>2, <1>3, <2>1, <2>2 DEF OneUser
<1> QED BY <1>1, <1>3 DEF UsbIInv

(* The transfer takes over from the owner.                                  *)
LEMMA StartWriteIInv ==
    ASSUME UsbIInv, NEW w \in Writer, StartWrite(w)
    PROVE  UsbIInv'
<1> USE DEF StartWrite
<1>1. UsbTypeOK' /\ OnlyTransfersChange'
  BY DEF UsbIInv, UsbTypeOK, OnlyTransfersChange, Settle
<1>2. w \in Owners /\ Owners' = Owners \ {w}
  BY DEF UsbIInv, UsbTypeOK, Owners
<1>3. ASSUME OneUser PROVE OneUser'
  <2>1. Owners' = {} /\ InUse
    BY <1>2, <1>3 DEF OneUser, InUse
  <2> QED BY <1>3, <2>1 DEF OneUser, Owners
<1>4. CASE ~InUse'
  BY <1>1, <1>4 DEF InUse, OneUser, Owners, OnlyTransfersChange, UsbIInv
<1>5. CASE InUse'
  BY <1>1, <1>3, <1>5 DEF Settle, UsbIInv, UsbTypeOK
<1> QED BY <1>4, <1>5

(* The end of a transfer frees the buffer.                                  *)
LEMMA BulkInIInv ==
    ASSUME UsbIInv, BulkIn
    PROVE  UsbIInv'
<1> USE DEF BulkIn, Given
<1>1. UsbTypeOK' /\ OnlyTransfersChange' /\ Owners' = Owners
  BY DEF UsbIInv, UsbTypeOK, OnlyTransfersChange, Settle, Owners
<1>2. CASE ~InUse'
  BY <1>1, <1>2 DEF InUse, OneUser, Owners, UsbIInv
<1>3. CASE InUse'
  <2>1. Owners # {} /\ overtaken' = overtaken
    BY <1>1, <1>3 DEF InUse, Settle, UsbIInv, UsbTypeOK
  <2> QED BY <1>1, <2>1 DEF UsbIInv, OneUser
<1> QED BY <1>2, <1>3

(* A reset or a new configuration ends the transfer and leaves the owner.   *)
LEMMA ReopenIInv ==
    ASSUME UsbIInv, BusReset \/ Configured
    PROVE  UsbIInv'
<1> USE DEF BusReset, Configured
<1>1. /\ UsbTypeOK' /\ OnlyTransfersChange' /\ Owners' = Owners /\ ep' # "busy"
      /\ UNCHANGED <<stage, s_usb_tx_sem, buf>> /\ ~changed'
  BY DEF UsbIInv, UsbTypeOK, OnlyTransfersChange, Settle, Owners
<1>2. CASE ~InUse'
  BY <1>1, <1>2 DEF InUse, OneUser, Owners, UsbIInv
<1>3. CASE InUse'
  <2>1. overtaken' = overtaken /\ InUse
    BY <1>1, <1>3 DEF InUse, Settle, UsbIInv, UsbTypeOK
  <2> QED BY <1>1, <2>1 DEF UsbIInv, OneUser
<1> QED BY <1>2, <1>3

(* The events that set or reset the semaphore tell whether they overtook.   *)
LEMMA SessionIInv ==
    ASSUME UsbIInv, Disconnected \/ CdcTask
    PROVE  UsbIInv'
<1> USE DEF Disconnected, CdcTask, Drain, MarkFree, Given
<1>1. UsbTypeOK' /\ OnlyTransfersChange' /\ Owners' = Owners
  <2>1. Owners' = Owners
    BY DEF Owners
  <2>2. CASE Disconnected
    BY <2>1, <2>2 DEF UsbIInv, UsbTypeOK, OnlyTransfersChange
  <2>3. CASE Drain
    BY <2>1, <2>3 DEF UsbIInv, UsbTypeOK, OnlyTransfersChange
  <2>4. CASE MarkFree
    BY <2>1, <2>4 DEF UsbIInv, UsbTypeOK, OnlyTransfersChange, InUse
  <2> QED BY <2>2, <2>3, <2>4
<1>2. CASE Disconnected
  BY <1>1, <1>2 DEF UsbIInv, UsbTypeOK, OneUser, InUse, Owners
<1>3. CASE Drain
  BY <1>1, <1>3 DEF UsbIInv, UsbTypeOK, OneUser, InUse
<1>4. CASE MarkFree
  BY <1>1, <1>4 DEF UsbIInv, UsbTypeOK, OneUser, InUse, Owners,
                    OnlyTransfersChange
<1> QED BY <1>2, <1>3, <1>4

LEMMA UsbNextIInv == UsbIInv /\ [UsbNext]_usbVars => UsbIInv'
<1> SUFFICES ASSUME UsbIInv, [UsbNext]_usbVars PROVE UsbIInv'
  OBVIOUS
<1>1. CASE RxDone \/ CanTask
  BY <1>1, ReceiveIInv
<1>2. CASE Forward \/ AnswerHost
  BY <1>2, WaitIInv
<1>3. ASSUME NEW w \in Writer, Writes(w) PROVE UsbIInv'
  BY <1>3, TakeIInv, WaitIInv, RecheckIInv, CopyIInv, StartWriteIInv DEF Writes
<1>4. CASE BulkIn \/ BusReset \/ Configured
  BY <1>4, BulkInIInv, ReopenIInv
<1>5. CASE Disconnected \/ CdcTask
  BY <1>5, SessionIInv
<1>6. CASE UNCHANGED usbVars
  <2>1. UNCHANGED <<stage, s_usb_tx_sem, ep, buf, changed, overtaken>>
    BY <1>6 DEF usbVars
  <2>2. UsbTypeOK'
    BY <1>6 DEF UsbIInv, UsbTypeOK, usbVars
  <2> QED BY <2>1, <2>2, BufferStands DEF UsbIInv
<1> QED BY <1>1, <1>2, <1>3, <1>4, <1>5, <1>6 DEF UsbNext

LEMMA UsbInvariance == UsbSpec => []UsbIInv
BY UsbInitIInv, UsbNextIInv, PTL DEF UsbSpec

(* The variables of cdc_write() and its surroundings keep their types; the  *)
(* semaphore is never given beyond one and no queue exceeds its depth.      *)
THEOREM UsbTypeCorrectness == UsbSpec => []UsbTypeOK
<1>1. UsbIInv => UsbTypeOK
  BY DEF UsbIInv
<1> QED BY <1>1, UsbInvariance, PTL

(* A set whose members are all equal has at most one.                       *)
LEMMA AtMostOne ==
    ASSUME \A v, w \in Owners : v = w
    PROVE  Cardinality(Owners) <= 1
<1>1. CASE Owners = {}
  BY <1>1, FS_EmptySet
<1>2. ASSUME NEW w \in Owners PROVE Cardinality(Owners) = 1
  <2>1. Owners = {w}
    OBVIOUS
  <2> QED BY <2>1, FS_Singleton
<1> QED BY <1>1, <1>2

(* s_usb_write_buf has one user at a time and a frame leaves as it was      *)
(* copied, unless a connect or disconnect event overtook the user.          *)
THEOREM BufferExclusion == UsbSpec => []SemaphoreGuardsBuffer
<1>1. UsbIInv => SemaphoreGuardsBuffer
  BY AtMostOne DEF UsbIInv, OneUser, SemaphoreGuardsBuffer
<1> QED BY <1>1, UsbInvariance, PTL

(* The semaphore never goes missing while a host is configured: a writer or *)
(* a transfer gives it back, or cdc_acm_task will.                          *)
THEOREM SemaphoreAccounted == UsbSpec => []SemaphoreIsNotLost
<1>1. UsbInit => SemaphoreIsNotLost
  BY DEF UsbInit, SemaphoreIsNotLost
<1>2. UsbTypeOK /\ SemaphoreIsNotLost /\ [UsbNext]_usbVars
        => SemaphoreIsNotLost'
  <2> SUFFICES ASSUME UsbTypeOK, SemaphoreIsNotLost, [UsbNext]_usbVars
               PROVE  SemaphoreIsNotLost'
    OBVIOUS
  <2> USE DEF SemaphoreIsNotLost, InUse
  <2>1. ASSUME UNCHANGED <<s_usb_tx_sem, ep, notified, cdc>>,
               Owners # {} => Owners' # {}
        PROVE  SemaphoreIsNotLost'
    BY <2>1
  <2>2. CASE \/ RxDone \/ CanTask \/ Forward \/ AnswerHost
             \/ \E w \in Writer : TakeTimeout(w) \/ Copy(w)
    <3>1. UNCHANGED <<s_usb_tx_sem, ep, notified, cdc>>
      BY <2>2 DEF RxDone, CanTask, CanTaskTakes, Observe, Forward, AnswerHost,
                  TakeTimeout, Copy
    <3>2. ASSUME NEW w \in Owners PROVE w \in Owners'
      BY <2>2 DEF RxDone, CanTask, CanTaskTakes, Observe, Forward, AnswerHost,
                  TakeTimeout, Copy, Owners, UsbTypeOK
    <3> QED BY <2>1, <3>1, <3>2
  <2>3. ASSUME NEW w \in Writer, Take(w)
        PROVE  SemaphoreIsNotLost'
    <3>1. w \in Owners'
      BY <2>3 DEF Take, Owners, UsbTypeOK
    <3> QED BY <3>1
  <2>4. ASSUME NEW w \in Writer, Recheck(w)
        PROVE  SemaphoreIsNotLost'
    <3>1. CASE s_usb_ready
      <4>1. w \in Owners'
        BY <2>4, <3>1 DEF Recheck, Owners, UsbTypeOK
      <4> QED BY <4>1
    <3>2. CASE ~s_usb_ready
      BY <2>4, <3>2 DEF Recheck, Given
    <3> QED BY <3>1, <3>2
  <2>5. ASSUME NEW w \in Writer, StartWrite(w)
        PROVE  SemaphoreIsNotLost'
    BY <2>5 DEF StartWrite
  <2>6. CASE BulkIn \/ BusReset \/ Configured \/ Disconnected
    BY <2>6 DEF BulkIn, BusReset, Configured, Disconnected, Given
  <2>7. CASE CdcTask
    BY <2>7 DEF CdcTask, Drain, MarkFree, Given
  <2>8. CASE UNCHANGED usbVars
    BY <2>8 DEF usbVars, Owners
  <2> QED
    BY <2>2, <2>3, <2>4, <2>5, <2>6, <2>7, <2>8 DEF UsbNext, Writes
<1> QED BY <1>1, <1>2, UsbTypeCorrectness, PTL DEF UsbSpec

HIDE DEF receive, session

------------------------------------------------------------------------------
(****************************************************************************)
(* TxPool, for any number of senders, slots and frames: as long as no bus-  *)
(* off outlives TX_SLOT_STALE_US, no slot has two users.                    *)
(*                                                                          *)
(* SlotsAreNotShared is not inductive: Reclaim frees what is `old`, so the  *)
(* invariant must also say that nobody refers to an old slot; and what a    *)
(* sender holds depends on where it is in can_service_send().               *)
(****************************************************************************)

(* Where a sender is tells whether it holds a slot and a frame.             *)
HoldsSlotWhileSending ==
    \A t \in Sender :
       /\ idx[t] # NoSlot <=> pc[t] \in {"fill", "transmit"}
       /\ msg[t] # NoFrame <=> pc[t] # "idle"

(* Nobody refers to a slot that a reclaim would free.                       *)
OldIsAbandoned == old \cap Referred = {}

(* What a sender is about to transmit is its own frame.                     *)
FilledWithOwnFrame ==
    \A t \in Sender : pc[t] = "transmit" => data[idx[t]] = msg[t]

IInv ==
    /\ TypeOK
    /\ SlotsAreNotShared
    /\ HoldsSlotWhileSending
    /\ OldIsAbandoned
    /\ FilledWithOwnFrame

USE PoolAssumption, NoSlotAssumption

(* The pool starts empty.                                                   *)
LEMMA InitIInv == Init => IInv
<1> SUFFICES ASSUME Init PROVE IInv
  OBVIOUS
<1>1. TypeOK
  <2>1. queue \in Seq(Slots)
    BY DEF Init
  <2> QED BY <2>1, Zenon DEF Init, TypeOK
<1>2. Claimed = {} /\ Queued = {} /\ Referred = {}
  BY DEF Init, Claimed, Queued, Referred
<1>3. SlotsAreNotShared
  BY <1>2 DEF Init, SlotsAreNotShared
<1>4. HoldsSlotWhileSending /\ OldIsAbandoned /\ FilledWithOwnFrame
  BY DEF Init, HoldsSlotWhileSending, OldIsAbandoned, FilledWithOwnFrame
<1> QED BY <1>1, <1>3, <1>4 DEF IInv

(* Who refers to which slot depends on the senders, the queue and the wire. *)
LEMMA SameReferences ==
    ASSUME UNCHANGED <<idx, queue, wire>>
    PROVE  Claimed' = Claimed /\ Queued' = Queued /\ Referred' = Referred
BY DEF Claimed, Queued, Referred

(* SlotsAreNotShared survives if these stand and no such slot is freed.     *)
LEMMA StillNotShared ==
    ASSUME SlotsAreNotShared, UNCHANGED <<idx, queue, wire>>,
           Referred \subseteq busy'
    PROVE  SlotsAreNotShared'
<1>1. Claimed' = Claimed /\ Queued' = Queued /\ Referred' = Referred
  BY SameReferences
<1>2. idx' = idx /\ queue' = queue /\ wire' = wire
  OBVIOUS
<1> QED BY <1>1, <1>2 DEF SlotsAreNotShared

(* A call takes a frame and no slot.                                        *)
LEMMA CallIInv ==
    ASSUME IInv, NEW t \in Sender, NEW f \in Frames, Call(t, f)
    PROVE  IInv'
<1> USE DEF Call, driver
<1>1. Referred' = Referred
  BY SameReferences
<1>2. TypeOK' /\ HoldsSlotWhileSending' /\ OldIsAbandoned' /\ FilledWithOwnFrame'
  BY <1>1 DEF IInv, TypeOK, HoldsSlotWhileSending, OldIsAbandoned,
              FilledWithOwnFrame
<1>3. SlotsAreNotShared'
  BY StillNotShared DEF IInv, SlotsAreNotShared
<1> QED BY <1>2, <1>3 DEF IInv

(* A free slot is one that nobody refers to.                                *)
LEMMA ClaimIInv ==
    ASSUME IInv, NEW t \in Sender, Claim(t)
    PROVE  IInv'
<1> USE DEF Claim, driver
<1>1. PICK s \in Slots \ busy : /\ busy' = busy \cup {s}
                                /\ old'  = old \ {s}
                                /\ idx'  = [idx EXCEPT ![t] = s]
  OBVIOUS
<1>2. /\ idx[t] = NoSlot /\ s # NoSlot /\ s \notin Referred
      /\ Queued' = Queued /\ Claimed' = Claimed \cup {s}
  BY <1>1 DEF IInv, TypeOK, SlotsAreNotShared, HoldsSlotWhileSending,
              Referred, Claimed, Queued
<1>3. TypeOK'
  BY <1>1 DEF IInv, TypeOK
<1>4. SlotsAreNotShared'
  BY <1>1, <1>2 DEF IInv, TypeOK, SlotsAreNotShared, Referred, Claimed
<1>5. HoldsSlotWhileSending' /\ OldIsAbandoned' /\ FilledWithOwnFrame'
  BY <1>1, <1>2 DEF IInv, TypeOK, HoldsSlotWhileSending, OldIsAbandoned,
                    FilledWithOwnFrame, Referred
<1> QED BY <1>3, <1>4, <1>5 DEF IInv

(* A reclaim frees only slots nobody refers to.                             *)
LEMMA ReclaimIInv ==
    ASSUME IInv, NEW t \in Sender, Reclaim(t)
    PROVE  IInv'
<1> USE DEF Reclaim, driver
<1>1. Referred' = Referred
  BY SameReferences
<1>2. Referred \subseteq busy'
  BY DEF IInv, SlotsAreNotShared, OldIsAbandoned
<1>3. TypeOK' /\ HoldsSlotWhileSending' /\ OldIsAbandoned' /\ FilledWithOwnFrame'
  BY <1>1 DEF IInv, TypeOK, HoldsSlotWhileSending, OldIsAbandoned,
              FilledWithOwnFrame
<1>4. SlotsAreNotShared'
  BY <1>2, StillNotShared DEF IInv
<1> QED BY <1>3, <1>4 DEF IInv

(* Giving up leaves the pool alone.                                         *)
LEMMA ExhaustedIInv ==
    ASSUME IInv, NEW t \in Sender, Exhausted(t)
    PROVE  IInv'
<1>1. UNCHANGED <<busy, old, data, idx, queue, wire, onWire, busOff, sent>>
  BY DEF Exhausted, driver
<1>2. TypeOK'
  BY <1>1 DEF Exhausted, IInv, TypeOK
<1>3. Claimed' = Claimed /\ Queued' = Queued /\ Referred' = Referred
  BY <1>1 DEF Claimed, Queued, Referred
<1>4. SlotsAreNotShared' /\ OldIsAbandoned'
  BY <1>1, <1>3 DEF IInv, SlotsAreNotShared, OldIsAbandoned
<1>5. HoldsSlotWhileSending' /\ FilledWithOwnFrame'
  BY <1>1 DEF Exhausted, IInv, TypeOK, HoldsSlotWhileSending,
              FilledWithOwnFrame
<1> QED BY <1>2, <1>4, <1>5 DEF IInv

(* Only the claiming sender writes a slot.                                  *)
LEMMA FillIInv ==
    ASSUME IInv, NEW t \in Sender, Fill(t)
    PROVE  IInv'
<1> USE DEF Fill, driver
<1>1. idx[t] \in Slots /\ msg[t] \in Frames
  BY DEF IInv, TypeOK, HoldsSlotWhileSending
<1>2. \A u \in Sender \ {t} : idx[u] # idx[t]
  BY <1>1 DEF IInv, SlotsAreNotShared
<1>3. TypeOK' /\ HoldsSlotWhileSending'
  BY <1>1 DEF IInv, TypeOK, HoldsSlotWhileSending
<1>4. SlotsAreNotShared' /\ OldIsAbandoned'
  BY DEF IInv, SlotsAreNotShared, OldIsAbandoned, Referred, Claimed, Queued
<1>5. ASSUME NEW u \in Sender, pc'[u] = "transmit"
      PROVE  data'[idx'[u]] = msg'[u]
  <2>1. CASE u = t
    BY <1>1, <2>1 DEF IInv, TypeOK
  <2>2. CASE u # t
    <3>1. pc[u] = "transmit" /\ idx[u] \in Slots
      BY <1>5, <2>2 DEF IInv, TypeOK, HoldsSlotWhileSending
    <3> QED BY <3>1, <2>2, <1>2 DEF IInv, TypeOK, FilledWithOwnFrame
  <2> QED BY <2>1, <2>2
<1> QED BY <1>3, <1>4, <1>5 DEF IInv, FilledWithOwnFrame

(* Transmitting hands the slot over from the sender to the driver.          *)
LEMMA TransmitIInv ==
    ASSUME IInv, NEW t \in Sender, Transmit(t)
    PROVE  IInv'
<1> USE DEF Transmit
<1>1. idx[t] \in Slots
  BY DEF IInv, TypeOK, HoldsSlotWhileSending
<1>2. /\ queue \in Seq(Slots) /\ queue' = Append(queue, idx[t])
      /\ Len(queue') = Len(queue) + 1 /\ Len(queue) \in Nat
      /\ queue'[Len(queue) + 1] = idx[t]
      /\ \A i \in 1..Len(queue) : queue'[i] = queue[i]
  BY <1>1 DEF IInv, TypeOK
<1>3. Queued' = Queued \cup {idx[t]}
  BY <1>2 DEF Queued
<1>4. Claimed' = Claimed \ {idx[t]}
  BY <1>1 DEF IInv, TypeOK, SlotsAreNotShared, Claimed
<1>5. idx[t] \in Claimed /\ idx[t] \notin Queued /\ wire # idx[t]
  BY <1>1 DEF IInv, SlotsAreNotShared, Claimed
<1>6. Referred' = Referred
  BY <1>3, <1>4, <1>5 DEF Referred
<1>7. TypeOK' /\ HoldsSlotWhileSending' /\ OldIsAbandoned' /\ FilledWithOwnFrame'
  BY <1>1, <1>6 DEF IInv, TypeOK, HoldsSlotWhileSending, OldIsAbandoned,
                    FilledWithOwnFrame
<1>8. \A i, j \in 1..Len(queue') : i # j => queue'[i] # queue'[j]
  BY <1>2, <1>5 DEF IInv, SlotsAreNotShared, Queued
<1>9. SlotsAreNotShared'
  BY <1>3, <1>4, <1>5, <1>6, <1>8 DEF IInv, TypeOK, SlotsAreNotShared
<1> QED BY <1>7, <1>9 DEF IInv

(* A refused sender gives its slot back to the pool.                        *)
LEMMA TransmitFailsIInv ==
    ASSUME IInv, NEW t \in Sender, TransmitFails(t)
    PROVE  IInv'
<1> USE DEF TransmitFails, driver
<1>1. idx[t] \in Slots
  BY DEF IInv, TypeOK, HoldsSlotWhileSending
<1>2. Queued' = Queued /\ Claimed' = Claimed \ {idx[t]}
  BY <1>1 DEF IInv, TypeOK, SlotsAreNotShared, Claimed, Queued
<1>3. idx[t] \notin Queued /\ wire # idx[t]
  BY <1>1 DEF IInv, SlotsAreNotShared, Claimed
<1>4. Referred' = Referred \ {idx[t]}
  BY <1>2, <1>3 DEF Referred
<1>5. TypeOK' /\ HoldsSlotWhileSending' /\ OldIsAbandoned' /\ FilledWithOwnFrame'
  BY <1>1, <1>4 DEF IInv, TypeOK, HoldsSlotWhileSending, OldIsAbandoned,
                    FilledWithOwnFrame
<1>6. SlotsAreNotShared'
  BY <1>2, <1>3, <1>4 DEF IInv, TypeOK, SlotsAreNotShared
<1> QED BY <1>5, <1>6 DEF IInv

(* The frame at the head of the queue moves onto the wire.                  *)
LEMMA StartFrameIInv ==
    ASSUME IInv, StartFrame
    PROVE  IInv'
<1> USE DEF StartFrame
<1>1. /\ queue \in Seq(Slots) /\ Len(queue) \in Nat \ {0}
      /\ wire' = queue[1] /\ queue' = Tail(queue) /\ queue' \in Seq(Slots)
      /\ Len(queue') = Len(queue) - 1
      /\ \A i \in 1..Len(queue') : queue'[i] = queue[i + 1]
  BY DEF IInv, TypeOK
<1>2. wire' \in Slots /\ onWire' \in Frames \cup {NoFrame}
  BY <1>1 DEF IInv, TypeOK
<1>3. Queued = Queued' \cup {wire'}
  <2>1. Queued' \subseteq Queued
    BY <1>1 DEF Queued
  <2>2. wire' \in Queued
    BY <1>1 DEF Queued
  <2>3. ASSUME NEW i \in 1..Len(queue), queue[i] # wire'
        PROVE  queue[i] \in Queued'
    <3>1. i # 1 /\ i - 1 \in 1..Len(queue') /\ queue'[i - 1] = queue[i]
      BY <1>1, <2>3
    <3> QED BY <3>1 DEF Queued
  <2> QED BY <2>1, <2>2, <2>3 DEF Queued
<1>4. wire' \notin Queued'
  <2>1. \A i \in 1..Len(queue') : queue[i + 1] # queue[1]
    BY <1>1 DEF IInv, SlotsAreNotShared
  <2> QED BY <1>1, <2>1 DEF Queued
<1>5. \A i, j \in 1..Len(queue') : i # j => queue'[i] # queue'[j]
  BY <1>1 DEF IInv, SlotsAreNotShared
<1>6. Claimed' = Claimed
  BY DEF Claimed
<1>7. Referred' = Referred
  BY <1>2, <1>3, <1>6 DEF Referred
<1>8. TypeOK' /\ HoldsSlotWhileSending' /\ OldIsAbandoned' /\ FilledWithOwnFrame'
  BY <1>1, <1>2, <1>7 DEF IInv, TypeOK, HoldsSlotWhileSending, OldIsAbandoned,
                          FilledWithOwnFrame
<1>9. SlotsAreNotShared'
  BY <1>3, <1>4, <1>5, <1>6, <1>7 DEF IInv, SlotsAreNotShared
<1> QED BY <1>8, <1>9 DEF IInv

(* on_tx_done frees the slot that was on the wire and no other.             *)
LEMMA TxDoneIInv ==
    ASSUME IInv, TxDone
    PROVE  IInv'
<1> USE DEF TxDone
<1>1. Claimed' = Claimed /\ Queued' = Queued
  BY DEF Claimed, Queued
<1>2. Referred' = Referred \ {wire}
  BY <1>1 DEF IInv, SlotsAreNotShared, Referred
<1>3. TypeOK'
  BY NoSlotAssumption DEF IInv, TypeOK
<1>4. HoldsSlotWhileSending' /\ OldIsAbandoned' /\ FilledWithOwnFrame'
  BY <1>2 DEF IInv, HoldsSlotWhileSending, OldIsAbandoned, FilledWithOwnFrame
<1>5. NoSlot \notin Claimed' /\ NoSlot \notin Queued'
  BY <1>1 DEF IInv, TypeOK, Claimed, Queued
<1>6. SlotsAreNotShared'
  BY <1>1, <1>2, <1>5 DEF IInv, SlotsAreNotShared
<1> QED BY <1>3, <1>4, <1>6 DEF IInv

(* A bus-off strands a slot, which nobody refers to any more.               *)
LEMMA GoBusOffIInv ==
    ASSUME IInv, GoBusOff
    PROVE  IInv'
<1> USE DEF GoBusOff
<1>1. Claimed' = Claimed /\ Queued' = Queued
  BY DEF Claimed, Queued
<1>2. Referred' = Referred \ {wire}
  BY <1>1 DEF IInv, SlotsAreNotShared, Referred
<1>3. TypeOK'
  BY NoSlotAssumption DEF IInv, TypeOK
<1>4. HoldsSlotWhileSending' /\ OldIsAbandoned' /\ FilledWithOwnFrame'
  BY <1>2 DEF IInv, HoldsSlotWhileSending, OldIsAbandoned, FilledWithOwnFrame
<1>5. NoSlot \notin Claimed' /\ NoSlot \notin Queued'
  BY <1>1 DEF IInv, TypeOK, Claimed, Queued
<1>6. SlotsAreNotShared'
  BY <1>1, <1>2, <1>5 DEF IInv, SlotsAreNotShared
<1> QED BY <1>3, <1>4, <1>6 DEF IInv

(* Recovery moves no slot.                                                  *)
LEMMA RecoverIInv ==
    ASSUME IInv, Recover
    PROVE  IInv'
<1> USE DEF Recover, driver
<1>1. Referred' = Referred
  BY SameReferences
<1>2. TypeOK' /\ HoldsSlotWhileSending' /\ OldIsAbandoned' /\ FilledWithOwnFrame'
  BY <1>1 DEF IInv, TypeOK, HoldsSlotWhileSending, OldIsAbandoned,
              FilledWithOwnFrame
<1>3. SlotsAreNotShared'
  BY StillNotShared DEF IInv, SlotsAreNotShared
<1> QED BY <1>2, <1>3 DEF IInv

(* Without long outages only abandoned slots grow old.                      *)
LEMMA GrowOldIInv ==
    ASSUME IInv, LongOutage = FALSE, NEW s \in Slots, GrowOld(s)
    PROVE  IInv'
<1> USE DEF GrowOld, driver
<1>1. Referred' = Referred
  BY SameReferences
<1>2. TypeOK' /\ HoldsSlotWhileSending' /\ OldIsAbandoned' /\ FilledWithOwnFrame'
  BY <1>1 DEF IInv, TypeOK, HoldsSlotWhileSending, OldIsAbandoned,
              FilledWithOwnFrame
<1>3. SlotsAreNotShared'
  BY StillNotShared DEF IInv, SlotsAreNotShared
<1> QED BY <1>2, <1>3 DEF IInv

(* Every step preserves the inductive invariant.                            *)
LEMMA NextIInv ==
    ASSUME IInv, LongOutage = FALSE, [Next]_vars
    PROVE  IInv'
<1>1. CASE UNCHANGED vars
  <2>1. Referred' = Referred
    BY <1>1, SameReferences DEF vars, driver
  <2>2. TypeOK' /\ HoldsSlotWhileSending' /\ OldIsAbandoned' /\ FilledWithOwnFrame'
    BY <1>1, <2>1 DEF vars, driver, IInv, TypeOK, HoldsSlotWhileSending,
                      OldIsAbandoned, FilledWithOwnFrame
  <2>3. SlotsAreNotShared'
    BY <1>1, StillNotShared DEF vars, driver, IInv, SlotsAreNotShared
  <2> QED BY <2>2, <2>3 DEF IInv
<1>2. ASSUME NEW t \in Sender, Send(t)
      PROVE  IInv'
  BY <1>2, ClaimIInv, ReclaimIInv, ExhaustedIInv, FillIInv, TransmitIInv,
     TransmitFailsIInv DEF Send
<1> QED
  BY <1>1, <1>2, CallIInv, StartFrameIInv, TxDoneIInv, GoBusOffIInv,
     RecoverIInv, GrowOldIInv DEF Next

(* The inductive invariant holds in every reachable state.                  *)
THEOREM Invariance == LongOutage = FALSE => (Spec => []IInv)
<1> SUFFICES ASSUME LongOutage = FALSE PROVE Spec => []IInv
  OBVIOUS
<1>1. IInv /\ [Next]_vars => IInv'
  BY NextIInv
<1> QED BY <1>1, InitIInv, PTL DEF Spec

(* Type correctness of the pool.                                            *)
THEOREM TypeCorrectness == LongOutage = FALSE => (Spec => []TypeOK)
<1>1. IInv => TypeOK
  BY DEF IInv
<1> QED BY <1>1, Invariance, PTL

(* can_service_send() never gives one slot to two users, and never one the  *)
(* driver still needs, unless a bus-off outlives TX_SLOT_STALE_US.          *)
THEOREM SlotExclusion == LongOutage = FALSE => (Spec => []SlotsAreNotShared)
<1>1. IInv => SlotsAreNotShared
  BY DEF IInv
<1> QED BY <1>1, Invariance, PTL

------------------------------------------------------------------------------
(* The refinement: TxPool implements LossyFifo.                             *)

(* Looking up each slot of a queue gives a sequence of frames.              *)
LEMMA Lookup ==
    ASSUME NEW S, NEW F, NEW q \in Seq(S), NEW d \in [S -> F]
    PROVE  LET c == [i \in 1..Len(q) |-> d[q[i]]]
           IN  /\ c \in Seq(F) /\ Len(c) = Len(q)
               /\ \A i \in 1..Len(q) : c[i] = d[q[i]]
<1>1. Len(q) \in Nat /\ \A i \in 1..Len(q) : d[q[i]] \in F
  OBVIOUS
<1> QED BY <1>1

(* Appending after a prefix is appending to the whole.                      *)
LEMMA AppendAfter ==
    ASSUME NEW F, NEW w \in Seq(F), NEW c \in Seq(F), NEW m \in F
    PROVE  w \o Append(c, m) = Append(w \o c, m)
<1>1. <<m>> \in Seq(F) /\ w \o c \in Seq(F)
  BY ConcatProperties
<1>2. Append(c, m) = c \o <<m>> /\ Append(w \o c, m) = (w \o c) \o <<m>>
  BY <1>1, AppendIsConcat
<1>3. (w \o c) \o <<m>> = w \o (c \o <<m>>)
  BY <1>1, ConcatAssociative
<1> QED BY <1>2, <1>3

(* A sequence put behind one element has that head and that tail.           *)
LEMMA ConsParts ==
    ASSUME NEW F, NEW m \in F, NEW c \in Seq(F)
    PROVE  /\ <<m>> \o c # <<>>
           /\ Head(<<m>> \o c) = m
           /\ Tail(<<m>> \o c) = c
<1> DEFINE l == <<m>> \o c
<1>1. /\ l \in Seq(F) /\ Len(l) = 1 + Len(c) /\ Len(c) \in Nat
      /\ \A i \in 1..Len(l) : l[i] = IF i <= 1 THEN m ELSE c[i - 1]
  <2>1. <<m>> \in Seq(F) /\ Len(<<m>>) = 1 /\ <<m>>[1] = m /\ Len(c) \in Nat
    OBVIOUS
  <2>2. \A i \in 1..1+Len(c) : l[i] = IF i <= 1 THEN <<m>>[i] ELSE c[i - 1]
    BY <2>1, ConcatProperties
  <2>3. l \in Seq(F) /\ Len(l) = 1 + Len(c)
    BY <2>1, ConcatProperties
  <2> QED BY <2>1, <2>2, <2>3
<1>2. l # <<>> /\ Head(l) = m
  BY <1>1
<1>3. Tail(l) = c
  <2>1. /\ Tail(l) \in Seq(F) /\ Len(Tail(l)) = Len(c)
        /\ \A i \in 1..Len(Tail(l)) : Tail(l)[i] = l[i + 1]
    BY <1>1, <1>2, HeadTailProperties
  <2>2. \A i \in 1..Len(Tail(l)) : Tail(l)[i] = c[i]
    BY <1>1, <2>1
  <2> QED BY <2>1, <2>2, SeqEqual
<1> QED BY <1>2, <1>3

(* A non-empty sequence is its head put before its tail.                    *)
LEMMA HeadThenTail ==
    ASSUME NEW F, NEW l \in Seq(F), l # <<>>
    PROVE  <<Head(l)>> \o Tail(l) = l
<1>1. /\ Head(l) \in F /\ Tail(l) \in Seq(F) /\ Len(Tail(l)) = Len(l) - 1
      /\ Len(l) \in Nat \ {0}
      /\ \A i \in 1..Len(Tail(l)) : Tail(l)[i] = l[i + 1]
  BY HeadTailProperties
<1> DEFINE h == <<Head(l)>>
<1>2. h \in Seq(F) /\ Len(h) = 1 /\ h[1] = l[1]
  BY <1>1
<1>3. /\ h \o Tail(l) \in Seq(F) /\ Len(h \o Tail(l)) = Len(l)
      /\ \A i \in 1..Len(l) : (h \o Tail(l))[i] =
                                IF i <= 1 THEN h[i] ELSE Tail(l)[i - 1]
  BY <1>1, <1>2, ConcatProperties
<1>4. \A i \in 1..Len(l) : (h \o Tail(l))[i] = l[i]
  BY <1>1, <1>2, <1>3
<1> QED BY <1>3, <1>4, SeqEqual

(* The frames in the queue form a sequence, slot by slot.                   *)
LEMMA ContentType ==
    ASSUME TypeOK
    PROVE  Content \in Seq(Frames \cup {NoFrame})
BY Lookup DEF TypeOK, Content

(* A step that leaves the driver and the queued slots alone sends nothing.  *)
LEMMA ContentStands ==
    ASSUME UNCHANGED <<queue, wire, onWire>>,
           \A s \in Queued : data'[s] = data[s]
    PROVE  OnItsWay' = OnItsWay
<1>1. Content' = Content
  BY DEF Content, Queued
<1> QED BY <1>1 DEF OnItsWay

(* A frame the driver takes joins at the end, with the caller's content.    *)
LEMMA TransmitAppends ==
    ASSUME IInv, NEW t \in Sender, Transmit(t)
    PROVE  OnItsWay' = Append(OnItsWay, msg[t])
<1> DEFINE F == Frames \cup {NoFrame}
           w == IF wire = NoSlot THEN <<>> ELSE <<onWire>>
<1>1. idx[t] \in Slots /\ data[idx[t]] = msg[t] /\ msg[t] \in F
  BY DEF Transmit, IInv, TypeOK, HoldsSlotWhileSending, FilledWithOwnFrame
<1>2. /\ queue \in Seq(Slots) /\ queue' \in Seq(Slots) /\ data \in [Slots -> F]
      /\ queue' = Append(queue, idx[t])
      /\ data' = data /\ wire' = wire /\ onWire' = onWire /\ onWire \in F
  BY <1>1 DEF Transmit, IInv, TypeOK
<1>3. /\ Content \in Seq(F) /\ Len(Content) = Len(queue)
      /\ \A i \in 1..Len(queue) : Content[i] = data[queue[i]]
  <2> HIDE DEF F
  <2> QED BY <1>2, Lookup DEF Content
<1>4. /\ Content' \in Seq(F) /\ Len(Content') = Len(queue')
      /\ \A i \in 1..Len(queue') : Content'[i] = data[queue'[i]]
  <2> HIDE DEF F
  <2>1. Content' = [i \in 1..Len(queue') |-> data[queue'[i]]]
    BY <1>2 DEF Content
  <2> QED BY <1>2, <2>1, Lookup
<1>5. Content' = Append(Content, msg[t])
  <2> HIDE DEF F
  <2>1. /\ Append(Content, msg[t]) \in Seq(F)
        /\ Len(Append(Content, msg[t])) = Len(queue) + 1
        /\ \A i \in 1..Len(queue) : Append(Content, msg[t])[i] = Content[i]
        /\ Append(Content, msg[t])[Len(queue) + 1] = msg[t]
    BY <1>1, <1>3, AppendProperties
  <2>2. /\ Len(queue') = Len(queue) + 1 /\ Len(queue) \in Nat
        /\ \A i \in 1..Len(queue) : queue'[i] = queue[i]
        /\ queue'[Len(queue) + 1] = idx[t]
    BY <1>1, <1>2, AppendProperties
  <2>3. \A i \in 1..Len(Content') : Content'[i] = Append(Content, msg[t])[i]
    BY <1>1, <1>3, <1>4, <2>1, <2>2
  <2> QED BY <1>4, <2>1, <2>2, <2>3, SeqEqual
<1>6. w \in Seq(F)
  <2>1. onWire \in F
    BY <1>2
  <2>2. <<>> \in Seq(F) /\ <<onWire>> \in Seq(F)
    <3> HIDE DEF F
    <3> QED BY <2>1
  <2> QED BY <2>2
<1>7. w \o Append(Content, msg[t]) = Append(w \o Content, msg[t])
  <2> HIDE DEF F, w
  <2> QED BY <1>1, <1>3, <1>6, AppendAfter
<1> QED BY <1>2, <1>5, <1>7 DEF OnItsWay

(* Starting a frame moves it from the queue to the wire.                    *)
LEMMA StartKeeps ==
    ASSUME IInv, StartFrame
    PROVE  OnItsWay' = OnItsWay
<1> DEFINE F == Frames \cup {NoFrame}
<1>1. /\ queue \in Seq(Slots) /\ queue # <<>> /\ data \in [Slots -> F]
      /\ data' = data /\ onWire' = data[Head(queue)] /\ queue' = Tail(queue)
      /\ wire = NoSlot /\ wire' = Head(queue) /\ Head(queue) \in Slots
  BY HeadTailProperties DEF StartFrame, IInv, TypeOK
<1> HIDE DEF F
<1>2. /\ Content \in Seq(F) /\ Len(Content) = Len(queue)
      /\ \A i \in 1..Len(queue) : Content[i] = data[queue[i]]
  BY <1>1, Lookup DEF Content
<1>3. /\ queue' \in Seq(Slots) /\ Len(queue') = Len(queue) - 1
      /\ \A i \in 1..Len(queue') : queue'[i] = queue[i + 1]
      /\ Len(queue) \in Nat \ {0} /\ Head(queue) = queue[1]
  BY <1>1, HeadTailProperties
<1>4. /\ Content' \in Seq(F) /\ Len(Content') = Len(queue')
      /\ \A i \in 1..Len(queue') : Content'[i] = data[queue'[i]]
  <2>1. Content' = [i \in 1..Len(queue') |-> data[queue'[i]]]
    BY <1>1 DEF Content
  <2> QED BY <1>1, <1>3, <2>1, Lookup
<1>5. /\ Content # <<>> /\ Head(Content) = onWire'
      /\ Tail(Content) \in Seq(F) /\ Len(Tail(Content)) = Len(queue')
      /\ \A i \in 1..Len(queue') : Tail(Content)[i] = Content[i + 1]
  <2>1. Content # <<>> /\ Head(Content) = onWire'
    BY <1>1, <1>2, <1>3
  <2> QED BY <1>2, <1>3, <2>1, HeadTailProperties
<1>6. Content' = Tail(Content)
  <2>1. \A i \in 1..Len(queue') : Content'[i] = Tail(Content)[i]
    BY <1>2, <1>3, <1>4, <1>5
  <2> QED BY <1>4, <1>5, <2>1, SeqEqual
<1>7. OnItsWay = Content
  BY <1>1, <1>2, ConcatEmptySeq DEF OnItsWay
<1>8. wire' # NoSlot
  BY <1>1
<1>9. OnItsWay' = <<onWire'>> \o Content'
  BY <1>8 DEF OnItsWay
<1> QED BY <1>2, <1>5, <1>6, <1>7, <1>9, HeadThenTail

(* What leaves the wire is the oldest frame.                                *)
LEMMA WireIsHead ==
    ASSUME TypeOK, wire # NoSlot
    PROVE  /\ OnItsWay # <<>>
           /\ Head(OnItsWay) = onWire
           /\ Tail(OnItsWay) = Content
<1>1. OnItsWay = <<onWire>> \o Content /\ onWire \in Frames \cup {NoFrame}
  BY DEF OnItsWay, TypeOK
<1> QED BY <1>1, ContentType, ConsParts

(* A step of the pool is a step of the abstract FIFO or a stutter.          *)
LEMMA StepsRefine ==
    ASSUME IInv, IInv', [Next]_vars
    PROVE  [Fifo!Next]_<<msg, OnItsWay, sent>>
<1>1. TypeOK /\ TypeOK'
  BY DEF IInv
<1>2. ASSUME UNCHANGED driver, data' = data
      PROVE  OnItsWay' = OnItsWay
  BY <1>1, <1>2, ContentStands DEF driver
<1>3. CASE UNCHANGED vars
  BY <1>2, <1>3 DEF vars, driver
<1>4. ASSUME NEW t \in Sender, NEW f \in Frames, Call(t, f)
      PROVE  Fifo!Ask(t, f)
  BY <1>2, <1>4 DEF Call, driver, Fifo!Ask, IInv, HoldsSlotWhileSending
<1>5. ASSUME NEW t \in Sender, Claim(t) \/ Reclaim(t)
      PROVE  UNCHANGED <<msg, OnItsWay, sent>>
  BY <1>2, <1>5 DEF Claim, Reclaim, driver
<1>6. ASSUME NEW t \in Sender, Exhausted(t) \/ TransmitFails(t)
      PROVE  Fifo!Refuse(t)
  BY <1>2, <1>6 DEF Exhausted, TransmitFails, driver, Fifo!Refuse, IInv,
                    HoldsSlotWhileSending
<1>7. ASSUME NEW t \in Sender, Fill(t)
      PROVE  UNCHANGED <<msg, OnItsWay, sent>>
  <2>1. idx[t] \in Slots /\ idx[t] \notin Queued
    BY <1>7 DEF Fill, IInv, TypeOK, HoldsSlotWhileSending, SlotsAreNotShared,
                Claimed
  <2>2. \A s \in Queued : data'[s] = data[s]
    BY <1>7, <2>1 DEF Fill, IInv, TypeOK, Queued
  <2> QED BY <1>1, <1>7, <2>2, ContentStands DEF Fill, driver
<1>8. ASSUME NEW t \in Sender, Transmit(t)
      PROVE  Fifo!Accept(t)
  BY <1>8, TransmitAppends DEF Transmit, Fifo!Accept, IInv,
                               HoldsSlotWhileSending
<1>9. ASSUME StartFrame PROVE UNCHANGED <<msg, OnItsWay, sent>>
  BY <1>9, StartKeeps DEF StartFrame
<1>10. ASSUME TxDone \/ GoBusOff
       PROVE  wire # NoSlot /\ OnItsWay' = Tail(OnItsWay) /\ OnItsWay # <<>>
  <2>1. wire # NoSlot /\ wire' = NoSlot /\ queue' = queue /\ data' = data
    BY <1>10 DEF TxDone, GoBusOff
  <2>2. Content' = Content
    BY <2>1 DEF Content
  <2>3. OnItsWay' = Content
    BY <1>1, <2>1, <2>2, ContentType, ConcatEmptySeq DEF OnItsWay
  <2> QED BY <1>1, <2>1, <2>3, WireIsHead
<1>11. ASSUME TxDone PROVE Fifo!Deliver
  BY <1>1, <1>10, <1>11, WireIsHead DEF TxDone, Fifo!Deliver
<1>12. ASSUME GoBusOff PROVE Fifo!Lose
  BY <1>10, <1>12 DEF GoBusOff, Fifo!Lose
<1>13. ASSUME Recover \/ (\E s \in Slots : GrowOld(s))
       PROVE  UNCHANGED <<msg, OnItsWay, sent>>
  <2>1. /\ queue' = queue /\ wire' = wire /\ onWire' = onWire /\ data' = data
        /\ msg' = msg /\ sent' = sent
    BY <1>13 DEF Recover, GrowOld, driver
  <2> QED BY <1>1, <2>1, ContentStands
<1> QED
  BY <1>3, <1>4, <1>5, <1>6, <1>7, <1>8, <1>9, <1>11, <1>12, <1>13
     DEF Next, Send, Fifo!Next

(* An empty pool is an empty FIFO.                                          *)
LEMMA InitRefines == Init => Fifo!Init
<1> SUFFICES ASSUME Init PROVE Fifo!Init
  OBVIOUS
<1>1. Content = <<>>
  BY DEF Init, Content
<1> QED BY <1>1 DEF Init, Fifo!Init, OnItsWay

(* can_service_send() delivers each accepted frame once, in order and with  *)
(* its content, or loses it to a bus-off, unless one outlives               *)
(* TX_SLOT_STALE_US.                                                        *)
THEOREM FifoRefinement == LongOutage = FALSE => (Spec => ImplementsFifo)
<1> SUFFICES ASSUME LongOutage = FALSE PROVE Spec => ImplementsFifo
  OBVIOUS
<1>1. IInv /\ [Next]_vars => IInv'
  BY NextIInv
<1>2. IInv /\ IInv' /\ [Next]_vars => [Fifo!Next]_<<msg, OnItsWay, sent>>
  BY StepsRefine
<1> QED
  BY <1>1, <1>2, InitIInv, InitRefines, PTL DEF Spec, ImplementsFifo, Fifo!Spec
==============================================================================
