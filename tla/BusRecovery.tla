----------------------------- MODULE BusRecovery -----------------------------
(****************************************************************************)
(* Recovery from bus-off in main/services/can.c: the interrupt              *)
(* on_state_change(), which queues events, and can_state_log_task, which    *)
(* consumes them, polls, and requests recovery.                             *)
(*                                                                          *)
(* The controller is external: only a request starts the recovery from      *)
(* bus-off, every change of its error state raises the interrupt, and with  *)
(* DriverFaults its calls may fail and a request may be lost.               *)
(*                                                                          *)
(* The task looks at the controller's state, not at the event it received,  *)
(* so events carry no content.  Time is counted in ticks; the task takes    *)
(* no time, so the clock ticks only while it waits.                         *)
(****************************************************************************)
EXTENDS Naturals

CONSTANTS EventQueueDepth,    \* STATE_EVT_QUEUE_DEPTH
          PollPeriod,    \* BUS_STATE_POLL_MS, in ticks
          RetryTimeout,  \* RECOVERY_RETRY_TIMEOUT_US, in ticks
          MaxChanges,    \* bound: state changes within one tick
          DriverFaults   \* may the driver's calls fail and requests be lost?

ASSUME RecoveryAssumption ==
    /\ EventQueueDepth \in Nat \ {0} /\ MaxChanges \in Nat \ {0}
    /\ PollPeriod \in Nat \ {0} /\ RetryTimeout \in Nat \ {0}
    /\ DriverFaults \in BOOLEAN

VARIABLES inBusOff,       \* the controller is in bus-off
          recovering,   \* and works on a request to recover
          events,       \* number of events in s_state_evt_q
          phase,           \* the task: "wait", "look" or "recover"
          waited,       \* ticks in the current xQueueReceive()
          inFlight,     \* s_recovery_in_flight
          since,        \* ticks since s_recovery_requested_at_us
          changes,      \* state changes since the last tick
          unasked       \* history: ticks in bus-off with no request at work
                        \* and no fault of the driver to excuse it

controller == <<inBusOff, recovering>>
recoveryVars == <<controller, events, phase, waited, inFlight, since, changes,
                  unasked>>

RecoveryInit ==
    /\ inBusOff = FALSE /\ recovering = FALSE
    /\ events = 0
    /\ phase = "wait" /\ waited = 0
    /\ inFlight = FALSE /\ since = 0
    /\ changes = 0 /\ unasked = 0

------------------------------------------------------------------------------
(* The controller and the interrupt.                                        *)

(* Variant: an event that does not fit is queued all the same.              *)
NotifyUnbounded == events' = events + 1

(* on_state_change(): an event that does not fit is counted and dropped.    *)
Notify == events' = IF events < EventQueueDepth THEN events + 1 ELSE events

EnterBusOff ==
    /\ ~inBusOff /\ changes < MaxChanges
    /\ inBusOff' = TRUE
    /\ changes' = changes + 1
    /\ Notify
    /\ UNCHANGED <<recovering, phase, waited, inFlight, since, unasked>>

(* Changes among active, warning and passive.                               *)
OtherChange ==
    /\ ~inBusOff /\ changes < MaxChanges
    /\ changes' = changes + 1
    /\ Notify
    /\ UNCHANGED <<controller, phase, waited, inFlight, since, unasked>>

Recovered ==
    /\ recovering
    /\ inBusOff' = FALSE /\ recovering' = FALSE /\ unasked' = 0
    /\ Notify
    /\ UNCHANGED <<phase, waited, inFlight, since, changes>>

RequestLost ==
    /\ DriverFaults /\ recovering
    /\ recovering' = FALSE
    /\ UNCHANGED <<inBusOff, events, phase, waited, inFlight, since,
                   changes, unasked>>

------------------------------------------------------------------------------
(* can_state_log_task                                                       *)

Receive ==
    /\ phase = "wait" /\ events > 0
    /\ events' = events - 1
    /\ phase' = "look"
    /\ UNCHANGED <<controller, waited, inFlight, since, changes, unasked>>

(* Variant: the task waits for events only.                                 *)
PollNever ==
    /\ phase = "wait" /\ waited >= PollPeriod /\ events > 0
    /\ phase' = "look"
    /\ UNCHANGED <<controller, events, waited, inFlight, since,
                   changes, unasked>>

Poll ==
    /\ phase = "wait" /\ waited >= PollPeriod /\ events = 0
    /\ phase' = "look"
    /\ UNCHANGED <<controller, events, waited, inFlight, since,
                   changes, unasked>>

BackToWait == phase' = "wait" /\ waited' = 0

(* twai_node_get_info() fails.                                              *)
LookFails ==
    /\ DriverFaults /\ phase = "look"
    /\ BackToWait
    /\ unasked' = 0
    /\ UNCHANGED <<controller, events, inFlight, since, changes>>

LookActive ==
    /\ phase = "look" /\ ~inBusOff
    /\ inFlight' = FALSE
    /\ BackToWait
    /\ UNCHANGED <<controller, events, since, changes, unasked>>

RetryTimedOut == inFlight /\ since > RetryTimeout

(* Variants: a request is never repeated; it is repeated at every look.     *)
LookBusOffOnce ==
    /\ phase = "look" /\ inBusOff
    /\ IF ~inFlight THEN phase' = "recover" /\ UNCHANGED waited
       ELSE BackToWait
    /\ UNCHANGED <<controller, events, inFlight, since, changes, unasked>>

LookBusOffAlways ==
    /\ phase = "look" /\ inBusOff
    /\ phase' = "recover"
    /\ UNCHANGED <<controller, events, waited, inFlight, since,
                   changes, unasked>>

(* Bus-off: ask, unless a request is in flight and not yet overdue.         *)
LookBusOff ==
    /\ phase = "look" /\ inBusOff
    /\ IF ~inFlight \/ RetryTimedOut
       THEN phase' = "recover" /\ UNCHANGED waited
       ELSE BackToWait
    /\ UNCHANGED <<controller, events, inFlight, since, changes, unasked>>

(* twai_node_recover() succeeds: the controller is in bus-off.              *)
RequestRecovery ==
    /\ phase = "recover" /\ inBusOff
    /\ recovering' = TRUE
    /\ inFlight' = TRUE /\ since' = 0 /\ unasked' = 0
    /\ BackToWait
    /\ UNCHANGED <<inBusOff, events, changes>>

(* It fails: the controller recovered after all, or a fault.                *)
RequestFails ==
    /\ phase = "recover"
    /\ ~inBusOff \/ DriverFaults
    /\ BackToWait
    /\ unasked' = 0
    /\ UNCHANGED <<controller, events, inFlight, since, changes>>

Upto(n, bound) == IF n >= bound THEN bound ELSE n + 1

(* A tick of the clock; counters stop where they make no more difference.   *)
Tick ==
    /\ phase = "wait" /\ events = 0 /\ waited < PollPeriod
    /\ waited'  = waited + 1
    /\ since'   = Upto(since, RetryTimeout + 1)
    /\ unasked' = IF inBusOff /\ ~recovering
                  THEN Upto(unasked, RetryTimeout + PollPeriod + 1) ELSE 0
    /\ changes' = 0
    /\ UNCHANGED <<controller, events, phase, inFlight>>

Task ==
    \/ Receive \/ Poll
    \/ LookFails \/ LookActive \/ LookBusOff
    \/ RequestRecovery \/ RequestFails

RecoveryNext ==
    \/ EnterBusOff \/ OtherChange \/ Recovered \/ RequestLost
    \/ Receive \/ Poll
    \/ LookFails \/ LookActive \/ LookBusOff
    \/ RequestRecovery \/ RequestFails
    \/ Tick

RecoverySpec == RecoveryInit /\ [][RecoveryNext]_recoveryVars

(* The task runs, time passes, the driver does not fail every time it is    *)
(* called, and not every request it works on is lost.                       *)
RecoveryFairness ==
    /\ WF_recoveryVars(Task) /\ WF_recoveryVars(Tick)
    /\ SF_recoveryVars(LookActive \/ LookBusOff)
    /\ SF_recoveryVars(RequestRecovery) /\ SF_recoveryVars(Recovered)

RecoveryFairSpec == RecoverySpec /\ RecoveryFairness

------------------------------------------------------------------------------
(* Type invariant of the task's state and the event queue.                  *)
RecoveryTypeOK ==
    /\ inBusOff \in BOOLEAN /\ recovering \in BOOLEAN /\ inFlight \in BOOLEAN
    /\ events \in 0..EventQueueDepth
    /\ phase \in {"wait", "look", "recover"}
    /\ waited \in 0..PollPeriod
    /\ since \in 0..RetryTimeout+1
    /\ changes \in 0..MaxChanges
    /\ unasked \in 0..RetryTimeout+PollPeriod+1

(* A request is not repeated while the controller may still be working on   *)
(* it: whenever it works on one and the task is about to ask again, the     *)
(* last request is overdue (can.c:32-36).                                   *)
NoRequestOnTopOfAnother ==
    phase = "recover" /\ recovering => since > RetryTimeout

(* Dropped events, lost requests and flapping do not leave the controller   *)
(* in bus-off for good (can.c:106-113).                                     *)
BusOffEnds == inBusOff ~> ~inBusOff

(* Nor does any of them keep a recovery from being under way for longer     *)
(* than a retry timeout and a poll period, except for calls that fail.      *)
AskedInTime == unasked <= RetryTimeout + PollPeriod

==============================================================================
