----------------------------- MODULE CanMonitor -----------------------------
(****************************************************************************)
(* main/services/can_monitor.c: the ring of recent frames that several      *)
(* tasks push into, the coalesced notification that makes the LVGL task     *)
(* render it, and the monitor screen of ui.c that shows it.                 *)
(*                                                                          *)
(* LVGL is external: lv_async_call() queues one call, or fails when it is   *)
(* out of memory; the LVGL task runs the queued calls, and the handlers of  *)
(* encoder events, while it holds the display lock.  The decoded wording of *)
(* a line is left out: a line stands for the entry it is rendered from.     *)
(****************************************************************************)
EXTENDS Naturals, Sequences, FiniteSets

CONSTANTS Task,           \* tasks that call can_mon_push()
          Lvgl,           \* the LVGL task
          Nobody,
          LOG_SIZE,       \* CAN_MON_LOG_SIZE, 100 in the firmware
          MAX_FRAME_NUM,  \* 100: frame numbers run from 0 to it
          MAX_SEP_NUM,    \* 10: separators are numbered from 1 to it
          CallsMayFail    \* can lv_async_call() run out of memory?

ASSUME TaskAssumption == Lvgl \notin Task /\ Nobody \notin Task \cup {Lvgl}

ASSUME LogAssumption ==
    /\ LOG_SIZE \in Nat \ {0} /\ MAX_SEP_NUM \in Nat \ {0}
    /\ MAX_FRAME_NUM \in Nat /\ CallsMayFail \in BOOLEAN

Actor == Task \cup {Lvgl}
Index == 0..LOG_SIZE-1

Entry == [sep : {FALSE}, num : 0..MAX_FRAME_NUM]
         \cup [sep : {TRUE}, num : 1..MAX_SEP_NUM]
Unset == [sep |-> FALSE, num |-> 0]      \* s_log is zero at boot

VARIABLES s_log, s_head, s_count, s_frame_counter, s_sep_counter,
          s_notify_fn,       \* has can_mon_set_notify() been called?
          s_notify_pending,
          mutex,             \* the task that holds s_mutex
          display,           \* the task that holds the display lock
          pc,                \* where each task is
          calls,             \* queued calls of notify_trampoline()
          onMonitor,         \* s_current_screen = SCREEN_CAN_MONITOR
          s_can_follow,
          shown,             \* the log s_can_log_text was rendered from
          unannounced,       \* pushed since then without s_notify_fn
          callLost           \* lv_async_call() failed

ring   == <<s_log, s_head, s_count, s_frame_counter>>
notify == <<s_notify_pending, calls, callLost>>
screen == <<onMonitor, s_can_follow, shown>>
vars   == <<ring, s_sep_counter, s_notify_fn, notify, mutex, display, pc,
            screen, unannounced>>

Init ==
    /\ s_log = [i \in Index |-> Unset]
    /\ s_head = 0 /\ s_count = 0 /\ s_frame_counter = 0 /\ s_sep_counter = 0
    /\ s_notify_fn = FALSE /\ s_notify_pending = FALSE
    /\ mutex = Nobody /\ display = Nobody
    /\ pc = [a \in Actor |-> IF a = Lvgl THEN "sleep" ELSE "idle"]
    /\ calls = 0 /\ callLost = FALSE
    /\ onMonitor = FALSE /\ s_can_follow = TRUE /\ shown = <<>>
    /\ unannounced = FALSE

(* k % CAN_MON_LOG_SIZE, for the operands that occur: below twice the size. *)
Wrap(k) == IF k >= LOG_SIZE THEN k - LOG_SIZE ELSE k

Goto(a, to) == pc' = [pc EXCEPT ![a] = to]

------------------------------------------------------------------------------
(* A push: take s_mutex, write the slot at s_head, step s_head, give it     *)
(* back.  The Lvgl task pushes a separator on the monitor screen (a click)  *)
(* and its own frames on the matrix screen (a new route).                   *)

(* A task has received or sent a frame, and calls can_mon_push().           *)
Push(t) ==
    /\ pc[t] = "idle"
    /\ Goto(t, "enter")
    /\ UNCHANGED <<ring, s_sep_counter, s_notify_fn, notify, mutex, display,
                   screen, unannounced>>

(* Variant: nobody waits for the mutex.                                     *)
EnterAnyway(a) ==
    /\ pc[a] = "enter"
    /\ mutex' = a
    /\ Goto(a, "write")
    /\ UNCHANGED <<ring, s_sep_counter, s_notify_fn, notify, display, screen,
                   unannounced>>

Enter(a) ==
    /\ pc[a] = "enter" /\ mutex = Nobody
    /\ mutex' = a
    /\ Goto(a, "write")
    /\ UNCHANGED <<ring, s_sep_counter, s_notify_fn, notify, display, screen,
                   unannounced>>

WritesSeparator(a) == a = Lvgl /\ onMonitor

Write(a) ==
    /\ pc[a] = "write"
    /\ s_log' = [s_log EXCEPT ![s_head] =
                   IF WritesSeparator(a)
                   THEN [sep |-> TRUE,  num |-> s_sep_counter]
                   ELSE [sep |-> FALSE, num |-> s_frame_counter]]
    /\ s_frame_counter' = IF WritesSeparator(a) THEN s_frame_counter
                          ELSE IF s_frame_counter >= MAX_FRAME_NUM THEN 0
                          ELSE s_frame_counter + 1
    /\ Goto(a, "advance")
    /\ UNCHANGED <<s_head, s_count, s_sep_counter, s_notify_fn, notify, mutex,
                   display, screen, unannounced>>

(* Variant: the index runs past the end of the log before it wraps.         *)
StepHeadLate ==
    /\ s_head'  = IF s_head >= LOG_SIZE THEN 0 ELSE s_head + 1
    /\ s_count' = IF s_count < LOG_SIZE THEN s_count + 1 ELSE s_count

StepHead ==
    /\ s_head'  = Wrap(s_head + 1)
    /\ s_count' = IF s_count < LOG_SIZE THEN s_count + 1 ELSE s_count

(* Variant: every push asks for a refresh.                                  *)
DoNotifyAlways == s_notify_fn

(* do_notify                                                                *)
DoNotify == s_notify_fn /\ ~s_notify_pending

(* The end of can_mon_push()'s critical section.                            *)
Advance(t) ==
    /\ pc[t] = "advance"
    /\ StepHead
    /\ mutex' = Nobody
    /\ s_notify_pending' = (s_notify_pending \/ DoNotify)
    /\ Goto(t, IF DoNotify THEN "lock" ELSE "idle")
    /\ unannounced' = (unannounced \/ ~s_notify_fn)
    /\ UNCHANGED <<s_log, s_frame_counter, s_sep_counter, s_notify_fn, calls,
                   callLost, display, screen>>

(* Variant: the LVGL task calls the regular push.                           *)
AdvanceUiNotifying ==
    /\ pc[Lvgl] = "advance"
    /\ StepHead
    /\ mutex' = Nobody
    /\ s_notify_pending' = (s_notify_pending \/ DoNotify)
    /\ s_can_follow' = (s_can_follow \/ onMonitor)
    /\ Goto(Lvgl, IF DoNotify THEN "lock"
                  ELSE IF onMonitor THEN "refresh" ELSE "run")
    /\ UNCHANGED <<s_log, s_frame_counter, s_sep_counter, s_notify_fn, calls,
                   callLost, display, onMonitor, shown, unannounced>>

(* The end of the ..._from_ui() variants: no notification.  The click       *)
(* handler then follows the log again and refreshes.                        *)
AdvanceUi ==
    /\ pc[Lvgl] = "advance"
    /\ StepHead
    /\ mutex' = Nobody
    /\ s_can_follow' = (s_can_follow \/ onMonitor)
    /\ Goto(Lvgl, IF onMonitor THEN "refresh" ELSE "run")
    /\ UNCHANGED <<s_log, s_frame_counter, s_sep_counter, s_notify_fn, notify,
                   display, onMonitor, shown, unannounced>>

(* can_mon_push() after the critical section: display_lock()...             *)
Lock(t) ==
    /\ pc[t] = "lock" /\ display = Nobody
    /\ display' = t
    /\ Goto(t, "call")
    /\ UNCHANGED <<ring, s_sep_counter, s_notify_fn, notify, mutex, screen,
                   unannounced>>

(* ... lv_async_call() and display_unlock().                                *)
CallAsync(t) ==
    /\ pc[t] = "call"
    /\ \/ calls' = calls + 1 /\ UNCHANGED callLost
       \/ CallsMayFail /\ callLost' = TRUE /\ UNCHANGED calls
    /\ display' = Nobody
    /\ Goto(t, "idle")
    /\ UNCHANGED <<ring, s_sep_counter, s_notify_fn, s_notify_pending, mutex,
                   screen, unannounced>>

------------------------------------------------------------------------------
(* The LVGL task.                                                           *)

Wake ==
    /\ pc[Lvgl] = "sleep" /\ display = Nobody
    /\ display' = Lvgl
    /\ Goto(Lvgl, "run")
    /\ UNCHANGED <<ring, s_sep_counter, s_notify_fn, notify, mutex, screen,
                   unannounced>>

Sleep ==
    /\ pc[Lvgl] = "run"
    /\ display' = Nobody
    /\ Goto(Lvgl, "sleep")
    /\ UNCHANGED <<ring, s_sep_counter, s_notify_fn, notify, mutex, screen,
                   unannounced>>

(* A queued notify_trampoline() starts...                                   *)
Trampoline ==
    /\ pc[Lvgl] = "run" /\ calls > 0
    /\ calls' = calls - 1
    /\ Goto(Lvgl, "clear")
    /\ UNCHANGED <<ring, s_sep_counter, s_notify_fn, s_notify_pending,
                   callLost, mutex, display, screen, unannounced>>

(* Variant: the flag is cleared once, outside of the calls.                 *)
ClearPendingNever ==
    /\ pc[Lvgl] = "clear" /\ mutex = Nobody
    /\ Goto(Lvgl, "refresh")
    /\ UNCHANGED <<ring, s_sep_counter, s_notify_fn, notify,
                   mutex, display, screen, unannounced>>

(* ... clears the flag under the mutex, and calls s_notify_fn.              *)
ClearPending ==
    /\ pc[Lvgl] = "clear" /\ mutex = Nobody
    /\ s_notify_pending' = FALSE
    /\ Goto(Lvgl, "refresh")
    /\ UNCHANGED <<ring, s_sep_counter, s_notify_fn, calls, callLost,
                   mutex, display, screen, unannounced>>

(* The i-th oldest entry and the log can_mon_snapshot() renders, h being    *)
(* the index it ends before and n the number of entries.                    *)
Oldest(h, n) == Wrap(h + LOG_SIZE - n)

LogUpTo(h, n) == [i \in 1..n |-> s_log[Wrap(Oldest(h, n) + i - 1)]]

(* can_monitor_refresh(), with can_mon_snapshot() under the mutex.          *)
Refresh ==
    /\ pc[Lvgl] = "refresh"
    /\ IF onMonitor /\ s_can_follow
       THEN /\ mutex = Nobody
            /\ shown' = LogUpTo(s_head, s_count)
            /\ unannounced' = FALSE
       ELSE UNCHANGED <<shown, unannounced>>
    /\ Goto(Lvgl, "run")
    /\ UNCHANGED <<ring, s_sep_counter, s_notify_fn, notify, mutex, display,
                   onMonitor, s_can_follow>>

(* Variant: the screen is loaded with the text it had.                      *)
OpenMonitorAsIs ==
    /\ pc[Lvgl] = "run" /\ ~onMonitor
    /\ onMonitor' = TRUE /\ s_can_follow' = TRUE
    /\ UNCHANGED <<ring, s_sep_counter, s_notify_fn, notify, mutex, display,
                   pc, shown, unannounced>>

(* ui_open_can_monitor()                                                    *)
OpenMonitor ==
    /\ pc[Lvgl] = "run" /\ ~onMonitor
    /\ onMonitor' = TRUE /\ s_can_follow' = TRUE
    /\ Goto(Lvgl, "refresh")
    /\ UNCHANGED <<ring, s_sep_counter, s_notify_fn, notify, mutex, display,
                   shown, unannounced>>

(* Encoder events on the monitor screen.                                    *)
Turn ==
    /\ pc[Lvgl] = "run" /\ onMonitor
    /\ s_can_follow' = FALSE
    /\ UNCHANGED <<ring, s_sep_counter, s_notify_fn, notify, mutex, display,
                   pc, onMonitor, shown, unannounced>>

Click ==
    /\ pc[Lvgl] = "run" /\ onMonitor
    /\ s_sep_counter' = (s_sep_counter % MAX_SEP_NUM) + 1
    /\ Goto(Lvgl, "enter")
    /\ UNCHANGED <<ring, s_notify_fn, notify, mutex, display, screen,
                   unannounced>>

LeaveMonitor ==
    /\ pc[Lvgl] = "run" /\ onMonitor
    /\ onMonitor' = FALSE
    /\ UNCHANGED <<ring, s_sep_counter, s_notify_fn, notify, mutex, display,
                   pc, s_can_follow, shown, unannounced>>

(* can_latest_notify_route() from the matrix screen sent a frame, and calls *)
(* can_mon_push_from_ui().                                                  *)
PushFromUi ==
    /\ pc[Lvgl] = "run" /\ ~onMonitor
    /\ Goto(Lvgl, "enter")
    /\ UNCHANGED <<ring, s_sep_counter, s_notify_fn, notify, mutex, display,
                   screen, unannounced>>

(* app_main, in ui_init() and holding the display lock: can_mon_set_notify(). *)
(* The user may already have opened the monitor, during the last fade.      *)
SetNotify ==
    /\ ~s_notify_fn /\ display = Nobody
    /\ s_notify_fn' = TRUE
    /\ UNCHANGED <<ring, s_sep_counter, notify, mutex, display, pc, screen,
                   unannounced>>

------------------------------------------------------------------------------
(* What a task does once it has called can_mon_push(), and what the LVGL    *)
(* task does next unless it is between two handlers.                        *)
PushStep(t) == Enter(t) \/ Write(t) \/ Advance(t) \/ Lock(t) \/ CallAsync(t)

LvglStep ==
    \/ Wake \/ ClearPending \/ Refresh
    \/ Enter(Lvgl) \/ Write(Lvgl) \/ AdvanceUi

UserEvent == OpenMonitor \/ Turn \/ Click \/ LeaveMonitor \/ PushFromUi

Next ==
    \/ \E t \in Task : Push(t) \/ PushStep(t)
    \/ LvglStep \/ Trampoline \/ UserEvent \/ Sleep
    \/ SetNotify

Spec == Init /\ [][Next]_vars

(* Every task goes on running.  A lock that is given back goes to a task    *)
(* that waits for it, and the tasks that hold one also sleep or wait for    *)
(* frames, so that none waits for ever.  lv_timer_handler() returns, and    *)
(* runs the calls that are queued.                                          *)
Fairness ==
    /\ \A t \in Task : SF_vars(PushStep(t))
    /\ SF_vars(LvglStep) /\ SF_vars(Trampoline) /\ SF_vars(Sleep)

FairSpec == Spec /\ Fairness

------------------------------------------------------------------------------
(* Type invariant: indices stay in the log, numbers in their ranges.        *)
TypeOK ==
    /\ s_log \in [Index -> Entry]
    /\ s_head \in Index /\ s_count \in 0..LOG_SIZE
    /\ s_frame_counter \in 0..MAX_FRAME_NUM
    /\ s_sep_counter \in 0..MAX_SEP_NUM
    /\ s_notify_fn \in BOOLEAN /\ s_notify_pending \in BOOLEAN
    /\ mutex \in Actor \cup {Nobody} /\ display \in Actor \cup {Nobody}
    /\ pc \in [Actor -> {"idle", "enter", "write", "advance", "lock", "call",
                         "sleep", "run", "clear", "refresh"}]
    /\ calls \in Nat /\ callLost \in BOOLEAN
    /\ onMonitor \in BOOLEAN /\ s_can_follow \in BOOLEAN
    /\ shown \in Seq(Entry)
    /\ unannounced \in BOOLEAN

(* The log with the entry that is written but not yet counted.              *)
Writing == \E a \in Actor : pc[a] = "advance"

Log ==
    LogUpTo(IF Writing THEN Wrap(s_head + 1) ELSE s_head,
            IF Writing /\ s_count < LOG_SIZE THEN s_count + 1 ELSE s_count)

(* However the tasks interleave, the ring is the list of the latest pushes, *)
(* none lost and none twice, and the screen shows it as it was at one       *)
(* moment ("s_mutex protects the ring buffer", can_monitor.c:7).            *)
Recent == INSTANCE RecentLog WITH log <- Log, shown <- shown

ImplementsRecentLog == Recent!Spec

(* The notifications on their way to the screen.                            *)
Notifiers == {t \in Task : pc[t] \in {"lock", "call"}}
InFlight  == Notifiers # {} \/ calls > 0 \/ pc[Lvgl] = "clear"

(* s_notify_pending stands for one notification, which is on its way in     *)
(* exactly one place: with one task, in LVGL's queue or in the trampoline.  *)
OneNotification ==
    /\ InFlight \/ callLost <=> s_notify_pending
    /\ Cardinality(Notifiers) + calls
         + (IF pc[Lvgl] = "clear" \/ callLost THEN 1 ELSE 0) <= 1

(* While the monitor follows the log, what it shows is the log, unless a    *)
(* notification is on its way.  Only an entry pushed before ui_init() has   *)
(* registered, and a call that LVGL had no memory for, make it miss one.    *)
MonitorShowsLog ==
    onMonitor /\ s_can_follow /\ pc[Lvgl] \in {"sleep", "run"} =>
        shown = Log \/ Writing \/ InFlight \/ unannounced \/ callLost

(* A task that pushes comes back, and so does every handler of the LVGL     *)
(* task: neither lock is taken in a way that makes a task wait for itself   *)
(* or two wait for each other (can_monitor.c:364-366).                      *)
EveryoneReturns ==
    /\ \A t \in Task : pc[t] = "enter" ~> pc[t] = "idle"
    /\ pc[Lvgl] = "run" ~> pc[Lvgl] = "sleep"

(* A monitor that follows the log catches up with it, however fast the      *)
(* tasks push, unless a call was lost or the entry came before ui_init()    *)
(* registered for it.                                                       *)
MonitorCatchesUp ==
    (onMonitor /\ s_can_follow /\ shown # Log) ~>
        (shown = Log \/ ~onMonitor \/ ~s_can_follow \/ unannounced \/ callLost)

(* What a task needs before its next step: s_mutex, the display lock.       *)
WaitsForMutex(a) ==
    \/ pc[a] \in {"enter", "clear"}
    \/ pc[a] = "refresh" /\ onMonitor /\ s_can_follow

WaitsForDisplay(a) == pc[a] \in {"lock", "sleep"}

(* No task that holds s_mutex waits for anything, and none that holds the   *)
(* display lock for it again, so that locks are only ever waited for in the *)
(* order display lock, s_mutex, and every wait is for a task that can go on *)
(* ("would deadlock", can_monitor.c:364-366).                               *)
LocksAreOrdered ==
    /\ \A a \in Actor :
          mutex = a => ~WaitsForMutex(a) /\ ~WaitsForDisplay(a)
    /\ \A a \in Actor : display = a => ~WaitsForDisplay(a)
==============================================================================
