-------------------------- MODULE CanMonitor_proofs --------------------------
(****************************************************************************)
(* Theorems about CanMonitor, for any number of pushing tasks and any size  *)
(* of the log: the ring is the list of the latest pushes, one notification  *)
(* is under way at a time, and a monitor that follows the log shows it.     *)
(*                                                                          *)
(* None of these is inductive: each rests on where the tasks are and on     *)
(* which lock that means they hold (Places, Locks).                         *)
(****************************************************************************)
EXTENDS CanMonitor, FiniteSetTheorems, SequenceTheorems, TLAPS

USE TaskAssumption, LogAssumption DEF ring, notify, screen

------------------------------------------------------------------------------
(* The ring.                                                                *)

(* The n latest entries of the ring l, which ends before index h.           *)
RingLog(l, h, n) ==
    [i \in 1..n |-> l[Wrap(Wrap(h + LOG_SIZE - n) + i - 1)]]

(* No index leaves the ring.                                                *)
LEMMA RingIndex ==
    ASSUME NEW h \in Index, NEW n \in 0..LOG_SIZE, NEW i \in 1..n
    PROVE  Wrap(Wrap(h + LOG_SIZE - n) + i - 1) \in Index
BY DEF Wrap, Index

LEMMA RingType ==
    ASSUME NEW l \in [Index -> Entry], NEW h \in Index, NEW n \in 0..LOG_SIZE
    PROVE  /\ RingLog(l, h, n) \in Seq(Entry)
           /\ Len(RingLog(l, h, n)) = n
           /\ \A i \in 1..n : RingLog(l, h, n)[i] =
                 l[Wrap(Wrap(h + LOG_SIZE - n) + i - 1)]
<1>1. \A i \in 1..n : l[Wrap(Wrap(h + LOG_SIZE - n) + i - 1)] \in Entry
  BY RingIndex
<1>2. n \in Nat
  OBVIOUS
<1> QED BY <1>1, <1>2 DEF RingLog

(* Writing the slot at h and stepping h appends to the log, and drops the   *)
(* oldest entry of a full one.                                              *)
LEMMA RingPush ==
    ASSUME NEW l \in [Index -> Entry], NEW h \in Index, NEW n \in 0..LOG_SIZE,
           NEW e \in Entry
    PROVE  RingLog([l EXCEPT ![h] = e], Wrap(h + 1),
                   IF n < LOG_SIZE THEN n + 1 ELSE n)
             = IF n < LOG_SIZE THEN Append(RingLog(l, h, n), e)
               ELSE Append(Tail(RingLog(l, h, n)), e)
<1> DEFINE l2 == [l EXCEPT ![h] = e]
           h2 == Wrap(h + 1)
           n2 == IF n < LOG_SIZE THEN n + 1 ELSE n
           old == RingLog(l, h, n)
           new == RingLog(l2, h2, n2)
           at(i) == Wrap(Wrap(h + LOG_SIZE - n) + i - 1)
           at2(i) == Wrap(Wrap(h2 + LOG_SIZE - n2) + i - 1)
<1>1. h2 \in Index /\ n2 \in 0..LOG_SIZE /\ l2 \in [Index -> Entry]
  BY DEF Wrap, Index
<1>2. /\ new \in Seq(Entry) /\ Len(new) = n2
      /\ \A i \in 1..n2 : new[i] = l2[at2(i)]
  <2> HIDE DEF l2, h2, n2
  <2>1. new \in Seq(Entry) /\ Len(new) = n2
    BY <1>1, RingType, Zenon
  <2>2. \A i \in 1..n2 : new[i] = l2[at2(i)]
    BY DEF RingLog
  <2> QED BY <2>1, <2>2
<1>3. /\ old \in Seq(Entry) /\ Len(old) = n
      /\ \A i \in 1..n : old[i] = l[at(i)]
  BY RingType
<1>4. at2(n2) = h
  BY DEF Wrap, Index
<1>5. \A i \in 1..n2 : i # n2 => at2(i) # h /\ at2(i) \in Index
  BY DEF Wrap, Index
<1>6. /\ new[n2] = e
      /\ \A i \in 1..n2 : i # n2 => new[i] = l[at2(i)]
  <2>1. n2 \in 1..n2
    OBVIOUS
  <2>2. l2[h] = e /\ \A j \in Index : j # h => l2[j] = l[j]
    OBVIOUS
  <2> HIDE DEF new, l2, n2, at2
  <2>3. new[n2] = l2[at2(n2)]
    BY <1>2, <2>1
  <2>4. ASSUME NEW i \in 1..n2, i # n2 PROVE new[i] = l[at2(i)]
    <3>1. new[i] = l2[at2(i)] /\ at2(i) \in Index /\ at2(i) # h
      BY <1>2, <1>5, <2>4
    <3> QED BY <2>2, <3>1
  <2> QED BY <1>4, <2>2, <2>3, <2>4
<1>7. CASE n < LOG_SIZE
  <2>1. \A i \in 1..n : at2(i) = at(i)
    BY <1>7 DEF Wrap, Index
  <2>2. n2 = n + 1 /\ \A i \in 1..n : i \in 1..n2 /\ i # n2
    BY <1>7
  <2> HIDE DEF new, old, n2, at, at2
  <2>3. ASSUME NEW i \in 1..n PROVE new[i] = old[i]
    <3>1. i \in 1..n2 /\ i # n2 /\ at2(i) = at(i)
      BY <2>1, <2>2
    <3>2. new[i] = l[at2(i)] /\ old[i] = l[at(i)]
      BY <1>3, <1>6, <3>1
    <3> QED BY <3>1, <3>2
  <2>4. /\ Append(old, e) \in Seq(Entry) /\ Len(Append(old, e)) = n + 1
        /\ \A i \in 1..n : Append(old, e)[i] = old[i]
        /\ Append(old, e)[n + 1] = e
    BY <1>3, AppendProperties
  <2>5. \A i \in 1..n+1 : new[i] = Append(old, e)[i]
    <3>1. \A i \in 1..n+1 : i \in 1..n \/ i = n + 1
      OBVIOUS
    <3> QED BY <1>6, <2>2, <2>3, <2>4, <3>1
  <2>6. new = Append(old, e)
    BY <1>2, <2>2, <2>4, <2>5, SeqEqual
  <2> QED BY <1>7, <2>6 DEF new, old, n2
<1>8. CASE ~(n < LOG_SIZE)
  <2>1. n = LOG_SIZE /\ n2 = n /\ n - 1 \in Nat
    BY <1>8
  <2>2. \A i \in 1..n-1 : at2(i) = at(i + 1)
    BY <1>8 DEF Wrap, Index
  <2> HIDE DEF new, old, n2, at, at2
  <2>3. \A i \in 1..n-1 : i \in 1..n2 /\ i # n2 /\ i + 1 \in 1..n
    BY <2>1
  <2>4. \A i \in 1..n-1 : new[i] = old[i + 1]
    BY <1>3, <1>6, <2>2, <2>3
  <2>5. /\ Tail(old) \in Seq(Entry) /\ Len(Tail(old)) = n - 1
        /\ \A i \in 1..n-1 : Tail(old)[i] = old[i + 1]
    BY <1>3, <2>1, HeadTailProperties
  <2>6. /\ Append(Tail(old), e) \in Seq(Entry)
        /\ Len(Append(Tail(old), e)) = n
        /\ \A i \in 1..n-1 : Append(Tail(old), e)[i] = Tail(old)[i]
        /\ Append(Tail(old), e)[n] = e
    BY <2>1, <2>5, AppendProperties
  <2>7. \A i \in 1..n : new[i] = Append(Tail(old), e)[i]
    <3>1. \A i \in 1..n : i \in 1..n-1 \/ i = n
      BY <2>1
    <3> QED BY <1>6, <2>1, <2>4, <2>5, <2>6, <3>1
  <2>8. new = Append(Tail(old), e)
    BY <1>2, <2>1, <2>6, <2>7, SeqEqual
  <2> QED BY <1>8, <2>8 DEF new, old, n2
<1> QED BY <1>7, <1>8

------------------------------------------------------------------------------
(* Types, and where the tasks are.                                          *)

Flags ==
    /\ s_notify_fn \in BOOLEAN /\ s_notify_pending \in BOOLEAN
    /\ callLost \in BOOLEAN /\ onMonitor \in BOOLEAN
    /\ s_can_follow \in BOOLEAN /\ unannounced \in BOOLEAN

Numbers ==
    /\ s_log \in [Index -> Entry]
    /\ s_head \in Index /\ s_count \in 0..LOG_SIZE
    /\ s_frame_counter \in 0..MAX_FRAME_NUM
    /\ s_sep_counter \in 0..MAX_SEP_NUM
    /\ calls \in Nat
    /\ shown \in Seq(Entry)

(* A separator that is being pushed has a number.                           *)
Places ==
    /\ mutex \in Actor \cup {Nobody} /\ display \in Actor \cup {Nobody}
    /\ pc \in [Actor -> {"idle", "enter", "write", "advance", "lock", "call",
                         "sleep", "run", "clear", "refresh"}]
    /\ \A t \in Task : pc[t] \in {"idle", "enter", "write", "advance", "lock",
                                  "call"}
    /\ pc[Lvgl] \in {"sleep", "run", "clear", "refresh", "enter", "write",
                     "advance"}

Numbered ==
    pc[Lvgl] \in {"enter", "write"} /\ onMonitor =>
        s_sep_counter \in 1..MAX_SEP_NUM

(* Who holds which lock.                                                    *)
Locks ==
    /\ \A a \in Actor : pc[a] \in {"write", "advance"} <=> mutex = a
    /\ \A t \in Task : pc[t] = "call" <=> display = t
    /\ pc[Lvgl] # "sleep" <=> display = Lvgl

TInv == Flags /\ Numbers /\ Places /\ Numbered /\ Locks

LEMMA InitTInv == Init => TInv
<1> SUFFICES ASSUME Init PROVE TInv
  OBVIOUS
<1>1. Flags
  BY DEF Init, Flags
<1>2. Numbers
  <2>1. Unset \in Entry /\ 0 \in Index
    BY DEF Unset, Entry, Index
  <2> QED BY <2>1 DEF Init, Numbers
<1>3. Places /\ Numbered /\ Locks
  BY DEF Init, Places, Numbered, Locks, Actor
<1> QED BY <1>1, <1>2, <1>3 DEF TInv

LEMMA NextFlags == Flags /\ [Next]_vars => Flags'
<1> SUFFICES ASSUME Flags, [Next]_vars PROVE Flags'
  OBVIOUS
<1> USE DEF Flags
<1>1. ASSUME NEW t \in Task, Push(t) \/ Lock(t) PROVE Flags'
  BY <1>1 DEF Push, Lock
<1>2. ASSUME NEW a \in Actor, Enter(a) \/ Write(a) PROVE Flags'
  BY <1>2 DEF Enter, Write
<1>3. ASSUME NEW t \in Task, Advance(t) \/ CallAsync(t) PROVE Flags'
  BY <1>3 DEF Advance, CallAsync, DoNotify
<1>4. CASE Wake \/ ClearPending \/ Refresh \/ AdvanceUi \/ Trampoline \/ Sleep
  BY <1>4 DEF Wake, ClearPending, Refresh, AdvanceUi, Trampoline, Sleep
<1>5. CASE UserEvent \/ SetNotify
  BY <1>5 DEF UserEvent, OpenMonitor, Turn, Click, LeaveMonitor, PushFromUi,
              SetNotify
<1>6. CASE UNCHANGED vars
  BY <1>6 DEF vars
<1> QED BY <1>1, <1>2, <1>3, <1>4, <1>5, <1>6
        DEF Next, PushStep, LvglStep, Actor

(* Rings, counters and indices.                                             *)
LEMMA NextNumbers == TInv /\ [Next]_vars => Numbers'
<1> SUFFICES ASSUME TInv, [Next]_vars PROVE Numbers'
  OBVIOUS
<1> USE DEF TInv, Numbers
<1>1. CASE UNCHANGED <<ring, s_sep_counter, calls, shown>>
  BY <1>1
<1>2. ASSUME NEW a \in Actor, Write(a) PROVE Numbers'
  <2>1. s_log' \in [Index -> Entry]
    <3>1. WritesSeparator(a) => s_sep_counter \in 1..MAX_SEP_NUM
      BY <1>2 DEF Write, WritesSeparator, Numbered
    <3>2. \/ WritesSeparator(a) /\ s_log' = [s_log EXCEPT ![s_head] =
                                      [sep |-> TRUE, num |-> s_sep_counter]]
          \/ s_log' = [s_log EXCEPT ![s_head] =
                                      [sep |-> FALSE, num |-> s_frame_counter]]
      BY <1>2 DEF Write
    <3>3. \A k \in 1..MAX_SEP_NUM : [sep |-> TRUE, num |-> k] \in Entry
      BY DEF Entry
    <3>4. [sep |-> FALSE, num |-> s_frame_counter] \in Entry
      BY DEF Entry
    <3>5. PICK e \in Entry : s_log' = [s_log EXCEPT ![s_head] = e]
      BY <3>1, <3>2, <3>3, <3>4
    <3> QED BY <3>5
  <2>2. s_frame_counter' \in 0..MAX_FRAME_NUM
    BY <1>2 DEF Write
  <2> QED BY <1>2, <2>1, <2>2 DEF Write
<1>3. ASSUME NEW t \in Task, Advance(t) PROVE Numbers'
  <2>1. s_head' \in Index /\ s_count' \in 0..LOG_SIZE
    BY <1>3 DEF Advance, StepHead, Wrap, Index
  <2> QED BY <1>3, <2>1 DEF Advance
<1>4. CASE AdvanceUi
  <2>1. s_head' \in Index /\ s_count' \in 0..LOG_SIZE
    BY <1>4 DEF AdvanceUi, StepHead, Wrap, Index
  <2> QED BY <1>4, <2>1 DEF AdvanceUi
<1>5. ASSUME NEW t \in Task, CallAsync(t) PROVE Numbers'
  <2>1. calls' \in Nat
    BY <1>5 DEF CallAsync
  <2> QED BY <1>5, <2>1 DEF CallAsync
<1>6. CASE Trampoline
  <2>1. calls' \in Nat
    BY <1>6 DEF Trampoline
  <2> QED BY <1>6, <2>1 DEF Trampoline
<1>7. CASE Refresh
  <2>1. RingLog(s_log, s_head, s_count) \in Seq(Entry)
    BY RingType
  <2>2. shown' \in Seq(Entry)
    BY <1>7, <2>1 DEF Refresh, LogUpTo, Oldest, RingLog
  <2> QED BY <1>7, <2>2 DEF Refresh
<1>8. CASE Click
  <2>1. s_sep_counter' \in 0..MAX_SEP_NUM
    <3>1. s_sep_counter % MAX_SEP_NUM \in 0..MAX_SEP_NUM-1
      OBVIOUS
    <3>2. s_sep_counter' = (s_sep_counter % MAX_SEP_NUM) + 1
      BY <1>8 DEF Click
    <3> QED BY <3>1, <3>2
  <2> QED BY <1>8, <2>1 DEF Click
<1>9. CASE Wake \/ ClearPending \/ Sleep \/ OpenMonitor \/ Turn
           \/ LeaveMonitor \/ PushFromUi \/ SetNotify
  BY <1>1, <1>9 DEF Wake, ClearPending, Sleep, OpenMonitor, Turn,
                    LeaveMonitor, PushFromUi, SetNotify
<1>10. ASSUME NEW t \in Task, Push(t) \/ Lock(t) PROVE Numbers'
  BY <1>1, <1>10 DEF Push, Lock
<1>11. ASSUME NEW a \in Actor, Enter(a) PROVE Numbers'
  BY <1>1, <1>11 DEF Enter
<1>12. CASE UNCHANGED vars
  BY <1>1, <1>12 DEF vars
<1> QED
  BY <1>2, <1>3, <1>4, <1>5, <1>6, <1>7, <1>8, <1>9, <1>10, <1>11, <1>12
     DEF Next, PushStep, LvglStep, UserEvent, Actor

(* Where the tasks are, with the locks that means they hold.                *)
LEMMA NextPlaces ==
    TInv /\ [Next]_vars => Places' /\ Numbered' /\ Locks'
<1> SUFFICES ASSUME TInv, [Next]_vars PROVE Places' /\ Numbered' /\ Locks'
  OBVIOUS
<1> USE DEF TInv, Places, Locks, Goto, Actor
<1>1. Numbered'
  <2>1. CASE Click
    <3>1. s_sep_counter \in 0..MAX_SEP_NUM
      BY DEF Numbers
    <3>2. s_sep_counter % MAX_SEP_NUM \in 0..MAX_SEP_NUM-1
      BY <3>1
    <3>3. s_sep_counter' = (s_sep_counter % MAX_SEP_NUM) + 1
      BY <2>1 DEF Click
    <3>4. s_sep_counter' \in 1..MAX_SEP_NUM
      BY <3>2, <3>3
    <3> QED BY <3>4 DEF Numbered
  <2>2. CASE UserEvent /\ ~Click
    BY <2>2 DEF UserEvent, OpenMonitor, Turn, LeaveMonitor, PushFromUi, Numbered
  <2>3. ASSUME NEW a \in Actor, Push(a) \/ PushStep(a) PROVE Numbered'
    BY <2>3 DEF Push, PushStep, Enter, Write, Advance, Lock, CallAsync,
                Numbered
  <2>4. CASE Wake \/ ClearPending \/ Refresh \/ AdvanceUi \/ Trampoline \/ Sleep
    BY <2>4 DEF Wake, ClearPending, Refresh, AdvanceUi, Trampoline, Sleep,
                Numbered
  <2>5. CASE SetNotify \/ UNCHANGED vars
    BY <2>5 DEF SetNotify, vars, Numbered
  <2> QED BY <2>1, <2>2, <2>3, <2>4, <2>5 DEF Next, LvglStep, PushStep
<1>2. ASSUME NEW t \in Task, Push(t) PROVE Places' /\ Locks'
  BY <1>2 DEF Push
<1>3. ASSUME NEW a \in Actor, Enter(a) PROVE Places' /\ Locks'
  BY <1>3 DEF Enter
<1>4. ASSUME NEW a \in Actor, Write(a) PROVE Places' /\ Locks'
  BY <1>4 DEF Write
<1>5. ASSUME NEW t \in Task, Advance(t) PROVE Places' /\ Locks'
  BY <1>5 DEF Advance
<1>6. ASSUME NEW t \in Task, Lock(t) PROVE Places' /\ Locks'
  BY <1>6 DEF Lock
<1>7. ASSUME NEW t \in Task, CallAsync(t) PROVE Places' /\ Locks'
  BY <1>7 DEF CallAsync
<1>8. CASE AdvanceUi
  BY <1>1, <1>8 DEF AdvanceUi
<1>9. CASE Wake \/ Sleep
  BY <1>1, <1>9 DEF Wake, Sleep
<1>10. CASE ClearPending \/ Refresh \/ Trampoline
  BY <1>1, <1>10 DEF ClearPending, Refresh, Trampoline
<1>11. CASE UserEvent
  BY <1>1, <1>11 DEF UserEvent, OpenMonitor, Turn, Click, LeaveMonitor,
                     PushFromUi
<1>12. CASE SetNotify \/ UNCHANGED vars
  BY <1>1, <1>12 DEF SetNotify, vars
<1> QED
  BY <1>1, <1>2, <1>3, <1>4, <1>5, <1>6, <1>7, <1>8, <1>9, <1>10, <1>11, <1>12
     DEF Next, PushStep, LvglStep

LEMMA NextTInv == TInv /\ [Next]_vars => TInv'
<1>1. TInv => Flags
  BY DEF TInv
<1> QED BY <1>1, NextFlags, NextNumbers, NextPlaces DEF TInv

LEMMA TInvariance == Spec => []TInv
BY InitTInv, NextTInv, PTL DEF Spec

(* s_head, s_count and the counters stay in their ranges: no push and no    *)
(* snapshot leaves s_log.                                                   *)
THEOREM TypeCorrectness == Spec => []TypeOK
<1>1. TInv => TypeOK
  BY DEF TInv, Flags, Numbers, Places, TypeOK
<1> QED BY <1>1, TInvariance, PTL

(* Whoever holds a lock can go on, so that no tasks wait for each other,    *)
(* however many push and whatever the user does meanwhile.                  *)
THEOREM LockOrder == Spec => []LocksAreOrdered
<1>1. TInv => LocksAreOrdered
  <2> SUFFICES ASSUME TInv, NEW a \in Actor
               PROVE  /\ mutex = a => ~WaitsForMutex(a) /\ ~WaitsForDisplay(a)
                      /\ display = a => ~WaitsForDisplay(a)
    BY DEF LocksAreOrdered
  <2>1. mutex = a => pc[a] \in {"write", "advance"}
    BY DEF TInv, Locks
  <2>2. display = a => pc[a] = "call" \/ (a = Lvgl /\ pc[a] # "sleep")
    BY DEF TInv, Locks, Actor
  <2>3. pc[Lvgl] # "lock"
    BY DEF TInv, Places
  <2> QED BY <2>1, <2>2, <2>3 DEF WaitsForMutex, WaitsForDisplay
<1> QED BY <1>1, TInvariance, PTL

------------------------------------------------------------------------------
(* One notification.                                                        *)

(* OneNotification, with "at most one" said place by place.                 *)
Single ==
    /\ s_notify_pending <=> InFlight \/ callLost
    /\ \A t, u \in Notifiers : t = u
    /\ Notifiers # {} => calls = 0 /\ pc[Lvgl] # "clear" /\ ~callLost
    /\ calls > 0 => calls = 1 /\ pc[Lvgl] # "clear" /\ ~callLost
    /\ ~(pc[Lvgl] = "clear" /\ callLost)

LEMMA InitSingle == Init => Single
<1> SUFFICES ASSUME Init PROVE Single
  OBVIOUS
<1>1. Notifiers = {} /\ pc[Lvgl] = "sleep"
  BY DEF Init, Notifiers, Actor
<1> QED BY <1>1 DEF Init, Single, InFlight

(* Single survives a step that moves nobody to or from a place it names.    *)
LEMMA SingleStands ==
    ASSUME Single, UNCHANGED <<s_notify_pending, calls, callLost>>,
           Notifiers' = Notifiers,
           pc'[Lvgl] = "clear" <=> pc[Lvgl] = "clear"
    PROVE  Single'
<1>1. InFlight' = InFlight
  BY DEF InFlight
<1>2. s_notify_pending' = s_notify_pending /\ callLost' = callLost
  OBVIOUS
<1> QED BY <1>1, <1>2 DEF Single

(* A task that moves between other places changes no notification.          *)
LEMMA MoveSingle ==
    ASSUME TInv, Single, NEW a \in Actor, NEW to, Goto(a, to),
           a \in Task => pc[a] \notin {"lock", "call"} /\ to \notin {"lock", "call"},
           a = Lvgl => pc[a] # "clear" /\ to # "clear",
           UNCHANGED <<s_notify_pending, calls, callLost>>
    PROVE  Single'
<1>1. Notifiers' = Notifiers
  BY DEF Notifiers, Goto, TInv, Places, Actor
<1>2. pc'[Lvgl] = "clear" <=> pc[Lvgl] = "clear"
  BY DEF Goto, TInv, Places, Actor
<1> QED BY <1>1, <1>2, SingleStands

LEMMA NextSingle == TInv /\ Single /\ [Next]_vars => Single'
<1> SUFFICES ASSUME TInv, Single, [Next]_vars PROVE Single'
  OBVIOUS
<1>1. ASSUME NEW t \in Task, Push(t) PROVE Single'
  BY <1>1, MoveSingle DEF Push, Actor
<1>2. ASSUME NEW a \in Actor, Enter(a) \/ Write(a) PROVE Single'
  BY <1>2, MoveSingle DEF Enter, Write
<1>3. ASSUME NEW t \in Task, Advance(t) PROVE Single'
  <2>1. CASE DoNotify
    <3>1. ~s_notify_pending /\ s_notify_pending' /\ UNCHANGED <<calls, callLost>>
      BY <1>3, <2>1 DEF Advance, DoNotify
    <3>2. Notifiers = {} /\ calls = 0 /\ pc[Lvgl] # "clear" /\ ~callLost
      BY <3>1 DEF Single, InFlight, TInv, Numbers
    <3>3. Notifiers' = {t}
      BY <1>3, <2>1, <3>2 DEF Advance, Goto, Notifiers, TInv, Places, Actor
    <3>4. pc'[Lvgl] = pc[Lvgl]
      BY <1>3 DEF Advance, Goto, TInv, Places, Actor
    <3> QED BY <3>1, <3>2, <3>3, <3>4 DEF Single, InFlight
  <2>2. CASE ~DoNotify
    <3>1. Goto(t, "idle") /\ pc[t] = "advance"
      BY <1>3, <2>2 DEF Advance
    <3>2. s_notify_pending' = s_notify_pending /\ UNCHANGED <<calls, callLost>>
      BY <1>3, <2>2 DEF Advance, TInv, Flags
    <3> QED BY <3>1, <3>2, MoveSingle DEF Actor
  <2> QED BY <2>1, <2>2
<1>4. ASSUME NEW t \in Task, Lock(t) PROVE Single'
  <2>1. Notifiers' = Notifiers /\ pc'[Lvgl] = pc[Lvgl]
    BY <1>4 DEF Lock, Goto, Notifiers, TInv, Places, Actor
  <2>2. UNCHANGED <<s_notify_pending, calls, callLost>>
    BY <1>4 DEF Lock
  <2> QED BY <2>1, <2>2, SingleStands
<1>5. ASSUME NEW t \in Task, CallAsync(t) PROVE Single'
  <2>1. t \in Notifiers
    BY <1>5 DEF CallAsync, Notifiers
  <2>2. Notifiers = {t} /\ calls = 0 /\ pc[Lvgl] # "clear" /\ ~callLost
    BY <2>1 DEF Single
  <2>3. Notifiers' = {} /\ pc'[Lvgl] = pc[Lvgl]
    BY <1>5, <2>2 DEF CallAsync, Goto, Notifiers, TInv, Places, Actor
  <2>4. s_notify_pending /\ s_notify_pending' = s_notify_pending
    BY <1>5, <2>2 DEF CallAsync, Single, InFlight
  <2>5. \/ calls' = 1 /\ callLost' = callLost
        \/ callLost' = TRUE /\ calls' = 0
    BY <1>5, <2>2 DEF CallAsync
  <2> QED BY <2>2, <2>3, <2>4, <2>5 DEF Single, InFlight
<1>6. CASE AdvanceUi
  BY <1>6, MoveSingle DEF AdvanceUi, Actor
<1>7. CASE Wake \/ Sleep
  BY <1>7, MoveSingle DEF Wake, Sleep, Actor
<1>8. CASE Refresh
  BY <1>8, MoveSingle DEF Refresh, Actor
<1>9. CASE Trampoline
  <2>1. calls = 1 /\ Notifiers = {} /\ ~callLost /\ s_notify_pending
    BY <1>9 DEF Trampoline, Single, InFlight
  <2>2. Notifiers' = {} /\ pc'[Lvgl] = "clear"
    BY <1>9, <2>1 DEF Trampoline, Goto, Notifiers, TInv, Places, Actor
  <2>3. calls' = 0 /\ ~callLost' /\ s_notify_pending'
    BY <1>9, <2>1 DEF Trampoline
  <2> QED BY <2>2, <2>3 DEF Single, InFlight
<1>10. CASE ClearPending
  <2>1. calls = 0 /\ Notifiers = {} /\ ~callLost
    BY <1>10 DEF ClearPending, Single, TInv, Numbers
  <2>2. Notifiers' = {} /\ pc'[Lvgl] = "refresh"
    BY <1>10, <2>1 DEF ClearPending, Goto, Notifiers, TInv, Places, Actor
  <2>3. calls' = 0 /\ ~callLost' /\ ~s_notify_pending'
    BY <1>10, <2>1 DEF ClearPending
  <2> QED BY <2>2, <2>3 DEF Single, InFlight
<1>11. CASE OpenMonitor \/ Click \/ PushFromUi
  BY <1>11, MoveSingle DEF OpenMonitor, Click, PushFromUi, Actor
<1>12. CASE Turn \/ LeaveMonitor \/ SetNotify \/ UNCHANGED vars
  <2>1. UNCHANGED <<pc, s_notify_pending, calls, callLost>>
    BY <1>12 DEF Turn, LeaveMonitor, SetNotify, vars
  <2>2. Notifiers' = Notifiers /\ pc'[Lvgl] = pc[Lvgl]
    BY <2>1 DEF Notifiers
  <2> QED BY <2>1, <2>2, SingleStands
<1> QED
  BY <1>1, <1>2, <1>3, <1>4, <1>5, <1>6, <1>7, <1>8, <1>9, <1>10, <1>11, <1>12
     DEF Next, PushStep, LvglStep, UserEvent, Actor

(* However many tasks push at once, a notification is under way in one      *)
(* place while s_notify_pending is set, and in none otherwise.              *)
THEOREM SingleNotification == Spec => []OneNotification
<1>1. TInv /\ Single => OneNotification
  <2> SUFFICES ASSUME TInv, Single PROVE OneNotification
    OBVIOUS
  <2>1. calls \in Nat
    BY DEF TInv, Numbers
  <2>2. CASE Notifiers = {}
    <3>1. Cardinality(Notifiers) = 0
      BY <2>2, FS_EmptySet
    <3> QED BY <2>1, <3>1 DEF Single, OneNotification
  <2>3. ASSUME NEW t \in Notifiers PROVE OneNotification
    <3>1. Notifiers = {t}
      BY DEF Single
    <3>2. Cardinality(Notifiers) = 1
      BY <3>1, FS_Singleton
    <3> QED BY <2>1, <3>2 DEF Single, OneNotification
  <2> QED BY <2>2, <2>3
<1>2. Spec => []Single
  BY InitSingle, NextSingle, TInvariance, PTL DEF Spec
<1> QED BY <1>1, <1>2, TInvariance, PTL

------------------------------------------------------------------------------
(* The list of the latest pushes.                                           *)

LEMMA LogIsRing ==
    Log = RingLog(s_log, IF Writing THEN Wrap(s_head + 1) ELSE s_head,
                  IF Writing /\ s_count < LOG_SIZE THEN s_count + 1 ELSE s_count)
BY DEF Log, LogUpTo, Oldest, RingLog

(* Only the holder of the mutex is between the write and the step of s_head. *)
LEMMA WritingHolds ==
    ASSUME TInv
    PROVE  /\ \A a \in Actor : pc[a] = "write" => ~Writing
           /\ mutex = Nobody => ~Writing
           /\ \A a, b \in Actor : pc[a] = "advance" /\ pc[b] = "advance" => a = b
BY DEF TInv, Locks, Writing, Actor

(* A step that moves nobody to or from the step of s_head.                  *)
LEMMA LogStands ==
    ASSUME UNCHANGED <<s_log, s_head, s_count>>, Writing' = Writing
    PROVE  Log' = Log
BY DEF Log, LogUpTo, Oldest

LEMMA MoveLog ==
    ASSUME TInv, NEW a \in Actor, NEW to, Goto(a, to),
           pc[a] # "advance", to # "advance", UNCHANGED <<s_log, s_head, s_count>>
    PROVE  Log' = Log /\ Writing' = Writing
<1>1. Writing' = Writing
  BY DEF Writing, Goto, TInv, Places
<1> QED BY <1>1, LogStands

LEMMA WriteLog ==
    ASSUME TInv, NEW a \in Actor, Write(a)
    PROVE  Writing' /\ \E e \in Entry : Log' = Recent!Pushed(e)
<1>1. Writing' /\ ~Writing
  <2>1. pc'[a] = "advance"
    BY DEF Write, Goto, TInv, Places
  <2> QED BY <2>1, WritingHolds DEF Write, Writing
<1>2. PICK e \in Entry : s_log' = [s_log EXCEPT ![s_head] = e]
  <2>1. WritesSeparator(a) => s_sep_counter \in 1..MAX_SEP_NUM
    BY DEF Write, WritesSeparator, TInv, Numbered
  <2>2. \A k \in 1..MAX_SEP_NUM : [sep |-> TRUE, num |-> k] \in Entry
    BY DEF Entry
  <2>3. [sep |-> FALSE, num |-> s_frame_counter] \in Entry
    BY DEF Entry, TInv, Numbers
  <2> QED BY <2>1, <2>2, <2>3 DEF Write
<1>3. /\ s_log \in [Index -> Entry] /\ s_head \in Index
      /\ s_count \in 0..LOG_SIZE /\ s_head' = s_head /\ s_count' = s_count
  BY DEF Write, TInv, Numbers
<1>4. Log = RingLog(s_log, s_head, s_count)
  BY <1>1, LogIsRing
<1>5. Log' = RingLog([s_log EXCEPT ![s_head] = e], Wrap(s_head + 1),
                     IF s_count < LOG_SIZE THEN s_count + 1 ELSE s_count)
  BY <1>1, <1>2, <1>3 DEF Log, LogUpTo, Oldest, RingLog
<1>6. Len(Log) = s_count
  BY <1>3, <1>4, RingType
<1>7. Log' = Recent!Pushed(e)
  BY <1>3, <1>4, <1>5, <1>6, RingPush, ZenonT(40) DEF Recent!Pushed
<1> QED BY <1>1, <1>7

LEMMA AdvanceLog ==
    ASSUME TInv, NEW a \in Actor, pc[a] = "advance", StepHead, s_log' = s_log,
           NEW to, Goto(a, to), to # "advance"
    PROVE  Log' = Log /\ ~Writing'
<1>1. Writing
  BY DEF Writing
<1>2. ~Writing'
  BY WritingHolds DEF Writing, Goto, TInv, Places
<1>3. /\ s_head' = Wrap(s_head + 1)
      /\ s_count' = IF s_count < LOG_SIZE THEN s_count + 1 ELSE s_count
  BY DEF StepHead
<1>4. Log = RingLog(s_log, s_head', s_count')
  BY <1>1, <1>3, LogIsRing
<1>5. Log' = RingLog(s_log, s_head', s_count')
  BY <1>2 DEF Log, LogUpTo, Oldest, RingLog
<1> QED BY <1>2, <1>4, <1>5

(* With the mutex held, a snapshot is the whole log.                        *)
LEMMA RefreshLog ==
    ASSUME TInv, Refresh
    PROVE  /\ Log' = Log /\ Writing' = Writing
           /\ shown' = Log \/ (shown' = shown /\ ~(onMonitor /\ s_can_follow))
<1>1. Log' = Log /\ Writing' = Writing
  BY MoveLog DEF Refresh, Actor
<1>2. CASE onMonitor /\ s_can_follow
  <2>1. ~Writing /\ shown' = LogUpTo(s_head, s_count)
    BY <1>2, WritingHolds DEF Refresh
  <2> QED BY <1>1, <2>1 DEF Log
<1>3. CASE ~(onMonitor /\ s_can_follow)
  BY <1>1, <1>3 DEF Refresh
<1> QED BY <1>2, <1>3

(* What every other step does to the log and to the text: nothing.          *)
LEMMA OtherLog ==
    ASSUME TInv,
           \/ \E t \in Task : Push(t) \/ Lock(t) \/ CallAsync(t)
           \/ \E a \in Actor : Enter(a)
           \/ Wake \/ ClearPending \/ Trampoline \/ Sleep
           \/ UserEvent \/ SetNotify \/ UNCHANGED vars
    PROVE  Log' = Log /\ Writing' = Writing /\ shown' = shown
<1>1. ASSUME NEW t \in Task, Push(t) \/ Lock(t) \/ CallAsync(t)
      PROVE  Log' = Log /\ Writing' = Writing /\ shown' = shown
  BY <1>1, MoveLog DEF Push, Lock, CallAsync, Actor
<1>2. ASSUME NEW a \in Actor, Enter(a)
      PROVE  Log' = Log /\ Writing' = Writing /\ shown' = shown
  BY <1>2, MoveLog DEF Enter
<1>3. CASE Wake \/ ClearPending \/ Trampoline \/ Sleep
  BY <1>3, MoveLog DEF Wake, ClearPending, Trampoline, Sleep, Actor
<1>4. CASE OpenMonitor \/ Click \/ PushFromUi
  BY <1>4, MoveLog DEF OpenMonitor, Click, PushFromUi, Actor
<1>5. CASE Turn \/ LeaveMonitor \/ SetNotify \/ UNCHANGED vars
  <2>1. UNCHANGED <<s_log, s_head, s_count, pc, shown>>
    BY <1>5 DEF Turn, LeaveMonitor, SetNotify, vars
  <2>2. Writing' = Writing
    BY <2>1 DEF Writing
  <2> QED BY <2>1, <2>2, LogStands
<1> QED BY <1>1, <1>2, <1>3, <1>4, <1>5 DEF UserEvent

(* Every step is a push, a rendering of the whole log, or neither.          *)
LEMMA StepsRefine ==
    TInv /\ [Next]_vars => [Recent!Next]_<<Log, shown>>
<1> SUFFICES ASSUME TInv, [Next]_vars
             PROVE  [Recent!Next]_<<Log, shown>>
  OBVIOUS
<1>1. ASSUME NEW a \in Actor, Write(a) PROVE Recent!Push
  BY <1>1, WriteLog DEF Write, Recent!Push
<1>2. ASSUME NEW t \in Task, Advance(t) PROVE UNCHANGED <<Log, shown>>
  BY <1>2, AdvanceLog DEF Advance, Actor
<1>3. CASE AdvanceUi
  BY <1>3, AdvanceLog DEF AdvanceUi, Actor
<1>4. CASE Refresh
  BY <1>4, RefreshLog DEF Recent!Next, Recent!Show
<1>5. CASE \/ \E t \in Task : Push(t) \/ Lock(t) \/ CallAsync(t)
           \/ \E a \in Actor : Enter(a)
           \/ Wake \/ ClearPending \/ Trampoline \/ Sleep
           \/ UserEvent \/ SetNotify \/ UNCHANGED vars
  BY <1>5, OtherLog
<1> QED BY <1>1, <1>2, <1>3, <1>4, <1>5
        DEF Next, PushStep, LvglStep, Actor, Recent!Next

LEMMA InitRefines == Init => Recent!Init
<1> SUFFICES ASSUME Init PROVE Recent!Init
  OBVIOUS
<1>1. ~Writing /\ s_head = 0 /\ s_count = 0 /\ s_log \in [Index -> Entry]
  <2>1. Unset \in Entry
    BY DEF Unset, Entry
  <2> QED BY <2>1 DEF Init, Writing, Actor
<1>2. Log = RingLog(s_log, 0, 0)
  BY <1>1, LogIsRing
<1>3. 0 \in Index
  BY DEF Index
<1>4. Log \in Seq(Entry) /\ Len(Log) = 0
  BY <1>1, <1>2, <1>3, RingType
<1> QED BY <1>4 DEF Init, Recent!Init

(* However the tasks interleave, the ring is the list of the latest pushes, *)
(* each in it once, and every rendering is of the whole list at one moment. *)
THEOREM RingIsRecentLog == Spec => ImplementsRecentLog
BY InitRefines, StepsRefine, TInvariance, PTL
   DEF Spec, ImplementsRecentLog, Recent!Spec, Recent!vars

------------------------------------------------------------------------------
(* The monitor screen.                                                      *)

LEMMA NextShows ==
    TInv /\ TInv' /\ Single /\ Single' /\ MonitorShowsLog /\ [Next]_vars
       => MonitorShowsLog'
<1> SUFFICES ASSUME TInv, TInv', Single, Single', MonitorShowsLog, [Next]_vars
             PROVE  MonitorShowsLog'
  OBVIOUS
<1> USE DEF MonitorShowsLog
<1>1. ASSUME NEW a \in Actor, Write(a) PROVE MonitorShowsLog'
  BY <1>1, WriteLog
<1>2. ASSUME NEW t \in Task, Advance(t) PROVE MonitorShowsLog'
  <2>1. CASE s_notify_fn
    <3>1. s_notify_pending'
      BY <1>2, <2>1 DEF Advance, DoNotify, TInv, Flags
    <3> QED BY <3>1 DEF Single
  <2>2. CASE ~s_notify_fn
    <3>1. unannounced'
      BY <1>2, <2>2 DEF Advance
    <3> QED BY <3>1
  <2> QED BY <2>1, <2>2
<1>3. CASE AdvanceUi
  <2>1. /\ pc'[Lvgl] = IF onMonitor THEN "refresh" ELSE "run"
        /\ onMonitor' = onMonitor
    BY <1>3 DEF AdvanceUi, Goto, TInv, Places, Actor
  <2> QED BY <2>1
<1>4. CASE Refresh
  <2>1. onMonitor' = onMonitor /\ s_can_follow' = s_can_follow
    BY <1>4 DEF Refresh
  <2> QED BY <1>4, <2>1, RefreshLog
<1>5. CASE \/ \E t \in Task : CallAsync(t)
           \/ ClearPending \/ Trampoline
  <2>1. s_notify_pending' \/ pc'[Lvgl] = "refresh"
    <3>1. ASSUME NEW t \in Task, CallAsync(t) PROVE s_notify_pending'
      BY <3>1 DEF CallAsync, Single, InFlight, Notifiers
    <3>2. CASE Trampoline
      BY <3>2 DEF Trampoline, Single, InFlight
    <3>3. CASE ClearPending
      BY <3>3 DEF ClearPending, Goto, TInv, Places, Actor
    <3> QED BY <1>5, <3>1, <3>2, <3>3
  <2> QED BY <2>1 DEF Single
<1>6. CASE OpenMonitor \/ Turn \/ Click \/ LeaveMonitor \/ PushFromUi
  <2>1. \/ pc'[Lvgl] \in {"refresh", "enter"}
        \/ s_can_follow' = FALSE \/ onMonitor' = FALSE
    BY <1>6 DEF OpenMonitor, Turn, Click, LeaveMonitor, PushFromUi, Goto,
                TInv, Places, Actor
  <2> QED BY <2>1
<1>7. CASE \/ \E t \in Task : Push(t) \/ Lock(t)
           \/ \E a \in Actor : Enter(a)
           \/ Wake \/ Sleep \/ SetNotify \/ UNCHANGED vars
  <2>1. /\ UNCHANGED <<onMonitor, s_can_follow, unannounced>>
        /\ s_notify_pending' = s_notify_pending
    BY <1>7 DEF Push, Lock, Enter, Wake, Sleep, SetNotify, vars
  <2>2. pc'[Lvgl] \in {"sleep", "run"} => pc[Lvgl] \in {"sleep", "run"}
    <3>1. ASSUME NEW t \in Task, Push(t) \/ Lock(t) PROVE pc'[Lvgl] = pc[Lvgl]
      BY <3>1 DEF Push, Lock, Goto, TInv, Places, Actor
    <3>2. ASSUME NEW a \in Actor, Enter(a)
          PROVE  pc'[Lvgl] \in {pc[Lvgl], "write"}
      BY <3>2 DEF Enter, Goto, TInv, Places, Actor
    <3>3. CASE Wake \/ Sleep \/ SetNotify \/ UNCHANGED vars
      BY <3>3 DEF Wake, Sleep, SetNotify, vars
    <3> QED BY <1>7, <3>1, <3>2, <3>3
  <2>3. Log' = Log /\ Writing' = Writing /\ shown' = shown
    BY <1>7, OtherLog
  <2> QED BY <2>1, <2>2, <2>3 DEF Single
<1> QED
  BY <1>1, <1>2, <1>3, <1>4, <1>5, <1>6, <1>7
     DEF Next, PushStep, LvglStep, UserEvent, Actor

(* The screen of the monitor shows the log, unless a notification is on its *)
(* way or one of the two exceptions made it miss an entry.                  *)
THEOREM MonitorIsCurrent == Spec => []MonitorShowsLog
<1>1. Init => MonitorShowsLog
  BY DEF Init, MonitorShowsLog
<1>2. TInv /\ Single /\ [Next]_vars => Single'
  BY NextSingle
<1>3. TInv /\ [Next]_vars => TInv'
  BY NextTInv
<1> QED BY <1>1, <1>2, <1>3, NextShows, InitTInv, InitSingle, PTL DEF Spec
==============================================================================
