--------------------------- MODULE VideoMtx_proofs ---------------------------
(****************************************************************************)
(* Theorems about VideoMtx for any matrix, any tasks and any debounce times.*)
(*                                                                          *)
(* IcHasRoutes needs the discipline of the mutex: only its holder has a     *)
(* frame under way, and that frame is of the present table (MutexInv).      *)
(* ChangeIsPending is not inductive: a save about to be written that misses *)
(* a change would clear `failed`, so the invariant must say that such a     *)
(* change has its own signal (WriteMissesOnlySignalled).  SaveNotPostponed  *)
(* needs what the age of a change is in each phase of the saving task.      *)
(****************************************************************************)
EXTENDS VideoMtx, TLAPS

Signalled == sem \/ \E t \in Setter : pc[t] # "idle"

(* What a save in progress does not contain has been signalled again.       *)
WriteMissesOnlySignalled == saver = "write" /\ snap # route => Signalled

(* How long flash can have lacked a change, phase by phase.                 *)
AgeInPhase ==
    ~failed =>
        /\ saver = "idle" => age = 0
        /\ saver = "debounce" => age <= elapsed
        /\ age <= Cap

(* A task whose frame is under way holds s_route_mutex, and the frame is of *)
(* the table as it is.                                                      *)
MutexInv == \A t \in Task : pc[t] = "latch" => mutex = t /\ buf[t] = route

IInv ==
    /\ TypeOK /\ ChangeIsPending /\ WriteMissesOnlySignalled /\ AgeInPhase
    /\ MutexInv /\ IcHasRoutes

(* Every timer may start from zero.                                         *)
LEMMA ZeroTimers ==
    0 \in 0..Debounce /\ 0 \in 0..Cap /\ 0 \in 0..Cap+1 /\ 0 \in 0..MaxBurst
BY SaveAssumption

(* Until a task has run, time stands still.                                 *)
LEMMA TickIsIdle ==
    ASSUME IInv, Tick
    PROVE  /\ saver \in {"idle", "debounce"} /\ ~Signalled
           /\ saver = "idle" => Persisted = route \/ failed
           /\ saver = "debounce" => quiet < Debounce /\ elapsed < Cap
BY SaveAssumption
   DEF IInv, TypeOK, ChangeIsPending, Tick, SomeTaskRuns, Signalled, Task

(* The state after videomtx_init() satisfies the invariant.                 *)
LEMMA InitIInv == Init => IInv
<1> SUFFICES ASSUME Init PROVE IInv
  OBVIOUS
<1>1. TypeOK
  <2>1. Nothing \notin Table /\ Identity \in Table
    BY SaveAssumption
  <2> QED BY <2>1, ZeroTimers DEF Init, TypeOK
<1>2. ChangeIsPending /\ WriteMissesOnlySignalled /\ AgeInPhase
  BY SaveAssumption DEF Init, ChangeIsPending, Persisted,
                        WriteMissesOnlySignalled, AgeInPhase
<1>3. MutexInv /\ IcHasRoutes
  BY DEF Init, MutexInv, IcHasRoutes
<1> QED BY <1>1, <1>2, <1>3 DEF IInv

(* The types are preserved by every step.                                   *)
LEMMA TypesPreserved ==
    ASSUME IInv, [Next]_vars
    PROVE  TypeOK'
<1>0. TypeOK /\ Identity \in Table
  BY SaveAssumption DEF IInv
<1>1. ASSUME NEW t \in Setter, NEW o \in Output, NEW i \in Input, Set(t, o, i)
      PROVE  TypeOK'
  <2>1. route' \in Table
    BY <1>0, <1>1 DEF Set, TypeOK, Table
  <2>2. /\ pc' \in [Task -> {"idle", "latch", "give"}]
        /\ buf' \in [Task -> Table] /\ mutex' \in Task \cup {Nobody}
    BY <1>0, <1>1, <2>1 DEF Set, Push, Acquire, Task, TypeOK
  <2>3. age' \in 0..Cap+1 /\ burst' \in 0..MaxBurst
    BY <1>0, <1>1, SaveAssumption DEF Set, TypeOK
  <2> QED BY <1>0, <1>1, <2>1, <2>2, <2>3 DEF Set, TypeOK
<1>2. ASSUME NEW t \in Task, Latch(t) \/ TransferFails(t) \/ Signal(t)
      PROVE  TypeOK'
  <2>1. /\ pc' \in [Task -> {"idle", "latch", "give"}]
        /\ buf' \in [Task -> Table] /\ mutex' \in Task \cup {Nobody}
        /\ ic' \in Table \cup {Unknown}
    BY <1>0, <1>2 DEF Latch, TransferFails, Release, Signal, TypeOK
  <2>2. sem' \in BOOLEAN
    BY <1>0, <1>2 DEF Latch, TransferFails, Release, Signal, TypeOK
  <2> QED BY <1>0, <1>2, <2>1, <2>2
          DEF Latch, TransferFails, Release, Signal, TypeOK
<1>3. CASE Wake \/ Rearm \/ Expire \/ Snapshot \/ SaveFails \/ Write
  <2>1. CASE Wake      BY <1>0, <2>1, ZeroTimers DEF Wake, section, TypeOK
  <2>2. CASE Rearm     BY <1>0, <2>2, ZeroTimers DEF Rearm, section, TypeOK
  <2>3. CASE Expire    BY <1>0, <2>3 DEF Expire, section, TypeOK
  <2>4. CASE Snapshot  BY <1>0, <2>4 DEF Snapshot, section, TypeOK
  <2>5. CASE SaveFails BY <1>0, <2>5 DEF SaveFails, section, TypeOK
  <2>6. CASE Write     BY <1>0, <2>6, ZeroTimers DEF Write, section, TypeOK
  <2> QED BY <1>3, <2>1, <2>2, <2>3, <2>4, <2>5, <2>6
<1>4. CASE Transient \/ Refresh
  <2>1. CASE Transient
    BY <1>0, <2>1 DEF Transient, section, TypeOK
  <2>2. CASE Refresh
    BY <1>0, <2>2 DEF Refresh, Push, Acquire, Task, TypeOK
  <2> QED BY <1>4, <2>1, <2>2
<1>5. CASE Reboot
  <2>1. Persisted \in Table
    BY <1>0 DEF Persisted, TypeOK
  <2> QED BY <1>0, <1>5, <2>1, ZeroTimers DEF Reboot, TypeOK
<1>6. CASE Tick
  <2>1. quiet' \in 0..Debounce /\ elapsed' \in 0..Cap
    BY <1>0, <1>6, TickIsIdle, SaveAssumption DEF Tick, TypeOK
  <2>2. age' \in 0..Cap+1
    BY <1>0, <1>6, ZeroTimers, SaveAssumption DEF Tick, TypeOK
  <2> QED BY <1>0, <1>6, <2>1, <2>2, ZeroTimers DEF Tick, section, TypeOK
<1>7. CASE UNCHANGED vars
  BY <1>0, <1>7 DEF vars, section, TypeOK
<1> QED BY <1>1, <1>2, <1>3, <1>4, <1>5, <1>6, <1>7 DEF Next

(* Pending changes stay pending until a save contains them.                 *)
LEMMA PendingPreserved ==
    ASSUME IInv, [Next]_vars
    PROVE  ChangeIsPending' /\ WriteMissesOnlySignalled'
<1> USE DEF IInv, ChangeIsPending, WriteMissesOnlySignalled, Signalled, Persisted
<1>1. ASSUME NEW t \in Setter, NEW o \in Output, NEW i \in Input, Set(t, o, i)
      PROVE  ChangeIsPending' /\ WriteMissesOnlySignalled'
  <2>1. pc'[t] = "latch"
    BY <1>1 DEF Set, Push, Task, TypeOK
  <2> QED BY <2>1
<1>2. ASSUME NEW t \in Task, Latch(t) \/ TransferFails(t) \/ Signal(t)
      PROVE  ChangeIsPending' /\ WriteMissesOnlySignalled'
  <2>1. CASE Signal(t)
    BY <2>1 DEF Signal
  <2>2. CASE Release(t)
    <3>1. UNCHANGED <<route, flash, sem, saver, snap, failed>>
      BY <2>2 DEF Release
    <3>2. \A u \in Setter : pc[u] # "idle" => pc'[u] # "idle"
      BY <2>2, TaskAssumption DEF Release, Task, TypeOK
    <3> QED BY <3>1, <3>2
  <2> QED BY <1>2, <2>1, <2>2 DEF Latch, TransferFails
<1>3. CASE Wake \/ Rearm \/ Expire
  BY <1>3 DEF Wake, Rearm, Expire, section
<1>4. CASE Snapshot \/ SaveFails
  BY <1>4 DEF Snapshot, SaveFails, section
<1>5. CASE Write
  BY <1>5, SaveAssumption DEF Write, section, TypeOK
<1>6. CASE Transient \/ Refresh
  <2>1. CASE Transient
    BY <2>1 DEF Transient, section
  <2>2. CASE Refresh
    <3>1. \A u \in Setter : pc'[u] = pc[u]
      BY <2>2, TaskAssumption DEF Refresh, Push, Task, TypeOK
    <3> QED BY <2>2, <3>1 DEF Refresh
  <2> QED BY <1>6, <2>1, <2>2
<1>7. CASE Reboot
  BY <1>7 DEF Reboot
<1>8. CASE Tick
  BY <1>8 DEF Tick, section
<1>9. CASE UNCHANGED vars
  BY <1>9 DEF vars, section
<1> QED BY <1>1, <1>2, <1>3, <1>4, <1>5, <1>6, <1>7, <1>8, <1>9 DEF Next

(* A change ages only while a save that will contain it is waited for.      *)
LEMMA AgePreserved ==
    ASSUME IInv, [Next]_vars
    PROVE  AgeInPhase'
<1> USE SaveAssumption DEF IInv, AgeInPhase, TypeOK
<1>1. ASSUME NEW t \in Setter, NEW o \in Output, NEW i \in Input, Set(t, o, i)
      PROVE  AgeInPhase'
  BY <1>1 DEF Set
<1>2. ASSUME NEW t \in Task, Latch(t) \/ TransferFails(t) \/ Signal(t)
      PROVE  AgeInPhase'
  BY <1>2 DEF Latch, TransferFails, Release, Signal
<1>3. CASE Wake \/ Rearm \/ Expire \/ Snapshot \/ SaveFails \/ Write
  <2>1. CASE Wake      BY <2>1 DEF Wake
  <2>2. CASE Rearm     BY <2>2 DEF Rearm
  <2>3. CASE Expire    BY <2>3 DEF Expire
  <2>4. CASE Snapshot  BY <2>4 DEF Snapshot
  <2>5. CASE SaveFails BY <2>5 DEF SaveFails
  <2>6. CASE Write     BY <2>6 DEF Write
  <2> QED BY <1>3, <2>1, <2>2, <2>3, <2>4, <2>5, <2>6
<1>4. CASE Transient \/ Refresh \/ Reboot
  BY <1>4 DEF Transient, Refresh, Reboot
<1>5. CASE Tick
  <2>1. CASE saver = "idle"
    BY <1>5, <2>1, TickIsIdle DEF Tick
  <2>2. CASE saver = "debounce"
    BY <1>5, <2>2, TickIsIdle DEF Tick
  <2> QED BY <1>5, <2>1, <2>2, TickIsIdle
<1>6. CASE UNCHANGED vars
  BY <1>6 DEF vars
<1> QED BY <1>1, <1>2, <1>3, <1>4, <1>5, <1>6 DEF Next

(* The mutex keeps the frames of two tasks apart: whatever the IC latches   *)
(* is the table of that moment.                                             *)
LEMMA MutexPreserved ==
    ASSUME IInv, [Next]_vars
    PROVE  MutexInv' /\ IcHasRoutes'
<1> USE DEF IInv, MutexInv, IcHasRoutes
<1>1. ASSUME NEW t \in Task, NEW table, Push(t, table), route' = table
      PROVE  MutexInv' /\ IcHasRoutes'
  <2>1. /\ mutex' = t /\ t # Nobody
        /\ \A u \in Task \ {t} : pc'[u] = pc[u] /\ pc[u] # "latch"
        /\ buf'[t] = table
    BY <1>1, TaskAssumption DEF Push, Acquire, TypeOK
  <2> QED BY <1>1, <2>1
<1>2. ASSUME NEW t \in Setter, NEW o \in Output, NEW i \in Input, Set(t, o, i)
      PROVE  MutexInv' /\ IcHasRoutes'
  <2>1. t \in Task /\ Push(t, route')
    BY <1>2 DEF Set, Task
  <2> QED BY <1>1, <2>1
<1>3. CASE Refresh
  <2>1. Refresher \in Task /\ Push(Refresher, route) /\ route' = route
    BY <1>3 DEF Refresh, Task
  <2> QED BY <1>1, <2>1
<1>4. ASSUME NEW t \in Task, Latch(t) \/ TransferFails(t)
      PROVE  MutexInv' /\ IcHasRoutes'
  <2>1. /\ pc[t] = "latch" /\ buf[t] = route /\ route' = route
        /\ \A u \in Task : pc'[u] # "latch"
    BY <1>4 DEF Latch, TransferFails, Release, TypeOK
  <2> QED BY <1>4, <2>1 DEF Latch, TransferFails
<1>5. ASSUME NEW t \in Task, Signal(t)
      PROVE  MutexInv' /\ IcHasRoutes'
  BY <1>5 DEF Signal, TypeOK
<1>6. CASE Wake \/ Rearm \/ Expire \/ Snapshot \/ SaveFails \/ Write \/ Tick
  BY <1>6 DEF Wake, Rearm, Expire, Snapshot, SaveFails, Write, Tick, section
<1>7. CASE Transient
  BY <1>7 DEF Transient, section
<1>8. CASE Reboot
  BY <1>8 DEF Reboot
<1>9. CASE UNCHANGED vars
  BY <1>9 DEF vars, section
<1> QED BY <1>2, <1>3, <1>4, <1>5, <1>6, <1>7, <1>8, <1>9 DEF Next

(* The inductive invariant holds in every reachable state.                  *)
THEOREM Invariance == Spec => []IInv
<1>1. IInv /\ [Next]_vars => IInv'
  BY TypesPreserved, PendingPreserved, AgePreserved, MutexPreserved DEF IInv
<1> QED BY <1>1, InitIInv, PTL DEF Spec

(* Type correctness of the routing table and its copies.                    *)
THEOREM TypeCorrectness == Spec => []TypeOK
<1>1. IInv => TypeOK
  BY DEF IInv
<1> QED BY <1>1, Invariance, PTL

(* No routing change is ever forgotten: while flash lacks it, its save is   *)
(* on the way, or the last save failed.                                      *)
THEOREM NoChangeForgotten == Spec => []ChangeIsPending
<1>1. IInv => ChangeIsPending
  BY DEF IInv
<1> QED BY <1>1, Invariance, PTL

(* SAVE_MAX_DELAY_MS bounds how long flash lacks a change, however long the *)
(* edits go on.                                                             *)
THEOREM BoundedDelay == Spec => []SaveNotPostponed
<1>1. IInv => SaveNotPostponed
  BY DEF IInv, AgeInPhase, SaveNotPostponed
<1> QED BY <1>1, Invariance, PTL

(* However do_set() of two tasks and the refresh meet, the IC is never left *)
(* with a frame that lacks a change: only a transient or a failed transfer  *)
(* parts it from the table.                                                 *)
THEOREM IcCorrectness == Spec => []IcHasRoutes
<1>1. IInv => IcHasRoutes
  BY DEF IInv
<1> QED BY <1>1, Invariance, PTL
==============================================================================
