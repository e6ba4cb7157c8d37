------------------------------ MODULE VideoMtx ------------------------------
(****************************************************************************)
(* main/services/videomtx.c: the routing table, its copy in the crosspoint  *)
(* IC, and the debounced save of it to flash, with power loss at any time.  *)
(*                                                                          *)
(* do_set() and the refresh hold s_route_mutex from where they pack the     *)
(* table to where the IC latches what they shifted into it; the snapshot of *)
(* the save is one step of a task that holds it.  do_set() signals          *)
(* s_save_sem after its section: other tasks run between the two.  The      *)
(* callback that do_set() invokes last touches nothing here.                *)
(*                                                                          *)
(* Time is counted in ticks of which Debounce and Cap are multiples; tasks  *)
(* take no time, so the clock ticks only when none of them can run.         *)
(****************************************************************************)
EXTENDS Naturals

CONSTANTS Output, Input,
          Identity,      \* what videomtx_init() starts from: out N <- in N
          Setter,        \* tasks that call videomtx_set() or _set_silent()
          Refresher,     \* ic_refresh_task
          Nobody,        \* no holder of s_route_mutex
          Debounce,      \* SAVE_DEBOUNCE_MS, in ticks
          Cap,           \* SAVE_MAX_DELAY_MS, in ticks
          MaxBurst,      \* bound: changes of routes within one tick
          Nothing,       \* flash without a saved table
          Unknown        \* what the IC connects after a transient or a
                         \* transfer that failed

Task  == Setter \cup {Refresher}
Table == [Output -> Input]

ASSUME SaveAssumption ==
    /\ Identity \in Table
    /\ Debounce \in Nat \ {0} /\ Cap \in Nat /\ Debounce <= Cap
    /\ MaxBurst \in Nat \ {0}
    /\ Nothing \notin Table /\ Unknown \notin Table

ASSUME TaskAssumption == Refresher \notin Setter /\ Nobody \notin Task

VARIABLES route,     \* s_route
          ic,        \* what the crosspoint IC connects
          flash,     \* the blob under NVS_KEY
          sem,       \* s_save_sem has been given
          mutex,     \* who holds s_route_mutex
          pc,        \* task |-> "idle"; "latch" while its frame is shifted
                     \* out; "give" before a setter signals
          buf,       \* the table in its frame, while there is one
          saver,     \* where nvs_save_task is
          snap,      \* its snapshot
          quiet,     \* ticks in the current wait for s_save_sem
          elapsed,   \* ticks since first_change_us
          burst,     \* changes since the last tick
          age,       \* history: for how long flash has lacked a change
          failed     \* history: the last attempt to save failed

section == <<mutex, pc, buf>>
vars    == <<route, ic, flash, sem, section, saver, snap, quiet, elapsed,
             burst, age, failed>>

(* What a boot would restore.                                               *)
Persisted == IF flash = Nothing THEN Identity ELSE flash

Init ==
    /\ flash = Nothing
    /\ route = Identity
    /\ ic \in {Identity, Unknown}
    /\ sem = FALSE
    /\ mutex = Nobody /\ pc = [t \in Task |-> "idle"]
    /\ buf = [t \in Task |-> Identity]
    /\ saver = "idle" /\ snap = Identity
    /\ quiet = 0 /\ elapsed = 0 /\ burst = 0
    /\ age = 0 /\ failed = FALSE

------------------------------------------------------------------------------
(* do_set() and ic_refresh_task()                                           *)

(* Variant: the table is written to the IC without the mutex.               *)
AcquireAnyway(t) == mutex' = t

Acquire(t) == mutex = Nobody /\ mutex' = t

(* videomtx_ic_write() packs the table and begins to shift it out.  What    *)
(* do_set() stores before is stored in the same step: every writer and      *)
(* every packer of s_route holds the mutex.                                 *)
Push(t, table) ==
    /\ pc[t] = "idle"
    /\ Acquire(t)
    /\ buf' = [buf EXCEPT ![t] = table]
    /\ pc' = [pc EXCEPT ![t] = "latch"]

Set(t, o, i) ==
    /\ burst < MaxBurst
    /\ burst' = burst + 1
    /\ route' = [route EXCEPT ![o] = i]
    /\ Push(t, route')
    /\ age' = IF route' = Persisted THEN 0 ELSE age
    /\ UNCHANGED <<ic, flash, sem, saver, snap, quiet, elapsed, failed>>

Refresh ==
    /\ Push(Refresher, route)
    /\ UNCHANGED <<route, ic, flash, sem, saver, snap, quiet, elapsed,
                   age, failed, burst>>

(* The UPDATE pulse ends the write, and the section.                        *)
Release(t) ==
    /\ pc[t] = "latch"
    /\ mutex' = Nobody
    /\ pc' = [pc EXCEPT ![t] = IF t = Refresher THEN "idle" ELSE "give"]
    /\ buf' = [buf EXCEPT ![t] = Identity]
    /\ UNCHANGED <<route, flash, sem, saver, snap, quiet, elapsed,
                   age, failed, burst>>

Latch(t) == Release(t) /\ ic' = buf[t]

(* The SPI transfer fails: the pulse is given all the same, nobody asks.    *)
TransferFails(t) == Release(t) /\ ic' = Unknown

(* Variant: no signal while a save is under way.                            *)
SignalUnlessSaving(t) ==
    /\ pc[t] = "give"
    /\ sem' = (sem \/ saver = "idle")
    /\ pc'  = [pc EXCEPT ![t] = "idle"]
    /\ UNCHANGED <<route, ic, flash, mutex, buf, saver, snap, quiet, elapsed,
                   age, failed, burst>>

Signal(t) ==
    /\ pc[t] = "give"
    /\ sem' = TRUE
    /\ pc'  = [pc EXCEPT ![t] = "idle"]
    /\ UNCHANGED <<route, ic, flash, mutex, buf, saver, snap, quiet, elapsed,
                   age, failed, burst>>

------------------------------------------------------------------------------
(* nvs_save_task()                                                          *)

(* The first change after being idle.                                       *)
Wake ==
    /\ saver = "idle" /\ sem
    /\ sem'   = FALSE
    /\ saver' = "debounce"
    /\ quiet' = 0 /\ elapsed' = 0
    /\ UNCHANGED <<route, ic, flash, section, snap, age, failed, burst>>

(* Variant: first_change_us is taken again with each change.                *)
RearmRestartsCap ==
    /\ saver = "debounce" /\ sem /\ elapsed < Cap
    /\ sem'   = FALSE
    /\ quiet' = 0 /\ elapsed' = 0
    /\ UNCHANGED <<route, ic, flash, section, saver, snap, age, failed, burst>>

(* Another change within the debounce time.                                 *)
Rearm ==
    /\ saver = "debounce" /\ sem /\ elapsed < Cap
    /\ sem'   = FALSE
    /\ quiet' = 0
    /\ UNCHANGED <<route, ic, flash, section, saver, snap, elapsed,
                   age, failed, burst>>

(* A quiet period has passed, or the cap is reached; a signal that comes as *)
(* the cap is reached may or may not have been taken by the last wait.      *)
Expire ==
    /\ saver = "debounce"
    /\ elapsed >= Cap \/ (quiet >= Debounce /\ ~sem)
    /\ sem' \in {sem, FALSE}
    /\ saver' = "snapshot"
    /\ UNCHANGED <<route, ic, flash, section, snap, quiet, elapsed,
                   age, failed, burst>>

(* Variant: the table as the last save left it, not as it is now.           *)
SnapshotStale ==
    /\ saver = "snapshot" /\ mutex = Nobody
    /\ saver' = "write"
    /\ UNCHANGED <<route, ic, flash, sem, section, snap, quiet, elapsed,
                   age, failed, burst>>

Snapshot ==
    /\ saver = "snapshot" /\ mutex = Nobody
    /\ snap'  = route
    /\ saver' = "write"
    /\ UNCHANGED <<route, ic, flash, sem, section, quiet, elapsed,
                   age, failed, burst>>

(* nvs_open() fails and the save is given up, or the write fails, which the *)
(* code does not notice.                                                    *)
SaveFails ==
    /\ saver = "write"
    /\ saver'  = "idle"
    /\ failed' = TRUE
    /\ UNCHANGED <<route, ic, flash, sem, section, snap, quiet,
                   elapsed, age, burst>>

Write ==
    /\ saver = "write"
    /\ flash'  = snap
    /\ saver'  = "idle"
    /\ failed' = FALSE
    /\ age'    = 0
    /\ UNCHANGED <<route, ic, sem, section, snap, quiet, elapsed, burst>>

------------------------------------------------------------------------------
(* The IC, power and time.                                                  *)

Transient ==
    /\ ic' = Unknown
    /\ UNCHANGED <<route, flash, sem, section, saver, snap, quiet, elapsed,
                   age, failed, burst>>

(* Variant: the table is loaded without the identity to fall back on.       *)
RebootWithoutDefault ==
    /\ route' = flash
    /\ ic' = flash
    /\ sem' = FALSE
    /\ mutex' = Nobody /\ pc' = [t \in Task |-> "idle"]
    /\ buf' = [t \in Task |-> Identity]
    /\ saver' = "idle" /\ snap' = Identity
    /\ quiet' = 0 /\ elapsed' = 0
    /\ age' = 0 /\ failed' = FALSE
    /\ burst' = 0
    /\ UNCHANGED flash

(* Power is lost and videomtx_init() runs: the identity, then nvs_load().   *)
Reboot ==
    /\ route' = Persisted
    /\ ic' \in {Persisted, Unknown}
    /\ sem' = FALSE
    /\ mutex' = Nobody /\ pc' = [t \in Task |-> "idle"]
    /\ buf' = [t \in Task |-> Identity]
    /\ saver' = "idle" /\ snap' = Identity
    /\ quiet' = 0 /\ elapsed' = 0
    /\ age' = 0 /\ failed' = FALSE
    /\ burst' = 0
    /\ UNCHANGED flash

SomeTaskRuns ==
    \/ \E t \in Task : pc[t] # "idle"
    \/ saver \in {"snapshot", "write"}
    \/ saver = "idle" /\ sem
    \/ saver = "debounce" /\ (sem \/ quiet >= Debounce \/ elapsed >= Cap)

Tick ==
    /\ ~SomeTaskRuns
    /\ age' = IF Persisted = route THEN 0
              ELSE IF age > Cap THEN age ELSE age + 1
    /\ IF saver = "debounce"
       THEN quiet' = quiet + 1 /\ elapsed' = elapsed + 1
       ELSE UNCHANGED <<quiet, elapsed>>
    /\ burst' = 0
    /\ UNCHANGED <<route, ic, flash, sem, section, saver, snap, failed>>

Next ==
    \/ \E t \in Setter, o \in Output, i \in Input : Set(t, o, i)
    \/ Refresh
    \/ \E t \in Task : Latch(t) \/ TransferFails(t) \/ Signal(t)
    \/ Wake \/ Rearm \/ Expire \/ Snapshot \/ SaveFails \/ Write
    \/ Transient
    \/ Reboot
    \/ Tick

Spec == Init /\ [][Next]_vars

(* A task inside its section and a setter that owes the signal go on while  *)
(* there is power.  The saving task gets the mutex although others take it  *)
(* again and again, and time passes: every holder gives the mutex back      *)
(* within 2 ms, the refresh sleeps between two writes, and routes change at *)
(* a finite rate.                                                           *)
Fairness ==
    /\ \A t \in Task : WF_vars(Latch(t) \/ TransferFails(t) \/ Signal(t))
    /\ SF_vars(Wake \/ Rearm \/ Expire \/ Snapshot \/ SaveFails \/ Write)
    /\ SF_vars(Tick)

FairSpec == Spec /\ Fairness

------------------------------------------------------------------------------
(* Type invariant of the table, its copies, and the saving task's timers.   *)
TypeOK ==
    /\ route \in Table /\ snap \in Table
    /\ ic \in Table \cup {Unknown}
    /\ flash \in Table \cup {Nothing}
    /\ sem \in BOOLEAN /\ failed \in BOOLEAN
    /\ mutex \in Task \cup {Nobody}
    /\ pc \in [Task -> {"idle", "latch", "give"}] /\ buf \in [Task -> Table]
    /\ saver \in {"idle", "debounce", "snapshot", "write"}
    /\ quiet \in 0..Debounce /\ elapsed \in 0..Cap /\ age \in 0..Cap+1
    /\ burst \in 0..MaxBurst

(* No change is forgotten: while flash differs from the table, a signal, a  *)
(* setter that will give it, or a save that will still take its snapshot is  *)
(* on the way, whatever order setters, saves and power losses come in; the  *)
(* exception is a save that failed (videomtx.c:81-88).                      *)
ChangeIsPending ==
    Persisted # route =>
        \/ sem \/ (\E t \in Setter : pc[t] # "idle")
        \/ saver \in {"debounce", "snapshot"}
        \/ saver = "write" /\ snap = route
        \/ failed

(* Even if changes never pause, flash lacks none of them for longer than    *)
(* SAVE_MAX_DELAY_MS ("force a save at least this often even under          *)
(* continuous edits", videomtx.c:23), unless a save failed.                 *)
SaveNotPostponed == ~failed => age <= Cap

(* A routing that is left alone reaches flash, or is lost with the power    *)
(* before it does, or a save failed.                                        *)
RoutesReachFlash ==
    \A o \in Output, i \in Input :
        route[o] = i ~> (Persisted[o] = i \/ route[o] # i \/ failed)

(* Whenever nobody is writing to the IC, it connects what the table says:   *)
(* two setters and the refresh never leave it with a frame packed before a  *)
(* change of one of them (videomtx.c:137-143).  A transient or a failed     *)
(* transfer may, until the next write that succeeds.                        *)
IcHasRoutes == mutex = Nobody => ic \in {route, Unknown}
==============================================================================
