# Narval video matrix firmware: specifications, checks and proofs

TLA+ specifications of the ESP32-S3 firmware in this repository, model-checked
with TLC on small instances and, where it says so below, proved with TLAPS for
every value of the constants. The code is the reference: a module says in its
comments which functions it models, and `PROJECT.json` maps each definition to
its lines.

    tlc -workers 2 -config MC_TxPool.cfg MC_TxPool.tla      # one run
    tlapm Can_proofs.tla                                    # one proof module

## The system

The unit routes 16 video inputs to 16 outputs. Routes are chosen with the
buttons of panels on a CAN bus (at about 9765 bit/s), or on the unit with an
encoder and a small display. The panels show the chosen state with LEDs, which
the unit sets with CAN frames. A PC uploads the configuration over USB and can
use the unit as a USB-to-CAN bridge.

| component | state | operations | hard behaviours |
|---|---|---|---|
| `can_latest.c` | `s_cols[]` (states, cursor `ptr`, selection `sel_idx` per output), `s_addr_to_col_mask`, the globals `LedBuff` and `tx` | button press, refresh request, UI route, reconfiguration | one cursor shared by buttons, UI edits and boots; columns that share a device or an LED layer; handlers that run in three tasks without a lock |
| `can.c`, transmit | pool of slots: `s_tx_busy`, claim times, contents | `can_service_send()` from several tasks, `on_tx_done()` interrupt | concurrent claims; slots stranded by bus-off; reclaim by age |
| `can.c`, recovery | event queue, `s_recovery_in_flight` and its time | `on_state_change()` interrupt, `can_state_log_task` | dropped events, lost requests, retry timeout against a recovery in progress |
| `can.c`, receive | 32-deep queue, RX observer | `on_rx_done()` interrupt, `can_task` | overflow while a handler blocks |
| `videomtx.c` | `s_route[]`, its copy in the crosspoint IC, the blob in NVS, the debounce | `videomtx_set()`, `_set_silent()`, `nvs_save_task`, `ic_refresh_task`, boot | change between snapshot and write, endless bursts, power loss, failed saves, wiped IC |
| `ui.c` | its own copy of the routes, edit mode, screens, rotation accumulator | encoder events, asynchronous external updates | update against edit; updates during the splash |
| `can_monitor.c` | ring of frames, pending-notification flag | push, push from the UI, separators, snapshot | pushes from two cores, coalesced notification, a failing `lv_async_call()`, lock order |
| `prog.c` | active and staged configuration, NVS blobs | WRITE, COMMIT, ABORT, READ over a byte stream | dropped packets that splice two uploads, timeouts inside a frame, lost answers, an acknowledgement that tells nothing, power loss between two blobs |
| `usb_bridge.c` | packet and frame queues, transmit semaphore, write buffer | connect, disconnect, bulk in/out, two pumping tasks | semaphore given while in use, a transfer dropped without a callback, a host that does not read |
| `display.c`, `settings.c`, `encoder.c`, drivers | LVGL lock, brightness | device I/O | `display_lock()` is not recursive |

How they interact. `can_task` takes frames from the receive queue, logs them
(`can_mon_push`), hands them to `can_latest_update()` and passes them on to the
USB bridge. A press that `can_latest` accepts changes the column's selection,
calls `videomtx_set()`, which pushes the table to the IC, signals the saving
task and calls back into the UI, and then sends LED frames through
`can_service_send()`. An edit in the UI calls `videomtx_set_silent()` and
`can_latest_notify_route()`. A committed upload calls
`can_latest_reconfigure()` from the USB task. Boot loads the routing table
first and then configures the columns from it.

## What makes each part correct

- can_latest: the cursor, the selection, the route and the lamps of every
  panel describe the same state of a column, whatever came before.
- Transmit pool: no slot has two owners; frames leave in order and unaltered;
  the pool does not run dry.
- Bus-off recovery: every bus-off ends; a recovery at work is left alone.
- videomtx: flash catches up with every change, in bounded time; whenever nobody
  writes to the IC it has the present table, unless a transient wiped it or a
  transfer failed since the last write.
- UI: the screen shows the routes, whatever the panels switch meanwhile; what
  is drawn is what the next event acts on; the brightness in use is the one
  seen and the one saved.
- can_latest under its three tasks: indices stay in their arrays even against
  an upload; selection and route part, and a panel shows wrong lamps, only in
  the races that can be named, and the next handler repairs it.
- can_monitor: the ring is the list of the latest pushes; one notification is
  under way at a time; nobody waits for himself; the screen catches up.
- prog: what was acknowledged is active; what is active was uploaded as one,
  and is saved and in use; a repeated COMMIT is answered.
- usb_bridge: one user of the write buffer at a time; the semaphore comes back;
  a host that does not read stops nothing behind it.

## Modules

| module | models | how |
|---|---|---|
| `Columns` | the pure part of `can_latest.c` with `column_properties.h` and the matrix cells | operators: `LayoutOf` builds what `can_latest_configure()` stores; `ResolveColumn`, `AcceptsButton`, `PressedState`, `PressedCursor` are the press; `FillLedBuff`, `Targets`, `Payload` the LED frames |
| `CanLatest` | the handlers of `can_latest.c`, each atomic, and the panels | `conf`, `ptr`, `sel` are `s_cols`, `route` is `s_route`; `panel` is what each device shows per layer; any frame may be lost, after which the panel is `Unknown` |
| `LossyFifo` | the promise of `can_service_send()` | an accepted frame leaves in order and unaltered or is lost on the wire |
| `TxPool` | the transmit side of `can.c` | one action per critical section or driver call; the driver's queue and the wire are external |
| `VideoMtx` | `videomtx.c` and `videomtx_ic_write()` | a section of `s_route_mutex` that writes to the IC is two actions, packing (`Push` in `Set` and `Refresh`) and the end of the transfer (`Latch`, `TransferFails`); signal, debounce, snapshot and write are separate steps |
| `BusRecovery` | `on_state_change()` and `can_state_log_task` | receive or poll, look, request are separate steps; the controller is external |
| `Ui` | `ui.c` with the brightness of `settings.c`, from the splash on, against `can_task` | an event or update handler runs under the LVGL lock and is one action; `can_task` is two, the change of the table and the callback; `cell` and `overlay` are what was last drawn, apart from the state they were drawn from |
| `CanLatestTasks` | the handlers of `can_latest.c` step by step in `can_task`, the LVGL task and `usb_to_can_task` | extends `Columns`; each task has a program counter and the locals its handler keeps; `led` and `tx` are the unlocked globals; a handler is cut where it reads or writes shared state |
| `RecentLog` | the promise of the monitor's ring | a list of at most `LOG_SIZE` entries, and the text last rendered from it |
| `CanMonitor` | `can_monitor.c`, the monitor screen of `ui.c`, `display_lock()` and the loop of the LVGL task | one action per stretch between lock operations; within `s_mutex` the write of the slot and the step of the head are two, so that the lock has something to guard |
| `Prog` | `prog.c`, the packet queue and the dispatcher of `usb_bridge.c` | one action per packet taken and per step of a handler with an effect elsewhere (answer, each blob, callback); host and NVS are external |
| `UsbTx` | `on_rx_done()` and `can_task` of `can.c` up to the observer; `cdc_write()`, the USB events, `can_to_usb_task` and `cdc_acm_task` of `usb_bridge.c` | frames are counted; each writer has a program counter inside `cdc_write()`; the USB stack is external |
| `MC_*` | instances for TLC | small configurations and sets of frames |
| `*_proofs` | theorems | see below; `Columns_proofs` holds the lemmas about `Columns` that two of them share, `Can_proofs` the proofs about `BusRecovery`, `UsbTx` and `TxPool` |

A definition preceded by the word *Variant* is not part of a specification: it
is a plausible bug, there to show that a property notices it (`mutants` in
`PROJECT.json`).

Abstractions. Lamps are numbers 0..3 instead of bit pairs. In `VideoMtx` a frame
for the IC stands for the table it is packed from, and whatever the IC connects
after a transient or a failed transfer is `Unknown`. A frame is a record
of length and data bytes. Time is counted in ticks in `VideoMtx` and
`BusRecovery`; tasks take no time, so the clock ticks only when none of them
can run. In `TxPool` time is reduced to the fact that a slot was claimed more
than `TX_SLOT_STALE_US` ago. A failed `nvs_open()` and a failed write have the
same effect on `VideoMtx` and are one action. `s_frame`, which nothing in the
firmware reads but its getter, and all logging are left out. In `Ui` the CAN
monitor and the CAN settings are one screen, the focused menu entry is any, and
queued updates are applied in any order: LVGL's timer list decides that, not
this code. Encoder events come at any time, so they need no queue.

`Ui` has three history variables, which no action's guard reads. `crossed`
collects the outputs whose changes crossed each other on the way to the screen,
the exceptions to `ScreenTellsRoute`: a change between `ui_init()` reading the
table and registering its callback, an update whose `lv_async_call()` failed
(`NotifyFails`: its result is dropped at `ui.c:621`), two updates of one output
queued at once, a click on an output whose update is on the way, and an edit
cancelled after an update of its output. The call of `brightness_init_cb()` may
fail too (`reapply`); `LightIsSetting` is about boots where it ran. `updated` marks the last case while the edit lasts, and
`failed` a failed save of the brightness.

Abstractions of `CanLatestTasks`. `CanLatest` says which column a press belongs
to and what its lamps are, so here a press is for any column, and of `LedBuff`,
`tx` and a panel only the set of columns whose present selection they tell is
kept. `can_service_send()` may refuse any frame (`Refused`); one it takes
reaches its panel (frames lost on the bus are in `CanLatest`). A column's slots
are rebuilt in one step, and a frame's address and layer are stored in one.

A press is five steps after the LED pulse: the check of the button (`Accept`,
`Reject`), the choice of a state from the cursor (`Choose`), the store of the
cursor (`Advance`), the store of the selection (`Store`) and the route
(`SetRoute`). An upload may replace the column between any two of them. A press
that started from a column which has since changed under it, or from a cursor
that such a press has left (`Sound` is false), counts as met. When a press is
stored after an upload has shortened its column, the selection is no state of
the column, and `fill_ledbuff()` returns with all lamps dark
(`can_latest.c:377`): the frame tells no column, the partner that shares the
panel included, so `Told` is empty then.

Four history variables name the exceptions: `met` marks a handler whose column
another handler changed while it was deciding, `crossed` the columns such a
handler finished last; `mixed` marks a task whose frame another disturbed, and
`spoiled` the panels whose last frame was such a one, was refused, or was all
dark. Every exception is temporary: the next handler that is not met takes the
column out of `crossed`, the next undisturbed frame with lamps the panel out of
`spoiled`.

Two provisos of these invariants came out of their proofs. The instance that is
checked has no unassigned six-step slot and no columns that share a panel
without merging their lamps; an installation may have both. So
`SelectionIsRouted` says where the route is only of columns with all slots
assigned (finding 1 is what happens in the others), and `PanelsTellSelection`
leaves out a panel of which another column's frames do not carry the lamps
(`OnlyPartnersShare`): nothing in `can_latest.c` keeps such columns from wiping
each other's lamps.

Abstractions of `Prog`. A command or a CAN frame from the host is one packet; a
WRITE is two, cut where the matrix and the column properties meet. The firmware
receives more packets per WRITE, of which any may be dropped; two are the least
that can splice two uploads at the boundary that matters, between the two
blobs. Bytes inside a payload are not taken for an end mark or the start of a
frame of this protocol, but may be taken for the start of a CAN frame. The host
is the assumption of the model: one command at a time, a COMMIT only after the
echo equals what was sent, no second WRITE of an upload while an echo of the
first may still come, and a COMMIT repeated only when no acknowledgement can
come any more. A host without these could be told anything, since the frames
carry no sequence number. `acked` is what such a host believes; `unsaved` marks
a failed save.

Abstractions of `CanMonitor` and `UsbTx`. A line of the log stands for the
entry it is rendered from, and an entry for its number and kind. `unannounced`
and `callLost` name the two ways the screen may miss an entry: pushed before
`ui_init()` has registered, and an `lv_async_call()` without memory. In `UsbTx`
no frame is a multiple of `s_mps` long, so no empty packet follows one.
`overtaken` marks that the semaphore was given by a connect or disconnect event
while the buffer was in use, and is cleared when nobody uses it any more. What
a USB event does to the endpoint is the stack's, and external.

## Runs

| run | shows | instance and bounds |
|---|---|---|
| `can_latest` | `CursorFollowsSelection`, `LampsTellTheRoute`, `PanelsShowSelection` | 2 outputs, 9 inputs (nine is the least that needs a second frame and layer, and includes a full six-step column); uploads of a NORMAL pair, a 6STEP pair and other images that share two devices; presses of every button those devices have and one past the end, red ones where the two banks tell them apart, refresh requests, UI edits of `UiInputs` (inputs with and without a state), any frame lost |
| `six_step_hole` | a violation, finding 1 | a 6STEP column with an unassigned slot |
| `tx_pool` | `SlotsAreNotShared`, the refinement `ImplementsFifo`, `PoolRecovers` | 2 senders, 3 slots, 2 contents: senders can collide on a slot and still exhaust the pool together with stranded ones |
| `tx_pool_long_outage` | a violation, finding 2 | 2 senders, 2 slots, outages longer than the stale time |
| `videomtx` | `ChangeIsPending`, `SaveNotPostponed`, `RoutesReachFlash`, `IcHasRoutes` | 2 setters and the refresh task, 2 outputs, debounce and cap of a few ticks (cap longer than debounce, so both ways out of the wait occur), at most `MaxBurst` changes per tick |
| `bus_recovery` | `NoRequestOnTopOfAnother`, `AskedInTime`, `BusOffEnds` | a tick is a second (poll 2, retry 5); queue of 2, up to 3 changes per tick, so the queue overflows |
| `ui_matrix` | `ScreenTellsRoute`, `ScreenDrawsState` | 2 outputs, 2 inputs, at most 2 updates on the way (`MaxCalls`): an edited and another output, two updates of one output, updates of both |
| `ui_screens` | `LightIsSetting`, `SettingIsSaved` | one cell; brightness 2..4 in steps of 2, so that a step is clamped at both ends and from the middle |
| `can_tasks` | `SelectionIsRouted`, `PanelsTellSelection`, indices (`TypeOK`) | 2 columns that share a device; an upload shortens the first to one state, beside a partner that keeps its two (so that a stale store darkens the partner), and another undoes it; 3 inputs; `Buttons` = the first of each column; at most `MaxBurst` = 2 handlers start before all have returned, any two of the three tasks meeting at any step, and any number of them one after the other |
| `can_monitor` | `OneNotification`, `MonitorShowsLog`, the refinement `ImplementsRecentLog`, `EveryoneReturns`, `MonitorCatchesUp` | 2 pushing tasks and the LVGL task; a log of 2, so that it wraps and entries are written over; `lv_async_call()` may fail |
| `prog` | `AckedIsActive`, `ActiveIsOneUpload`, `SavedAndLive`, `CommitIsAnswered` | 2 uploads, the least that can be mixed; a queue of 2 packets, so that it overflows within a WRITE; NVS fails at each call, power is lost at any step |
| `usb_tx` | `SemaphoreGuardsBuffer`, `SemaphoreComesBack`, `ReceiveGoesOn` | both writers, queues of 2 frames that overflow, any order of USB events, a host that never reads |

`MaxBurst` and `MaxChanges` bound how much happens in one tick of the clock;
they are in the guards of `Set`, `GoBusOff` and `OtherChange`. `MaxCalls` bounds
the updates on the way to the screen, in the guard of `ExternalSet`. `MaxBurst`
of `CanLatestTasks` is in `Start`: it counts handlers started since all were
idle and is reset when all are idle again. A burst of three has far more states
than a run here can visit. No other counter grows without bound: the queues drop what they have
no room for, as in the code, the log's numbers wrap, and the notification flag
bounds `calls`. Deadlock is checked in every run. The firmware's sizes (100
entries, queues of 8 and 32) are what the theorems are for.

Fairness. `TxPool`: a task inside `can_service_send()` goes on running, tasks
keep sending, the controller works off its queue, a bus-off ends (which
`BusRecovery` shows), and time passes for a stranded slot. `VideoMtx`: a
task that writes to the IC ends its section and a setter gives its signal
(weak); the saving task gets the mutex although others take it again and again,
and time passes although they do (strong: a holder gives the mutex back within
2 ms and sleeps or waits for a user between two writes). Nothing makes the
refresh run, and saves may fail for ever. `BusRecovery`: the task runs, time
passes, and the driver neither fails every single call nor loses every single
request (strong fairness): without that no code could recover the bus. `CanMonitor`:
tasks go on running and a mutex goes to a waiting task, both strong, because a
FreeRTOS mutex is handed to a waiter and its holders also sleep; the LVGL task
returns from `lv_timer_handler()` and runs the calls that are queued. `Prog`:
`usb_to_can_task` runs, and a host that commits reads answers and repeats;
infinitely many repetitions do not all meet a full queue or a busy endpoint.
`UsbTx`: the tasks run; nothing is assumed of the host or the bus, because
`cdc_write()` gives up after 500 ms. `CanLatest`, `CanLatestTasks` and `Ui` have
no fairness and no liveness property.

## Findings

1. `six_step_hole`: a press can move a six-step column to a slot with no input.
   `sel_idx` changes and the lamps go dark, but the route stays
   (`can_latest.c:630-633`, `videomtx.c:136`), unlike `docs/can_latest.md:180`.
   `LampsTellTheRoute` states what does hold.
2. `tx_pool_long_outage`: `reclaim_stale_tx_slots()` clears the busy bit of
   slots that are still queued when a bus-off outlasts `TX_SLOT_STALE_US`,
   unlike `can.c:48`. The theorems about `TxPool` assume no such outage.

Other sentences of the repository that the code does not keep, seen while
modelling. The properties are worded so that they state what does hold.

- `can.c:198` (cleared "so the next bus-off starts a fresh request"): a recovery
  and a new bus-off between two looks of `can_state_log_task` leave
  `s_recovery_in_flight` set, and the new bus-off waits for the retry timeout.
  `AskedInTime` states the bound that holds.
- `videomtx.h:9`: `can_task` may call `videomtx_set()` before `ui_init()` has
  registered the callback; such a change is not shown until the output's next
  one. `crossed` in `Ui` collects it.
- `ui.c:79`: the transition from the splash does not reset the accumulator;
  `NoTurnLeftOver` excepts it.
- `ui.c:247`: an update of another output hides the overlay although an edit is
  under way, so `ScreenDrawsState` says that a visible overlay belongs to an
  edit, not that every edit shows one.
- `prog.h:42-43`: the callback fires and COMMIT is acknowledged also when
  `nvs_open()` or a write failed (`prog.c:53-64`), hence `unsaved` in
  `SavedAndLive`.
- `usb_bridge.c:78` ("given = USB TX free"): a connect or disconnect event gives
  the semaphore also while a writer is between taking it and starting the
  transfer (`usb_bridge.c:171`, `344-345`), hence `overtaken` in
  `SemaphoreGuardsBuffer`.
- `can_monitor.h:20` ("implies is_tx"): frames of the host are logged with
  `is_tx` false (`usb_bridge.c:313`); no property depends on it.
- `docs/can_latest.md:279`: handlers of `can_latest.c` run in three tasks, not
  one; `CanLatestTasks` is about that.

## Proofs

All theorems are invariants, action properties or refinements, proved from an
inductive invariant in the same module (`IInv`, or layers of it) by one lemma
per action or group of actions.

- `CanLatest_proofs` (any number of outputs and inputs up to 16, any uploads,
  frames and saved routes). `IInv` is `TypeOK`, `CursorFollowsSelection` and
  `LampsTellTheRoute` together: the cursor is what a press selects next, so the
  agreement of lamps and route needs the cursor to be a state of the column,
  and the cursor's range needs the layouts to be well formed. Lemmas about
  `Columns` say that every upload gives a well-formed layout and that each way
  to move a column selects one of its states and leaves the cursor behind it.
  `PanelsCorrectness` proves `PanelsShowSelection` on top of `IInv`. The core is
  `FrameShows`: a frame for a panel shows the state of column `c`, whether `c`
  or its partner sends it, because the lamp of a state lies in a layer the
  column sends (`LampIsSent`), a partner merges the lamps of `c` and of no other
  column (`OnlyComplementIsPartner`), and in the sum of two columns' lamps each
  still has its own colour (`ColourOfSum`). A frame is then either sent by one
  that may send it, or leaves the panel as it was or `Unknown` (`SendShows`,
  `BroadcastShows`). `SelectionOutlivesUpload` is an action property that is
  only proved: an upload that leaves a column as it was, such as a repeated
  COMMIT, moves neither its selection nor its cursor. It rests on the fact that
  no row is the row of two slots (`SlotsDiffer`), so that the state found for
  the route is the one that was selected.
- `CanLatestTasks_proofs` (any number of outputs, inputs and buttons, any
  uploads, any `MaxBurst`). The invariant must hold in the middle of three
  handlers, each at any of its steps, and has one layer for each thing that can
  go wrong. `Types` adds to `TypeOK` where each task can be and what its locals
  are: whatever was read before an upload, the cursor, the selection and the
  cursor about to be stored are indices of `rows[]`, though not always states
  of the column. `Decision` says of a
  handler that was not `met` which part of selection, cursor and route it has
  stored, and that the rest still agrees with what it decided. `Tracked` says
  that they agree in a column no handler is deciding about, unless it is in
  `crossed`. `Frames` says that the frames under way of a task that is not
  `mixed` are for its column and tell the present selections, or nothing if the
  column has no state of its own (`Told`), although `LedBuff` and `tx` are
  shared. `Covered` says that a panel which does not tell
  the selection of a column with a state is in `spoiled`, or some task will
  still send to it.
  `SelectionIsRouted` and `PanelsTellSelection` are what `Tracked` and `Covered`
  say once handlers are done. For each layer a lemma shows first that a step
  leaves what the layer says of the other tasks and columns alone, then that the
  task that moved keeps it of its own.
- `Can_proofs`, on `TxPool` (any number of senders and slots, assuming
  `LongOutage` is false). `IInv` adds to `SlotsAreNotShared` what a sender holds at each step
  and that only stranded slots are old; without the latter a reclaim could free
  a slot somebody uses. `FifoRefinement` maps the pool to `LossyFifo`: the
  frames on the way are the one on the wire and the contents of the queued
  slots; `Transmit` is an acceptance, `TxDone` a delivery, bus-off a loss, and
  the other steps leave the mapped state alone because a claimed slot is never
  a queued one.
- `VideoMtx_proofs` (any debounce time and cap, any number of setters). To
  `ChangeIsPending` `IInv` adds that a change the current write misses has been
  signalled, and to `SaveNotPostponed` how old an unsaved change can be in each
  phase of the saving task. `IcHasRoutes` needs the discipline of the mutex
  (`MutexInv`): a task whose frame is under way holds `s_route_mutex`, and the
  frame is of the table as it is; so what is latched is never out of date.
- `Can_proofs`, on `BusRecovery` (any queue depth, poll period and retry timeout,
  with or without driver faults). `RecoveryIInv` adds that a request at work is
  flagged, that what the task found out stays true until it asks, and how the time without a
  request relates to the task's wait and to the age of the last request.
- `Ui_proofs` (any size of the matrix, any brightness range and step, any
  `MaxCalls`). To `ScreenTellsRoute` `IInv` adds that the last thing on the way
  to the screen is what is routed and that an output which crossed nothing has
  one update queued at most (`UpdatesCarryRoutes`; an output whose update got lost
  has crossed), and that without any on the
  way the copy, or during an edit the saved input, is the route
  (`CopiesAreRoutes`); for the brightness, that what a long press brings back is
  what was saved (`SavedPctIsSaved`). All rest on the order of boot
  (`BootOrder`): no update is queued before the callback is registered.
  `NoTurnIsLeftOver` is an action property that is proved only: it holds by one
  look at each transition, so no run is spent on it.
- `CanMonitor_proofs` (any number of tasks, any `LOG_SIZE`). The ring lemmas say
  what a step of `s_head` and `s_count` does to the list the ring stands for
  (`RingPush`); `TInv` adds to `TypeOK` which task holds which lock at which
  place (`Locks`), without which a second writer could be inside the critical
  section, and that a separator under way has a number (`Numbered`). `Single`
  says "at most one notification" place by place, which is what each step
  needs. `RingIsRecentLog` maps `Write` to
  `Push` and `Refresh` to `Show`, the rest to stutters: the entry counts as
  pushed once its slot is written, although `s_head` moves a step later, which
  no reader can see under the mutex. `LocksAreOrdered`, only proved, is the
  safety part of `EveryoneReturns`: whoever holds a lock can go on.
- `Prog_proofs` (any uploads, any queue depth). `AckedIsActive` is far from
  inductive: `HostInv` says, for each phase of the host, what its packets in
  the queue, the half payload, the staged pair and the answers under way can be
  (for example that once the echo equalled the upload, only CAN frames of other
  programs precede the COMMIT, so that the upload stays staged until it is
  active, and a COMMIT that finds nothing staged is a repeated one).
  `OneCommit` says that one COMMIT or acknowledgement is under way at a time.
  `SavedInv` relates `flash`, `active` and `live` at each step of `nvs_save()`.
- `Can_proofs`, on `UsbTx` (any queue depths). `UsbIInv` adds to
  `SemaphoreGuardsBuffer` that the buffer changes during a transfer only when overtaken, and that every
  owner excludes both a second owner and a given semaphore. `SemaphoreIsNotLost`,
  only proved, is the safety part of `SemaphoreComesBack`: with the endpoint
  open, somebody is there who will give a semaphore that is taken.

Assumptions are only the named `ASSUME`s on constants, which TLC evaluates in
the runs, and `LongOutage = FALSE` where stated.

Only model-checked: the liveness properties `PoolRecovers`, `RoutesReachFlash`,
`BusOffEnds`, `EveryoneReturns`, `MonitorCatchesUp`,
`CommitIsAnswered`, `SemaphoreComesBack` and `ReceiveGoesOn`, since liveness
under fairness is outside the prover's reach. Every invariant and both
refinements that a run checks are also proved.

## Not modelled

- Of `videomtx_ic.c` the order of the bits in the SPI frame, a pure function, and
  the pins. That the IC recovers from a transient within ten seconds follows
  from the unconditional timer of `ic_refresh_task` alone and is no property.
- How long `can_task` blocks (50 ms per press, 15 ms per frame of a refresh)
  against the rate at which frames arrive.
- `encoder.c` and `lcd_st7789.c` configure components and forward their
  callbacks; `ws2812.c` has no caller; of `display.c` the panel set-up and the
  flushing are device I/O.
- `format_line()` and all logging are wording. `can_mon_push_separator()` has no
  caller. `s_frame` is read by nothing but `can_latest_get()`, which has no
  caller either. `on_error()` and its task only log.
- The zero-length packet that follows a transfer of a multiple of `s_mps` (64 or
  512): no frame has such a length (3 to 11 bytes, 5 or 229).
- The bytes of a programming frame, USB descriptors, and the order
  `encoder_init()` before `display_init()` in `main.c`, which matters only to
  LVGL's own state.

## Plan

1. Proofs: the safety part of `CommitIsAnswered` (which answers a repeated
   COMMIT can meet) and of `PoolRecovers` (a pool that looks full and has no
   stranded slot is in use), as invariants.
2. `CanLatestTasks` with frames lost on the bus, as in `CanLatest`.
3. The bits of `videomtx_ic.c`'s frame against a reference definition.
4. `s_route_mutex` in the lock order with `display_lock` and `s_mutex`.
