--------------------------------- MODULE Ui ---------------------------------
(****************************************************************************)
(* main/services/ui.c: the matrix screen with its own copy of the routes,   *)
(* the screens behind it, the rotation accumulator and the brightness, from *)
(* the splash on, against can_task, which switches outputs meanwhile.       *)
(*                                                                          *)
(* LVGL runs each handler under its lock, so a handler is one action.       *)
(* can_task changes the table first and queues the update of the screen     *)
(* later; LVGL may run queued calls in any order (its timer list decides,   *)
(* not this code).  Encoder events come at any time, so they need no queue. *)
(* A cell shows an input and how it is marked.  Which menu entry has the    *)
(* focus is left to LVGL.  The CAN monitor and the CAN settings, whose       *)
(* content is left out, are one screen.  lv_async_call() fails when there   *)
(* is no memory for the call; neither of its callers here asks.             *)
(****************************************************************************)
EXTENDS Integers, SequencesExt

CONSTANTS Outs, Ins,            \* MTX_SIZE outputs and inputs
          MinPct, MaxPct, Step, \* brightness: 20..100 in steps of 5
          Nothing,              \* no saved brightness; no update in the making
          Hidden,               \* the overlay is not shown
          MaxCalls              \* bound: updates on the way to the screen

Output == 0..Outs-1
Input  == 0..Ins-1
Level  == MinPct..MaxPct

ASSUME UiAssumption ==
    /\ Outs \in Nat \ {0} /\ Ins \in Nat \ {0}
    /\ MinPct \in Nat \ {0} /\ MaxPct \in Nat /\ MinPct <= MaxPct
    /\ Step \in Nat \ {0} /\ MaxCalls \in Nat \ {0}
    /\ Nothing \notin Level \cup (Output \X Input)
    /\ Hidden \notin Input

VARIABLES
    route,    \* videomtx.c: s_route
    task,     \* can_task between its change of the table and the callback
    calls,    \* queued calls of mtx_async_apply()
    boot,     \* how far ui_init() is
    copy, sel, edit, saved,  \* s_mtx_route, _sel, _edit, _edit_saved
    cell,     \* the cells as last drawn
    overlay,  \* the input in the overlay, or Hidden
    screen, accum,           \* s_current_screen, s_enc_accum
    pct, savedPct,           \* s_brightness_pct, s_brightness_saved
    light, fadeTo,           \* the backlight; target of ui_init()'s last fade
    reapply,  \* brightness_init_cb() is "queued"; the call of it "failed"
    stored,   \* the brightness in flash
    crossed,  \* history: outputs of which a change crossed another or was
              \* lost, see ScreenTellsRoute
    updated,  \* history: the edited output was updated during this edit
    failed    \* history: the last save of the brightness failed

matrix == <<copy, sel, edit, saved, cell, overlay, updated>>
bright == <<pct, savedPct, light, fadeTo, reapply, stored, failed>>
vars   == <<route, task, calls, boot, screen, accum, crossed, matrix, bright>>

Mark == {"plain", "selected", "editing"}

(* mtx_cell_refresh(): what it draws, given the state it reads.             *)
Drawn(c, s, e, o) ==
    [input |-> c[o],
     mark  |-> IF o # s THEN "plain" ELSE IF e THEN "editing" ELSE "selected"]

(* Draw a set of cells after the new copy, selection and mode; any cell     *)
(* that is not the edited one hides the overlay.                            *)
Redraw(cells) ==
    /\ cell' = [o \in Output |-> IF o \in cells
                                 THEN Drawn(copy', sel', edit', o)
                                 ELSE cell[o]]
    /\ overlay' = IF cells = {sel'} /\ edit' THEN copy'[sel'] ELSE Hidden

(* A change of the output has not reached the screen yet.                   *)
OnTheWay(o) ==
    \/ task # Nothing /\ task[1] = o
    \/ \E n \in DOMAIN calls : calls[n][1] = o

Restored(v) == IF v \in Level THEN v ELSE MaxPct

Init ==
    /\ route \in [Output -> Input]
    /\ task = Nothing /\ calls = <<>>
    /\ boot = "build"
    /\ copy = [o \in Output |-> 0] /\ sel = 0 /\ edit = FALSE /\ saved = 0
    /\ cell = [o \in Output |-> Drawn(copy, sel, edit, o)]
    /\ overlay = Hidden
    /\ screen = "splash" /\ accum = 0
    /\ stored \in Level \cup {Nothing}
    /\ pct = Restored(stored) /\ savedPct = MaxPct
    /\ light = 0 /\ fadeTo = 0 /\ reapply = "none"
    /\ crossed = {} /\ updated = FALSE /\ failed = FALSE

------------------------------------------------------------------------------
(* can_task: videomtx_set() and the callback it ends with.                  *)

ExternalSet(o, i) ==
    /\ task = Nothing /\ Len(calls) < MaxCalls
    /\ route' = [route EXCEPT ![o] = i]
    /\ task'  = <<o, i>>
    /\ UNCHANGED <<calls, boot, screen, accum, crossed, matrix, bright>>

(* mtx_external_notify(), if it is registered.  Two queued updates of one   *)
(* output may be applied in either order.                                   *)
Notify ==
    /\ task # Nothing /\ boot = "ready"
    /\ calls' = Append(calls, task)
    /\ task'  = Nothing
    /\ crossed' = IF \E n \in DOMAIN calls : calls[n][1] = task[1]
                  THEN crossed \cup {task[1]} ELSE crossed
    /\ UNCHANGED <<route, boot, screen, accum, matrix, bright>>

(* lv_async_call() fails, and nothing tells the screen of the change.       *)
NotifyFails ==
    /\ task # Nothing /\ boot = "ready"
    /\ task' = Nothing
    /\ crossed' = crossed \cup {task[1]}
    /\ UNCHANGED <<route, calls, boot, screen, accum, matrix, bright>>

(* No callback yet: a screen already built does not learn of the change.    *)
NotifyNobody ==
    /\ task # Nothing /\ boot # "ready"
    /\ task' = Nothing
    /\ crossed' = IF boot = "build" THEN crossed ELSE crossed \cup {task[1]}
    /\ UNCHANGED <<route, calls, boot, screen, accum, matrix, bright>>

------------------------------------------------------------------------------
(* mtx_async_apply() for the n-th queued update.                            *)

Settled(o, n) ==
    LET rest == RemoveAt(calls, n)
    IN /\ task = Nothing \/ task[1] # o
       /\ \A k \in DOMAIN rest : rest[k][1] # o
       /\ route[o] = calls[n][2]

Dequeue(n) ==
    /\ n \in DOMAIN calls
    /\ calls' = RemoveAt(calls, n)
    /\ crossed' = IF Settled(calls[n][1], n)
                  THEN crossed \ {calls[n][1]} ELSE crossed
    /\ UNCHANGED <<route, task, boot, screen, accum, bright>>

(* Variant: the cell is not drawn while any output is being edited.         *)
ApplyDrawsIdleOnly(n) ==
    LET o == calls[n][1] IN
    /\ Dequeue(n)
    /\ copy' = [copy EXCEPT ![o] = calls[n][2]]
    /\ updated' = (updated \/ (edit /\ o = sel))
    /\ UNCHANGED <<sel, edit, saved>>
    /\ IF edit \/ copy' = copy THEN UNCHANGED <<cell, overlay>> ELSE Redraw({o})

Apply(n) ==
    LET o == calls[n][1] IN
    /\ Dequeue(n)
    /\ copy' = [copy EXCEPT ![o] = calls[n][2]]
    /\ updated' = (updated \/ (edit /\ o = sel))
    /\ UNCHANGED <<sel, edit, saved>>
    /\ IF copy' = copy \/ (edit /\ sel = o)
       THEN UNCHANGED <<cell, overlay>>
       ELSE Redraw({o})

------------------------------------------------------------------------------
(* ui_encoder_event() on the matrix screen.                                 *)

OnMain == screen = "main" /\ UNCHANGED <<task, calls, boot, bright>>

(* A detent of accum_step(): the second raw event in one direction.         *)
Detent(d) == accum + d \in {-2, 2}
Turned(d) == IF Detent(d) THEN 0 ELSE accum + d

(* Variant: the selection does not wrap.                                    *)
MoveSelectionUnwrapped(d) ==
    /\ OnMain /\ Detent(d) /\ ~edit
    /\ accum' = 0
    /\ sel' = sel + d
    /\ UNCHANGED <<copy, edit, saved, updated, route, screen, crossed>>
    /\ Redraw({sel, sel'})

MoveSelection(d) ==
    /\ OnMain /\ Detent(d) /\ ~edit
    /\ accum' = 0
    /\ sel' = (sel + d + Outs) % Outs
    /\ UNCHANGED <<copy, edit, saved, updated, route, screen, crossed>>
    /\ Redraw({sel, sel'})

ChooseInput(d) ==
    /\ OnMain /\ Detent(d) /\ edit
    /\ accum' = 0
    /\ copy' = [copy EXCEPT ![sel] = (copy[sel] + d + Ins) % Ins]
    /\ UNCHANGED <<sel, edit, saved, updated, route, screen, crossed>>
    /\ Redraw({sel})

BeginEdit ==
    /\ OnMain /\ ~edit
    /\ saved' = copy[sel] /\ edit' = TRUE
    /\ UNCHANGED <<copy, sel, updated, route, screen, accum, crossed>>
    /\ Redraw({sel})

(* A click routes the chosen input (can_latest_notify_route() then brings   *)
(* the panels along: CanLatest!UiRoute); an update still on the way will    *)
(* show what it says nevertheless.                                          *)
Commit ==
    /\ OnMain /\ edit
    /\ edit' = FALSE
    /\ route' = [route EXCEPT ![sel] = copy[sel]]
    /\ crossed' = IF OnTheWay(sel) THEN crossed \cup {sel} ELSE crossed \ {sel}
    /\ updated' = FALSE
    /\ UNCHANGED <<copy, sel, saved, screen, accum>>
    /\ Redraw({sel})

(* Variant: the chosen input stays on the screen.                           *)
CancelKeepsChoice ==
    /\ OnMain /\ edit
    /\ edit' = FALSE
    /\ crossed' = IF updated THEN crossed \cup {sel} ELSE crossed
    /\ updated' = FALSE
    /\ UNCHANGED <<copy, sel, saved, route, screen, accum>>
    /\ Redraw({sel})

(* A long press brings back the input shown when the edit began, whatever   *)
(* came in between.                                                         *)
Cancel ==
    /\ OnMain /\ edit
    /\ copy' = [copy EXCEPT ![sel] = saved] /\ edit' = FALSE
    /\ crossed' = IF updated THEN crossed \cup {sel} ELSE crossed
    /\ updated' = FALSE
    /\ UNCHANGED <<sel, saved, route, screen, accum>>
    /\ Redraw({sel})

------------------------------------------------------------------------------
(* The other screens.                                                       *)

(* A transition, which resets the accumulator.                              *)
Load(s) ==
    /\ screen' = s /\ accum' = 0
    /\ UNCHANGED <<route, task, calls, boot, crossed>>

(* ui_open_menu() from the matrix, ui_show_menu() from a CAN screen.        *)
OpenMenu ==
    /\ screen = "can" \/ (screen = "main" /\ ~edit)
    /\ Load("menu")
    /\ UNCHANGED <<matrix, bright>>

OpenCanScreen ==
    /\ screen = "menu" /\ Load("can")
    /\ UNCHANGED <<matrix, bright>>

(* ui_show_main(), on the menu's Exit: no cell is drawn again.              *)
ShowMain ==
    /\ screen = "menu" /\ Load("main")
    /\ edit' = FALSE
    /\ UNCHANGED <<copy, sel, saved, cell, overlay, updated, bright>>

ShowBrightness ==
    /\ screen = "menu" /\ Load("brightness")
    /\ savedPct' = pct /\ light' = pct
    /\ UNCHANGED <<pct, fadeTo, reapply, stored, failed, matrix>>

BrightnessStep(d) ==
    /\ screen = "brightness" /\ Detent(d)
    /\ accum' = 0
    /\ pct' = LET p == pct + d * Step
              IN IF p < MinPct THEN MinPct ELSE IF p > MaxPct THEN MaxPct ELSE p
    /\ light' = pct'
    /\ UNCHANGED <<route, task, calls, boot, screen, crossed, matrix,
                   savedPct, fadeTo, reapply, stored, failed>>

(* A click: settings_save(), whose failure nobody sees, and the menu.       *)
SaveBrightness ==
    /\ screen = "brightness" /\ Load("menu")
    /\ \/ stored' = pct /\ failed' = FALSE
       \/ stored' = stored /\ failed' = TRUE
    /\ UNCHANGED <<matrix, pct, savedPct, light, fadeTo, reapply>>

(* Variant: only the backlight goes back.                                   *)
UndimOnly ==
    /\ screen = "brightness" /\ Load("menu")
    /\ light' = savedPct
    /\ UNCHANGED <<matrix, pct, savedPct, fadeTo, reapply, stored, failed>>

(* A long press.                                                            *)
CancelBrightness ==
    /\ screen = "brightness" /\ Load("menu")
    /\ pct' = savedPct /\ light' = savedPct
    /\ UNCHANGED <<matrix, savedPct, fadeTo, reapply, stored, failed>>

(* Events that only turn the accumulator: half a detent anywhere, or a whole*)
(* one where it moves nothing modelled here.                                *)
Turn(d) ==
    /\ ~Detent(d) \/ screen \notin {"main", "brightness"}
    /\ accum' = Turned(d)
    /\ UNCHANGED <<route, task, calls, boot, screen, crossed, matrix, bright>>

------------------------------------------------------------------------------
(* ui_init(), from which the lock is released while it fades and waits.     *)

Build ==
    /\ boot = "build" /\ boot' = "splash"
    /\ screen' = "splash"
    /\ copy' = route
    /\ UNCHANGED <<route, task, calls, accum, crossed, sel, edit, saved,
                   updated, bright>>
    /\ Redraw(Output)

(* The matrix screen is loaded after the splash went dark.                  *)
EndSplash ==
    /\ boot = "splash" /\ boot' = "shown"
    /\ screen' = "main"
    /\ UNCHANGED <<route, task, calls, accum, crossed, matrix, bright>>

BeginFade ==
    /\ boot = "shown" /\ boot' = "fading"
    /\ fadeTo' = pct
    /\ UNCHANGED <<route, task, calls, screen, accum, crossed, matrix,
                   pct, savedPct, light, reapply, stored, failed>>

EndFade ==
    /\ boot = "fading" /\ boot' = "faded"
    /\ light' = fadeTo /\ fadeTo' = 0
    /\ UNCHANGED <<route, task, calls, screen, accum, crossed, matrix,
                   pct, savedPct, reapply, stored, failed>>

(* Variant: the fade is trusted to have set the brightness.                 *)
RegisterOnly ==
    /\ boot = "faded" /\ boot' = "ready"
    /\ UNCHANGED <<route, task, calls, screen, accum, crossed, matrix, bright>>

(* brightness_init_cb() is queued, if the call of it does not fail, and     *)
(* mtx_external_notify() registered.                                        *)
Register ==
    /\ boot = "faded" /\ boot' = "ready"
    /\ reapply' \in {"queued", "failed"}
    /\ UNCHANGED <<route, task, calls, screen, accum, crossed, matrix,
                   pct, savedPct, light, fadeTo, stored, failed>>

Reapply ==
    /\ reapply = "queued"
    /\ reapply' = "none"
    /\ light' = pct
    /\ UNCHANGED <<route, task, calls, boot, screen, accum, crossed, matrix,
                   pct, savedPct, fadeTo, stored, failed>>

Next ==
    \/ \E o \in Output, i \in Input : ExternalSet(o, i)
    \/ Notify \/ NotifyFails \/ NotifyNobody
    \/ \E n \in 1..MaxCalls : Apply(n)
    \/ \E d \in {-1, 1} : \/ MoveSelection(d) \/ ChooseInput(d)
                          \/ BrightnessStep(d) \/ Turn(d)
    \/ BeginEdit \/ Commit \/ Cancel
    \/ OpenMenu \/ OpenCanScreen \/ ShowMain
    \/ ShowBrightness \/ SaveBrightness \/ CancelBrightness
    \/ Build \/ EndSplash \/ BeginFade \/ EndFade \/ Register \/ Reapply

Spec == Init /\ [][Next]_vars

------------------------------------------------------------------------------
(* Type invariant of the screens, the copy of the routes and the settings.  *)
TypeOK ==
    /\ route \in [Output -> Input] /\ copy \in [Output -> Input]
    /\ task \in (Output \X Input) \cup {Nothing}
    /\ calls \in Seq(Output \X Input)
    /\ Len(calls) <= IF task = Nothing THEN MaxCalls ELSE MaxCalls - 1
    /\ boot \in {"build", "splash", "shown", "fading", "faded", "ready"}
    /\ sel \in Output /\ edit \in BOOLEAN /\ saved \in Input
    /\ cell \in [Output -> [input : Input, mark : Mark]]
    /\ overlay \in Input \cup {Hidden}
    /\ screen \in {"splash", "main", "menu", "brightness", "can"}
    /\ accum \in -1..1
    /\ pct \in Level /\ savedPct \in Level
    /\ light \in Level \cup {0} /\ fadeTo \in Level \cup {0}
    /\ reapply \in {"none", "queued", "failed"} /\ stored \in Level \cup {Nothing}
    /\ crossed \subseteq Output /\ updated \in BOOLEAN /\ failed \in BOOLEAN

(* Once no change of an output is on the way to the screen, the output's    *)
(* cell shows the input that is routed, unless the output is being edited.  *)
(* The exceptions are exactly those collected in crossed (ui.c:603-623):    *)
(* a change before the callback is registered, one whose lv_async_call()    *)
(* failed (ui.c:621), two updates queued at once, a click while an update is*)
(* on the way, and an edit cancelled after an update.  The next change that *)
(* arrives and crosses nothing puts the cell right.                         *)
ScreenTellsRoute ==
    \A o \in Output :
        boot # "build" /\ ~OnTheWay(o) /\ o \notin crossed /\ ~(edit /\ sel = o)
            => cell[o].input = route[o]

(* What is drawn is the state the next event acts on: the selected cell and *)
(* no other is marked, each cell shows the copy, and the overlay is visible *)
(* "only while editing" (ui.c:200) and shows the input last chosen; only    *)
(* the edited cell may lag, behind an update that came during the edit.     *)
ScreenDrawsState ==
    boot # "build" =>
        /\ \A o \in Output :
              \/ cell[o] = Drawn(copy, sel, edit, o)
              \/ /\ edit /\ updated /\ o = sel
                 /\ cell[o].mark = "editing"
        /\ overlay # Hidden => edit /\ overlay = cell[sel].input

(* A transition leaves no half turn behind ("reset on every screen          *)
(* transition", ui.c:79), except the one from the splash.                   *)
NoTurnLeftOver ==
    [][screen' # screen /\ screen # "splash" => accum' = 0]_vars

(* Once ui_init() is through and brightness_init_cb() has run, the          *)
(* backlight has the brightness set, even if it was changed while the last  *)
(* fade was under way (ui.c:684-687); not so if the call of it failed.      *)
LightIsSetting == boot = "ready" /\ reapply = "none" => light = pct

(* Outside its screen the brightness is the one the next boot restores: a   *)
(* click saves it and a long press takes it back (ui.c:569-579), unless the *)
(* save failed.                                                             *)
SettingIsSaved ==
    screen # "brightness" => Restored(stored) = pct \/ failed

==============================================================================
