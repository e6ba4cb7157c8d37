---------------------------- MODULE CanLatestTasks ----------------------------
(****************************************************************************)
(* can_latest.c as it runs: the handlers that CanLatest takes for atomic    *)
(* are taken apart into the steps at which the tasks that run them can meet *)
(* on s_cols, s_route, LedBuff and tx, none of which a lock guards.         *)
(*                                                                          *)
(* CanLatest says which column a press belongs to and which lamps tell a    *)
(* selection.  Here a press is for any column, and of LedBuff, of tx and of *)
(* what a panel shows it is only kept which columns' present selections     *)
(* they tell.  can_service_send() may refuse a frame, and a frame it takes  *)
(* reaches its panel.  The slots of one column are rebuilt in one step, and *)
(* a frame's address and layer are stored in one.                           *)
(****************************************************************************)
EXTENDS Columns, Sequences

CONSTANTS Images,      \* the images an upload may commit: column |-> image
          UiInputs,    \* the inputs chosen in the matrix screen
          Buttons,     \* the buttons pressed, counted from a column's first
          MaxBurst,    \* handlers that start before all have returned
          Can, Lvgl, Usb    \* can_task, the LVGL task, usb_to_can_task

Task == {Can, Lvgl, Usb}

ASSUME ImagesAssumption ==
    /\ Images \subseteq [Column -> ColumnImage] /\ Images # {}
    /\ UiInputs \subseteq Row /\ Buttons \subseteq Slot

ASSUME TaskAssumption == Cardinality(Task) = 3

VARIABLES conf, ptr, sel,    \* s_cols
          route,             \* s_route
          led,               \* LedBuff: the columns it tells
          tx,                \* the device and layer, and the columns told
          panel,             \* <<device, layer>> |-> the columns it tells
          pc,                \* where each task is
          at, arg,           \* its column; the button, input or state
          nextPtr,           \* the cursor can_task is about to store
          plan,              \* the columns it sends, None: clears LedBuff
          todo,              \* the frames left of the first of them
          image,             \* what usb_to_can_task configures
          burst,             \* handlers started since all were idle
          met, crossed,      \* see SelectionIsRouted
          mixed, spoiled     \* see PanelsTellSelection

columns == <<conf, ptr, sel, route>>
frames  == <<led, tx, panel, todo, spoiled>>
history == <<met, crossed, mixed>>
vars    == <<columns, frames, pc, at, arg, nextPtr, plan, image, burst,
             history>>

(* The layout of image m; slots beyond the last state keep what they held.  *)
Rebuilt(m, old) ==
    LET k == LayoutOf(m)
    IN  [k EXCEPT !.rows = [i \in Slot |-> IF i < k.len THEN k.rows[i]
                                           ELSE old.rows[i]]]

Configure(img) == [c \in Column |-> Rebuilt(img[c], Blank)]
Panels == UNION {Targets(LayoutOf(img[c])) : img \in Images, c \in Column}
NoFrame == [to |-> <<None, None>>, tells |-> {}]

(* app_main() has configured the columns and sent every panel its frame.    *)
Init ==
    /\ image \in Images
    /\ conf = Configure(image)
    /\ route \in [Column -> UiInputs]
    /\ sel = [c \in Column |-> LET s == StateForRow(conf[c], route[c])
                               IN  IF s = None THEN 0 ELSE s]
    /\ ptr = [c \in Column |-> IF conf[c].len = 0 THEN 0
                               ELSE CursorAfter(conf[c], sel[c], 0)]
    /\ led = {} /\ tx = NoFrame
    /\ panel = [t \in Panels |-> {c \in Column : t \in Targets(conf[c])}]
    /\ pc = [a \in Task |-> "idle"]
    /\ at = [a \in Task |-> 0] /\ arg = [a \in Task |-> 0] /\ nextPtr = 0
    /\ plan = [a \in Task |-> <<>>] /\ todo = [a \in Task |-> {}]
    /\ met = [a \in Task |-> FALSE] /\ crossed = {}
    /\ mixed = [a \in Task |-> FALSE] /\ spoiled = {} /\ burst = 0

Configured == {c \in Column : conf[c].len > 0}

Goto(a, to) == pc' = [pc EXCEPT ![a] = to]

(* A handler starts in task a, and returns, its locals gone.                *)
Start(a, to) ==
    /\ pc[a] = "idle" /\ burst < MaxBurst
    /\ Goto(a, to)
    /\ burst' = burst + 1

Return(a) ==
    /\ Goto(a, "idle")
    /\ burst' = IF \A b \in Task \ {a} : pc[b] = "idle" THEN 0 ELSE burst
    /\ at' = [at EXCEPT ![a] = 0] /\ arg' = [arg EXCEPT ![a] = 0]
    /\ mixed' = [mixed EXCEPT ![a] = FALSE]

(* Between what a handler reads of a column and the last it stores of it,   *)
(* and between memset(LedBuff) and can_service_send()'s copy of tx.         *)
Deciding(a) == pc[a] \in {"advance", "store", "set", "apply", "cursor"}
Sending(a)  == pc[a] \in {"lamps", "compose", "send"}

(* Task a has changed column c, or what frames are made of.                 *)
Touches(a, c) ==
    met' = [b \in Task |-> met[b] \/ (b # a /\ at[b] = c /\ Deciding(b))]

Stirs(a) == mixed' = [b \in Task |-> mixed[b] \/ (b # a /\ Sending(b))]

(* What told the selection of column c does not any more.                   *)
Outdate(c) ==
    /\ led' = led \ {c}
    /\ tx' = [tx EXCEPT !.tells = @ \ {c}]
    /\ panel' = [t \in Panels |-> panel[t] \ {c}]

------------------------------------------------------------------------------
(* can_task: can_latest_update()                                            *)

(* A press is resolved; the LED that shows it is lit for 10 ms.             *)
Press(c, which) ==
    /\ c \in Configured
    /\ Start(Can, "pulse")
    /\ at' = [at EXCEPT ![Can] = c] /\ arg' = [arg EXCEPT ![Can] = which]
    /\ UNCHANGED <<columns, frames, plan, nextPtr, image, history>>

(* The button is checked against the column...                              *)
Accept ==
    /\ pc[Can] = "pulse" /\ AcceptsButton(conf[at[Can]], arg[Can])
    /\ Goto(Can, "choose")
    /\ UNCHANGED <<columns, frames, at, arg, nextPtr, plan, image, burst,
                   history>>

Reject ==
    /\ pc[Can] = "pulse" /\ ~AcceptsButton(conf[at[Can]], arg[Can])
    /\ Return(Can)
    /\ UNCHANGED <<columns, frames, nextPtr, plan, image, met, crossed>>

(* The check still holds, and the cursor is one that a column with layout k *)
(* can have: no upload has replaced the column since.                       *)
Sound(k, which, p) == AcceptsButton(k, which) /\ (Radio(k) \/ p \in State(k))

(* ... a state is chosen, of what the column is by now...                   *)
Choose ==
    LET c == at[Can]
        k == conf[c]
        s == PressedState(k, arg[Can], ptr[c])
    IN  /\ pc[Can] = "choose"
        /\ arg' = [arg EXCEPT ![Can] = s]
        /\ met' = [met EXCEPT ![Can] = ~Sound(k, arg[Can], ptr[c])]
        /\ IF Radio(k) THEN Goto(Can, "store") /\ UNCHANGED nextPtr
           ELSE /\ nextPtr' = PressedCursor(k, arg[Can], s, ptr[c])
                /\ Goto(Can, "advance")
        /\ UNCHANGED <<columns, frames, at, plan, image, crossed, mixed, burst>>

(* ... the cursor moved on...                                               *)
Advance ==
    LET c == at[Can]
    IN  /\ pc[Can] = "advance"
        /\ ptr' = [ptr EXCEPT ![c] = nextPtr] /\ nextPtr' = 0
        /\ Touches(Can, c)
        /\ Goto(Can, "store")
        /\ UNCHANGED <<conf, sel, route, frames, at, arg, plan, image, crossed,
                       mixed, burst>>

(* ... the state stored...                                                  *)
Store ==
    LET c == at[Can]
    IN  /\ pc[Can] = "store"
        /\ sel' = [sel EXCEPT ![c] = arg[Can]]
        /\ Outdate(c) /\ Touches(Can, c) /\ Stirs(Can)
        /\ Goto(Can, "set")
        /\ UNCHANGED <<conf, ptr, route, todo, spoiled, at, arg, plan, nextPtr,
                       image, crossed, burst>>

(* The end of what a handler does to column c: met' is not its own any more.*)
Decided(a, c) ==
    /\ met' = [b \in Task |-> IF b = a THEN FALSE ELSE
                 met[b] \/ (at[b] = c /\ Deciding(b))]
    /\ crossed' = IF met[a] THEN crossed \cup {c} ELSE crossed \ {c}

(* ... and routed by videomtx_set().                                        *)
SetRoute ==
    LET c   == at[Can]
        row == conf[c].rows[arg[Can]]
    IN  /\ pc[Can] = "set"
        /\ route' = IF row \in Row THEN [route EXCEPT ![c] = row] ELSE route
        /\ Decided(Can, c)
        /\ plan' = [plan EXCEPT ![Can] = <<c>>]
        /\ Goto(Can, "fill")
        /\ UNCHANGED <<conf, ptr, sel, frames, at, arg, nextPtr, image, mixed,
                       burst>>

Everyone == [i \in 1..NumColumns+1 |-> IF i > NumColumns THEN None ELSE i - 1]

(* A request to refresh the panels: can_latest_broadcast().                 *)
RefreshRequest ==
    /\ plan' = [plan EXCEPT ![Can] = Everyone]
    /\ Start(Can, "fill")
    /\ UNCHANGED <<columns, frames, at, arg, nextPtr, image, history>>

------------------------------------------------------------------------------
(* The LVGL task, at the click that ends an edit, and usb_to_can_task after *)
(* a commit.                                                                *)

(* videomtx_set_silent()                                                    *)
Edit(c, row) ==
    /\ route' = [route EXCEPT ![c] = row]
    /\ at' = [at EXCEPT ![Lvgl] = c] /\ arg' = [arg EXCEPT ![Lvgl] = row]
    /\ Touches(Lvgl, c)
    /\ Start(Lvgl, "find")
    /\ UNCHANGED <<conf, ptr, sel, frames, plan, nextPtr, image, crossed,
                   mixed>>

(* Variant: the state is looked for by the input that was asked for.        *)
FindAsked ==
    LET c == at[Lvgl]
        s == StateForRow(conf[c], arg[Lvgl])
    IN  /\ pc[Lvgl] = "find"
        /\ IF s = None THEN Return(Lvgl)
           ELSE /\ arg' = [arg EXCEPT ![Lvgl] = s]
                /\ Goto(Lvgl, "apply")
                /\ UNCHANGED <<at, mixed, burst>>
        /\ UNCHANGED <<columns, frames, plan, nextPtr, image, met, crossed>>

(* can_latest_notify_route() reads back what is routed now.                 *)
Find ==
    LET c == at[Lvgl]
        s == StateForRow(conf[c], route[c])
    IN  /\ pc[Lvgl] = "find"
        /\ IF s = None THEN Return(Lvgl)
           ELSE /\ arg' = [arg EXCEPT ![Lvgl] = s]
                /\ Goto(Lvgl, "apply")
                /\ UNCHANGED <<at, mixed, burst>>
        /\ UNCHANGED <<columns, frames, plan, nextPtr, image, met, crossed>>

(* can_latest_configure() empties each column...                            *)
Reconfigure(img) ==
    /\ image' = img
    /\ at' = [at EXCEPT ![Usb] = 0]
    /\ Start(Usb, "clear")
    /\ UNCHANGED <<columns, frames, arg, nextPtr, plan, history>>

ClearColumn ==
    LET c == at[Usb]
    IN  /\ pc[Usb] = "clear"
        /\ conf' = [conf EXCEPT ![c] = [LayoutOf(image[c]) EXCEPT
                       !.len = 0, !.rows = conf[c].rows, !.led = conf[c].led]]
        /\ ptr' = [ptr EXCEPT ![c] = 0] /\ sel' = [sel EXCEPT ![c] = 0]
        /\ Outdate(c) /\ Touches(Usb, c) /\ Stirs(Usb)
        /\ Goto(Usb, "build")
        /\ UNCHANGED <<route, todo, spoiled, at, arg, plan, nextPtr, image,
                       crossed, burst>>

(* ... and fills it again...                                                *)
BuildColumn ==
    LET c == at[Usb]
    IN  /\ pc[Usb] = "build"
        /\ conf' = [conf EXCEPT ![c] = Rebuilt(image[c], conf[c])]
        /\ Outdate(c) /\ Touches(Usb, c) /\ Stirs(Usb)
        /\ at' = [at EXCEPT ![Usb] = (c + 1) % NumColumns]
        /\ Goto(Usb, IF c + 1 = NumColumns THEN "restore" ELSE "clear")
        /\ UNCHANGED <<ptr, sel, route, todo, spoiled, arg, plan, nextPtr,
                       image, crossed, burst>>

NextRestored(c) ==
    /\ at' = [at EXCEPT ![Usb] = (c + 1) % NumColumns]
    /\ Goto(Usb, IF c + 1 = NumColumns THEN "fill" ELSE "restore")
    /\ plan' = [plan EXCEPT ![Usb] = Everyone]

(* Variant: an input the column does not know is stored as it is found.     *)
RestoreAsFound ==
    LET c == at[Usb]
    IN  /\ pc[Usb] = "restore"
        /\ IF conf[c].len = 0
           THEN NextRestored(c) /\ UNCHANGED arg
           ELSE /\ arg' = [arg EXCEPT ![Usb] = StateForRow(conf[c], route[c])]
                /\ Goto(Usb, "apply")
                /\ UNCHANGED <<at, plan>>
        /\ UNCHANGED <<columns, frames, nextPtr, image, history, burst>>

(* ... and vmtx_to_cols() derives its state from what is routed.            *)
Restore ==
    LET c == at[Usb]
        s == StateForRow(conf[c], route[c])
    IN  /\ pc[Usb] = "restore"
        /\ IF conf[c].len = 0
           THEN NextRestored(c) /\ UNCHANGED arg
           ELSE /\ arg' = [arg EXCEPT ![Usb] = IF s = None THEN 0 ELSE s]
                /\ Goto(Usb, "apply")
                /\ UNCHANGED <<at, plan>>
        /\ UNCHANGED <<columns, frames, nextPtr, image, history, burst>>

(* apply_col_state() stores the state...                                    *)
Apply(a) ==
    LET c == at[a]
    IN  /\ pc[a] = "apply"
        /\ sel' = [sel EXCEPT ![c] = arg[a]]
        /\ Outdate(c) /\ Touches(a, c) /\ Stirs(a)
        /\ Goto(a, "cursor")
        /\ UNCHANGED <<conf, ptr, route, todo, spoiled, at, arg, plan, nextPtr,
                       image, crossed, burst>>

(* ... and then the cursor.                                                 *)
MoveCursor(a) ==
    LET c == at[a]
    IN  /\ pc[a] = "cursor"
        /\ ptr' = [ptr EXCEPT ![c] = CursorAfter(conf[c], arg[a], ptr[c])]
        /\ Decided(a, c)
        /\ IF a = Usb THEN NextRestored(c)
           ELSE /\ plan' = [plan EXCEPT ![a] = <<c>>]
                /\ Goto(a, "fill")
                /\ UNCHANGED at
        /\ UNCHANGED <<conf, sel, route, frames, arg, nextPtr, image, mixed,
                       burst>>

------------------------------------------------------------------------------
(* fill_ledbuff() and send_to_col_addrs(), of any task.                     *)

Lit(c) == sel[c] \in State(conf[c])

(* Variant: fill_ledbuff() does not merge the partner's lamps.              *)
ToldAlone(c) == IF Lit(c) THEN {c} ELSE {}

(* The columns whose selections a frame of column c tells: none, not even   *)
(* its partner's, if c is left without a state of its own.                  *)
Told(c) ==
    IF Lit(c) THEN {d \in {c, Partner(conf, c)} \cap Column : Lit(d)} ELSE {}

Finish(a) ==
    /\ pc[a] = "fill" /\ plan[a] = <<>>
    /\ Return(a)
    /\ UNCHANGED <<columns, frames, plan, nextPtr, image, met, crossed>>

(* A broadcast skips a column without states; LedBuff is cleared before a   *)
(* column's lamps are put in, and at the end of a broadcast.                *)
BeginFill(a) ==
    LET c    == Head(plan[a])
        skip == Len(plan[a]) > 1 /\ conf[c].len = 0
    IN  /\ pc[a] = "fill" /\ plan[a] # <<>>
        /\ IF c = None \/ skip
           THEN /\ plan' = [plan EXCEPT ![a] = Tail(@)]
                /\ UNCHANGED <<at, pc, todo>>
           ELSE /\ at' = [at EXCEPT ![a] = c]
                /\ todo' = [todo EXCEPT ![a] = Targets(conf[c])]
                /\ Goto(a, "lamps")
                /\ UNCHANGED plan
        /\ IF c # None /\ skip THEN UNCHANGED <<led, mixed>>
           ELSE /\ led' = {}
                /\ mixed' = [b \in Task |-> IF b = a
                              THEN \E d \in Task \ {a} : Sending(d)
                              ELSE mixed[b] \/ Sending(b)]
        /\ UNCHANGED <<columns, tx, panel, spoiled, arg, nextPtr, image, met,
                       crossed, burst>>

NextFrame(a) ==
    IF todo[a] # {} THEN Goto(a, "compose") /\ UNCHANGED plan
    ELSE Goto(a, "fill") /\ plan' = [plan EXCEPT ![a] = Tail(@)]

FillLamps(a) ==
    /\ pc[a] = "lamps"
    /\ led' = Told(at[a])
    /\ Stirs(a)
    /\ NextFrame(a)
    /\ UNCHANGED <<columns, tx, panel, todo, spoiled, at, arg, nextPtr, image,
                   met, crossed, burst>>

Compose(a) ==
    /\ pc[a] = "compose"
    /\ \E t \in todo[a] :
          /\ tx' = [to |-> t, tells |-> led]
          /\ todo' = [todo EXCEPT ![a] = @ \ {t}]
    /\ Stirs(a)
    /\ Goto(a, "send")
    /\ UNCHANGED <<columns, led, panel, spoiled, at, arg, plan, nextPtr, image,
                   met, crossed, burst>>

(* Where task a means its frame to go, and where it goes.                   *)
Receivers(a) == {tx.to} \cup (IF mixed[a] THEN Targets(conf[at[a]]) ELSE {})

(* can_service_send() copies tx...                                          *)
Send(a) ==
    /\ pc[a] = "send"
    /\ panel' = [t \in Panels |-> IF t = tx.to THEN tx.tells ELSE panel[t]]
    /\ spoiled' = IF mixed[a] \/ ~Lit(at[a]) THEN spoiled \cup Receivers(a)
                  ELSE spoiled \ {tx.to}
    /\ NextFrame(a)
    /\ UNCHANGED <<columns, led, tx, todo, at, arg, nextPtr, image, burst,
                   history>>

(* ... unless it has no slot for it: the frame is left out.                 *)
Refused(a) ==
    /\ pc[a] = "send"
    /\ spoiled' = spoiled \cup Receivers(a)
    /\ NextFrame(a)
    /\ UNCHANGED <<columns, led, tx, panel, todo, at, arg, nextPtr, image,
                   burst, history>>

------------------------------------------------------------------------------
Sends(a) ==
    \/ Finish(a) \/ BeginFill(a) \/ FillLamps(a)
    \/ Compose(a) \/ Send(a) \/ Refused(a)

Next ==
    \/ \E c \in Column, which \in Buttons : Press(c, which)
    \/ Accept \/ Reject \/ Choose \/ Advance \/ Store \/ SetRoute
    \/ RefreshRequest
    \/ \E c \in Column, row \in UiInputs : Edit(c, row)
    \/ Find
    \/ \E img \in Images : Reconfigure(img)
    \/ ClearColumn \/ BuildColumn \/ Restore
    \/ \E a \in {Lvgl, Usb} : Apply(a) \/ MoveCursor(a)
    \/ \E a \in Task : Sends(a)

Spec == Init /\ [][Next]_vars

------------------------------------------------------------------------------
(* Type invariant: however the handlers meet, with an upload too, no index  *)
(* leaves rows[] or led_order[] (the TODO at can_latest.c:479).             *)
TypeOK ==
    /\ conf \in [Column -> Layout]
    /\ ptr \in [Column -> Slot] /\ sel \in [Column -> Slot]
    /\ route \in [Column -> Row]
    /\ led \subseteq Column /\ tx.tells \subseteq Column
    /\ panel \in [Panels -> SUBSET Column]

(* No handler is between changing one and changing another of the column's *)
(* selection, cursor and route, and no column waits to be configured.      *)
Settled(c) ==
    /\ \A a \in Task : at[a] = c => ~Deciding(a) /\ pc[a] # "find"
    /\ pc[Usb] \notin {"clear", "build", "restore", "apply", "cursor"}

(* Selection, cursor and route of a column agree although three tasks       *)
(* change them without a lock, one in the order selection, route and one in *)
(* the order route, selection.  They part only in `crossed` columns: another*)
(* handler changed the column between what the last one read of it and the  *)
(* last it stored; the next handler that is not met repairs the column.     *)
(* A press that an upload overtakes, or that takes a cursor such a press    *)
(* has left, counts as met.  A click met by a whole press does not, because *)
(* can_latest_notify_route() reads the route back (can_latest.c:513-527).   *)
(* An unassigned six-step slot leaves the route as it was, and a radio      *)
(* column has no use for its cursor.                                        *)
SelectionIsRouted ==
    \A c \in Configured \ crossed : Settled(c) =>
        /\ sel[c] \in State(conf[c])
        /\ Radio(conf[c]) \/ ptr[c] = CursorAfter(conf[c], sel[c], 0)
        /\ FullyAssigned(conf[c]) =>
              \/ route[c] = conf[c].rows[sel[c]]
              \/ StateForRow(conf[c], route[c]) = None

(* Any other column with frames for t merges the lamps of c into them.      *)
OnlyPartnersShare(c, t) ==
    \A d \in Column \ {c} : t \in Targets(conf[d]) => Partner(conf, d) = c

(* Once the handlers are done, every panel tells the selection of the       *)
(* columns it serves.  Only a panel in `spoiled` may not, whose last frame  *)
(* another task disturbed by filling LedBuff, storing in tx or moving a     *)
(* column while it was made, or had no slot (can_latest.c:321), or was all  *)
(* dark since its column was left without a state of its own; one that      *)
(* columns share that do not merge their lamps; and such a column itself.   *)
PanelsTellSelection ==
    (\A a \in Task : pc[a] = "idle") =>
        \A c \in Configured : Lit(c) =>
            \A t \in (Targets(conf[c]) \cap Panels) \ spoiled :
                OnlyPartnersShare(c, t) => c \in panel[t]
==============================================================================
