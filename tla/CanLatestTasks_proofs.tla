------------------------- MODULE CanLatestTasks_proofs -------------------------
(****************************************************************************)
(* Theorems about CanLatestTasks, for any matrix up to 16 by 16, any images *)
(* and any number of overlapping handlers.                                  *)
(*                                                                          *)
(* The three invariants speak of columns and panels that nobody works on.   *)
(* To be inductive, they must say what every handler on its way has in hand:*)
(* that its arguments are in range whatever an upload has done to the       *)
(* column since (Types), that what it decided fits what it has stored so    *)
(* far unless another has touched the column (Decision, Tracked), and which *)
(* panels it is still going to send a frame to (Frames, Covered).           *)
(****************************************************************************)
EXTENDS CanLatestTasks, Columns_proofs

------------------------------------------------------------------------------
(* The inductive invariant.                                                 *)

(* Where each task can be.                                                  *)
Places(a) ==
    {"idle", "fill", "lamps", "compose", "send"} \cup
    (IF a = Can THEN {"pulse", "choose", "advance", "store", "set"}
     ELSE IF a = Lvgl THEN {"find", "apply", "cursor"}
     ELSE {"clear", "build", "restore", "apply", "cursor"})

Place == UNION {Places(a) : a \in Task}

Reconfiguring == pc[Usb] \in {"clear", "build", "restore", "apply", "cursor"}

(* Every index a handler carries with it is one of the arrays it is for.    *)
ColumnTypes ==
    /\ conf \in [Column -> Layout]
    /\ \A c \in Column : WellFormed(conf[c]) /\ Targets(conf[c]) \subseteq Panels
    /\ ptr \in [Column -> Slot] /\ sel \in [Column -> Slot]
    /\ route \in [Column -> Row]

FrameTypes ==
    /\ led \subseteq Column
    /\ tx \in [to : Panels \cup {<<None, None>>}, tells : SUBSET Column]
    /\ panel \in [Panels -> SUBSET Column]

PlaceTypes ==
    /\ pc \in [Task -> Place] /\ \A a \in Task : pc[a] \in Places(a)
    /\ \A a \in Task : Sending(a) => plan[a] # <<>>

LocalTypes ==
    /\ at \in [Task -> Column] /\ arg \in [Task -> Slot] /\ nextPtr \in Slot
    /\ plan \in [Task -> Seq(Column \cup {None})]
    /\ todo \in [Task -> SUBSET Panels]
    /\ image \in Images
    /\ met \in [Task -> BOOLEAN] /\ mixed \in [Task -> BOOLEAN]

Types == ColumnTypes /\ FrameTypes /\ PlaceTypes /\ LocalTypes

(* Column c stands in state s as far as cursor, or route, can tell.         *)
CursorAt(c, s) ==
    /\ s \in State(conf[c])
    /\ Radio(conf[c]) \/ ptr[c] = CursorAfter(conf[c], s, 0)

RouteOf(c, s) ==
    \/ route[c] = conf[c].rows[s]
    \/ StateForRow(conf[c], route[c]) = None

(* What a handler that nobody met has decided, and stored up to now.        *)
DecisionOf(a) ==
    LET c == at[a]
    IN  /\ met[a] => Deciding(a)
        /\ ~met[a] /\ pc[a] = "advance" =>
              /\ arg[a] \in State(conf[c])
              /\ nextPtr = CursorAfter(conf[c], arg[a], 0)
        /\ ~met[a] /\ pc[a] \in {"store", "set"} => CursorAt(c, arg[a])
        /\ ~met[a] /\ pc[a] \in {"apply", "cursor"} =>
              arg[a] \in State(conf[c]) /\ RouteOf(c, arg[a])
        /\ ~met[a] /\ pc[a] \in {"set", "cursor"} => sel[c] = arg[a]

Decision == \A a \in Task : DecisionOf(a)

(* can_latest_reconfigure() is done with column c.                          *)
Restored(c) ==
    /\ pc[Usb] \notin {"clear", "build"}
    /\ pc[Usb] \in {"restore", "apply", "cursor"} => c < at[Usb]

Undecided(c) == \A a \in Task : at[a] = c => ~Deciding(a)
Unedited(c)  == \A a \in Task : at[a] = c => pc[a] # "find"

TrackedAt(c) ==
    c \in Configured \ crossed /\ Restored(c) /\ Undecided(c) =>
        /\ CursorAt(c, sel[c])
        /\ Unedited(c) /\ FullyAssigned(conf[c]) => RouteOf(c, sel[c])

Tracked == \A c \in Column : TrackedAt(c)

(* The frames of a task that nobody disturbed are for the column it is at,  *)
(* and tell the selections there are.                                       *)
FramesOf(a) ==
    Sending(a) =>
        /\ pc[a] = "compose" => todo[a] # {}
        /\ ~mixed[a] =>
              /\ todo[a] \subseteq Targets(conf[at[a]])
              /\ pc[a] \in {"compose", "send"} => led = Told(at[a])
              /\ pc[a] = "send" => /\ tx.tells = Told(at[a])
                                   /\ tx.to \in Targets(conf[at[a]])

Frames == \A a \in Task : FramesOf(a)

(* Task a is going to send column c's frames, or has its frame for panel t  *)
(* yet to send, or yet to spoil.                                            *)
Lists(s, from, c) == \E i \in from..Len(s) : s[i] = c

WillSend(a, c) ==
    \/ pc[a] \in {"set", "cursor"} /\ at[a] = c
    \/ pc[a] = "fill" /\ Lists(plan[a], 1, c)
    \/ Sending(a) /\ Lists(plan[a], 2, c)

IsSending(a, c, t) ==
    /\ Sending(a) /\ at[a] = c
    /\ \/ t \in todo[a]
       \/ pc[a] = "send" /\ t = tx.to
       \/ mixed[a] /\ (pc[a] = "send" \/ todo[a] # {})

Serves(a, c, t) == WillSend(a, c) \/ IsSending(a, c, t)

CoveredAt(c, t) ==
    sel[c] \in State(conf[c]) /\ OnlyPartnersShare(c, t) =>
        \/ c \in panel[t]
        \/ \E a \in Task : Serves(a, c, t)

Covered ==
    Reconfiguring \/
    \A c \in Configured : \A t \in Targets(conf[c]) \ spoiled : CoveredAt(c, t)

IInv == Types /\ Decision /\ Tracked /\ Frames /\ Covered

------------------------------------------------------------------------------
(* Facts about the operators.                                               *)

(* The three tasks are three.                                               *)
LEMMA TasksDiffer == Can # Lvgl /\ Can # Usb /\ Lvgl # Usb
<1>1. \A x, y : Cardinality({x, y}) <= 2
  <2> TAKE x, y
  <2>1. IsFiniteSet({x}) /\ Cardinality({x}) = 1
    BY FS_Singleton
  <2>2. Cardinality({x} \cup {y}) \in {1, 2}
    BY <2>1, FS_AddElement
  <2>3. {x, y} = {x} \cup {y}
    OBVIOUS
  <2> QED BY <2>2, <2>3
<1>2. ~(Cardinality(Task) <= 2)
  BY TaskAssumption
<1>3. Can = Lvgl => Task = {Can, Usb}
  BY DEF Task
<1>4. Can = Usb => Task = {Can, Lvgl}
  BY DEF Task
<1>5. Lvgl = Usb => Task = {Can, Usb}
  BY DEF Task
<1> QED BY <1>1, <1>2, <1>3, <1>4, <1>5

(* The states of a column are among its slots.                              *)
LEMMA StatesAreSlots ==
  ASSUME NEW k, WellFormed(k)
  PROVE  /\ State(k) \subseteq Slot /\ None \notin State(k)
         /\ k.len \in 0..16 /\ (k.len > 0 => 0 \in State(k))
BY DEF WellFormed, Layout, State, Slot, None

(* Whatever an upload has made of the column since, the cursor and the state*)
(* that a handler goes on to store are indices of rows[].                   *)
LEMMA CursorsAreSlots ==
  ASSUME NEW k, WellFormed(k), NEW i \in Slot, NEW p \in Slot
  PROVE  /\ CursorAfter(k, i, p) \in Slot /\ PressedState(k, i, p) \in Slot
         /\ \A s \in Slot : PressedCursor(k, i, s, p) \in Slot
<1>1. k.len \in 0..16 /\ Half(k) \in 0..8
  BY StatesAreSlots DEF Half
<1>2. CursorAfter(k, i, p) \in Slot
  BY <1>1 DEF CursorAfter, Slot
<1>3. PressedState(k, i, p) \in Slot
  BY <1>1 DEF PressedState, Slot
<1>4. ASSUME NEW s \in Slot
      PROVE  PressedCursor(k, i, s, p) \in Slot
  BY <1>1 DEF PressedCursor, Slot
<1> QED BY <1>2, <1>3, <1>4

(* A sound press chooses a state, and the cursor after it.                  *)
LEMMA PressChooses ==
  ASSUME NEW k, WellFormed(k), NEW p \in Slot, NEW which \in Slot,
         Sound(k, which, p)
  PROVE  LET s == PressedState(k, which, p) IN
         /\ s \in State(k)
         /\ ~Radio(k) => PressedCursor(k, which, s, p) = CursorAfter(k, s, 0)
<1>1. k.len \in 1..16 /\ which \in Int /\ AcceptsButton(k, which)
  BY StatesAreSlots DEF Sound, AcceptsButton, Slot
<1>2. CASE p \in State(k) /\ ~Radio(k)
  BY <1>1, <1>2, PressStaysOnTrack
<1>3. CASE Radio(k)
  BY <1>1, <1>3 DEF PressedState, AcceptsButton, State
<1> QED BY <1>2, <1>3 DEF Sound

(* A column that is filled, or emptied, from an image of an upload.         *)
LEMMA RebuiltFits ==
  ASSUME NEW img \in Images, NEW c \in Column, NEW old \in Layout
  PROVE  /\ WellFormed(Rebuilt(img[c], old))
         /\ Targets(Rebuilt(img[c], old)) \subseteq Panels
<1> DEFINE m == img[c]
           k == Rebuilt(m, old)
           rows == [i \in Slot |-> IF i < LayoutOf(m).len
                                   THEN LayoutOf(m).rows[i] ELSE old.rows[i]]
<1>1. m \in ColumnImage
  BY ImagesAssumption
<1>2. WellFormed(LayoutOf(m)) /\ LayoutOf(m) \in Layout
  BY <1>1, LayoutWellFormed DEF WellFormed
<1>3. rows \in [Slot -> Row \cup {None}]
  BY <1>2 DEF Layout
<1>4. k = [LayoutOf(m) EXCEPT !.rows = rows]
  BY DEF Rebuilt
<1> HIDE DEF k, rows, m
<1>5. /\ k \in Layout /\ k.len = LayoutOf(m).len /\ k.mode = LayoutOf(m).mode
      /\ k.base = LayoutOf(m).base /\ k.addrs = LayoutOf(m).addrs
  BY <1>2, <1>3, <1>4 DEF Layout
<1>6. WellFormed(k)
  BY <1>2, <1>5 DEF WellFormed, Cycles, SixSteps, Radio
<1>7. Targets(k) = Targets(LayoutOf(m))
  BY <1>5 DEF Targets, Addresses
<1>8. Targets(LayoutOf(m)) \subseteq Panels
  BY DEF Panels, m
<1> QED BY <1>6, <1>7, <1>8 DEF k, m

(* What ClearColumn leaves of a column.                                     *)
Cleared(m, old) ==
    [LayoutOf(m) EXCEPT !.len = 0, !.rows = old.rows, !.led = old.led]

(* A cleared column is a layout without states.                             *)
LEMMA ClearedFits ==
  ASSUME NEW img \in Images, NEW c \in Column, NEW old \in Layout
  PROVE  /\ WellFormed(Cleared(img[c], old)) /\ Cleared(img[c], old).len = 0
         /\ Targets(Cleared(img[c], old)) \subseteq Panels
<1> DEFINE m == LayoutOf(img[c])
           k == Cleared(img[c], old)
           rows == old.rows
           lamps == old.led
<1>1. m \in Layout
  BY ImagesAssumption, LayoutWellFormed DEF WellFormed
<1>2. rows \in [Slot -> Row \cup {None}] /\ lamps \in [Slot -> 0..3]
  BY DEF Layout
<1>3. k = [m EXCEPT !.len = 0, !.rows = rows, !.led = lamps]
  BY DEF Cleared
<1>4. Targets(m) \subseteq Panels
  BY DEF Panels
<1> HIDE DEF m, k, rows, lamps
<1>5. k = [mode |-> m.mode, base |-> m.base, addrs |-> m.addrs, len |-> 0,
           rows |-> rows, led |-> lamps]
  BY <1>1, <1>2, <1>3 DEF Layout
<1>6. k \in Layout /\ k.len = 0
  BY <1>1, <1>2, <1>5 DEF Layout
<1>7. WellFormed(k)
  BY <1>6 DEF WellFormed
<1>8. Targets(k) \subseteq Targets(m)
  BY <1>5 DEF Targets, Addresses
<1> QED BY <1>4, <1>6, <1>7, <1>8 DEF k

------------------------------------------------------------------------------
(* Types.                                                                   *)

(* The places of each task, one by one.                                     *)
LEMMA PlacesOfTasks ==
  /\ Can \in Task /\ Lvgl \in Task /\ Usb \in Task
  /\ \A a \in Task : /\ Places(a) \subseteq Place
                     /\ "idle" \in Places(a) /\ "fill" \in Places(a)
                     /\ "lamps" \in Places(a) /\ "compose" \in Places(a)
                     /\ "send" \in Places(a)
  /\ "pulse" \in Places(Can) /\ "choose" \in Places(Can)
  /\ "advance" \in Places(Can) /\ "store" \in Places(Can)
  /\ "set" \in Places(Can) /\ "find" \in Places(Lvgl)
  /\ \A a \in {Lvgl, Usb} : "apply" \in Places(a) /\ "cursor" \in Places(a)
  /\ "clear" \in Places(Usb) /\ "build" \in Places(Usb)
  /\ "restore" \in Places(Usb)
<1>1. Can \in Task /\ Lvgl \in Task /\ Usb \in Task
  BY DEF Task
<1>2. ASSUME NEW a \in Task
      PROVE  /\ Places(a) \subseteq Place
             /\ "idle" \in Places(a) /\ "fill" \in Places(a)
             /\ "lamps" \in Places(a) /\ "compose" \in Places(a)
             /\ "send" \in Places(a)
  <2>1. {"idle", "fill", "lamps", "compose", "send"} \subseteq Places(a)
    BY DEF Places
  <2>2. Places(a) \subseteq Place
    BY DEF Place
  <2> QED BY <2>1, <2>2
<1>3. {"pulse", "choose", "advance", "store", "set"} \subseteq Places(Can)
  BY DEF Places
<1>4. /\ {"find", "apply", "cursor"} \subseteq Places(Lvgl)
      /\ {"clear", "build", "restore", "apply", "cursor"} \subseteq Places(Usb)
  BY TasksDiffer DEF Places
<1> QED BY <1>1, <1>2, <1>3, <1>4

(* What a task's step to another place does to the places.                  *)
LEMMA GotoEffect ==
  ASSUME PlaceTypes, NEW a \in Task, NEW to \in Places(a), Goto(a, to)
  PROVE  /\ pc' \in [Task -> Place] /\ \A b \in Task : pc'[b] \in Places(b)
         /\ pc'[a] = to /\ \A b \in Task \ {a} : pc'[b] = pc[b]
BY PlacesOfTasks DEF PlaceTypes, Goto

(* Any step to a place where the task does not send.                        *)
LEMMA GotoElsewhere ==
  ASSUME PlaceTypes, NEW a \in Task, NEW to \in Places(a), Goto(a, to),
         to # "lamps", to # "compose", to # "send",
         \A b \in Task \ {a} : plan'[b] = plan[b]
  PROVE  PlaceTypes'
<1>1. /\ pc' \in [Task -> Place] /\ \A b \in Task : pc'[b] \in Places(b)
      /\ pc'[a] = to /\ \A b \in Task \ {a} : pc'[b] = pc[b]
  BY GotoEffect
<1>2. \A b \in Task : Sending(b)' => b # a /\ Sending(b)
  BY <1>1 DEF Sending
<1> QED BY <1>1, <1>2 DEF PlaceTypes

(* Any step of a task that has something planned.                           *)
LEMMA GotoSending ==
  ASSUME PlaceTypes, NEW a \in Task, NEW to \in Places(a), Goto(a, to),
         plan[a] # <<>>, UNCHANGED plan
  PROVE  PlaceTypes'
<1>1. /\ pc' \in [Task -> Place] /\ \A b \in Task : pc'[b] \in Places(b)
      /\ pc'[a] = to /\ \A b \in Task \ {a} : pc'[b] = pc[b]
  BY GotoEffect
<1>2. \A b \in Task : Sending(b)' => b = a \/ Sending(b)
  BY <1>1 DEF Sending
<1> QED BY <1>1, <1>2 DEF PlaceTypes

(* A handler that finds nothing to do returns.                              *)
LEMMA ReturnPlaces ==
  ASSUME PlaceTypes, NEW a \in Task, Return(a), UNCHANGED plan
  PROVE  PlaceTypes'
BY PlacesOfTasks, GotoElsewhere DEF Return

(* Every task stays within its handlers, and sends only what is planned.    *)
LEMMA PlacesStep ==
  ASSUME Types, [Next]_vars
  PROVE  PlaceTypes'
<1> USE PlacesOfTasks
<1>0. PlaceTypes
  BY DEF Types
<1>1. ASSUME NEW c \in Column, NEW which \in Buttons, Press(c, which)
      PROVE  PlaceTypes'
  BY <1>0, <1>1, GotoElsewhere DEF Press, Start
<1>2. CASE Accept \/ Choose \/ Advance
  BY <1>0, <1>2, GotoElsewhere DEF Accept, Choose, Advance
<1>3. CASE Reject
  BY <1>0, <1>3, ReturnPlaces DEF Reject
<1>4. CASE Store
  BY <1>0, <1>4, GotoElsewhere DEF Store
<1>5. CASE SetRoute
  BY <1>0, <1>5, GotoElsewhere DEF SetRoute, Types, LocalTypes
<1>6. CASE RefreshRequest
  BY <1>0, <1>6, GotoElsewhere DEF RefreshRequest, Start, Types, LocalTypes
<1>7. ASSUME NEW c \in Column, NEW row \in UiInputs, Edit(c, row)
      PROVE  PlaceTypes'
  BY <1>0, <1>7, GotoElsewhere DEF Edit, Start
<1>8. CASE Find
  <2>1. CASE Return(Lvgl)
    BY <1>0, <1>8, <2>1, ReturnPlaces DEF Find
  <2>2. CASE Goto(Lvgl, "apply")
    BY <1>0, <1>8, <2>2, GotoElsewhere DEF Find
  <2> QED BY <1>8, <2>1, <2>2 DEF Find
<1>9. ASSUME NEW img \in Images, Reconfigure(img)
      PROVE  PlaceTypes'
  BY <1>0, <1>9, GotoElsewhere DEF Reconfigure, Start
<1>10. CASE ClearColumn
  BY <1>0, <1>10, GotoElsewhere DEF ClearColumn
<1>11. CASE BuildColumn
  BY <1>0, <1>11, GotoElsewhere DEF BuildColumn
<1>12. ASSUME NEW c, NextRestored(c)
       PROVE  PlaceTypes'
  BY <1>0, <1>12, GotoElsewhere DEF NextRestored, Types, LocalTypes
<1>13. CASE Restore
  <2>1. CASE NextRestored(at[Usb])
    BY <2>1, <1>12
  <2>2. CASE Goto(Usb, "apply") /\ UNCHANGED plan
    BY <1>0, <1>13, <2>2, GotoElsewhere
  <2> QED BY <1>13, <2>1, <2>2 DEF Restore
<1>14. ASSUME NEW a \in {Lvgl, Usb}, Apply(a)
       PROVE  PlaceTypes'
  BY <1>0, <1>14, GotoElsewhere DEF Apply
<1>15. ASSUME NEW a \in {Lvgl, Usb}, MoveCursor(a)
       PROVE  PlaceTypes'
  <2>1. CASE a = Usb
    BY <1>12, <1>15, <2>1 DEF MoveCursor
  <2>2. CASE a # Usb
    BY <1>0, <1>15, <2>2, GotoElsewhere DEF MoveCursor, Types, LocalTypes
  <2> QED BY <2>1, <2>2
<1>16. ASSUME NEW a \in Task, Finish(a)
       PROVE  PlaceTypes'
  BY <1>0, <1>16, ReturnPlaces DEF Finish
<1>17. ASSUME NEW a \in Task, BeginFill(a)
       PROVE  PlaceTypes'
  <2>1. CASE UNCHANGED pc
    BY <1>0, <1>17, <2>1 DEF BeginFill, PlaceTypes, Types, LocalTypes, Sending
  <2>2. CASE Goto(a, "lamps") /\ UNCHANGED plan
    BY <1>0, <1>17, <2>2, GotoSending DEF BeginFill
  <2> QED BY <1>17, <2>1, <2>2 DEF BeginFill
<1>18. ASSUME NEW a \in Task, Sending(a), NextFrame(a)
       PROVE  PlaceTypes'
  <2>1. CASE Goto(a, "compose") /\ UNCHANGED plan
    BY <1>0, <1>18, <2>1, GotoSending DEF PlaceTypes
  <2>2. CASE Goto(a, "fill") /\ plan' = [plan EXCEPT ![a] = Tail(@)]
    BY <1>0, <1>18, <2>2, GotoElsewhere DEF Types, LocalTypes
  <2> QED BY <1>18, <2>1, <2>2 DEF NextFrame
<1>19. ASSUME NEW a \in Task, FillLamps(a) \/ Send(a) \/ Refused(a)
       PROVE  PlaceTypes'
  BY <1>18, <1>19 DEF FillLamps, Send, Refused, Sending
<1>20. ASSUME NEW a \in Task, Compose(a)
       PROVE  PlaceTypes'
  BY <1>0, <1>20, GotoSending DEF Compose, PlaceTypes, Sending
<1>21. CASE UNCHANGED vars
  BY <1>0, <1>21 DEF vars, PlaceTypes, Sending
<1> QED
  BY <1>1, <1>2, <1>3, <1>4, <1>5, <1>6, <1>7, <1>8, <1>9, <1>10, <1>11,
     <1>13, <1>14, <1>15, <1>16, <1>17, <1>19, <1>20, <1>21
     DEF Next, Sends

------------------------------------------------------------------------------
(* One task moves at a time.                                                *)

SameColumn(c) ==
    /\ conf'[c] = conf[c] /\ ptr'[c] = ptr[c]
    /\ sel'[c] = sel[c]   /\ route'[c] = route[c]

(* What a step of task a leaves the others: their locals, and unless it     *)
(* says so in met or mixed, the column they decide about and what their     *)
(* frames are made of.                                                      *)
Alone(a) ==
    \A b \in Task \ {a} :
        /\ pc'[b] = pc[b] /\ at'[b] = at[b] /\ arg'[b] = arg[b]
        /\ plan'[b] = plan[b] /\ todo'[b] = todo[b]
        /\ met'[b] => met[b] \/ Deciding(b)
        /\ ~met'[b] /\ Deciding(b) => ~met[b] /\ SameColumn(at[b])
        /\ mixed[b] => mixed'[b]
        /\ ~mixed'[b] /\ Sending(b) => UNCHANGED <<conf, sel, led, tx>>
        /\ b = Can => nextPtr' = nextPtr

(* The upload's first step on a column, with its record named.              *)
LEMMA ClearsColumn ==
  ASSUME ClearColumn
  PROVE  LET c == at[Usb] IN
         conf' = [conf EXCEPT ![c] = Cleared(image[c], conf[c])]
BY DEF ClearColumn, Cleared

(* A step of a task is a step of that task only.                            *)
LEMMA StepsAlone ==
  ASSUME Types, Next
  PROVE  /\ \A c \in Column, which \in Buttons : Press(c, which) => Alone(Can)
         /\ Accept \/ Reject \/ Choose \/ Advance => Alone(Can)
         /\ Store \/ SetRoute \/ RefreshRequest => Alone(Can)
         /\ \A c \in Column, row \in UiInputs : Edit(c, row) => Alone(Lvgl)
         /\ Find => Alone(Lvgl)
         /\ \A img \in Images : Reconfigure(img) => Alone(Usb)
         /\ ClearColumn \/ BuildColumn \/ Restore => Alone(Usb)
         /\ \A a \in Task : Apply(a) \/ MoveCursor(a) => Alone(a)
         /\ \A a \in Task : Sends(a) => Alone(a)
<1>0. /\ Can \in Task /\ Lvgl \in Task /\ Usb \in Task
      /\ conf \in [Column -> Layout]
      /\ ptr \in [Column -> Slot] /\ sel \in [Column -> Slot]
      /\ route \in [Column -> Row]
      /\ pc \in [Task -> Place]
      /\ at \in [Task -> Column] /\ arg \in [Task -> Slot]
      /\ plan \in [Task -> Seq(Column \cup {None})]
      /\ todo \in [Task -> SUBSET Panels]
      /\ met \in [Task -> BOOLEAN] /\ mixed \in [Task -> BOOLEAN]
  BY PlacesOfTasks DEF Types, ColumnTypes, PlaceTypes, LocalTypes
<1>1. ASSUME NEW c \in Column, NEW which \in Buttons, Press(c, which)
      PROVE  Alone(Can)
  BY <1>0, <1>1
     DEF Press, Start, Goto, Alone, SameColumn, columns, frames, history
<1>2. ASSUME Accept \/ Choose
      PROVE  Alone(Can)
  BY <1>0, <1>2
     DEF Accept, Choose, Goto, Alone, SameColumn, columns, frames, history
<1>2a. ASSUME Advance
       PROVE  Alone(Can)
  BY <1>0, <1>2a DEF Advance, Goto, Touches, Alone, SameColumn, frames
<1>3. ASSUME Reject
      PROVE  Alone(Can)
  BY <1>0, <1>3 DEF Reject, Return, Goto, Alone, SameColumn, columns, frames
<1>4. ASSUME Store
      PROVE  Alone(Can)
  BY <1>0, <1>4
     DEF Store, Goto, Outdate, Touches, Stirs, Alone, SameColumn
<1>5. ASSUME SetRoute
      PROVE  Alone(Can)
  BY <1>0, <1>5 DEF SetRoute, Decided, Goto, Alone, SameColumn, frames
<1>6. ASSUME RefreshRequest
      PROVE  Alone(Can)
  BY <1>0, <1>6
     DEF RefreshRequest, Start, Goto, Alone, SameColumn, columns, frames, history
<1>7. ASSUME NEW c \in Column, NEW row \in UiInputs, Edit(c, row)
      PROVE  Alone(Lvgl)
  BY <1>0, <1>7 DEF Edit, Start, Goto, Touches, Alone, SameColumn, frames
<1>8. ASSUME Find
      PROVE  Alone(Lvgl)
  BY <1>0, <1>8
     DEF Find, Return, Goto, Alone, SameColumn, columns, frames
<1>9. ASSUME NEW img \in Images, Reconfigure(img)
      PROVE  Alone(Usb)
  BY <1>0, <1>9
     DEF Reconfigure, Start, Goto, Alone, SameColumn, columns, frames, history
<1>10. ASSUME ClearColumn
       PROVE  Alone(Usb)
  BY <1>0, <1>10, ClearsColumn
     DEF ClearColumn, Goto, Outdate, Touches, Stirs, Alone, SameColumn
<1>11. ASSUME BuildColumn
       PROVE  Alone(Usb)
  BY <1>0, <1>11
     DEF BuildColumn, Goto, Outdate, Touches, Stirs, Alone, SameColumn
<1>12. ASSUME Restore
       PROVE  Alone(Usb)
  BY <1>0, <1>12
     DEF Restore, NextRestored, Goto, Alone, SameColumn, columns, frames, history
<1>13. ASSUME NEW a \in Task, Apply(a)
       PROVE  Alone(a)
  BY <1>0, <1>13
     DEF Apply, Goto, Outdate, Touches, Stirs, Alone, SameColumn
<1>14. ASSUME NEW a \in Task, MoveCursor(a)
       PROVE  Alone(a)
  <2>1. CASE a = Usb
    BY <1>0, <1>14, <2>1
       DEF MoveCursor, NextRestored, Decided, Goto, Alone, SameColumn, frames
  <2>2. CASE a # Usb
    BY <1>0, <1>14, <2>2
       DEF MoveCursor, Decided, Goto, Alone, SameColumn, frames
  <2> QED BY <2>1, <2>2
<1>15. ASSUME NEW a \in Task, Finish(a)
       PROVE  Alone(a)
  BY <1>0, <1>15 DEF Finish, Return, Goto, Alone, SameColumn, columns, frames
<1>16. ASSUME NEW a \in Task, BeginFill(a)
       PROVE  Alone(a)
  BY <1>0, <1>16 DEF BeginFill, Goto, Alone, SameColumn, columns
<1>17. ASSUME NEW a \in Task, FillLamps(a)
       PROVE  Alone(a)
  BY <1>0, <1>17
     DEF FillLamps, NextFrame, Stirs, Goto, Alone, SameColumn, columns
<1>18. ASSUME NEW a \in Task, Compose(a)
       PROVE  Alone(a)
  BY <1>0, <1>18 DEF Compose, Stirs, Goto, Alone, SameColumn, columns
<1>19. ASSUME NEW a \in Task, Send(a) \/ Refused(a)
       PROVE  Alone(a)
  BY <1>0, <1>19
     DEF Send, Refused, NextFrame, Goto, Alone, SameColumn, columns, history
<1> QED
  BY <1>1, <1>2, <1>2a, <1>3, <1>4, <1>5, <1>6, <1>7, <1>8, <1>9, <1>10,
     <1>11, <1>12, <1>13, <1>14, <1>15, <1>16, <1>17, <1>18, <1>19 DEF Sends

(* Every index of every handler stays one of the array it is for.           *)
LEMMA LocalsStep ==
  ASSUME Types, Next
  PROVE  /\ at' \in [Task -> Column] /\ arg' \in [Task -> Slot]
         /\ plan' \in [Task -> Seq(Column \cup {None})]
         /\ todo' \in [Task -> SUBSET Panels]
         /\ image' \in Images /\ nextPtr' \in Slot
<1> DEFINE Locals == /\ at' \in [Task -> Column] /\ arg' \in [Task -> Slot]
                     /\ plan' \in [Task -> Seq(Column \cup {None})]
                     /\ todo' \in [Task -> SUBSET Panels]
                     /\ image' \in Images /\ nextPtr' \in Slot
<1> HIDE DEF Locals
<1>0. /\ Can \in Task /\ Lvgl \in Task /\ Usb \in Task
      /\ at \in [Task -> Column] /\ arg \in [Task -> Slot]
      /\ plan \in [Task -> Seq(Column \cup {None})]
      /\ todo \in [Task -> SUBSET Panels] /\ image \in Images
      /\ nextPtr \in Slot /\ ptr \in [Column -> Slot]
      /\ \A c \in Column : WellFormed(conf[c]) /\ Targets(conf[c]) \subseteq Panels
  BY PlacesOfTasks DEF Types, ColumnTypes, LocalTypes
<1>a. /\ 0 \in Column /\ 0 \in Slot /\ Column \subseteq Int
      /\ Row \subseteq Slot /\ UiInputs \subseteq Slot /\ Buttons \subseteq Slot
      /\ \A c \in Column : (c + 1) % NumColumns \in Column
      /\ \A c \in Column : <<c>> \in Seq(Column \cup {None})
      /\ Everyone \in Seq(Column \cup {None})
  <2>1. Everyone \in [1..NumColumns+1 -> Column \cup {None}]
    BY SizeAssumption DEF Everyone, Column
  <2> QED
    BY <2>1, SizeAssumption, ImagesAssumption DEF Column, Row, Slot
<1>b. \A c \in Column : \A row :
         LET s == StateForRow(conf[c], row) IN s # None => s \in Slot
  BY <1>0, StateForRowFinds, StatesAreSlots
<1>1. ASSUME NEW a \in Task, Return(a), UNCHANGED <<plan, todo, image, nextPtr>>
      PROVE  Locals
  BY <1>0, <1>a, <1>1 DEF Return, Locals
<1>2. ASSUME NEW c \in Column, NextRestored(c), arg' \in [Task -> Slot],
             UNCHANGED <<todo, image, nextPtr>>
      PROVE  Locals
  BY <1>0, <1>a, <1>2 DEF NextRestored, Locals
<1>3. ASSUME NEW a \in Task, plan[a] # <<>>, NextFrame(a),
             todo' \in [Task -> SUBSET Panels], UNCHANGED <<at, arg, image, nextPtr>>
      PROVE  Locals
  <2>1. Tail(plan[a]) \in Seq(Column \cup {None})
    BY <1>0, <1>3
  <2> QED BY <1>0, <1>3, <2>1 DEF NextFrame, Locals
<1>4. ASSUME NEW c \in Column, NEW which \in Buttons, Press(c, which)
      PROVE  Locals
  BY <1>0, <1>a, <1>4 DEF Press, frames, Locals
<1>5. ASSUME Choose
      PROVE  Locals
  <2> DEFINE k == conf[at[Can]]
             s == PressedState(k, arg[Can], ptr[at[Can]])
             p == PressedCursor(k, arg[Can], s, ptr[at[Can]])
  <2>1. /\ at[Can] \in Column /\ arg[Can] \in Slot /\ ptr[at[Can]] \in Slot
        /\ WellFormed(k)
    BY <1>0
  <2>2. s \in Slot
    BY <2>1, CursorsAreSlots
  <2>3. p \in Slot
    <3> HIDE DEF k, s
    <3> QED BY <2>1, <2>2, CursorsAreSlots
  <2>4. /\ arg' = [arg EXCEPT ![Can] = s] /\ nextPtr' \in {p, nextPtr}
        /\ UNCHANGED <<at, plan, todo, image>>
    BY <1>5 DEF Choose, frames
  <2> HIDE DEF s, p
  <2> QED BY <1>0, <2>2, <2>3, <2>4 DEF Locals
<1>5a. ASSUME Accept \/ Advance
       PROVE  Locals
  BY <1>0, <1>a, <1>5a DEF Accept, Advance, frames, Locals
<1>6. ASSUME Reject
      PROVE  Locals
  BY <1>0, <1>1, <1>6 DEF Reject, frames
<1>7. ASSUME Store
      PROVE  Locals
  BY <1>0, <1>7 DEF Store, Locals
<1>8. ASSUME SetRoute
      PROVE  Locals
  BY <1>0, <1>a, <1>8 DEF SetRoute, frames, Locals
<1>9. ASSUME RefreshRequest
      PROVE  Locals
  BY <1>0, <1>a, <1>9 DEF RefreshRequest, frames, Locals
<1>10. ASSUME NEW c \in Column, NEW row \in UiInputs, Edit(c, row)
       PROVE  Locals
  BY <1>0, <1>a, <1>10 DEF Edit, frames, Locals
<1>11. ASSUME Find
       PROVE  Locals
  <2>1. CASE Return(Lvgl)
    BY <1>0, <1>1, <1>11, <2>1 DEF Find, frames
  <2>2. CASE ~Return(Lvgl)
    <3>1. LET s == StateForRow(conf[at[Lvgl]], route[at[Lvgl]])
          IN  /\ s # None /\ arg' = [arg EXCEPT ![Lvgl] = s]
              /\ UNCHANGED <<at, plan, todo, image, nextPtr>>
      BY <1>11, <2>2 DEF Find, frames
    <3> QED BY <3>1, <1>0, <1>b DEF Locals
  <2> QED BY <2>1, <2>2
<1>12. ASSUME NEW img \in Images, Reconfigure(img)
       PROVE  Locals
  BY <1>0, <1>a, <1>12 DEF Reconfigure, frames, Locals
<1>13. ASSUME ClearColumn
       PROVE  Locals
  BY <1>0, <1>13 DEF ClearColumn, Locals
<1>14. ASSUME BuildColumn
       PROVE  Locals
  BY <1>0, <1>a, <1>14 DEF BuildColumn, Locals
<1>15. ASSUME Restore
       PROVE  Locals
  <2>1. CASE NextRestored(at[Usb]) /\ UNCHANGED arg
    BY <1>0, <1>2, <1>15, <2>1 DEF Restore, frames
  <2>2. CASE ~(NextRestored(at[Usb]) /\ UNCHANGED arg)
    <3>1. LET s == StateForRow(conf[at[Usb]], route[at[Usb]])
          IN  /\ arg' = [arg EXCEPT ![Usb] = IF s = None THEN 0 ELSE s]
              /\ UNCHANGED <<at, plan, todo, image, nextPtr>>
      BY <1>15, <2>2 DEF Restore, frames
    <3> QED BY <3>1, <1>0, <1>a, <1>b DEF Locals
  <2> QED BY <2>1, <2>2
<1>16. ASSUME NEW a \in {Lvgl, Usb}, Apply(a)
       PROVE  Locals
  BY <1>0, <1>16 DEF Apply, Locals
<1>17. ASSUME NEW a \in {Lvgl, Usb}, MoveCursor(a)
       PROVE  Locals
  <2>1. CASE a = Usb
    BY <1>0, <1>2, <1>17, <2>1 DEF MoveCursor, frames
  <2>2. CASE a # Usb
    <3>1. /\ plan' = [plan EXCEPT ![a] = <<at[a]>>]
          /\ UNCHANGED <<at, arg, todo, image, nextPtr>>
      BY <1>17, <2>2 DEF MoveCursor, frames
    <3> QED BY <3>1, <1>0, <1>a DEF Locals
  <2> QED BY <2>1, <2>2
<1>18. ASSUME NEW a \in Task, Finish(a)
       PROVE  Locals
  BY <1>1, <1>18 DEF Finish, frames
<1>19. ASSUME NEW a \in Task, BeginFill(a)
       PROVE  Locals
  <2>1. CASE plan' = [plan EXCEPT ![a] = Tail(@)] /\ UNCHANGED <<at, todo>>
    BY <1>0, <1>19, <2>1 DEF BeginFill, Locals
  <2>2. CASE ~(plan' = [plan EXCEPT ![a] = Tail(@)] /\ UNCHANGED <<at, todo>>)
    <3>1. /\ Head(plan[a]) \in Column
          /\ at' = [at EXCEPT ![a] = Head(plan[a])]
          /\ todo' = [todo EXCEPT ![a] = Targets(conf[Head(plan[a])])]
          /\ UNCHANGED <<plan, arg, image, nextPtr>>
      BY <1>0, <1>19, <2>2 DEF BeginFill
    <3> QED BY <3>1, <1>0 DEF Locals
  <2> QED BY <2>1, <2>2
<1>20. ASSUME NEW a \in Task, FillLamps(a)
       PROVE  Locals
  BY <1>0, <1>3, <1>20 DEF FillLamps, Types, PlaceTypes, Sending
<1>21. ASSUME NEW a \in Task, Compose(a)
       PROVE  Locals
  BY <1>0, <1>21 DEF Compose, Locals
<1>22. ASSUME NEW a \in Task, Send(a) \/ Refused(a)
       PROVE  Locals
  BY <1>0, <1>3, <1>22 DEF Send, Refused, Types, PlaceTypes, Sending
<1> QED
  BY <1>4, <1>5, <1>5a, <1>6, <1>7, <1>8, <1>9, <1>10, <1>11, <1>12, <1>13,
     <1>14, <1>15, <1>16, <1>17, <1>18, <1>19, <1>20, <1>21, <1>22
     DEF Next, Sends, Locals

(* A cursor and a selection stay indices even when another handler has      *)
(* moved the column, or an upload has replaced it, between two steps.       *)
LEMMA ColumnsStep ==
  ASSUME Types, Next
  PROVE  ColumnTypes'
<1>0. /\ Can \in Task /\ Lvgl \in Task /\ Usb \in Task
      /\ conf \in [Column -> Layout]
      /\ \A c \in Column : WellFormed(conf[c]) /\ Targets(conf[c]) \subseteq Panels
      /\ ptr \in [Column -> Slot] /\ sel \in [Column -> Slot]
      /\ route \in [Column -> Row] /\ nextPtr \in Slot
      /\ at \in [Task -> Column] /\ arg \in [Task -> Slot] /\ image \in Images
  BY PlacesOfTasks DEF Types, ColumnTypes, LocalTypes, PlaceTypes
<1>b. 0 \in Slot /\ UiInputs \subseteq Row
  BY ImagesAssumption DEF Slot
<1>1. ASSUME UNCHANGED conf, ptr' \in [Column -> Slot],
             sel' \in [Column -> Slot], route' \in [Column -> Row]
      PROVE  ColumnTypes'
  BY <1>0, <1>1 DEF ColumnTypes
<1>2. ASSUME UNCHANGED columns
      PROVE  ColumnTypes'
  BY <1>0, <1>1, <1>2 DEF columns
<1>3. ASSUME NEW c \in Column, NEW k \in Layout, conf' = [conf EXCEPT ![c] = k],
             WellFormed(k), Targets(k) \subseteq Panels,
             ptr' \in [Column -> Slot], sel' \in [Column -> Slot], route' = route
      PROVE  ColumnTypes'
  <2>1. \A d \in Column : conf'[d] = IF d = c THEN k ELSE conf[d]
    BY <1>0, <1>3
  <2>2. conf' \in [Column -> Layout]
    BY <1>0, <1>3
  <2> QED BY <1>0, <1>3, <2>1, <2>2 DEF ColumnTypes
<1>4. ASSUME \/ \E c \in Column, which \in Buttons : Press(c, which)
             \/ Accept \/ Reject \/ Choose \/ RefreshRequest \/ Find
             \/ \E img \in Images : Reconfigure(img)
             \/ Restore
             \/ \E a \in Task : Sends(a)
      PROVE  ColumnTypes'
  <2>1. UNCHANGED columns
    BY <1>4
       DEF Press, Accept, Reject, Choose, RefreshRequest, Find, Reconfigure,
           Restore, Sends, Finish, BeginFill, FillLamps, Compose, Send, Refused
  <2> QED BY <1>2, <2>1
<1>5. ASSUME Advance
      PROVE  ColumnTypes'
  BY <1>0, <1>1, <1>5 DEF Advance
<1>6. ASSUME Store \/ \E a \in {Lvgl, Usb} : Apply(a)
      PROVE  ColumnTypes'
  BY <1>0, <1>1, <1>6 DEF Store, Apply
<1>7. ASSUME SetRoute \/ \E c \in Column, row \in UiInputs : Edit(c, row)
      PROVE  ColumnTypes'
  BY <1>0, <1>b, <1>1, <1>7 DEF SetRoute, Edit
<1>8. ASSUME ClearColumn
      PROVE  ColumnTypes'
  <2> DEFINE c == at[Usb]
             k == Cleared(image[c], conf[c])
  <2>1. /\ c \in Column /\ conf' = [conf EXCEPT ![c] = k]
        /\ ptr' = [ptr EXCEPT ![c] = 0] /\ sel' = [sel EXCEPT ![c] = 0]
        /\ route' = route
    BY <1>0, <1>8, ClearsColumn DEF ClearColumn
  <2>2. WellFormed(k) /\ k \in Layout /\ Targets(k) \subseteq Panels
    BY <1>0, <2>1, ClearedFits DEF WellFormed
  <2> HIDE DEF c, k
  <2>3. ptr' \in [Column -> Slot] /\ sel' \in [Column -> Slot]
    BY <1>0, <1>b, <2>1
  <2> QED BY <1>3, <2>1, <2>2, <2>3
<1>9. ASSUME BuildColumn
      PROVE  ColumnTypes'
  <2> DEFINE c == at[Usb]
             k == Rebuilt(image[c], conf[c])
  <2>1. /\ c \in Column /\ conf' = [conf EXCEPT ![c] = k]
        /\ UNCHANGED <<ptr, sel, route>>
    BY <1>0, <1>9 DEF BuildColumn
  <2>2. WellFormed(k) /\ k \in Layout /\ Targets(k) \subseteq Panels
    BY <1>0, <2>1, RebuiltFits DEF WellFormed
  <2> HIDE DEF c, k
  <2> QED BY <1>0, <1>3, <2>1, <2>2
<1>10. ASSUME NEW a \in {Lvgl, Usb}, MoveCursor(a)
       PROVE  ColumnTypes'
  <2>1. /\ at[a] \in Column /\ arg[a] \in Slot /\ ptr[at[a]] \in Slot
        /\ ptr' = [ptr EXCEPT ![at[a]] =
                      CursorAfter(conf[at[a]], arg[a], ptr[at[a]])]
        /\ UNCHANGED <<conf, sel, route>>
    BY <1>0, <1>10 DEF MoveCursor
  <2>2. CursorAfter(conf[at[a]], arg[a], ptr[at[a]]) \in Slot
    BY <1>0, <2>1, CursorsAreSlots
  <2> QED BY <1>0, <1>1, <2>1, <2>2
<1> QED
  BY <1>4, <1>5, <1>6, <1>7, <1>8, <1>9, <1>10 DEF Next

(* LedBuff, tx and the panels hold columns' lamps and devices there are.    *)
LEMMA FramesTypeStep ==
  ASSUME Types, Next
  PROVE  FrameTypes'
<1>0. FrameTypes /\ todo \in [Task -> SUBSET Panels]
  BY DEF Types, LocalTypes
<1>1. ASSUME UNCHANGED <<led, tx, panel>>
      PROVE  FrameTypes'
  BY <1>0, <1>1 DEF FrameTypes
<1>2. ASSUME UNCHANGED frames
      PROVE  FrameTypes'
  BY <1>1, <1>2 DEF frames
<1>3. ASSUME NEW c, Outdate(c)
      PROVE  FrameTypes'
  BY <1>0, <1>3 DEF Outdate, FrameTypes
<1>4. ASSUME NEW a \in Task, BeginFill(a)
      PROVE  FrameTypes'
  BY <1>0, <1>4 DEF BeginFill, FrameTypes
<1>5. ASSUME NEW a \in Task, FillLamps(a)
      PROVE  FrameTypes'
  <2>1. Told(at[a]) \subseteq Column
    BY DEF Told
  <2> QED BY <1>0, <1>5, <2>1 DEF FillLamps, FrameTypes
<1>6. ASSUME NEW a \in Task, Compose(a)
      PROVE  FrameTypes'
  BY <1>0, <1>6 DEF Compose, FrameTypes
<1>7. ASSUME NEW a \in Task, Send(a) \/ Refused(a)
      PROVE  FrameTypes'
  BY <1>0, <1>7 DEF Send, Refused, FrameTypes
<1>8. ASSUME \/ \E c \in Column, which \in Buttons : Press(c, which)
             \/ Accept \/ Reject \/ Choose \/ Advance \/ SetRoute
             \/ RefreshRequest
             \/ \E c \in Column, row \in UiInputs : Edit(c, row)
             \/ Find
             \/ \E img \in Images : Reconfigure(img)
             \/ Restore
             \/ \E a \in {Lvgl, Usb} : MoveCursor(a)
             \/ \E a \in Task : Finish(a)
      PROVE  FrameTypes'
  <2>1. UNCHANGED frames
    BY <1>8
       DEF Press, Accept, Reject, Choose, Advance, SetRoute, RefreshRequest,
           Edit, Find, Reconfigure, Restore, MoveCursor, Finish
  <2> QED BY <1>2, <2>1
<1>9. ASSUME Store \/ ClearColumn \/ BuildColumn \/ \E a \in {Lvgl, Usb} : Apply(a)
      PROVE  FrameTypes'
  BY <1>3, <1>9 DEF Store, ClearColumn, BuildColumn, Apply
<1> QED BY <1>4, <1>5, <1>6, <1>7, <1>8, <1>9 DEF Next, Sends

(* The notes of what met what are Boolean.                                  *)
LEMMA NotesStep ==
  ASSUME Types, Next
  PROVE  met' \in [Task -> BOOLEAN] /\ mixed' \in [Task -> BOOLEAN]
<1>0. met \in [Task -> BOOLEAN] /\ mixed \in [Task -> BOOLEAN]
  BY DEF Types, LocalTypes
<1>1. ASSUME UNCHANGED met
      PROVE  met' \in [Task -> BOOLEAN]
  BY <1>0, <1>1
<1>2. ASSUME UNCHANGED mixed
      PROVE  mixed' \in [Task -> BOOLEAN]
  BY <1>0, <1>2
<1>3. ASSUME NEW a, NEW c, Touches(a, c) \/ Decided(a, c)
      PROVE  met' \in [Task -> BOOLEAN]
  <2>1. CASE Touches(a, c)
    BY <1>0, <2>1 DEF Touches, Deciding
  <2>2. CASE Decided(a, c)
    BY <1>0, <2>2 DEF Decided, Deciding
  <2> QED BY <1>3, <2>1, <2>2
<1>4. ASSUME NEW a, Stirs(a)
      PROVE  mixed' \in [Task -> BOOLEAN]
  BY <1>0, <1>4 DEF Stirs, Sending
<1>5. ASSUME NEW a, Return(a)
      PROVE  mixed' \in [Task -> BOOLEAN]
  BY <1>0, <1>5 DEF Return
<1>6. ASSUME NEW a \in Task, BeginFill(a)
      PROVE  mixed' \in [Task -> BOOLEAN]
  BY <1>0, <1>6 DEF BeginFill, Sending
<1>7. ASSUME NEW a \in Task, Sends(a)
      PROVE  met' \in [Task -> BOOLEAN] /\ mixed' \in [Task -> BOOLEAN]
  BY <1>1, <1>2, <1>4, <1>5, <1>6, <1>7
     DEF Sends, Finish, BeginFill, FillLamps, Compose, Send, Refused, history
<1>8. ASSUME \/ \E c \in Column, which \in Buttons : Press(c, which)
             \/ Accept \/ Reject \/ RefreshRequest \/ Find \/ Restore
             \/ \E img \in Images : Reconfigure(img)
      PROVE  met' \in [Task -> BOOLEAN] /\ mixed' \in [Task -> BOOLEAN]
  BY <1>1, <1>2, <1>5, <1>8
     DEF Press, Accept, Reject, RefreshRequest, Find, Restore, Reconfigure, history
<1>8a. ASSUME Choose
       PROVE  met' \in [Task -> BOOLEAN] /\ mixed' \in [Task -> BOOLEAN]
  BY <1>0, <1>2, <1>8a DEF Choose, Sound, AcceptsButton
<1>9. ASSUME \/ Advance \/ Store \/ SetRoute \/ ClearColumn \/ BuildColumn
             \/ \E c \in Column, row \in UiInputs : Edit(c, row)
             \/ \E a \in {Lvgl, Usb} : Apply(a) \/ MoveCursor(a)
      PROVE  met' \in [Task -> BOOLEAN] /\ mixed' \in [Task -> BOOLEAN]
  BY <1>2, <1>3, <1>4, <1>9
     DEF Advance, Store, SetRoute, ClearColumn, BuildColumn, Edit, Apply,
         MoveCursor
<1> QED BY <1>7, <1>8, <1>8a, <1>9 DEF Next

(* The types, kept.                                                         *)
LEMMA TypesStep ==
  ASSUME Types, [Next]_vars
  PROVE  Types'
<1>1. CASE Next
  BY <1>1, PlacesStep, LocalsStep, ColumnsStep, FramesTypeStep, NotesStep
     DEF Types, LocalTypes
<1>2. CASE UNCHANGED vars
  <2>1. ColumnTypes'
    BY <1>2 DEF vars, columns, Types, ColumnTypes
  <2>2. FrameTypes' /\ LocalTypes'
    BY <1>2 DEF vars, frames, history, Types, FrameTypes, LocalTypes
  <2> QED BY <2>1, <2>2, PlacesStep DEF Types
<1> QED BY <1>1, <1>2

(* Configured, with every panel sent its frame, and nobody at work.         *)
LEMMA InitIInv ==
  ASSUME Init
  PROVE  IInv
<1> DEFINE found(c) == StateForRow(conf[c], route[c])
<1>1. /\ image \in Images /\ route \in [Column -> UiInputs]
      /\ conf = [c \in Column |-> Rebuilt(image[c], Blank)]
      /\ sel = [c \in Column |-> IF found(c) = None THEN 0 ELSE found(c)]
      /\ ptr = [c \in Column |-> IF conf[c].len = 0 THEN 0
                                 ELSE CursorAfter(conf[c], sel[c], 0)]
  BY DEF Init, Configure
<1>2. /\ led = {} /\ tx = NoFrame /\ spoiled = {} /\ crossed = {}
      /\ panel = [t \in Panels |-> {c \in Column : t \in Targets(conf[c])}]
      /\ pc = [a \in Task |-> "idle"]
      /\ at = [a \in Task |-> 0] /\ arg = [a \in Task |-> 0] /\ nextPtr = 0
      /\ plan = [a \in Task |-> <<>>] /\ todo = [a \in Task |-> {}]
      /\ met = [a \in Task |-> FALSE] /\ mixed = [a \in Task |-> FALSE]
  BY DEF Init
<1>3. \A a \in Task : pc[a] = "idle" /\ ~Deciding(a) /\ ~Sending(a)
  BY <1>2 DEF Deciding, Sending
<1>4. Usb \in Task /\ 0 \in Slot /\ 0 \in Column
  BY PlacesOfTasks, SizeAssumption DEF Slot, Column
<1>5. \A c \in Column : /\ WellFormed(conf[c]) /\ conf[c] \in Layout
                        /\ Targets(conf[c]) \subseteq Panels
  BY <1>1, RebuiltFits, BlankWellFormed DEF WellFormed
<1> HIDE DEF found
<1>6. \A c \in Column :
         /\ sel[c] \in State(conf[c]) \cup {0} /\ sel[c] \in Slot
         /\ conf[c].len > 0 =>
               sel[c] \in State(conf[c]) /\ RouteOf(c, sel[c])
  <2> TAKE c \in Column
  <2>1. \/ found(c) \in State(conf[c]) /\ conf[c].rows[found(c)] = route[c]
        \/ found(c) = None
    BY <1>5, StateForRowFinds DEF found
  <2>2. State(conf[c]) \subseteq Slot /\ None \notin State(conf[c])
        /\ (conf[c].len > 0 => 0 \in State(conf[c]))
    BY <1>5, StatesAreSlots
  <2>3. CASE found(c) = None
    BY <1>1, <1>4, <2>2, <2>3 DEF RouteOf, found
  <2>4. CASE found(c) # None
    BY <1>1, <2>1, <2>2, <2>4 DEF RouteOf
  <2> QED BY <2>3, <2>4
<1>7. \A c \in Column : ptr[c] \in Slot
  <2> TAKE c \in Column
  <2>1. CASE conf[c].len = 0
    BY <1>1, <1>4, <2>1
  <2>2. CASE conf[c].len # 0
    <3>1. ptr[c] = CursorAfter(conf[c], sel[c], 0)
      BY <1>1, <2>2
    <3> QED BY <1>4, <1>5, <1>6, <3>1, CursorsAreSlots
  <2> QED BY <2>1, <2>2
<1>8. ColumnTypes
  <2>1. /\ conf \in [Column -> Layout] /\ ptr \in [Column -> Slot]
        /\ sel \in [Column -> Slot]
    BY <1>1, <1>5, <1>6, <1>7
  <2>2. route \in [Column -> Row]
    BY <1>1, ImagesAssumption
  <2> QED BY <1>5, <2>1, <2>2 DEF ColumnTypes
<1>9. FrameTypes /\ LocalTypes
  BY <1>1, <1>2, <1>4 DEF FrameTypes, LocalTypes, NoFrame
<1>10. PlaceTypes
  <2>1. pc \in [Task -> Place]
    BY <1>2, PlacesOfTasks
  <2> QED BY <1>3, <2>1, PlacesOfTasks DEF PlaceTypes
<1>11. Decision /\ Frames
  <2>1. \A a \in Task : ~met[a]
    BY <1>2
  <2> QED
    BY <1>3, <2>1 DEF Decision, DecisionOf, Frames, FramesOf, Deciding
<1>12. Tracked
  <2>1. \A c \in Configured : /\ c \in Column /\ conf[c].len > 0
                              /\ ptr[c] = CursorAfter(conf[c], sel[c], 0)
    <3>1. \A c \in Column : conf[c].len \in 0..16
      BY <1>5, StatesAreSlots
    <3> QED BY <1>1, <3>1 DEF Configured
  <2>2. Configured \subseteq Column
    BY DEF Configured
  <2> QED BY <1>6, <2>1, <2>2 DEF Tracked, TrackedAt, CursorAt
<1>13. Covered
  <2>1. \A c \in Column : \A t \in Targets(conf[c]) : c \in panel[t]
    BY <1>2, <1>5
  <2> QED BY <2>1 DEF Covered, CoveredAt, Configured
<1> QED BY <1>8, <1>9, <1>10, <1>11, <1>12, <1>13 DEF IInv, Types

------------------------------------------------------------------------------
(* Decisions.                                                               *)

(* What another task does not touch stays decided.                          *)
LEMMA DecisionKept ==
  ASSUME Types, Decision, NEW a \in Task, Alone(a), NEW b \in Task \ {a}
  PROVE  DecisionOf(b)'
<1>1. /\ pc'[b] = pc[b] /\ at'[b] = at[b] /\ arg'[b] = arg[b]
      /\ met'[b] => met[b] \/ Deciding(b)
      /\ ~met'[b] /\ Deciding(b) => ~met[b] /\ SameColumn(at[b])
      /\ b = Can => nextPtr' = nextPtr
  BY DEF Alone
<1>2. DecisionOf(b)
  BY DEF Decision
<1>2a. pc[b] = "advance" => b = Can
  BY DEF Types, PlaceTypes, Places
<1>3. CASE ~Deciding(b)
  BY <1>1, <1>2, <1>3 DEF DecisionOf, Deciding
<1>4. CASE Deciding(b) /\ met'[b]
  BY <1>1, <1>4 DEF DecisionOf, Deciding
<1>5. CASE Deciding(b) /\ ~met'[b]
  BY <1>1, <1>2, <1>2a, <1>5
     DEF DecisionOf, Deciding, SameColumn, CursorAt, RouteOf
<1> QED BY <1>3, <1>4, <1>5

(* What a handler has decided fits what it has stored of it, step by step.  *)
LEMMA DecisionStep ==
  ASSUME Types, Decision, Next
  PROVE  Decision'
<1>0. /\ Can \in Task /\ Lvgl \in Task /\ Usb \in Task
      /\ pc \in [Task -> Place] /\ met \in [Task -> BOOLEAN]
      /\ conf \in [Column -> Layout] /\ ptr \in [Column -> Slot]
      /\ sel \in [Column -> Slot] /\ route \in [Column -> Row]
      /\ at \in [Task -> Column] /\ arg \in [Task -> Slot]
  BY PlacesOfTasks DEF Types, ColumnTypes, LocalTypes, PlaceTypes
<1>a. \A a \in Task : DecisionOf(a)
  BY DEF Decision
<1>b. \A c \in Column : WellFormed(conf[c])
  BY DEF Types, ColumnTypes
<1>1. ASSUME NEW a \in Task, Alone(a), DecisionOf(a)'
      PROVE  Decision'
  BY <1>1, DecisionKept DEF Decision
<1>2. ASSUME NEW a \in Task, ~Deciding(a)', ~met'[a]
      PROVE  DecisionOf(a)'
  BY <1>2 DEF DecisionOf, Deciding
<1>3. ASSUME NEW a \in Task, ~Deciding(a)
      PROVE  ~met[a]
  BY <1>a, <1>3 DEF DecisionOf
<1>4. ASSUME NEW a \in Task, Alone(a), ~Deciding(a), ~Deciding(a)',
             met'[a] = met[a]
      PROVE  Decision'
  BY <1>1, <1>2, <1>3, <1>4
<1>5. ASSUME NEW c \in Column, NEW which \in Buttons, Press(c, which)
      PROVE  Decision'
  <2>1. /\ Alone(Can) /\ pc[Can] = "idle" /\ pc'[Can] = "pulse" /\ met' = met
    BY <1>0, <1>5, StepsAlone DEF Press, Start, Goto, history
  <2> QED BY <1>0, <1>4, <2>1 DEF Deciding
<1>6. ASSUME Choose
      PROVE  Decision'
  <2> DEFINE c == at[Can]
             k == conf[c]
             s == PressedState(k, arg[Can], ptr[c])
             p == PressedCursor(k, arg[Can], s, ptr[c])
  <2>1. /\ at'[Can] = c /\ c \in Column /\ arg[Can] \in Slot /\ ptr[c] \in Slot
        /\ arg'[Can] = s /\ UNCHANGED <<conf, ptr>>
        /\ pc'[Can] = IF Radio(k) THEN "store" ELSE "advance"
        /\ ~Radio(k) => nextPtr' = p
        /\ met'[Can] = ~Sound(k, arg[Can], ptr[c]) /\ Alone(Can)
    BY <1>0, <1>6, StepsAlone DEF Choose, Goto, columns
  <2>2. CASE met'[Can]
    <3>1. pc'[Can] \in {"advance", "store"}
      BY <2>1
    <3>2. DecisionOf(Can)'
      BY <2>2, <3>1 DEF DecisionOf, Deciding
    <3> QED BY <1>0, <1>1, <2>1, <3>2
  <2>3. CASE ~met'[Can]
    <3>1. s \in State(k) /\ (~Radio(k) => p = CursorAfter(k, s, 0))
      <4> HIDE DEF c, k
      <4>1. WellFormed(k) /\ Sound(k, arg[Can], ptr[c])
        BY <1>b, <2>1, <2>3 DEF k
      <4> QED BY <2>1, <4>1, PressChooses
    <3> HIDE DEF s, p
    <3>2. CASE Radio(k)
      <4>1. CursorAt(at[Can], arg[Can])'
        BY <2>1, <3>1, <3>2 DEF CursorAt
      <4>2. DecisionOf(Can)'
        BY <2>1, <2>3, <3>2, <4>1 DEF DecisionOf
      <4> QED BY <1>0, <1>1, <2>1, <4>2
    <3>3. CASE ~Radio(k)
      <4>1. DecisionOf(Can)'
        BY <2>1, <2>3, <3>1, <3>3 DEF DecisionOf
      <4> QED BY <1>0, <1>1, <2>1, <4>1
    <3> QED BY <3>2, <3>3
  <2> QED BY <2>2, <2>3
<1>6a. ASSUME Accept
       PROVE  Decision'
  <2>1. /\ Alone(Can) /\ pc[Can] = "pulse" /\ pc'[Can] = "choose" /\ met' = met
    BY <1>0, <1>6a, StepsAlone DEF Accept, Goto, history
  <2> QED BY <1>0, <1>4, <2>1 DEF Deciding
<1>6b. ASSUME Advance
       PROVE  Decision'
  <2>0. PICK c \in Column : c = at[Can]
    BY <1>0
  <2>1. /\ pc[Can] = "advance" /\ pc'[Can] = "store" /\ at'[Can] = c
        /\ ptr'[c] = nextPtr /\ UNCHANGED <<conf, arg>>
        /\ met'[Can] = met[Can] /\ Alone(Can)
    BY <1>0, <1>6b, <2>0, StepsAlone DEF Advance, Touches, Goto
  <2>2. ~met[Can] => CursorAt(c, arg[Can])'
    BY <1>0, <1>a, <2>0, <2>1 DEF DecisionOf, CursorAt
  <2>3. DecisionOf(Can)'
    BY <2>0, <2>1, <2>2 DEF DecisionOf, Deciding
  <2> QED BY <1>0, <1>1, <2>1, <2>3
<1>7. ASSUME Reject
      PROVE  Decision'
  <2>1. /\ Alone(Can) /\ pc[Can] = "pulse" /\ pc'[Can] = "idle" /\ met' = met
    BY <1>0, <1>7, StepsAlone DEF Reject, Return, Goto
  <2> QED BY <1>0, <1>4, <2>1 DEF Deciding
<1>8. ASSUME NEW a \in Task, Alone(a), pc[a] \in {"store", "apply"},
             pc' = [pc EXCEPT ![a] = IF pc[a] = "store" THEN "set" ELSE "cursor"],
             sel' = [sel EXCEPT ![at[a]] = arg[a]], met'[a] = met[a],
             UNCHANGED <<conf, ptr, route, at, arg>>
      PROVE  Decision'
  <2>1. /\ sel'[at[a]] = arg[a] /\ at[a] \in Column /\ Deciding(a)'
        /\ pc'[a] = IF pc[a] = "store" THEN "set" ELSE "cursor"
    BY <1>0, <1>8 DEF Deciding
  <2>2. /\ CursorAt(at[a], arg[a]) => CursorAt(at[a], arg[a])'
        /\ RouteOf(at[a], arg[a]) => RouteOf(at[a], arg[a])'
    BY <1>8 DEF CursorAt, RouteOf
  <2>3. DecisionOf(a)'
    BY <1>8, <1>a, <2>1, <2>2 DEF DecisionOf
  <2> QED BY <1>1, <1>8, <2>3
<1>9. ASSUME Store
      PROVE  Decision'
  <2>1. /\ Alone(Can) /\ pc[Can] = "store" /\ met'[Can] = met[Can]
        /\ pc' = [pc EXCEPT ![Can] = "set"]
    BY <1>0, <1>9, StepsAlone DEF Store, Touches, Goto
  <2> QED BY <1>0, <1>8, <1>9, <2>1 DEF Store
<1>10. ASSUME SetRoute
       PROVE  Decision'
  <2>1. Alone(Can) /\ pc'[Can] = "fill" /\ ~met'[Can]
    BY <1>0, <1>10, StepsAlone DEF SetRoute, Decided, Goto
  <2> QED BY <1>0, <1>1, <1>2, <2>1 DEF Deciding
<1>11. ASSUME RefreshRequest
       PROVE  Decision'
  <2>1. /\ Alone(Can) /\ pc[Can] = "idle" /\ pc'[Can] = "fill" /\ met' = met
    BY <1>0, <1>11, StepsAlone DEF RefreshRequest, Start, Goto, history
  <2> QED BY <1>0, <1>4, <2>1 DEF Deciding
<1>12. ASSUME NEW c \in Column, NEW row \in UiInputs, Edit(c, row)
       PROVE  Decision'
  <2>1. /\ Alone(Lvgl) /\ pc[Lvgl] = "idle" /\ pc'[Lvgl] = "find"
        /\ met'[Lvgl] = met[Lvgl]
    BY <1>0, <1>12, StepsAlone DEF Edit, Start, Touches, Goto
  <2> QED BY <1>0, <1>4, <2>1 DEF Deciding
<1>13. ASSUME Find
       PROVE  Decision'
  <2> DEFINE c == at[Lvgl]
             s == StateForRow(conf[c], route[c])
  <2>1. /\ Alone(Lvgl) /\ pc[Lvgl] = "find" /\ met' = met
        /\ UNCHANGED <<conf, ptr, sel, route>> /\ c \in Column
    BY <1>0, <1>13, StepsAlone DEF Find, columns
  <2>2. CASE Return(Lvgl)
    BY <1>0, <1>4, <2>1, <2>2 DEF Return, Goto, Deciding
  <2>3. CASE ~Return(Lvgl)
    <3>1. /\ s # None /\ arg'[Lvgl] = s /\ at' = at /\ pc'[Lvgl] = "apply"
      BY <1>0, <1>13, <2>3 DEF Find, Goto
    <3>2. s \in State(conf[c]) /\ conf[c].rows[s] = route[c]
      BY <1>b, <2>1, <3>1, StateForRowFinds
    <3>3. arg'[Lvgl] \in State(conf[c])' /\ RouteOf(at[Lvgl], arg[Lvgl])'
      BY <2>1, <3>1, <3>2 DEF RouteOf
    <3>4. ~met'[Lvgl]
      BY <1>0, <1>3, <2>1 DEF Deciding
    <3>5. DecisionOf(Lvgl)'
      BY <2>1, <3>1, <3>3, <3>4 DEF DecisionOf
    <3> QED BY <1>0, <1>1, <2>1, <3>5
  <2> QED BY <2>2, <2>3
<1>14. ASSUME NEW img \in Images, Reconfigure(img)
       PROVE  Decision'
  <2>1. /\ Alone(Usb) /\ pc[Usb] = "idle" /\ pc'[Usb] = "clear" /\ met' = met
    BY <1>0, <1>14, StepsAlone DEF Reconfigure, Start, Goto, history
  <2> QED BY <1>0, <1>4, <2>1 DEF Deciding
<1>15. ASSUME ClearColumn \/ BuildColumn
       PROVE  Decision'
  <2>1. /\ Alone(Usb) /\ pc[Usb] \in {"clear", "build"}
        /\ pc'[Usb] \in {"build", "restore", "clear"} /\ met'[Usb] = met[Usb]
    BY <1>0, <1>15, StepsAlone DEF ClearColumn, BuildColumn, Touches, Goto
  <2> QED BY <1>0, <1>4, <2>1 DEF Deciding
<1>16. ASSUME Restore
       PROVE  Decision'
  <2> DEFINE c == at[Usb]
             s == StateForRow(conf[c], route[c])
  <2>1. /\ Alone(Usb) /\ pc[Usb] = "restore" /\ met' = met
        /\ UNCHANGED <<conf, ptr, sel, route>> /\ c \in Column
    BY <1>0, <1>16, StepsAlone DEF Restore, columns, history
  <2>2. CASE conf[c].len = 0
    <3>1. pc'[Usb] \in {"fill", "restore"}
      BY <1>0, <1>16, <2>2 DEF Restore, NextRestored, Goto
    <3> QED BY <1>0, <1>4, <2>1, <3>1 DEF Deciding
  <2>3. CASE conf[c].len # 0
    <3>1. /\ arg'[Usb] = IF s = None THEN 0 ELSE s
          /\ at' = at /\ pc'[Usb] = "apply"
      BY <1>0, <1>16, <2>3 DEF Restore, Goto
    <3>2. conf[c].len > 0 /\ 0 \in State(conf[c])
      BY <1>b, <2>1, <2>3, StatesAreSlots
    <3>3. s = None \/ (s \in State(conf[c]) /\ conf[c].rows[s] = route[c])
      BY <1>b, <2>1, StateForRowFinds
    <3>4. arg'[Usb] \in State(conf[c])' /\ RouteOf(at[Usb], arg[Usb])'
      BY <2>1, <3>1, <3>2, <3>3 DEF RouteOf
    <3>5. ~met'[Usb]
      BY <1>0, <1>3, <2>1 DEF Deciding
    <3>6. DecisionOf(Usb)'
      BY <2>1, <3>1, <3>4, <3>5 DEF DecisionOf
    <3> QED BY <1>0, <1>1, <2>1, <3>6
  <2> QED BY <2>2, <2>3
<1>17. ASSUME NEW a \in {Lvgl, Usb}, Apply(a)
       PROVE  Decision'
  <2>1. /\ a \in Task /\ Alone(a) /\ pc[a] = "apply" /\ met'[a] = met[a]
        /\ pc' = [pc EXCEPT ![a] = "cursor"]
    BY <1>0, <1>17, StepsAlone DEF Apply, Touches, Goto
  <2> QED BY <1>0, <1>8, <1>17, <2>1 DEF Apply
<1>18. ASSUME NEW a \in {Lvgl, Usb}, MoveCursor(a)
       PROVE  Decision'
  <2>1. a \in Task /\ Alone(a) /\ ~met'[a]
    BY <1>0, <1>18, StepsAlone DEF MoveCursor, Decided
  <2>2. pc'[a] \in {"fill", "restore"}
    <3>1. CASE a = Usb
      BY <1>0, <1>18, <3>1 DEF MoveCursor, NextRestored, Goto
    <3>2. CASE a # Usb
      BY <1>0, <1>18, <3>2 DEF MoveCursor, Goto
    <3> QED BY <3>1, <3>2
  <2> QED BY <1>1, <1>2, <2>1, <2>2 DEF Deciding
<1>19. ASSUME NEW a \in Task, Sends(a)
       PROVE  Decision'
  <2>1. /\ Alone(a) /\ met' = met
        /\ pc[a] \in {"fill", "lamps", "compose", "send"}
        /\ pc'[a] \in {"idle", "fill", "lamps", "compose", "send"}
    BY <1>0, <1>19, StepsAlone
       DEF Sends, Finish, BeginFill, FillLamps, Compose, Send, Refused,
           Return, NextFrame, Goto, history
  <2> QED BY <1>4, <2>1 DEF Deciding
<1> QED
  BY <1>5, <1>6, <1>6a, <1>6b, <1>7, <1>9, <1>10, <1>11, <1>12, <1>13, <1>14,
     <1>15, <1>16,
     <1>17, <1>18, <1>19 DEF Next

------------------------------------------------------------------------------
(* Selection, cursor and route.                                             *)

(* An upload's progress is nobody else's doing.                             *)
LEMMA RestoredBack ==
  ASSUME NEW a \in Task \ {Usb}, Alone(a), NEW c
  PROVE  Restored(c)' <=> Restored(c)
BY PlacesOfTasks DEF Alone, Restored

(* What the step leaves as it is of column c.                               *)
Unmoved(c) ==
    /\ SameColumn(c)
    /\ c \notin crossed' => c \notin crossed
    /\ Restored(c)' => Restored(c)

(* A column that a step leaves as it is, and that the task that makes the   *)
(* step was not deciding about nor looking at, is tracked as before.        *)
LEMMA TrackedKept ==
  ASSUME NEW a \in Task, Alone(a), NEW c \in Column, TrackedAt(c),
         Unmoved(c), at[a] = c => ~Deciding(a) /\ pc[a] # "find"
  PROVE  TrackedAt(c)'
<1>1. Undecided(c)' => Undecided(c)
  BY DEF Undecided, Alone, Deciding
<1>2. Unedited(c)' => Unedited(c)
  BY DEF Unedited, Alone
<1>3. /\ c \in Configured' => c \in Configured
      /\ CursorAt(c, sel[c])' <=> CursorAt(c, sel[c])
      /\ FullyAssigned(conf[c])' <=> FullyAssigned(conf[c])
      /\ RouteOf(c, sel[c])' <=> RouteOf(c, sel[c])
  BY DEF Unmoved, SameColumn, Configured, CursorAt, FullyAssigned, RouteOf
<1> QED BY <1>1, <1>2, <1>3 DEF TrackedAt, Unmoved

(* A column that a task is still deciding about is nobody's claim.          *)
LEMMA DecidingUntracked ==
  ASSUME NEW a \in Task, NEW c, at'[a] = c, Deciding(a)'
  PROVE  TrackedAt(c)'
BY DEF TrackedAt, Undecided

(* A handler that returns, or hands over to the sending of frames.          *)
LEMMA UnmovedColumns ==
  ASSUME Tracked, NEW a \in Task, Alone(a), UNCHANGED <<columns, crossed>>,
         ~Deciding(a), pc[a] # "find", \A c \in Column : Restored(c)' => Restored(c)
  PROVE  Tracked'
BY TrackedKept DEF Tracked, Unmoved, SameColumn, columns

(* The same, of a task that has no part in an upload.                       *)
LEMMA UnmovedByOthers ==
  ASSUME Tracked, NEW a \in Task, a # Usb, Alone(a), UNCHANGED <<columns, crossed>>,
         ~Deciding(a), pc[a] # "find"
  PROVE  Tracked'
BY UnmovedColumns, RestoredBack

(* What usb_to_can_task moves on from is restored, what lies before it has  *)
(* been, and what lies after it is not yet.                                 *)
LEMMA RestoredUpTo ==
  ASSUME Types, pc[Usb] \in {"restore", "cursor"}, NextRestored(at[Usb]),
         NEW c \in Column, c # at[Usb], Restored(c)'
  PROVE  Restored(c)
<1>1. /\ at \in [Task -> Column] /\ pc \in [Task -> Place] /\ Usb \in Task
  BY PlacesOfTasks DEF Types, LocalTypes, PlaceTypes
<1>2. /\ pc'[Usb] = IF at[Usb] + 1 = NumColumns THEN "fill" ELSE "restore"
      /\ at'[Usb] = (at[Usb] + 1) % NumColumns /\ at[Usb] \in Column
  BY <1>1 DEF NextRestored, Goto
<1>3. NumColumns \in 1..16 /\ Column = 0..NumColumns-1
  BY SizeAssumption DEF Column
<1>4. CASE at[Usb] + 1 = NumColumns
  <2>1. c < at[Usb]
    BY <1>2, <1>3, <1>4
  <2> QED BY <2>1 DEF Restored
<1>5. CASE at[Usb] + 1 # NumColumns
  <2>1. at'[Usb] = at[Usb] + 1
    BY <1>2, <1>3, <1>5
  <2>2. c < at[Usb] + 1
    BY <1>2, <1>5, <2>1 DEF Restored
  <2>3. c < at[Usb]
    BY <1>2, <1>3, <2>2
  <2> QED BY <2>3 DEF Restored
<1> QED BY <1>4, <1>5

(* Selection, cursor and route agree whenever nobody is at the column.      *)
LEMMA TrackedStep ==
  ASSUME Types, Decision, Tracked, Next
  PROVE  Tracked'
<1> USE TasksDiffer
<1>0. /\ Can \in Task /\ Lvgl \in Task /\ Usb \in Task
      /\ pc \in [Task -> Place]
      /\ conf \in [Column -> Layout] /\ ptr \in [Column -> Slot]
      /\ sel \in [Column -> Slot] /\ route \in [Column -> Row]
      /\ at \in [Task -> Column] /\ arg \in [Task -> Slot]
  BY PlacesOfTasks DEF Types, ColumnTypes, LocalTypes, PlaceTypes
<1>a. /\ \A a \in Task : DecisionOf(a)
      /\ \A c \in Column : TrackedAt(c)
  BY DEF Decision, Tracked
<1>b. \A c \in Column : WellFormed(conf[c])
  BY DEF Types, ColumnTypes
<1>1. ASSUME NEW a \in Task, Alone(a), NEW d \in Column, at[a] = d, TrackedAt(d)',
             \A c \in Column \ {d} : Unmoved(c)
      PROVE  Tracked'
  <2> SUFFICES ASSUME NEW c \in Column
               PROVE  TrackedAt(c)'
    BY DEF Tracked
  <2>1. CASE c = d
    BY <1>1, <2>1
  <2>2. CASE c # d
    BY <1>a, <1>1, <2>2, TrackedKept
  <2> QED BY <2>1, <2>2
<1>2. ASSUME NEW c \in Column, NEW which \in Buttons, Press(c, which)
      PROVE  Tracked'
  <2>1. /\ Alone(Can) /\ pc[Can] = "idle" /\ UNCHANGED <<columns, crossed>>
    BY <1>0, <1>2, StepsAlone DEF Press, Start, history
  <2> QED BY <1>0, <2>1, UnmovedByOthers DEF Deciding
<1>3. ASSUME Choose \/ Advance
      PROVE  Tracked'
  <2>0. PICK d \in Column : d = at[Can]
    BY <1>0
  <2>1. /\ Alone(Can) /\ at'[Can] = d /\ pc'[Can] \in {"advance", "store"}
        /\ crossed' = crossed
        /\ \A c \in Column \ {d} : SameColumn(c)
    BY <1>0, <1>3, <2>0, StepsAlone
       DEF Choose, Advance, Goto, SameColumn, columns
  <2>2. TrackedAt(d)'
    BY <1>0, <2>1, DecidingUntracked DEF Deciding
  <2> QED BY <1>0, <1>1, <2>0, <2>1, <2>2, RestoredBack DEF Unmoved
<1>4. ASSUME Accept \/ Reject
      PROVE  Tracked'
  <2>1. /\ Alone(Can) /\ pc[Can] = "pulse" /\ UNCHANGED <<columns, crossed>>
    BY <1>0, <1>4, StepsAlone DEF Accept, Reject, history
  <2> QED BY <1>0, <2>1, UnmovedByOthers DEF Deciding
<1>5. ASSUME Store
      PROVE  Tracked'
  <2>0. PICK d \in Column : d = at[Can]
    BY <1>0
  <2>1. /\ Alone(Can) /\ at'[Can] = d /\ pc'[Can] = "set"
        /\ crossed' = crossed
        /\ \A c \in Column \ {d} : SameColumn(c)
    BY <1>0, <1>5, <2>0, StepsAlone DEF Store, Goto, SameColumn
  <2>2. TrackedAt(d)'
    BY <1>0, <2>1, DecidingUntracked DEF Deciding
  <2> QED BY <1>0, <1>1, <2>0, <2>1, <2>2, RestoredBack DEF Unmoved
<1>6. ASSUME SetRoute
      PROVE  Tracked'
  <2>0. PICK c \in Column : c = at[Can]
    BY <1>0
  <2> DEFINE row == conf[c].rows[arg[Can]]
  <2>1. /\ Alone(Can) /\ pc[Can] = "set" /\ UNCHANGED <<conf, ptr, sel, arg>>
        /\ arg[Can] \in Slot
        /\ route' = IF row \in Row THEN [route EXCEPT ![c] = row] ELSE route
        /\ crossed' = IF met[Can] THEN crossed \cup {c} ELSE crossed \ {c}
    BY <1>0, <1>6, <2>0, StepsAlone DEF SetRoute, Decided
  <2>2. TrackedAt(c)'
    <3>1. CASE met[Can]
      BY <2>1, <3>1 DEF TrackedAt
    <3>2. CASE ~met[Can]
      <4>1. CursorAt(c, arg[Can]) /\ sel[c] = arg[Can]
        BY <1>0, <1>a, <2>0, <2>1, <3>2 DEF DecisionOf
      <4>2. CursorAt(c, sel[c])'
        BY <2>1, <4>1 DEF CursorAt
      <4>3. FullyAssigned(conf[c]) => row \in Row
        <5>1. conf[c] \in Layout
          BY <1>0, <2>1
        <5> QED BY <2>1, <4>1, <5>1 DEF FullyAssigned, CursorAt, Layout
      <4>4. row \in Row => route'[c] = row
        BY <1>0, <2>1
      <4>5. FullyAssigned(conf[c])' => RouteOf(c, sel[c])'
        BY <2>1, <4>1, <4>3, <4>4 DEF RouteOf
      <4> QED BY <4>2, <4>5 DEF TrackedAt
    <3> QED BY <3>1, <3>2
  <2>3. \A d \in Column \ {c} : SameColumn(d) /\ (d \notin crossed' => d \notin crossed)
    BY <1>0, <2>1 DEF SameColumn
  <2> QED BY <1>0, <1>1, <2>0, <2>1, <2>2, <2>3, RestoredBack DEF Unmoved
<1>7. ASSUME RefreshRequest
      PROVE  Tracked'
  <2>1. /\ Alone(Can) /\ pc[Can] = "idle" /\ UNCHANGED <<columns, crossed>>
    BY <1>0, <1>7, StepsAlone DEF RefreshRequest, Start, history
  <2> QED BY <1>0, <2>1, UnmovedByOthers DEF Deciding
<1>8. ASSUME NEW c \in Column, NEW row \in UiInputs, Edit(c, row)
      PROVE  Tracked'
  <2>1. /\ Alone(Lvgl) /\ pc[Lvgl] = "idle" /\ crossed' = crossed
        /\ UNCHANGED <<conf, ptr, sel>> /\ route' = [route EXCEPT ![c] = row]
        /\ at'[Lvgl] = c /\ pc'[Lvgl] = "find"
    BY <1>0, <1>8, StepsAlone DEF Edit, Start, Goto
  <2>2. TrackedAt(c)'
    <3>1. Restored(c)' => Restored(c)
      BY <1>0, <2>1, RestoredBack
    <3>2. Undecided(c)' => Undecided(c)
      BY <2>1 DEF Undecided, Alone, Deciding
    <3>3. ~Unedited(c)'
      BY <1>0, <2>1 DEF Unedited
    <3>4. /\ c \in Configured' => c \in Configured
          /\ CursorAt(c, sel[c]) => CursorAt(c, sel[c])'
      BY <2>1 DEF Configured, CursorAt
    <3> QED BY <1>a, <2>1, <3>1, <3>2, <3>3, <3>4 DEF TrackedAt
  <2>3. ASSUME NEW d \in Column, d # c
        PROVE  TrackedAt(d)'
    <3>1. SameColumn(d)
      BY <1>0, <2>1, <2>3 DEF SameColumn
    <3>2. Restored(d)' => Restored(d)
      BY <1>0, <2>1, RestoredBack
    <3> QED BY <1>0, <1>a, <2>1, <3>1, <3>2, TrackedKept DEF Deciding, Unmoved
  <2> QED BY <2>2, <2>3 DEF Tracked
<1>9. ASSUME Find
      PROVE  Tracked'
  <2>0. PICK c \in Column : c = at[Lvgl]
    BY <1>0
  <2> DEFINE s == StateForRow(conf[c], route[c])
  <2>1. /\ Alone(Lvgl) /\ pc[Lvgl] = "find" /\ crossed' = crossed
        /\ UNCHANGED <<conf, ptr, sel, route>>
    BY <1>0, <1>9, StepsAlone DEF Find, columns
  <2>2. ASSUME s = None
        PROVE  TrackedAt(c)'
    <3>1. Restored(c)' => Restored(c)
      BY <1>0, <2>1, RestoredBack
    <3>2. Undecided(c)' => Undecided(c)
      BY <2>1 DEF Undecided, Alone, Deciding
    <3>3. RouteOf(c, sel[c])'
      BY <2>1, <2>2 DEF RouteOf
    <3>4. /\ c \in Configured' => c \in Configured
          /\ CursorAt(c, sel[c]) => CursorAt(c, sel[c])'
      BY <2>1 DEF Configured, CursorAt
    <3> QED BY <1>a, <2>1, <3>1, <3>2, <3>3, <3>4 DEF TrackedAt
  <2>3. ASSUME s # None
        PROVE  TrackedAt(c)'
    <3>1. at'[Lvgl] = c /\ pc'[Lvgl] = "apply"
      BY <1>0, <1>9, <2>0, <2>3 DEF Find, Goto
    <3> QED BY <1>0, <3>1, DecidingUntracked DEF Deciding
  <2>4. TrackedAt(c)'
    BY <2>2, <2>3
  <2>5. \A d \in Column : SameColumn(d)
    BY <2>1 DEF SameColumn
  <2> QED BY <1>0, <1>1, <2>0, <2>1, <2>4, <2>5, RestoredBack DEF Unmoved
<1>10. ASSUME \/ \E img \in Images : Reconfigure(img)
              \/ ClearColumn \/ BuildColumn
       PROVE  Tracked'
  <2>1. \A c \in Column : ~Restored(c)'
    <3>1. CASE pc'[Usb] \in {"clear", "build"}
      BY <3>1 DEF Restored
    <3>2. CASE pc'[Usb] \notin {"clear", "build"}
      <4>1. BuildColumn /\ pc'[Usb] = "restore" /\ at[Usb] + 1 = NumColumns
            /\ at'[Usb] = (at[Usb] + 1) % NumColumns
        BY <1>0, <1>10, <3>2 DEF Reconfigure, ClearColumn, BuildColumn, Start, Goto
      <4>2. at'[Usb] = 0
        BY <4>1, SizeAssumption
      <4> QED BY <4>1, <4>2, SizeAssumption DEF Restored, Column
    <3> QED BY <3>1, <3>2
  <2> QED BY <2>1 DEF Tracked, TrackedAt
<1>11. ASSUME Restore
       PROVE  Tracked'
  <2>0. PICK c \in Column : c = at[Usb]
    BY <1>0
  <2>1. /\ Alone(Usb) /\ pc[Usb] = "restore" /\ crossed' = crossed
        /\ UNCHANGED <<conf, ptr, sel, route>>
    BY <1>0, <1>11, StepsAlone DEF Restore, columns, history
  <2>2. \A d \in Column : SameColumn(d)
    BY <2>1 DEF SameColumn
  <2>3. CASE conf[c].len = 0
    <3>1. TrackedAt(c)'
      BY <2>1, <2>3 DEF TrackedAt, Configured
    <3>2. \A d \in Column \ {c} : Restored(d)' => Restored(d)
      BY <1>11, <2>0, <2>1, <2>3, RestoredUpTo DEF Restore
    <3> QED BY <1>0, <1>1, <2>0, <2>1, <2>2, <3>1, <3>2 DEF Unmoved
  <2>4. CASE conf[c].len # 0
    <3>1. at' = at /\ pc'[Usb] = "apply"
      BY <1>0, <1>11, <2>0, <2>4 DEF Restore, Goto
    <3>2. TrackedAt(c)'
      BY <1>0, <2>0, <3>1, DecidingUntracked DEF Deciding
    <3>3. \A d \in Column \ {c} : Restored(d)' => Restored(d)
      BY <2>1, <3>1 DEF Restored
    <3> QED BY <1>0, <1>1, <2>0, <2>1, <2>2, <3>2, <3>3 DEF Unmoved
  <2> QED BY <2>3, <2>4
<1>12. ASSUME NEW a \in {Lvgl, Usb}, Apply(a)
       PROVE  Tracked'
  <2>0. PICK d \in Column : d = at[a]
    BY <1>0
  <2>1. /\ a \in Task /\ Alone(a) /\ at' = at /\ pc'[a] = "cursor"
        /\ pc[a] = "apply" /\ crossed' = crossed
        /\ \A c \in Column \ {d} : SameColumn(c)
    BY <1>0, <1>12, <2>0, StepsAlone DEF Apply, Goto, SameColumn
  <2>2. TrackedAt(d)'
    BY <1>0, <2>0, <2>1, DecidingUntracked DEF Deciding
  <2>3. \A c : Restored(c)' => Restored(c)
    <3>1. CASE a = Usb
      BY <2>1, <3>1 DEF Restored
    <3>2. CASE a # Usb
      BY <2>1, <3>2, RestoredBack
    <3> QED BY <3>1, <3>2
  <2> QED BY <1>0, <1>1, <2>0, <2>1, <2>2, <2>3 DEF Unmoved
<1>13. ASSUME NEW a \in {Lvgl, Usb}, MoveCursor(a)
       PROVE  Tracked'
  <2>0. PICK c \in Column : c = at[a]
    BY <1>0
  <2> DEFINE k == conf[c]
  <2>1. /\ a \in Task /\ Alone(a) /\ pc[a] = "cursor"
        /\ UNCHANGED <<conf, sel, route>>
        /\ ptr' = [ptr EXCEPT ![c] = CursorAfter(k, arg[a], ptr[c])]
        /\ crossed' = IF met[a] THEN crossed \cup {c} ELSE crossed \ {c}
    BY <1>0, <1>13, <2>0, StepsAlone DEF MoveCursor, Decided
  <2>2. TrackedAt(c)'
    <3>1. CASE met[a]
      BY <2>1, <3>1 DEF TrackedAt
    <3>2. CASE ~met[a]
      <4>1. arg[a] \in State(k) /\ RouteOf(c, arg[a]) /\ sel[c] = arg[a]
        BY <1>a, <2>0, <2>1, <3>2 DEF DecisionOf
      <4>2. Radio(k) \/ CursorAfter(k, arg[a], ptr[c]) = CursorAfter(k, arg[a], 0)
        <5>1. Radio(k) \/ Cycles(k) \/ SixSteps(k)
          BY <1>b, <2>1, <4>1, StatesAreSlots DEF State, WellFormed
        <5>2. CASE Cycles(k) \/ SixSteps(k)
          BY <5>2 DEF CursorAfter
        <5> QED BY <5>1, <5>2
      <4>3. CursorAt(c, sel[c])'
        BY <1>0, <2>1, <4>1, <4>2 DEF CursorAt
      <4>4. RouteOf(c, sel[c])'
        BY <2>1, <4>1 DEF RouteOf
      <4> QED BY <4>3, <4>4 DEF TrackedAt
    <3> QED BY <3>1, <3>2
  <2>3. \A d \in Column \ {c} : SameColumn(d) /\ (d \notin crossed' => d \notin crossed)
    BY <1>0, <2>1 DEF SameColumn
  <2>4. \A d \in Column \ {c} : Restored(d)' => Restored(d)
    <3>1. CASE a = Usb
      BY <1>13, <2>0, <2>1, <3>1, RestoredUpTo DEF MoveCursor
    <3>2. CASE a # Usb
      BY <2>1, <3>2, RestoredBack
    <3> QED BY <3>1, <3>2
  <2> QED BY <1>1, <2>0, <2>1, <2>2, <2>3, <2>4 DEF Unmoved
<1>14. ASSUME NEW a \in Task, Sends(a)
       PROVE  Tracked'
  <2>1. /\ Alone(a) /\ UNCHANGED <<columns, crossed>>
        /\ pc[a] \in {"fill", "lamps", "compose", "send"}
        /\ pc'[a] \in {"idle", "fill", "lamps", "compose", "send"}
    BY <1>0, <1>14, StepsAlone
       DEF Sends, Finish, BeginFill, FillLamps, Compose, Send, Refused,
           Return, NextFrame, Goto, history
  <2>2. \A c : Restored(c)' => Restored(c)
    <3>1. CASE a = Usb
      BY <2>1, <3>1 DEF Restored
    <3>2. CASE a # Usb
      BY <2>1, <3>2, RestoredBack
    <3> QED BY <3>1, <3>2
  <2> QED BY <2>1, <2>2, UnmovedColumns DEF Deciding
<1> QED
  BY <1>2, <1>3, <1>4, <1>5, <1>6, <1>7, <1>8, <1>9, <1>10, <1>11, <1>12,
     <1>13, <1>14 DEF Next

------------------------------------------------------------------------------
(* Frames.                                                                  *)

(* What a frame tells depends on layouts and selections only.               *)
LEMMA ToldKept ==
  ASSUME UNCHANGED <<conf, sel>>, NEW c
  PROVE  Told(c)' = Told(c)
BY DEF Told, Lit

(* The frames of a task that no other disturbs are what they were.          *)
LEMMA FramesKept ==
  ASSUME Frames, NEW a \in Task, Alone(a), NEW b \in Task \ {a}
  PROVE  FramesOf(b)'
<1>1. /\ pc'[b] = pc[b] /\ at'[b] = at[b] /\ todo'[b] = todo[b]
      /\ mixed[b] => mixed'[b]
      /\ ~mixed'[b] /\ Sending(b) => UNCHANGED <<conf, sel, led, tx>>
  BY DEF Alone
<1>2. FramesOf(b) /\ (Sending(b)' <=> Sending(b))
  BY <1>1 DEF Frames, Sending
<1>3. CASE ~Sending(b) \/ mixed'[b]
  BY <1>1, <1>2, <1>3 DEF FramesOf
<1>4. CASE Sending(b) /\ ~mixed'[b]
  <2>1. PICK c : c = at[b]
    OBVIOUS
  <2>2. Told(c)' = Told(c)
    BY <1>1, <1>4, ToldKept
  <2> QED BY <1>1, <1>2, <1>4, <2>1, <2>2 DEF FramesOf
<1> QED BY <1>3, <1>4

(* A task that nobody disturbs sends what its column tells, to where it goes*)
LEMMA FramesStep ==
  ASSUME Types, Frames, Next
  PROVE  Frames'
<1>0. /\ Can \in Task /\ Lvgl \in Task /\ Usb \in Task
      /\ pc \in [Task -> Place] /\ at \in [Task -> Column]
      /\ todo \in [Task -> SUBSET Panels]
      /\ mixed \in [Task -> BOOLEAN]
      /\ \A a \in Task : FramesOf(a)
  BY PlacesOfTasks DEF Types, LocalTypes, PlaceTypes, Frames
<1>1. ASSUME NEW a \in Task, Alone(a), FramesOf(a)'
      PROVE  Frames'
  BY <1>1, FramesKept DEF Frames
<1>2. ASSUME NEW a \in Task, Alone(a), ~Sending(a)'
      PROVE  Frames'
  BY <1>1, <1>2 DEF FramesOf
<1>4. ASSUME \/ \E c \in Column, which \in Buttons : Press(c, which)
             \/ Accept \/ Reject \/ Choose \/ Advance \/ Store \/ SetRoute
             \/ RefreshRequest
      PROVE  Frames'
  <2>1. Alone(Can)
    BY <1>4, StepsAlone
  <2>2. ~Sending(Can)'
    BY <1>0, <1>4
       DEF Press, Accept, Reject, Choose, Advance, Store, SetRoute,
           RefreshRequest, Start, Return, Goto, Sending
  <2> QED BY <1>0, <1>2, <2>1, <2>2
<1>5. ASSUME Find \/ \E c \in Column, row \in UiInputs : Edit(c, row)
      PROVE  Frames'
  <2>1. Alone(Lvgl)
    BY <1>5, StepsAlone
  <2>2. ~Sending(Lvgl)'
    BY <1>0, <1>5 DEF Find, Edit, Start, Return, Goto, Sending
  <2> QED BY <1>0, <1>2, <2>1, <2>2
<1>6. ASSUME \/ \E img \in Images : Reconfigure(img)
             \/ ClearColumn \/ BuildColumn \/ Restore
      PROVE  Frames'
  <2>1. Alone(Usb)
    BY <1>6, StepsAlone
  <2>2. ~Sending(Usb)'
    BY <1>0, <1>6
       DEF Reconfigure, ClearColumn, BuildColumn, Restore, NextRestored,
           Start, Goto, Sending
  <2> QED BY <1>0, <1>2, <2>1, <2>2
<1>7. ASSUME NEW a \in {Lvgl, Usb}, Apply(a) \/ MoveCursor(a)
      PROVE  Frames'
  <2>1. a \in Task /\ Alone(a)
    BY <1>0, <1>7, StepsAlone
  <2>2. CASE Apply(a)
    <3>1. ~Sending(a)'
      BY <1>0, <2>1, <2>2 DEF Apply, Goto, Sending
    <3> QED BY <1>2, <2>1, <3>1
  <2>3. CASE MoveCursor(a)
    <3>1. ~Sending(a)'
      <4>1. CASE a = Usb
        BY <1>0, <2>1, <2>3, <4>1 DEF MoveCursor, NextRestored, Goto, Sending
      <4>2. CASE a # Usb
        BY <1>0, <2>1, <2>3, <4>2 DEF MoveCursor, Goto, Sending
      <4> QED BY <4>1, <4>2
    <3> QED BY <1>2, <2>1, <3>1
  <2> QED BY <1>7, <2>2, <2>3
<1>8. ASSUME NEW a \in Task, Finish(a)
      PROVE  Frames'
  <2>1. Alone(a) /\ ~Sending(a)'
    BY <1>0, <1>8, StepsAlone DEF Sends, Finish, Return, Goto, Sending
  <2> QED BY <1>2, <2>1
<1>9. ASSUME NEW a \in Task, BeginFill(a)
      PROVE  Frames'
  <2>0. Alone(a)
    BY <1>9, StepsAlone DEF Sends
  <2>1. CASE pc' = pc
    <3>1. ~Sending(a)'
      BY <1>9, <2>1 DEF BeginFill, Sending
    <3> QED BY <1>2, <2>0, <3>1
  <2>2. CASE pc' # pc
    <3>1. /\ pc'[a] = "lamps" /\ at'[a] = Head(plan[a]) /\ conf' = conf
          /\ todo'[a] = Targets(conf[Head(plan[a])])
      BY <1>0, <1>9, <2>2 DEF BeginFill, Goto, columns
    <3>2. FramesOf(a)'
      BY <3>1 DEF FramesOf
    <3> QED BY <1>1, <2>0, <3>2
  <2> QED BY <2>1, <2>2
<1>10. ASSUME NEW a \in Task, FillLamps(a)
       PROVE  Frames'
  <2>0. Alone(a)
    BY <1>10, StepsAlone DEF Sends
  <2>1. /\ pc[a] = "lamps" /\ led' = Told(at[a]) /\ mixed'[a] = mixed[a]
        /\ UNCHANGED <<conf, sel, todo, at>>
    BY <1>0, <1>10 DEF FillLamps, Stirs, columns
  <2>2. CASE todo[a] = {}
    <3>1. ~Sending(a)'
      BY <1>0, <1>10, <2>2 DEF FillLamps, NextFrame, Goto, Sending
    <3> QED BY <1>2, <2>0, <3>1
  <2>3. CASE todo[a] # {}
    <3>1. pc'[a] = "compose"
      BY <1>0, <1>10, <2>3 DEF FillLamps, NextFrame, Goto
    <3>2. PICK c : c = at[a]
      OBVIOUS
    <3>3. Told(c)' = Told(c)
      BY <2>1, ToldKept
    <3>4. ~mixed[a] => todo[a] \subseteq Targets(conf[c])
      BY <1>0, <2>1, <3>2 DEF FramesOf, Sending
    <3>5. FramesOf(a)'
      BY <2>1, <2>3, <3>1, <3>2, <3>3, <3>4 DEF FramesOf
    <3> QED BY <1>1, <2>0, <3>5
  <2> QED BY <2>2, <2>3
<1>11. ASSUME NEW a \in Task, Compose(a)
       PROVE  Frames'
  <2>0. Alone(a)
    BY <1>11, StepsAlone DEF Sends
  <2>1. PICK t \in todo[a] : /\ tx' = [to |-> t, tells |-> led]
                             /\ todo' = [todo EXCEPT ![a] = @ \ {t}]
    BY <1>11 DEF Compose
  <2>2. /\ pc[a] = "compose" /\ pc'[a] = "send" /\ mixed'[a] = mixed[a]
        /\ UNCHANGED <<conf, sel, led, at>>
    BY <1>0, <1>11 DEF Compose, Stirs, Goto, columns
  <2>3. PICK c : c = at[a]
    OBVIOUS
  <2>4. Told(c)' = Told(c)
    BY <2>2, ToldKept
  <2>5. ~mixed[a] => led = Told(c) /\ todo[a] \subseteq Targets(conf[c])
    BY <1>0, <2>2, <2>3 DEF FramesOf, Sending
  <2>6. todo'[a] = todo[a] \ {t} /\ tx'.to = t /\ tx'.tells = led
    BY <1>0, <2>1
  <2>7. FramesOf(a)'
    BY <2>1, <2>2, <2>3, <2>4, <2>5, <2>6 DEF FramesOf
  <2> QED BY <1>1, <2>0, <2>7
<1>12. ASSUME NEW a \in Task, Send(a) \/ Refused(a)
       PROVE  Frames'
  <2>0. Alone(a)
    BY <1>12, StepsAlone DEF Sends
  <2>1. /\ pc[a] = "send" /\ mixed' = mixed
        /\ UNCHANGED <<conf, sel, led, tx, todo, at>>
    BY <1>0, <1>12 DEF Send, Refused, columns, history
  <2>2. CASE todo[a] = {}
    <3>1. ~Sending(a)'
      BY <1>0, <1>12, <2>2 DEF Send, Refused, NextFrame, Goto, Sending
    <3> QED BY <1>2, <2>0, <3>1
  <2>3. CASE todo[a] # {}
    <3>1. pc'[a] = "compose"
      BY <1>0, <1>12, <2>3 DEF Send, Refused, NextFrame, Goto
    <3>2. PICK c : c = at[a]
      OBVIOUS
    <3>3. Told(c)' = Told(c)
      BY <2>1, ToldKept
    <3>4. ~mixed[a] => led = Told(c) /\ todo[a] \subseteq Targets(conf[c])
      BY <1>0, <2>1, <3>2 DEF FramesOf, Sending
    <3>5. FramesOf(a)'
      BY <2>1, <2>3, <3>1, <3>2, <3>3, <3>4 DEF FramesOf
    <3> QED BY <1>1, <2>0, <3>5
  <2> QED BY <2>2, <2>3
<1> QED
  BY <1>4, <1>5, <1>6, <1>7, <1>8, <1>9, <1>10, <1>11, <1>12 DEF Next, Sends

------------------------------------------------------------------------------
(* What the panels tell.                                                    *)

(* The head of a plan is its first column, and its tail lists the others.   *)
LEMMA TailLists ==
  ASSUME NEW S, NEW s \in Seq(S), s # <<>>, NEW c
  PROVE  /\ Lists(s, 1, c) => Head(s) = c \/ Lists(s, 2, c)
         /\ Lists(s, 2, c) => Lists(Tail(s), 1, c) /\ Len(s) > 1
<1>1. Len(s) \in Nat /\ Len(s) > 0 /\ Head(s) = s[1]
  OBVIOUS
<1>2. Len(Tail(s)) = Len(s) - 1 /\ \A i \in 1..Len(s)-1 : Tail(s)[i] = s[i+1]
  OBVIOUS
<1>3. ASSUME NEW i \in 1..Len(s), s[i] = c
      PROVE  Head(s) = c \/ Lists(s, 2, c)
  BY <1>1, <1>3 DEF Lists
<1>4. ASSUME NEW i \in 2..Len(s), s[i] = c
      PROVE  Lists(Tail(s), 1, c) /\ Len(s) > 1
  <2>1. i - 1 \in 1..Len(s)-1 /\ Tail(s)[i-1] = s[i]
    BY <1>1, <1>2, <1>4
  <2> QED BY <1>1, <1>2, <1>4, <2>1 DEF Lists
<1> QED BY <1>3, <1>4 DEF Lists

(* A single column's plan lists it, a broadcast's every column.             *)
LEMMA PlansList ==
  /\ \A c : Lists(<<c>>, 1, c)
  /\ \A c \in Column : Lists(Everyone, 1, c)
<1>1. \A c : Len(<<c>>) = 1 /\ <<c>>[1] = c
  OBVIOUS
<1>2. ASSUME NEW c \in Column
      PROVE  Lists(Everyone, 1, c)
  <2>1. c + 1 \in 1..NumColumns+1 /\ c + 1 <= NumColumns /\ c + 1 - 1 = c
    BY SizeAssumption DEF Column
  <2>2. Everyone[c + 1] = c
    <3>1. PICK i \in 1..NumColumns+1 : i = c + 1
      BY <2>1
    <3>2. Everyone[i] = IF i > NumColumns THEN None ELSE i - 1
      BY DEF Everyone
    <3>3. c \in Int /\ NumColumns \in Int
      BY SizeAssumption DEF Column
    <3> QED BY <2>1, <3>1, <3>2, <3>3
  <2>3. Len(Everyone) = NumColumns + 1
    BY SizeAssumption DEF Everyone
  <2> QED BY <2>1, <2>2, <2>3 DEF Lists
<1> QED BY <1>1, <1>2 DEF Lists

(* A step of one task leaves the others to send what they will.             *)
LEMMA ServesKept ==
  ASSUME NEW a \in Task, Alone(a), NEW b \in Task \ {a}, NEW c, NEW t,
         Types, Serves(b, c, t)
  PROVE  Serves(b, c, t)'
<1>1. /\ pc'[b] = pc[b] /\ at'[b] = at[b] /\ plan'[b] = plan[b]
      /\ todo'[b] = todo[b]
      /\ mixed[b] => mixed'[b]
      /\ Sending(b)' <=> Sending(b)
      /\ Sending(b) => mixed'[b] \/ tx' = tx
  BY DEF Alone, Sending
<1>2. WillSend(b, c) => WillSend(b, c)'
  BY <1>1 DEF WillSend
<1>3. ASSUME IsSending(b, c, t)
      PROVE  IsSending(b, c, t)'
  <2>1. /\ Sending(b)' /\ at'[b] = c
    BY <1>1, <1>3 DEF IsSending
  <2>2. CASE t \in todo[b]
    BY <1>1, <2>1, <2>2 DEF IsSending
  <2>3. CASE pc[b] = "send" /\ t = tx.to
    BY <1>1, <2>1, <2>3 DEF IsSending
  <2>4. CASE mixed[b] /\ (pc[b] = "send" \/ todo[b] # {})
    BY <1>1, <2>1, <2>4 DEF IsSending
  <2> QED BY <1>3, <2>2, <2>3, <2>4 DEF IsSending
<1> QED BY <1>2, <1>3 DEF Serves

(* What task a itself goes on to send.                                      *)
KeepsServing(a) ==
    \A c \in Configured : \A t \in Targets(conf[c]) :
        Serves(a, c, t) => Serves(a, c, t)'

(* While an upload works on the columns it is about to send them all.       *)
LEMMA ReconfiguringKept ==
  ASSUME NEW a \in Task, a # Usb, Alone(a)
  PROVE  Reconfiguring' <=> Reconfiguring
BY PlacesOfTasks DEF Alone, Reconfiguring

(* A step after which the panels show what they showed.                     *)
LEMMA QuietStep ==
  ASSUME Types, Covered, NEW a \in Task, Alone(a),
         a # Usb \/ ~Reconfiguring,
         UNCHANGED <<conf, sel, panel, spoiled>>, KeepsServing(a)
  PROVE  Covered'
<1>1. CASE Reconfiguring
  BY <1>1, ReconfiguringKept DEF Covered
<1>2. CASE ~Reconfiguring
  <2> SUFFICES ASSUME NEW c \in Configured, NEW t \in Targets(conf[c]) \ spoiled
               PROVE  CoveredAt(c, t)'
    BY DEF Covered, Configured
  <2>1. CoveredAt(c, t)
    BY <1>2 DEF Covered
  <2>2. /\ sel'[c] \in State(conf'[c]) <=> sel[c] \in State(conf[c])
        /\ OnlyPartnersShare(c, t)' <=> OnlyPartnersShare(c, t)
        /\ c \in panel'[t] <=> c \in panel[t]
    BY DEF OnlyPartnersShare
  <2>3. ASSUME NEW b \in Task, Serves(b, c, t)
        PROVE  Serves(b, c, t)'
    <3>1. CASE b = a
      BY <2>3, <3>1 DEF KeepsServing
    <3>2. CASE b # a
      BY <2>3, <3>2, ServesKept
    <3> QED BY <3>1, <3>2
  <2>4. CASE \E b \in Task : Serves(b, c, t)
    <3>1. PICK b \in Task : Serves(b, c, t)
      BY <2>4
    <3>2. Serves(b, c, t)'
      BY <2>3, <3>1
    <3> QED BY <3>2 DEF CoveredAt
  <2>5. CASE ~\E b \in Task : Serves(b, c, t)
    BY <2>1, <2>2, <2>5 DEF CoveredAt
  <2> QED BY <2>4, <2>5
<1> QED BY <1>1, <1>2

(* A selection stored is still to be sent.                                  *)
LEMMA StoreStep ==
  ASSUME Types, Covered, NEW a \in Task \ {Usb}, Alone(a), NEW d \in Column,
         at[a] = d, at' = at, pc[a] \notin {"set", "cursor", "fill"}, ~Sending(a),
         pc'[a] \in {"set", "cursor"},
         sel' = [sel EXCEPT ![d] = arg[a]], Outdate(d),
         UNCHANGED <<conf, spoiled>>
  PROVE  Covered'
<1>1. CASE Reconfiguring
  BY <1>1, ReconfiguringKept DEF Covered
<1>2. CASE ~Reconfiguring
  <2>0. /\ sel \in [Column -> Slot] /\ panel \in [Panels -> SUBSET Column]
        /\ \A c \in Column : Targets(conf[c]) \subseteq Panels
    BY DEF Types, ColumnTypes, FrameTypes
  <2> SUFFICES ASSUME NEW c \in Configured, NEW t \in Targets(conf[c]) \ spoiled
               PROVE  CoveredAt(c, t)'
    BY DEF Covered, Configured
  <2>1. c \in Column /\ t \in Panels
    BY <2>0 DEF Configured
  <2>2. CASE c = d
    <3>1. Serves(a, c, t)'
      BY <2>2 DEF Serves, WillSend
    <3> QED BY <3>1 DEF CoveredAt
  <2>3. CASE c # d
    <3>1. CoveredAt(c, t)
      BY <1>2 DEF Covered
    <3>2. /\ sel'[c] \in State(conf'[c]) <=> sel[c] \in State(conf[c])
          /\ OnlyPartnersShare(c, t)' <=> OnlyPartnersShare(c, t)
          /\ c \in panel'[t] <=> c \in panel[t]
      BY <2>0, <2>1, <2>3 DEF OnlyPartnersShare, Outdate
    <3>3. ~Serves(a, c, t)
      BY DEF Serves, WillSend, IsSending
    <3>4. CASE \E b \in Task : Serves(b, c, t)
      <4>1. PICK b \in Task : Serves(b, c, t)
        BY <3>4
      <4>2. Serves(b, c, t)'
        BY <3>3, <4>1, ServesKept
      <4> QED BY <4>2 DEF CoveredAt
    <3>5. CASE ~\E b \in Task : Serves(b, c, t)
      BY <3>1, <3>2, <3>5 DEF CoveredAt
    <3> QED BY <3>4, <3>5
  <2> QED BY <2>2, <2>3
<1> QED BY <1>1, <1>2

(* At the end of an upload every column is to be sent.                      *)
LEMMA EveryoneStep ==
  ASSUME pc'[Usb] \in {"fill"}, plan'[Usb] = Everyone
  PROVE  Covered'
<1> SUFFICES ASSUME NEW c \in Column, NEW t
             PROVE  CoveredAt(c, t)'
  BY DEF Covered, Configured
<1>1. Lists(plan'[Usb], 1, c)
  BY PlansList
<1>2. Serves(Usb, c, t)'
  BY <1>1 DEF Serves, WillSend
<1> QED BY <1>2, PlacesOfTasks DEF CoveredAt

(* A task that goes back to its plan after a frame has no frame left, and   *)
(* the columns it has yet to come to are still listed.                      *)
LEMMA NextFrameServes ==
  ASSUME Types, NEW a \in Task, Sending(a), NextFrame(a), at'[a] = at[a],
         todo'[a] = todo[a], mixed'[a] = mixed[a], NEW c, NEW t
  PROVE  /\ WillSend(a, c) => Serves(a, c, t)'
         /\ at[a] = c /\ (t \in todo[a] \/ (mixed[a] /\ todo[a] # {}))
               => Serves(a, c, t)'
<1>0. /\ pc \in [Task -> Place] /\ plan[a] \in Seq(Column \cup {None})
      /\ plan \in [Task -> Seq(Column \cup {None})] /\ plan[a] # <<>>
  BY DEF Types, PlaceTypes, LocalTypes
<1>1. WillSend(a, c) => Lists(plan[a], 2, c)
  BY DEF WillSend, Sending
<1>2. CASE todo[a] # {}
  <2>1. pc'[a] = "compose" /\ plan'[a] = plan[a]
    BY <1>0, <1>2 DEF NextFrame, Goto
  <2>2. Sending(a)'
    BY <2>1 DEF Sending
  <2> QED BY <1>1, <2>1, <2>2 DEF Serves, WillSend, IsSending
<1>3. CASE todo[a] = {}
  <2>1. pc'[a] = "fill" /\ plan'[a] = Tail(plan[a])
    BY <1>0, <1>3 DEF NextFrame, Goto
  <2>2. Lists(plan[a], 2, c) => Lists(Tail(plan[a]), 1, c)
    BY <1>0, TailLists
  <2> QED BY <1>1, <1>3, <2>1, <2>2 DEF Serves, WillSend
<1> QED BY <1>2, <1>3

(* A frame sent: undisturbed, and of a column with a state of its own, it   *)
(* tells the columns that share the panel, since a column merges its        *)
(* partner's lamps into its own.  A frame refused spoils its panel.         *)
LEMMA SendStep ==
  ASSUME Types, Frames, Covered, NEW a \in Task, Send(a) \/ Refused(a)
  PROVE  Covered'
<1>0. /\ pc \in [Task -> Place] /\ panel \in [Panels -> SUBSET Column]
      /\ \A c \in Column : Targets(conf[c]) \subseteq Panels
  BY DEF Types, PlaceTypes, ColumnTypes, FrameTypes
<1>1. /\ Alone(a) /\ pc[a] = "send" /\ NextFrame(a) /\ Sending(a)
      /\ UNCHANGED <<conf, sel, todo, at, mixed, tx>>
      /\ \A t \in Panels : panel'[t] = panel[t] \/ t = tx.to
      /\ \A t : t \notin spoiled' =>
            /\ t = tx.to => /\ ~mixed[a] /\ Lit(at[a])
                            /\ t \in Panels => panel'[t] = tx.tells
            /\ t # tx.to => /\ t \notin spoiled
                            /\ mixed[a] => t \notin Targets(conf[at[a]])
  <2>1. CASE Send(a)
    BY <1>0, <2>1, StepsAlone
       DEF Sends, Send, Receivers, Sending, columns, history, Next
  <2>2. CASE Refused(a)
    BY <1>0, <2>2, StepsAlone
       DEF Sends, Refused, Receivers, Sending, columns, history, Next
  <2> QED BY <2>1, <2>2
<1>2. CASE Reconfiguring
  <2>1. Reconfiguring'
    <3>1. CASE a = Usb
      BY <1>1, <1>2, <3>1 DEF Reconfiguring
    <3>2. CASE a # Usb
      BY <1>1, <1>2, <3>2, ReconfiguringKept
    <3> QED BY <3>1, <3>2
  <2> QED BY <2>1 DEF Covered
<1>3. CASE ~Reconfiguring
  <2> SUFFICES ASSUME NEW c \in Configured, NEW t \in Targets(conf[c]) \ spoiled',
                      sel[c] \in State(conf[c]), OnlyPartnersShare(c, t)
               PROVE  c \in panel'[t] \/ \E b \in Task : Serves(b, c, t)'
    BY <1>1 DEF Covered, CoveredAt, Configured, OnlyPartnersShare
  <2>1. c \in Column /\ t \in Panels
    BY <1>0 DEF Configured
  <2>2. CASE t = tx.to
    <3>1. ~mixed[a] /\ Lit(at[a]) /\ panel'[t] = tx.tells
      BY <1>1, <2>1, <2>2
    <3>2. tx.tells = Told(at[a]) /\ t \in Targets(conf[at[a]]) /\ at[a] \in Column
      BY <1>1, <2>2, <3>1 DEF Frames, FramesOf, Types, LocalTypes
    <3>3. at[a] = c \/ Partner(conf, at[a]) = c
      BY <3>2 DEF OnlyPartnersShare
    <3>4. c \in Told(at[a])
      BY <2>1, <3>1, <3>3 DEF Told, Lit
    <3> QED BY <3>1, <3>2, <3>4
  <2>3. CASE t # tx.to
    <3>1. /\ t \notin spoiled /\ CoveredAt(c, t)
          /\ mixed[a] => at[a] # c
      BY <1>1, <1>3, <2>3 DEF Covered
    <3>2. CASE c \in panel[t]
      BY <1>1, <2>1, <2>3, <3>2
    <3>3. CASE c \notin panel[t]
      <4>1. PICK b \in Task : Serves(b, c, t)
        BY <3>1, <3>3 DEF CoveredAt
      <4>2. CASE b # a
        <5>1. Serves(b, c, t)'
          BY <1>1, <4>1, <4>2, ServesKept
        <5> QED BY <5>1
      <4>3. CASE b = a /\ WillSend(a, c)
        <5>1. Serves(a, c, t)'
          BY <1>1, <4>3, NextFrameServes
        <5> QED BY <5>1
      <4>4. CASE b = a /\ IsSending(a, c, t)
        <5>1. at[a] = c /\ ~mixed[a]
          BY <3>1, <4>4 DEF IsSending
        <5>2. t \in todo[a]
          BY <2>3, <4>4, <5>1 DEF IsSending
        <5>3. Serves(a, c, t)'
          BY <1>1, <5>1, <5>2, NextFrameServes
        <5> QED BY <5>3
      <4> QED BY <4>1, <4>2, <4>3, <4>4 DEF Serves
    <3> QED BY <3>2, <3>3
  <2> QED BY <2>2, <2>3
<1> QED BY <1>2, <1>3

(* Every panel tells the selections of its columns, or is about to.         *)
LEMMA CoveredStep ==
  ASSUME Types, Frames, Covered, Next
  PROVE  Covered'
<1> USE TasksDiffer
<1>0. /\ Can \in Task /\ Lvgl \in Task /\ Usb \in Task
      /\ pc \in [Task -> Place] /\ at \in [Task -> Column]
      /\ plan \in [Task -> Seq(Column \cup {None})]
      /\ todo \in [Task -> SUBSET Panels]
  BY PlacesOfTasks DEF Types, LocalTypes, PlaceTypes
<1>1. ASSUME NEW a \in Task,
             pc[a] \in {"idle", "pulse", "choose", "advance", "store", "find",
                        "apply", "clear", "build", "restore"}
      PROVE  KeepsServing(a)
  BY <1>1 DEF KeepsServing, Serves, WillSend, IsSending, Sending
<1>2. ASSUME NEW a \in Task, a # Usb, Alone(a),
             UNCHANGED <<conf, sel, panel, spoiled>>,
             pc[a] \in {"idle", "pulse", "choose", "advance", "store", "find",
                        "apply"}
      PROVE  Covered'
  BY <1>1, <1>2, QuietStep
<1>3. ASSUME \/ \E c \in Column, which \in Buttons : Press(c, which)
             \/ Accept \/ Reject \/ Choose \/ Advance \/ RefreshRequest
      PROVE  Covered'
  <2>1. Alone(Can)
    BY <1>3, StepsAlone
  <2>2. /\ pc[Can] \in {"idle", "pulse", "choose", "advance"}
        /\ UNCHANGED <<conf, sel, panel, spoiled>>
    BY <1>3
       DEF Press, Accept, Reject, Choose, Advance, RefreshRequest, Start,
           columns, frames
  <2> QED BY <1>0, <1>2, <2>1, <2>2
<1>4. ASSUME Find \/ \E c \in Column, row \in UiInputs : Edit(c, row)
      PROVE  Covered'
  <2>1. Alone(Lvgl)
    BY <1>4, StepsAlone
  <2>2. pc[Lvgl] \in {"idle", "find"} /\ UNCHANGED <<conf, sel, panel, spoiled>>
    BY <1>4 DEF Find, Edit, Start, columns, frames
  <2> QED BY <1>0, <1>2, <2>1, <2>2
<1>5. ASSUME Store
      PROVE  Covered'
  <2>0. PICK d \in Column : d = at[Can]
    BY <1>0
  <2>1. /\ Alone(Can) /\ pc[Can] = "store" /\ pc'[Can] = "set" /\ at' = at
        /\ sel' = [sel EXCEPT ![d] = arg[Can]] /\ Outdate(d)
        /\ UNCHANGED <<conf, spoiled>>
    BY <1>0, <1>5, <2>0, StepsAlone DEF Store, Goto
  <2> QED BY <1>0, <2>0, <2>1, StoreStep DEF Sending
<1>6. ASSUME NEW a \in Task, a # Usb, Alone(a), NEW c, at[a] = c,
             pc[a] \in {"set", "cursor"}, pc'[a] = "fill", plan'[a] = <<c>>,
             UNCHANGED <<conf, sel, panel, spoiled>>
      PROVE  Covered'
  <2>1. KeepsServing(a)
    <3> SUFFICES ASSUME NEW d \in Configured, NEW t \in Targets(conf[d]),
                        Serves(a, d, t)
                 PROVE  Serves(a, d, t)'
      BY DEF KeepsServing
    <3>1. d = c
      BY <1>6 DEF Serves, WillSend, IsSending, Sending
    <3>2. Lists(plan'[a], 1, d)
      BY <1>6, <3>1, PlansList
    <3> QED BY <1>6, <3>2 DEF Serves, WillSend
  <2> QED BY <1>6, <2>1, QuietStep
<1>7. ASSUME SetRoute
      PROVE  Covered'
  <2>0. PICK d \in Column : d = at[Can]
    BY <1>0
  <2>1. /\ Alone(Can) /\ pc[Can] = "set" /\ pc'[Can] = "fill"
        /\ plan'[Can] = <<d>> /\ UNCHANGED <<conf, sel, panel, spoiled>>
    BY <1>0, <1>7, <2>0, StepsAlone DEF SetRoute, Goto, frames
  <2> QED BY <1>0, <1>6, <2>0, <2>1
<1>8. ASSUME Reconfiguring'
      PROVE  Covered'
  BY <1>8 DEF Covered
<1>9. ASSUME NextRestored(at[Usb])
      PROVE  Covered'
  <2>1. pc'[Usb] \in {"fill", "restore"} /\ plan'[Usb] = Everyone
    BY <1>0, <1>9 DEF NextRestored, Goto
  <2> QED BY <1>8, <2>1, EveryoneStep DEF Reconfiguring
<1>10. ASSUME \/ \E img \in Images : Reconfigure(img)
              \/ ClearColumn \/ BuildColumn
       PROVE  Covered'
  <2>1. pc'[Usb] \in {"clear", "build", "restore"}
    BY <1>0, <1>10 DEF Reconfigure, ClearColumn, BuildColumn, Start, Goto
  <2> QED BY <1>8, <2>1 DEF Reconfiguring
<1>11. ASSUME Restore
       PROVE  Covered'
  <2>1. NextRestored(at[Usb]) \/ pc'[Usb] = "apply"
    BY <1>0, <1>11 DEF Restore, Goto
  <2> QED BY <1>8, <1>9, <2>1 DEF Reconfiguring
<1>12. ASSUME NEW a \in {Lvgl, Usb}, Apply(a)
       PROVE  Covered'
  <2>1. CASE a = Usb
    <3>1. pc'[Usb] = "cursor"
      BY <1>0, <1>12, <2>1 DEF Apply, Goto
    <3> QED BY <1>8, <3>1 DEF Reconfiguring
  <2>2. CASE a # Usb
    <3>0. PICK d \in Column : d = at[a]
      BY <1>0
    <3>1. /\ Alone(a) /\ pc[a] = "apply" /\ pc'[a] = "cursor" /\ at' = at
          /\ sel' = [sel EXCEPT ![d] = arg[a]] /\ Outdate(d)
          /\ UNCHANGED <<conf, spoiled>>
      BY <1>0, <1>12, <3>0, StepsAlone DEF Apply, Goto
    <3> QED BY <1>0, <2>2, <3>0, <3>1, StoreStep DEF Sending
  <2> QED BY <2>1, <2>2
<1>13. ASSUME NEW a \in {Lvgl, Usb}, MoveCursor(a)
       PROVE  Covered'
  <2>1. CASE a = Usb
    BY <1>9, <1>13, <2>1 DEF MoveCursor
  <2>2. CASE a # Usb
    <3>0. PICK d \in Column : d = at[a]
      BY <1>0
    <3>1. /\ Alone(a) /\ pc[a] = "cursor" /\ pc'[a] = "fill"
          /\ plan'[a] = <<d>> /\ UNCHANGED <<conf, sel, panel, spoiled>>
      BY <1>0, <1>13, <2>2, <3>0, StepsAlone DEF MoveCursor, Goto, frames
    <3> QED BY <1>0, <1>6, <2>2, <3>0, <3>1
  <2> QED BY <2>1, <2>2
<1>14. ASSUME NEW a \in Task, Sends(a),
              UNCHANGED <<conf, sel, panel, spoiled>>, KeepsServing(a)
       PROVE  Covered'
  <2>1. Alone(a) /\ pc[a] \in {"fill", "lamps", "compose", "send"}
    BY <1>14, StepsAlone
       DEF Sends, Finish, BeginFill, FillLamps, Compose, Send, Refused
  <2>2. CASE a # Usb \/ ~Reconfiguring
    BY <1>14, <2>1, <2>2, QuietStep
  <2>3. CASE a = Usb
    BY <1>14, <2>1, <2>2, <2>3 DEF Reconfiguring
  <2> QED BY <2>2, <2>3
<1>15. ASSUME NEW a \in Task, Finish(a)
       PROVE  Covered'
  <2>1. UNCHANGED <<conf, sel, panel, spoiled>>
    BY <1>15 DEF Finish, columns, frames
  <2>2. KeepsServing(a)
    <3>1. pc[a] = "fill" /\ \A c : ~Lists(plan[a], 1, c)
      BY <1>15 DEF Finish, Lists
    <3> QED BY <3>1 DEF KeepsServing, Serves, WillSend, IsSending, Sending
  <2> QED BY <1>14, <1>15, <2>1, <2>2 DEF Sends
<1>16. ASSUME NEW a \in Task, BeginFill(a)
       PROVE  Covered'
  <2>1. UNCHANGED <<conf, sel, panel, spoiled>> /\ pc[a] = "fill" /\ plan[a] # <<>>
    BY <1>16 DEF BeginFill, columns
  <2>2. KeepsServing(a)
    <3> SUFFICES ASSUME NEW c \in Configured, NEW t \in Targets(conf[c]),
                        Serves(a, c, t)
                 PROVE  Serves(a, c, t)'
      BY DEF KeepsServing
    <3>1. Lists(plan[a], 1, c)
      BY <2>1 DEF Serves, WillSend, IsSending, Sending
    <3>2. /\ Head(plan[a]) = c \/ Lists(plan[a], 2, c)
          /\ Lists(plan[a], 2, c) => Lists(Tail(plan[a]), 1, c)
      BY <1>0, <2>1, <3>1, TailLists
    <3>3. c # None /\ conf[c].len # 0
      BY SizeFacts DEF Configured
    <3>4. CASE pc' = pc
      <4>1. /\ plan'[a] = Tail(plan[a]) /\ pc'[a] = "fill"
            /\ Head(plan[a]) = None \/ conf[Head(plan[a])].len = 0
        BY <1>0, <1>16, <2>1, <3>4 DEF BeginFill, Goto
      <4>2. Lists(Tail(plan[a]), 1, c)
        BY <3>2, <3>3, <4>1
      <4> QED BY <4>1, <4>2 DEF Serves, WillSend
    <3>5. CASE pc' # pc
      <4>1. /\ pc'[a] = "lamps" /\ at'[a] = Head(plan[a]) /\ plan' = plan
            /\ todo'[a] = Targets(conf[Head(plan[a])])
        BY <1>0, <1>16, <3>5 DEF BeginFill, Goto
      <4> QED BY <3>2, <4>1 DEF Serves, WillSend, IsSending, Sending
    <3> QED BY <3>4, <3>5
  <2> QED BY <1>14, <1>16, <2>1, <2>2 DEF Sends
<1>17. ASSUME NEW a \in Task, FillLamps(a)
       PROVE  Covered'
  <2>1. /\ UNCHANGED <<conf, sel, panel, spoiled>> /\ pc[a] = "lamps"
        /\ NextFrame(a) /\ at'[a] = at[a] /\ todo'[a] = todo[a]
        /\ mixed'[a] = mixed[a] /\ Sending(a)
    BY <1>0, <1>17 DEF FillLamps, Stirs, Sending, columns, Types, LocalTypes
  <2>2. KeepsServing(a)
    <3> SUFFICES ASSUME NEW c \in Configured, NEW t \in Targets(conf[c]),
                        Serves(a, c, t)
                 PROVE  Serves(a, c, t)'
      BY DEF KeepsServing
    <3>1. /\ WillSend(a, c) => Serves(a, c, t)'
          /\ at[a] = c /\ (t \in todo[a] \/ (mixed[a] /\ todo[a] # {}))
                => Serves(a, c, t)'
      BY <2>1, NextFrameServes
    <3>2. CASE WillSend(a, c)
      BY <3>1, <3>2
    <3>3. CASE IsSending(a, c, t)
      <4>1. at[a] = c /\ (t \in todo[a] \/ (mixed[a] /\ todo[a] # {}))
        BY <2>1, <3>3 DEF IsSending
      <4> QED BY <3>1, <4>1
    <3> QED BY <3>2, <3>3 DEF Serves
  <2> QED BY <1>14, <1>17, <2>1, <2>2 DEF Sends
<1>18. ASSUME NEW a \in Task, Compose(a)
       PROVE  Covered'
  <2>1. /\ UNCHANGED <<conf, sel, panel, spoiled>> /\ pc[a] = "compose"
        /\ pc'[a] = "send" /\ at' = at /\ plan' = plan /\ mixed'[a] = mixed[a]
    BY <1>0, <1>18 DEF Compose, Stirs, Goto, columns, Types, LocalTypes
  <2>2. PICK u \in todo[a] : /\ tx' = [to |-> u, tells |-> led]
                             /\ todo' = [todo EXCEPT ![a] = @ \ {u}]
    BY <1>18 DEF Compose
  <2>3. todo'[a] = todo[a] \ {u} /\ tx'.to = u
    BY <1>0, <2>2
  <2>4. KeepsServing(a)
    <3> SUFFICES ASSUME NEW c \in Configured, NEW t \in Targets(conf[c]),
                        Serves(a, c, t)
                 PROVE  Serves(a, c, t)'
      BY DEF KeepsServing
    <3>1. CASE WillSend(a, c)
      BY <2>1, <3>1 DEF Serves, WillSend, Sending
    <3>2. CASE IsSending(a, c, t)
      <4>1. /\ at[a] = c /\ Sending(a)'
            /\ t \in todo[a] \/ mixed[a]
        BY <2>1, <3>2 DEF IsSending, Sending
      <4> QED BY <2>1, <2>3, <4>1 DEF Serves, IsSending
    <3> QED BY <3>1, <3>2 DEF Serves
  <2> QED BY <1>14, <1>18, <2>1, <2>4 DEF Sends
<1> QED
  BY <1>3, <1>4, <1>5, <1>7, <1>10, <1>11, <1>12, <1>13, <1>15, <1>16, <1>17,
     <1>18, SendStep DEF Next, Sends

------------------------------------------------------------------------------
(* Theorems.                                                                *)

(* Nothing but steps changes what the invariant speaks of.                  *)
LEMMA StutterStep ==
  ASSUME IInv, UNCHANGED vars
  PROVE  IInv'
<1>1. Types'
  BY TypesStep DEF IInv
<1>2. Decision'
  BY DEF IInv, vars, columns, history, Decision, DecisionOf, Deciding,
         CursorAt, RouteOf
<1>3. Tracked'
  BY DEF IInv, vars, columns, history, Tracked, TrackedAt, Configured,
         Restored, Undecided, Unedited, Deciding, CursorAt, RouteOf,
         FullyAssigned
<1>4. Frames'
  BY DEF IInv, vars, columns, frames, history, Frames, FramesOf, Sending, Told,
         Lit
<1>5. Covered'
  BY DEF IInv, vars, columns, frames, history, Covered, CoveredAt, Configured,
         Reconfiguring, OnlyPartnersShare, Serves, WillSend, IsSending, Sending
<1> QED BY <1>1, <1>2, <1>3, <1>4, <1>5 DEF IInv

(* The inductive invariant: can_latest.c as its three tasks run it.         *)
THEOREM Invariance == Spec => []IInv
<1>1. Init => IInv
  BY InitIInv
<1>2. IInv /\ [Next]_vars => IInv'
  <2>1. ASSUME IInv, Next
        PROVE  IInv'
    BY <2>1, TypesStep, DecisionStep, TrackedStep, FramesStep, CoveredStep
       DEF IInv
  <2> QED BY <2>1, StutterStep
<1> QED BY <1>1, <1>2, PTL DEF Spec

(* However the handlers of the three tasks meet, an upload's among them, no *)
(* index leaves rows[] or led_order[] (can_latest.c:479).                   *)
THEOREM TypeCorrectness == Spec => []TypeOK
<1>1. IInv => TypeOK
  BY DEF IInv, Types, ColumnTypes, FrameTypes, TypeOK
<1> QED BY <1>1, Invariance, PTL

(* Selection, cursor and route of a column agree whenever no handler is at  *)
(* the column, but where two have met there since it was last settled.      *)
THEOREM SelectionCorrectness == Spec => []SelectionIsRouted
<1>1. IInv => SelectionIsRouted
  <2> SUFFICES ASSUME IInv, NEW c \in Configured \ crossed, Settled(c)
               PROVE  /\ sel[c] \in State(conf[c])
                      /\ Radio(conf[c]) \/ ptr[c] = CursorAfter(conf[c], sel[c], 0)
                      /\ FullyAssigned(conf[c]) => RouteOf(c, sel[c])
    BY DEF SelectionIsRouted, RouteOf
  <2>1. Restored(c) /\ Undecided(c) /\ Unedited(c) /\ c \in Column
    BY DEF Settled, Restored, Undecided, Unedited, Configured
  <2> QED BY <2>1 DEF IInv, Tracked, TrackedAt, CursorAt
<1> QED BY <1>1, Invariance, PTL

(* Once the handlers are done, every panel tells the selection of its       *)
(* columns, but a panel whose last frame another task disturbed, had no     *)
(* slot, or was dark since its column had no state (see PanelsTellSelection).*)
THEOREM PanelsCorrectness == Spec => []PanelsTellSelection
<1>1. IInv => PanelsTellSelection
  <2> SUFFICES ASSUME IInv, \A a \in Task : pc[a] = "idle",
                      NEW c \in Configured, sel[c] \in State(conf[c]),
                      NEW t \in Targets(conf[c]) \ spoiled,
                      OnlyPartnersShare(c, t)
               PROVE  c \in panel[t]
    BY DEF PanelsTellSelection, Lit
  <2>1. ~Reconfiguring /\ \A a \in Task : ~Serves(a, c, t)
    BY PlacesOfTasks
       DEF Reconfiguring, Serves, WillSend, IsSending, Sending
  <2> QED BY <2>1 DEF IInv, Covered, CoveredAt
<1> QED BY <1>1, Invariance, PTL
==============================================================================
