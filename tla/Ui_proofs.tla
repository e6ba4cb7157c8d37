------------------------------ MODULE Ui_proofs ------------------------------
(****************************************************************************)
(* Theorems about Ui, for any size of the matrix, any range of brightness   *)
(* and any number of queued updates: the screen shows what is routed,       *)
(* unless changes crossed or were lost, and the brightness in use is the    *)
(* one saved.                                                               *)
(*                                                                          *)
(* ScreenTellsRoute is not inductive: the invariant must say that what is   *)
(* on the way to the screen is what is routed, in the right order, and that *)
(* an edit that no update disturbed goes back to what is routed.            *)
(****************************************************************************)
EXTENDS Ui, SequenceTheorems, TLAPS

(* The splash hides the matrix, and before the callback is registered no    *)
(* update is queued.                                                        *)
BootOrder ==
    /\ screen = "splash" <=> boot \in {"build", "splash"}
    /\ edit => screen = "main"
    /\ updated => edit
    /\ boot # "ready" => calls = <<>>

(* An output whose changes crossed nothing has one update queued at most,   *)
(* and the last thing on the way to the screen is what is routed.           *)
UpdatesCarryRoutes ==
    \A o \in Output \ crossed :
        /\ task # Nothing /\ task[1] = o => task[2] = route[o]
        /\ task = Nothing \/ task[1] # o =>
              \A n \in DOMAIN calls : calls[n][1] = o => calls[n][2] = route[o]
        /\ \A n, m \in DOMAIN calls :
              calls[n][1] = o /\ calls[m][1] = o => n = m

(* When nothing is on the way, the copy is the route; during an edit, what  *)
(* a long press brings back is.                                             *)
CopiesAreRoutes ==
    boot # "build" =>
        \A o \in Output \ crossed :
            ~OnTheWay(o) =>
                IF edit /\ sel = o THEN saved = route[o] \/ updated
                                   ELSE copy[o] = route[o]

(* What a long press on the brightness screen brings back is saved.         *)
SavedPctIsSaved ==
    screen = "brightness" => Restored(stored) = savedPct \/ failed

------------------------------------------------------------------------------
(* Numbers, apart from the rest because of what the provers can mix.        *)

(* A selection moved by a detent wraps around.                              *)
LEMMA Wraps ==
  ASSUME NEW n \in Nat \ {0}, NEW k \in 0..n-1, NEW d \in {-1, 1}
  PROVE  (k + d + n) % n \in 0..n-1
  OBVIOUS

(* The accumulator stays below a detent.                                    *)
LEMMA HalfTurn ==
  ASSUME accum \in -1..1, NEW d \in {-1, 1}
  PROVE  Turned(d) \in -1..1
  BY DEF Turned, Detent

LEMMA Shift ==
  ASSUME NEW L \in Nat, NEW n \in 1..L
  PROVE  /\ n - 1 + (L - n) = L - 1
         /\ \A k \in 1..L-1 : k < n => k \in 1..n-1 /\ k <= n-1
         /\ \A k \in 1..L-1 : ~(k < n) =>
               /\ ~(k <= n-1)
               /\ k - (n-1) \in 1..L-n
               /\ n + (k - (n-1)) = k + 1
  OBVIOUS

(* The calls left after one has run are the others, once each.              *)
LEMMA Others ==
  ASSUME NEW S, NEW s \in Seq(S), NEW n \in DOMAIN s
  PROVE  /\ RemoveAt(s, n) \in Seq(S)
         /\ Len(RemoveAt(s, n)) = Len(s) - 1
         /\ \A k \in DOMAIN RemoveAt(s, n) :
               \E j \in DOMAIN s : j # n /\ RemoveAt(s, n)[k] = s[j]
         /\ \A j \in DOMAIN s : j # n =>
               \E k \in DOMAIN RemoveAt(s, n) : RemoveAt(s, n)[k] = s[j]
         /\ \A k, l \in DOMAIN RemoveAt(s, n) : k # l =>
               \E j, m \in DOMAIN s :
                  j # m /\ RemoveAt(s, n)[k] = s[j] /\ RemoveAt(s, n)[l] = s[m]
  <1> DEFINE t == RemoveAt(s, n)
             a == SubSeq(s, 1, n-1)
             b == SubSeq(s, n+1, Len(s))
  <1>1. n \in 1..Len(s) /\ Len(s) \in Nat
    OBVIOUS
  <1>2. a \in Seq(S) /\ Len(a) = n - 1 /\ (\A k \in 1..n-1 : a[k] = s[k])
    <2>1. \A k \in 1..n-1 : s[k] \in S
      BY <1>1
    <2>2. /\ a \in Seq(S)
          /\ Len(a) = IF 1 <= n-1 THEN n-1 - 1 + 1 ELSE 0
          /\ \A k \in 1..n-1 - 1 + 1 : a[k] = s[1 + k - 1]
      BY <1>1, <2>1, SubSeqProperties
    <2> QED BY <1>1, <2>2
  <1>3. /\ b \in Seq(S) /\ Len(b) = Len(s) - n
        /\ \A k \in 1..Len(s)-n : b[k] = s[n+k]
    <2>1. \A k \in n+1..Len(s) : s[k] \in S
      BY <1>1
    <2>2. /\ b \in Seq(S)
          /\ Len(b) = IF n+1 <= Len(s) THEN Len(s) - (n+1) + 1 ELSE 0
          /\ \A k \in 1..Len(s)-(n+1)+1 : b[k] = s[n+1+k-1]
      BY <1>1, <2>1, SubSeqProperties
    <2> QED BY <1>1, <2>2
  <1>4. /\ t \in Seq(S) /\ Len(t) = Len(a) + Len(b)
        /\ \A k \in 1..Len(a)+Len(b) :
              t[k] = IF k <= Len(a) THEN a[k] ELSE b[k - Len(a)]
    BY <1>2, <1>3, ConcatProperties DEF RemoveAt
  <1> HIDE DEF t, a, b
  <1>5. /\ t \in Seq(S) /\ Len(t) = Len(s) - 1 /\ DOMAIN t = 1..Len(s)-1
        /\ \A k \in 1..Len(s)-1 : t[k] = IF k < n THEN s[k] ELSE s[k+1]
    <2>0. /\ Len(a) + Len(b) = Len(s) - 1
          /\ \A k \in 1..Len(s)-1 : k < n => k \in 1..n-1 /\ k <= n-1
          /\ \A k \in 1..Len(s)-1 : ~(k < n) =>
                /\ ~(k <= n-1)
                /\ k - (n-1) \in 1..Len(s)-n
                /\ n + (k - (n-1)) = k + 1
      <3>1. Len(a) = n - 1 /\ Len(b) = Len(s) - n
        BY <1>2, <1>3
      <3>2. /\ n - 1 + (Len(s) - n) = Len(s) - 1
            /\ \A k \in 1..Len(s)-1 : k < n => k \in 1..n-1 /\ k <= n-1
            /\ \A k \in 1..Len(s)-1 : ~(k < n) =>
                  /\ ~(k <= n-1)
                  /\ k - (n-1) \in 1..Len(s)-n
                  /\ n + (k - (n-1)) = k + 1
        BY ONLY <1>1, Shift, Zenon
      <3> QED BY ONLY <3>1, <3>2, Zenon
    <2>1. t \in Seq(S) /\ Len(t) = Len(s) - 1
      BY <1>4, <2>0, Zenon
    <2>2. DOMAIN t = 1..Len(s)-1
      BY ONLY <2>1
    <2>3. \A k \in 1..Len(s)-1 : t[k] = IF k <= Len(a) THEN a[k] ELSE b[k - Len(a)]
      BY ONLY <1>4, <2>0, Zenon
    <2>4. \A k \in 1..Len(s)-1 : t[k] = IF k < n THEN s[k] ELSE s[k+1]
      <3> SUFFICES ASSUME NEW k \in 1..Len(s)-1
                   PROVE  t[k] = IF k < n THEN s[k] ELSE s[k+1]
        OBVIOUS
      <3>1. Len(a) = n - 1
        BY <1>2
      <3>2. CASE k < n
        BY ONLY <1>2, <2>0, <2>3, <3>1, <3>2, k \in 1..Len(s)-1, ZenonT(40)
      <3>3. CASE ~(k < n)
        BY ONLY <1>3, <2>0, <2>3, <3>1, <3>3, k \in 1..Len(s)-1, ZenonT(40)
      <3> QED BY ONLY <3>2, <3>3, Zenon
    <2> QED BY <2>1, <2>2, <2>4
  <1>6. DOMAIN s = 1..Len(s)
    OBVIOUS
  <1>7. \A k \in DOMAIN t : \E j \in DOMAIN s : j # n /\ t[k] = s[j]
    <2> SUFFICES ASSUME NEW k \in 1..Len(s)-1
                 PROVE  \E j \in 1..Len(s) : j # n /\ t[k] = s[j]
      BY <1>5, <1>6
    <2>1. CASE k < n
      BY <1>1, <1>5, <2>1
    <2>2. CASE ~(k < n)
      BY <1>1, <1>5, <2>2
    <2> QED BY <2>1, <2>2
  <1>8. \A j \in DOMAIN s : j # n => \E k \in DOMAIN t : t[k] = s[j]
    <2> SUFFICES ASSUME NEW j \in 1..Len(s), j # n
                 PROVE  \E k \in 1..Len(s)-1 : t[k] = s[j]
      BY <1>5, <1>6
    <2>1. CASE j < n
      BY <1>1, <1>5, <2>1
    <2>2. CASE ~(j < n)
      <3>1. j - 1 \in 1..Len(s)-1 /\ ~(j - 1 < n) /\ j - 1 + 1 = j
        BY <1>1, <2>2
      <3> QED BY <1>5, <3>1
    <2> QED BY <2>1, <2>2
  <1>9. \A k, l \in DOMAIN t : k # l =>
           \E j, m \in DOMAIN s : j # m /\ t[k] = s[j] /\ t[l] = s[m]
    <2> DEFINE J(k) == IF k < n THEN k ELSE k + 1
    <2> SUFFICES ASSUME NEW k \in DOMAIN t, NEW l \in DOMAIN t, k # l
                 PROVE  \E j, m \in DOMAIN s : j # m /\ t[k] = s[j] /\ t[l] = s[m]
      OBVIOUS
    <2>0. k \in 1..Len(s)-1 /\ l \in 1..Len(s)-1
      BY <1>5
    <2>1. J(k) \in 1..Len(s) /\ J(l) \in 1..Len(s) /\ J(k) # J(l)
      BY <1>1, <2>0
    <2>2. t[k] = s[J(k)] /\ t[l] = s[J(l)]
      <3>1. \A x \in 1..Len(s)-1 : t[x] = IF x < n THEN s[x] ELSE s[x+1]
        BY <1>5
      <3>2. \A x \in 1..Len(s)-1 : t[x] = s[J(x)]
        BY ONLY <3>1
      <3> HIDE DEF J
      <3> QED BY <2>0, <3>2
    <2> HIDE DEF J
    <2> QED BY <1>6, <2>1, <2>2
  <1> QED BY <1>5, <1>7, <1>8, <1>9 DEF t

(* Some drawing has the type of a drawing.                                  *)
LEMMA DrawnType ==
  ASSUME NEW c \in [Output -> Input], NEW s, NEW e, NEW o \in Output
  PROVE  Drawn(c, s, e, o) \in [input : Input, mark : Mark]
  BY Zenon DEF Drawn, Mark

(* So has a screen part of which is drawn again.                            *)
LEMMA RedrawType ==
  ASSUME TypeOK, NEW C, Redraw(C), copy' \in [Output -> Input],
         sel' \in Output
  PROVE  /\ cell' \in [Output -> [input : Input, mark : Mark]]
         /\ overlay' \in Input \cup {Hidden}
  <1>1. cell \in [Output -> [input : Input, mark : Mark]]
    BY DEF TypeOK
  <1>2. \A o \in Output : Drawn(copy', sel', edit', o) \in [input : Input, mark : Mark]
    BY DrawnType
  <1>3. cell' \in [Output -> [input : Input, mark : Mark]]
    BY <1>1, <1>2, Zenon DEF Redraw
  <1>4. overlay' \in Input \cup {Hidden}
    BY Zenon DEF Redraw
  <1> QED BY <1>3, <1>4

(* Zero is a turn, an input and an output.                                  *)
LEMMA Zeros ==
  /\ 0 \in -1..1 /\ 0 \in Input /\ 0 \in Output
  /\ MaxPct \in Level /\ MinPct \in Level /\ \A v : Restored(v) \in Level
  BY UiAssumption DEF Input, Output, Level, Restored

(* TypeOK says where each part of the state comes from; the rest of this    *)
(* section shows it is kept, one lemma per part of the code.                *)

LEMMA TypeInit == Init => TypeOK
  <1> SUFFICES ASSUME Init PROVE TypeOK
    OBVIOUS
  <1>1. /\ route \in [Output -> Input] /\ copy \in [Output -> Input]
        /\ sel \in Output /\ saved \in Input /\ accum \in -1..1
        /\ pct \in Level /\ savedPct \in Level
    BY Zeros DEF Init
  <1>2. cell \in [Output -> [input : Input, mark : Mark]]
    BY <1>1, DrawnType DEF Init
  <1>3. calls \in Seq(Output \X Input) /\ Len(calls) <= MaxCalls
    BY UiAssumption DEF Init
  <1> QED BY <1>1, <1>2, <1>3, Zenon DEF Init, TypeOK

(* can_task.                                                                *)
LEMMA TypeCanTask ==
  ASSUME TypeOK,
         (\E o \in Output, i \in Input : ExternalSet(o, i)) \/ Notify \/ NotifyFails
           \/ NotifyNobody
  PROVE  TypeOK'
  <1> USE UiAssumption DEF TypeOK, matrix, bright
  <1>1. ASSUME NEW o \in Output, NEW i \in Input, ExternalSet(o, i)
        PROVE  TypeOK'
    BY <1>1 DEF ExternalSet
  <1>2. CASE Notify
    BY <1>2 DEF Notify
  <1>3. CASE NotifyFails \/ NotifyNobody
    BY <1>3 DEF NotifyFails, NotifyNobody
  <1> QED BY <1>1, <1>2, <1>3

(* mtx_async_apply().                                                       *)
LEMMA TypeApply ==
  ASSUME TypeOK, NEW n \in 1..MaxCalls, Apply(n)
  PROVE  TypeOK'
  <1> DEFINE o == calls[n][1]
  <1>1. /\ n \in DOMAIN calls /\ calls' = RemoveAt(calls, n)
        /\ crossed' = crossed \/ crossed' = crossed \ {o}
        /\ UNCHANGED <<route, task, boot, screen, accum, bright>>
    BY Zenon DEF Apply, Dequeue
  <1>2. calls \in Seq(Output \X Input) /\ o \in Output /\ calls[n][2] \in Input
    BY <1>1 DEF TypeOK
  <1>3. calls' \in Seq(Output \X Input) /\ Len(calls') = Len(calls) - 1
    BY ONLY <1>1, <1>2, Others, SMTT(30)
  <1>4. Len(calls') <= IF task' = Nothing THEN MaxCalls ELSE MaxCalls - 1
    BY <1>1, <1>2, <1>3, UiAssumption DEF TypeOK
  <1>5. copy' \in [Output -> Input] /\ sel' \in Output /\ saved' \in Input
    BY <1>2 DEF Apply, TypeOK
  <1>6. edit' \in BOOLEAN /\ updated' \in BOOLEAN
    BY Zenon DEF Apply, TypeOK
  <1>7. /\ cell' \in [Output -> [input : Input, mark : Mark]]
        /\ overlay' \in Input \cup {Hidden}
    <2>1. Redraw({o}) \/ UNCHANGED <<cell, overlay>>
      BY Zenon DEF Apply
    <2>2. CASE Redraw({o})
      BY <1>5, <2>2, RedrawType
    <2>3. CASE UNCHANGED <<cell, overlay>>
      BY <2>3 DEF TypeOK
    <2> QED BY <2>1, <2>2, <2>3
  <1>8. crossed' \subseteq Output
    BY <1>1 DEF TypeOK
  <1> QED BY <1>1, <1>3, <1>4, <1>5, <1>6, <1>7, <1>8 DEF TypeOK, bright

(* The encoder on the matrix screen.                                        *)
LEMMA TypeMain ==
  ASSUME TypeOK,
         \/ \E d \in {-1, 1} : MoveSelection(d) \/ ChooseInput(d)
         \/ BeginEdit \/ Commit \/ Cancel
  PROVE  TypeOK'
  <1>1. /\ UNCHANGED <<task, calls, boot, bright, screen>>
        /\ accum' \in {accum, 0} /\ updated' \in {updated, FALSE}
        /\ edit' \in {edit, TRUE, FALSE}
        /\ crossed' \in {crossed, crossed \cup {sel}, crossed \ {sel}}
    BY Zenon DEF MoveSelection, ChooseInput, BeginEdit, Commit, Cancel, OnMain
  <1>2. /\ accum' \in -1..1 /\ updated' \in BOOLEAN /\ edit' \in BOOLEAN
        /\ crossed' \subseteq Output
    BY <1>1, Zeros DEF TypeOK
  <1>3. /\ copy' \in [Output -> Input] /\ route' \in [Output -> Input]
        /\ sel' \in Output /\ saved' \in Input
    <2>1. ASSUME NEW d \in {-1, 1}, MoveSelection(d)
          PROVE  sel' \in Output
      BY <2>1, Wraps, UiAssumption DEF MoveSelection, TypeOK, Output
    <2>2. ASSUME NEW d \in {-1, 1}, ChooseInput(d)
          PROVE  copy' \in [Output -> Input]
      <3>1. (copy[sel] + d + Ins) % Ins \in Input
        BY Wraps, UiAssumption DEF TypeOK, Input
      <3> QED BY <2>2, <3>1 DEF ChooseInput, TypeOK
    <2>3. CASE \E d \in {-1, 1} : MoveSelection(d)
      BY <2>1, <2>3 DEF MoveSelection, TypeOK
    <2>4. CASE \E d \in {-1, 1} : ChooseInput(d)
      BY <2>2, <2>4 DEF ChooseInput, TypeOK
    <2>5. CASE BeginEdit  BY <2>5 DEF BeginEdit, TypeOK
    <2>6. CASE Commit     BY <2>6 DEF Commit, TypeOK
    <2>7. CASE Cancel     BY <2>7 DEF Cancel, TypeOK
    <2> QED BY <2>3, <2>4, <2>5, <2>6, <2>7
  <1>4. \E C : Redraw(C)
    BY Zenon DEF MoveSelection, ChooseInput, BeginEdit, Commit, Cancel
  <1>5. /\ cell' \in [Output -> [input : Input, mark : Mark]]
        /\ overlay' \in Input \cup {Hidden}
    BY <1>3, <1>4, RedrawType
  <1> QED BY <1>1, <1>2, <1>3, <1>5 DEF TypeOK, bright

(* The brightness, where the numbers are.                                   *)
LEMMA TypeBrightnessStep ==
  ASSUME TypeOK, NEW d \in {-1, 1}, BrightnessStep(d)
  PROVE  pct' \in Level
  BY UiAssumption DEF BrightnessStep, TypeOK, Level

(* The other screens.                                                       *)
LEMMA TypeScreens ==
  ASSUME TypeOK,
         \/ \E d \in {-1, 1} : BrightnessStep(d) \/ Turn(d)
         \/ OpenMenu \/ OpenCanScreen \/ ShowMain
         \/ ShowBrightness \/ SaveBrightness \/ CancelBrightness
  PROVE  TypeOK'
  <1> USE DEF TypeOK, matrix, bright
  <1>1. ASSUME NEW d \in {-1, 1}, BrightnessStep(d)
        PROVE  TypeOK'
    BY <1>1, Zeros, TypeBrightnessStep DEF BrightnessStep
  <1>2. ASSUME NEW d \in {-1, 1}, Turn(d)
        PROVE  TypeOK'
    BY <1>2, HalfTurn DEF Turn
  <1> USE Zeros DEF Load
  <1>3. CASE OpenMenu          BY <1>3 DEF OpenMenu
  <1>4. CASE OpenCanScreen     BY <1>4 DEF OpenCanScreen
  <1>5. CASE ShowMain
    BY <1>5, ZenonT(60) DEF ShowMain
  <1>6. CASE ShowBrightness    BY <1>6 DEF ShowBrightness
  <1>7. CASE SaveBrightness
    BY <1>7, ZenonT(60) DEF SaveBrightness
  <1>8. CASE CancelBrightness  BY <1>8 DEF CancelBrightness
  <1> QED BY <1>1, <1>2, <1>3, <1>4, <1>5, <1>6, <1>7, <1>8

(* ui_init().                                                               *)
LEMMA TypeBoot ==
  ASSUME TypeOK,
         Build \/ EndSplash \/ BeginFade \/ EndFade \/ Register \/ Reapply
  PROVE  TypeOK'
  <1>1. CASE Build
    <2>1. copy' \in [Output -> Input] /\ sel' \in Output
      BY <1>1 DEF Build, TypeOK
    <2>2. /\ cell' \in [Output -> [input : Input, mark : Mark]]
          /\ overlay' \in Input \cup {Hidden}
      BY <1>1, <2>1, RedrawType DEF Build
    <2> QED BY <1>1, <2>1, <2>2 DEF Build, TypeOK, bright
  <1> USE DEF TypeOK, matrix, bright
  <1>2. CASE EndSplash  BY <1>2 DEF EndSplash
  <1>3. CASE BeginFade  BY <1>3 DEF BeginFade
  <1>4. CASE EndFade    BY <1>4 DEF EndFade
  <1>5. CASE Register
    <2>1. reapply' \in {"none", "queued", "failed"} /\ boot' = "ready"
      BY ONLY <1>5, Zenon DEF Register
    <2> QED BY <1>5, <2>1 DEF Register
  <1>6. CASE Reapply
    <2>1. reapply' \in {"none", "queued", "failed"} /\ light' = pct
      BY ONLY <1>6, Zenon DEF Reapply
    <2>2. /\ UNCHANGED <<route, task, calls, boot, screen, accum, crossed, matrix>>
          /\ UNCHANGED <<pct, savedPct, fadeTo, stored, failed>>
      BY ONLY <1>6, Zenon DEF Reapply
    <2> QED BY <2>1, <2>2
  <1> QED BY <1>1, <1>2, <1>3, <1>4, <1>5, <1>6

------------------------------------------------------------------------------
(* Boot and the screens.                                                    *)

LEMMA BootOrderKept ==
  ASSUME TypeOK, BootOrder, Next
  PROVE  BootOrder'
  <1> USE DEF BootOrder, matrix, bright
  <1>1. ASSUME NEW o \in Output, NEW i \in Input, ExternalSet(o, i)
        PROVE  BootOrder'
    BY <1>1, Zenon DEF ExternalSet
  <1>2. CASE Notify \/ NotifyFails
    <2>1. CASE Notify       BY <2>1, Zenon DEF Notify
    <2>2. CASE NotifyFails  BY <2>2, Zenon DEF NotifyFails
    <2> QED BY <1>2, <2>1, <2>2
  <1>3. CASE NotifyNobody  BY <1>3, Zenon DEF NotifyNobody
  <1>4. ASSUME NEW n \in 1..MaxCalls, Apply(n)
        PROVE  BootOrder'
    <2>1. boot = "ready"
      BY <1>4 DEF Apply, Dequeue
    <2> QED BY ONLY <1>4, <2>1, BootOrder, Zenon
            DEF Apply, Dequeue, BootOrder, bright
  <1>5. ASSUME NEW d \in {-1, 1},
               MoveSelection(d) \/ ChooseInput(d) \/ BrightnessStep(d) \/ Turn(d)
        PROVE  BootOrder'
    <2>1. UNCHANGED <<screen, boot, edit, updated, calls>>
      BY ONLY <1>5, Zenon
         DEF MoveSelection, ChooseInput, BrightnessStep, Turn, OnMain, matrix
    <2> QED BY ONLY <2>1, BootOrder, Zenon DEF BootOrder
  <1>6. CASE BeginEdit \/ Commit \/ Cancel
    BY ONLY <1>6, BootOrder, Zenon
       DEF BeginEdit, Commit, Cancel, OnMain, BootOrder, bright
  <1>7. CASE OpenMenu \/ OpenCanScreen \/ ShowMain \/ ShowBrightness
    BY ONLY <1>7, BootOrder
       DEF OpenMenu, OpenCanScreen, ShowMain, ShowBrightness, Load, BootOrder,
           matrix, bright
  <1>8. CASE SaveBrightness \/ CancelBrightness
    BY ONLY <1>8, BootOrder
       DEF SaveBrightness, CancelBrightness, Load, BootOrder, matrix, bright
  <1>9. CASE Build \/ EndSplash \/ BeginFade
    BY ONLY <1>9, BootOrder
       DEF Build, EndSplash, BeginFade, BootOrder, matrix, bright
  <1>10. CASE EndFade \/ Register \/ Reapply
    BY ONLY <1>10, BootOrder
       DEF EndFade, Register, Reapply, BootOrder, matrix, bright
  <1> QED BY <1>1, <1>2, <1>3, <1>4, <1>5, <1>6, <1>7, <1>8, <1>9, <1>10 DEF Next

(* The brightness: a fade or a step that leaves the light at another value  *)
(* is followed by the setting of it.                                        *)
SettingInv == LightIsSetting /\ SettingIsSaved /\ SavedPctIsSaved

LEMMA SettingKept ==
  ASSUME TypeOK, BootOrder, SettingInv, Next
  PROVE  SettingInv'
  <1> USE DEF SettingInv, LightIsSetting, SettingIsSaved, SavedPctIsSaved
  <1>1. CASE UNCHANGED <<boot, screen, bright>>
    BY <1>1, Zenon DEF bright
  <1>2. CASE OpenMenu \/ OpenCanScreen \/ ShowMain
    BY <1>2 DEF OpenMenu, OpenCanScreen, ShowMain, Load, bright
  <1>3. CASE ShowBrightness    BY <1>3 DEF ShowBrightness, Load
  <1>4. ASSUME NEW d \in {-1, 1}, BrightnessStep(d)
        PROVE  SettingInv'
    BY <1>4 DEF BrightnessStep
  <1>5. CASE SaveBrightness    BY <1>5, Zeros DEF SaveBrightness, Load, Restored, TypeOK
  <1>6. CASE CancelBrightness  BY <1>6 DEF CancelBrightness, Load
  <1>7. CASE Build \/ EndSplash \/ BeginFade
    BY <1>7 DEF Build, EndSplash, BeginFade, bright, BootOrder
  <1>8. CASE EndFade \/ Register \/ Reapply
    <2>1. CASE EndFade
      BY <2>1, Zenon DEF EndFade
    <2>2. CASE Register
      BY <2>2, Zenon DEF Register
    <2>3. CASE Reapply
      BY <2>3, Zenon DEF Reapply
    <2> QED BY <1>8, <2>1, <2>2, <2>3
  <1>9. ASSUME NEW n \in 1..MaxCalls, Apply(n)
        PROVE  UNCHANGED <<boot, screen, bright>>
    BY <1>9, Zenon DEF Apply, Dequeue
  <1>10. ASSUME NEW d \in {-1, 1}, MoveSelection(d) \/ ChooseInput(d) \/ Turn(d)
         PROVE  UNCHANGED <<boot, screen, bright>>
    BY <1>10, Zenon DEF MoveSelection, ChooseInput, Turn, OnMain
  <1>11. ASSUME NEW o \in Output, NEW i \in Input, ExternalSet(o, i)
         PROVE  UNCHANGED <<boot, screen, bright>>
    BY <1>11, Zenon DEF ExternalSet
  <1>12. CASE Notify \/ NotifyFails \/ NotifyNobody \/ BeginEdit \/ Commit \/ Cancel
    <2>1. UNCHANGED <<boot, screen, bright>>
      BY <1>12, Zenon DEF Notify, NotifyFails, NotifyNobody, BeginEdit, Commit, Cancel, OnMain
    <2> QED BY <1>1, <2>1
  <1> QED BY <1>1, <1>2, <1>3, <1>4, <1>5, <1>6, <1>7, <1>8, <1>9, <1>10,
             <1>11, <1>12, Zenon DEF Next

------------------------------------------------------------------------------
(* The matrix.                                                              *)

(* Which cells a step draws again, and from what: all others must keep what *)
(* they are drawn from.                                                     *)
LEMMA RedrawnCells ==
  ASSUME ScreenDrawsState, boot # "build", NEW C \in SUBSET Output, Redraw(C),
         TypeOK, sel' \in Output,
         \A o \in Output \ C :
            /\ Drawn(copy', sel', edit', o) = Drawn(copy, sel, edit, o)
            /\ ~(edit /\ o = sel)
  PROVE  ScreenDrawsState'
  <1>1. ASSUME NEW o \in Output
        PROVE  cell'[o] = Drawn(copy', sel', edit', o)
    <2>1. cell'[o] = IF o \in C THEN Drawn(copy', sel', edit', o) ELSE cell[o]
      BY Zenon DEF Redraw
    <2>2. CASE o \in C
      BY <2>1, <2>2, Zenon
    <2>3. CASE o \notin C
      <3>1. cell[o] = Drawn(copy, sel, edit, o)
        BY <2>3, Zenon DEF ScreenDrawsState
      <3> QED BY <2>1, <2>3, <3>1, Zenon
    <2> QED BY <2>2, <2>3
  <1>2. overlay' # Hidden => edit' /\ overlay' = copy'[sel']
    BY Zenon DEF Redraw
  <1>3. cell'[sel'].input = copy'[sel']
    <2>1. cell'[sel'] = Drawn(copy', sel', edit', sel')
      BY <1>1, Zenon
    <2> QED BY ONLY <2>1 DEF Drawn
  <1> QED BY <1>1, <1>2, <1>3, Zenon DEF ScreenDrawsState

LEMMA ScreenKept ==
  ASSUME TypeOK, TypeOK', BootOrder, ScreenDrawsState, Next
  PROVE  ScreenDrawsState'
  <1>1. CASE UNCHANGED <<boot, matrix>>
    BY <1>1, Zenon DEF matrix, ScreenDrawsState, Drawn
  <1>2. CASE Build
    <2>1. edit = FALSE
      BY <1>2, Zenon DEF Build, BootOrder, TypeOK
    <2>2. \A o \in Output : cell'[o] = Drawn(copy', sel', edit', o)
      BY <1>2, Zenon DEF Build, Redraw
    <2>3. overlay' = Hidden
      BY <1>2, <2>1, Zenon DEF Build, Redraw
    <2> QED BY <2>2, <2>3, Zenon DEF ScreenDrawsState
  <1>3. CASE EndSplash \/ BeginFade \/ EndFade \/ Register
    <2>1. UNCHANGED matrix /\ boot # "build" /\ boot' # "build"
      BY <1>3 DEF EndSplash, BeginFade, EndFade, Register
    <2> QED BY <2>1, Zenon DEF matrix, ScreenDrawsState, Drawn
  <1>4. CASE ShowMain
    <2>1. edit = FALSE /\ edit' = FALSE
      BY <1>4, Zenon DEF ShowMain, Load, BootOrder, TypeOK
    <2> QED BY <1>4, <2>1, Zenon DEF ShowMain, Load, ScreenDrawsState, Drawn
  <1>5. ASSUME NEW n \in 1..MaxCalls, Apply(n)
        PROVE  ScreenDrawsState'
    <2> DEFINE o == calls[n][1]
    <2>1. /\ boot' = boot /\ sel' = sel /\ edit' = edit
          /\ updated' = (updated \/ (edit /\ o = sel))
          /\ copy' = [copy EXCEPT ![o] = calls[n][2]]
      BY <1>5, Zenon DEF Apply, Dequeue
    <2>2. n \in DOMAIN calls /\ boot = "ready"
      BY <1>5 DEF Apply, Dequeue, BootOrder
    <2>3. o \in Output
      BY <2>2 DEF TypeOK
    <2>4. \A p \in Output \ {o} : copy'[p] = copy[p]
      BY <2>1, <2>3 DEF TypeOK
    <2>5. CASE copy' = copy /\ UNCHANGED <<cell, overlay>>
      BY <2>1, <2>5, Zenon DEF ScreenDrawsState, Drawn
    <2>6. CASE edit /\ sel = o /\ UNCHANGED <<cell, overlay>>
      <3>1. updated' /\ cell[sel].mark = "editing"
        <4>1. cell[sel] = Drawn(copy, sel, edit, sel) => cell[sel].mark = "editing"
          BY <2>6 DEF Drawn
        <4> QED BY <2>1, <2>2, <2>3, <2>6, <4>1, Zenon DEF ScreenDrawsState
      <3>2. \A p \in Output \ {o} : cell'[p] = Drawn(copy', sel', edit', p)
        BY <2>1, <2>2, <2>4, <2>6, Zenon DEF ScreenDrawsState, Drawn
      <3> QED BY <2>1, <2>2, <2>6, <3>1, <3>2, Zenon DEF ScreenDrawsState
    <2>7. CASE ~(edit /\ sel = o) /\ Redraw({o})
      <3>1. sel \in Output
        BY DEF TypeOK
      <3>2. CASE ~edit
        <4>1. \A p \in Output \ {o} :
                 /\ Drawn(copy', sel', edit', p) = Drawn(copy, sel, edit, p)
                 /\ ~(edit /\ p = sel)
          BY <2>1, <2>4, <3>2, Zenon DEF Drawn
        <4> QED BY <2>1, <2>2, <2>3, <2>7, <3>1, <4>1, RedrawnCells
      <3>3. CASE edit /\ sel # o
        <4>1. /\ \A p \in Output \ {o} :
                    Drawn(copy', sel', edit', p) = Drawn(copy, sel, edit, p)
              /\ copy'[sel] = copy[sel]
          BY <2>1, <2>4, <3>1, <3>3, Zenon DEF Drawn
        <4>2. cell'[o] = Drawn(copy', sel', edit', o)
          BY <2>3, <2>7, Zenon DEF Redraw
        <4>3. \A p \in Output \ {o} : cell'[p] = cell[p]
          BY <2>7, Zenon DEF Redraw
        <4>4. overlay' = Hidden
          BY <2>1, <2>7, <3>3, Zenon DEF Redraw
        <4>5. updated' = updated
          BY <2>1, <3>3 DEF TypeOK
        <4> QED BY <2>1, <2>2, <3>3, <4>1, <4>2, <4>3, <4>4, <4>5, Zenon
                DEF ScreenDrawsState
      <3> QED BY <2>7, <3>2, <3>3
    <2>8. \/ copy' = copy /\ UNCHANGED <<cell, overlay>>
          \/ edit /\ sel = o /\ UNCHANGED <<cell, overlay>>
          \/ ~(edit /\ sel = o) /\ Redraw({o})
      BY <1>5, Zenon DEF Apply
    <2> QED BY <2>5, <2>6, <2>7, <2>8
  <1>6. ASSUME OnMain
        PROVE  boot # "build" /\ boot' # "build"
    BY <1>6 DEF OnMain, BootOrder
  <1>7. ASSUME NEW d \in {-1, 1}, MoveSelection(d)
        PROVE  ScreenDrawsState'
    <2>1. /\ Redraw({sel, sel'}) /\ copy' = copy /\ edit' = edit /\ ~edit
          /\ boot # "build"
      BY <1>6, <1>7, Zenon DEF MoveSelection
    <2>2. sel \in Output /\ sel' \in Output
      BY DEF TypeOK
    <2>3. \A p \in Output \ {sel, sel'} :
             /\ Drawn(copy', sel', edit', p) = Drawn(copy, sel, edit, p)
             /\ ~(edit /\ p = sel)
      BY <2>1, Zenon DEF Drawn
    <2> QED BY <2>1, <2>2, <2>3, RedrawnCells
  <1>8. ASSUME \/ \E d \in {-1, 1} : ChooseInput(d)
               \/ BeginEdit \/ Commit \/ Cancel
        PROVE  ScreenDrawsState'
    <2>1. Redraw({sel}) /\ sel' = sel /\ boot # "build"
      BY <1>6, <1>8, Zenon DEF ChooseInput, BeginEdit, Commit, Cancel
    <2>2. sel \in Output
      BY DEF TypeOK
    <2>3. \A p \in Output \ {sel} : copy'[p] = copy[p]
      BY <1>8 DEF ChooseInput, BeginEdit, Commit, Cancel, TypeOK
    <2>4. \A p \in Output \ {sel} :
             /\ Drawn(copy', sel', edit', p) = Drawn(copy, sel, edit, p)
             /\ ~(edit /\ p = sel)
      BY <2>1, <2>3, Zenon DEF Drawn
    <2> QED BY <2>1, <2>2, <2>4, RedrawnCells
  <1>9. ASSUME NEW d \in {-1, 1}, BrightnessStep(d) \/ Turn(d)
        PROVE  UNCHANGED <<boot, matrix>>
    BY <1>9, Zenon DEF BrightnessStep, Turn
  <1>10. ASSUME NEW o \in Output, NEW i \in Input, ExternalSet(o, i)
         PROVE  UNCHANGED <<boot, matrix>>
    BY <1>10, Zenon DEF ExternalSet
  <1>11. ASSUME \/ Notify \/ NotifyFails \/ NotifyNobody \/ OpenMenu \/ OpenCanScreen
                \/ ShowBrightness \/ SaveBrightness \/ CancelBrightness
                \/ Reapply
         PROVE  UNCHANGED <<boot, matrix>>
    BY <1>11, Zenon DEF Notify, NotifyFails, NotifyNobody, OpenMenu, OpenCanScreen, Load,
       ShowBrightness, SaveBrightness, CancelBrightness, Reapply
  <1> QED BY <1>1, <1>2, <1>3, <1>4, <1>5, <1>7, <1>8, <1>9, <1>10, <1>11,
             Zenon DEF Next

------------------------------------------------------------------------------
(* The routes.                                                              *)

RouteInv == UpdatesCarryRoutes /\ CopiesAreRoutes

(* Steps that touch neither the routes, nor what is on the way, nor the     *)
(* copies.                                                                  *)
LEMMA RoutesUntouched ==
  ASSUME RouteInv,
         UNCHANGED <<route, task, calls, crossed, copy, sel, saved>>,
         edit' = edit, updated' = updated,
         boot' = boot \/ (boot # "build" /\ boot' # "build")
  PROVE  RouteInv'
  <1>1. UpdatesCarryRoutes'
    BY DEF RouteInv, UpdatesCarryRoutes
  <1>2. \A o : OnTheWay(o)' <=> OnTheWay(o)
    BY DEF OnTheWay
  <1>3. CopiesAreRoutes'
    BY <1>2, Zenon DEF RouteInv, CopiesAreRoutes
  <1> QED BY <1>1, <1>3 DEF RouteInv

(* can_task: the new route is what is on the way.                           *)
LEMMA RoutesCanTask ==
  ASSUME TypeOK, TypeOK', BootOrder, RouteInv,
         (\E o \in Output, i \in Input : ExternalSet(o, i)) \/ Notify \/ NotifyFails
           \/ NotifyNobody
  PROVE  RouteInv'
  <1>1. ASSUME NEW o \in Output, NEW i \in Input, ExternalSet(o, i)
        PROVE  RouteInv'
    <2>1. /\ task = Nothing /\ task' = <<o, i>> /\ route' = [route EXCEPT ![o] = i]
          /\ UNCHANGED <<calls, boot, crossed, copy, sel, edit, saved, updated>>
      BY <1>1, Zenon DEF ExternalSet, matrix
    <2>2. task' # Nothing /\ task'[1] = o /\ task'[2] = i
      BY <2>1, UiAssumption
    <2>3. \A p \in Output : route'[p] = IF p = o THEN i ELSE route[p]
      BY <2>1 DEF TypeOK
    <2>4. UpdatesCarryRoutes'
      BY <2>1, <2>2, <2>3 DEF RouteInv, UpdatesCarryRoutes
    <2>5. OnTheWay(o)'
      BY <2>2, Zenon DEF OnTheWay
    <2>6. \A p \in Output \ {o} : OnTheWay(p)' <=> OnTheWay(p)
      BY <2>1, <2>2 DEF OnTheWay
    <2>7. CopiesAreRoutes'
      BY <2>1, <2>3, <2>5, <2>6, Zenon DEF RouteInv, CopiesAreRoutes
    <2> QED BY <2>4, <2>7 DEF RouteInv
  <1>2. CASE Notify
    <2> DEFINE o == task[1]
    <2>1. /\ task # Nothing /\ task' = Nothing /\ calls' = Append(calls, task)
          /\ crossed' = IF \E n \in DOMAIN calls : calls[n][1] = o
                        THEN crossed \cup {o} ELSE crossed
          /\ UNCHANGED <<route, boot, copy, sel, edit, saved, updated>>
      BY <1>2, Zenon DEF Notify, matrix
    <2>2. task \in Output \X Input /\ calls \in Seq(Output \X Input)
      BY <2>1 DEF TypeOK
    <2>3. /\ DOMAIN calls' = DOMAIN calls \cup {Len(calls) + 1}
          /\ Len(calls) + 1 \notin DOMAIN calls
          /\ \A n \in DOMAIN calls : calls'[n] = calls[n]
          /\ calls'[Len(calls) + 1] = task
      BY <2>1, <2>2
    <2>4. \A p \in Output : OnTheWay(p)' <=> OnTheWay(p)
      BY <2>1, <2>3, Zenon DEF OnTheWay
    <2>5. UpdatesCarryRoutes'
      <3> SUFFICES ASSUME NEW p \in Output, p \notin crossed'
                   PROVE  /\ \A n \in DOMAIN calls' :
                                calls'[n][1] = p => calls'[n][2] = route[p]
                          /\ \A n, m \in DOMAIN calls' :
                                calls'[n][1] = p /\ calls'[m][1] = p => n = m
        BY <2>1, Zenon DEF UpdatesCarryRoutes
      <3>1. p \notin crossed /\ (p = o => \A n \in DOMAIN calls : calls[n][1] # p)
        BY <2>1
      <3>2. CASE p = o
        <4>1. task[2] = route[p]
          BY <2>1, <3>1, <3>2, Zenon DEF RouteInv, UpdatesCarryRoutes
        <4> QED BY <2>3, <3>1, <3>2, <4>1, Zenon
      <3>3. CASE p # o
        <4>1. /\ \A n \in DOMAIN calls : calls[n][1] = p => calls[n][2] = route[p]
              /\ \A n, m \in DOMAIN calls :
                    calls[n][1] = p /\ calls[m][1] = p => n = m
          BY <3>1, <3>3, Zenon DEF RouteInv, UpdatesCarryRoutes
        <4> QED BY <2>3, <3>3, <4>1, Zenon
      <3> QED BY <3>2, <3>3
    <2>6. crossed \subseteq crossed'
      BY <2>1
    <2>7. CopiesAreRoutes'
      BY <2>1, <2>4, <2>6, Zenon DEF RouteInv, CopiesAreRoutes
    <2> QED BY <2>5, <2>7 DEF RouteInv
  <1>3. CASE NotifyNobody
    <2> DEFINE o == task[1]
    <2>1. /\ task # Nothing /\ task' = Nothing
          /\ crossed' = IF boot = "build" THEN crossed ELSE crossed \cup {o}
          /\ UNCHANGED <<route, calls, boot, copy, sel, edit, saved, updated>>
      BY <1>3, Zenon DEF NotifyNobody, matrix
    <2>2. calls = <<>>
      BY <1>3, Zenon DEF NotifyNobody, BootOrder
    <2>3. UpdatesCarryRoutes'
      BY <2>1, <2>2 DEF UpdatesCarryRoutes
    <2>4. CopiesAreRoutes'
      <3> SUFFICES ASSUME boot # "build", NEW p \in Output, p \notin crossed'
                   PROVE  p \notin crossed /\ ~OnTheWay(p)
        BY <2>1, Zenon DEF RouteInv, CopiesAreRoutes
      <3>1. p \notin crossed /\ p # o
        BY <2>1
      <3> QED BY <2>1, <2>2, <3>1 DEF OnTheWay
    <2> QED BY <2>3, <2>4 DEF RouteInv
  <1>4. CASE NotifyFails
    <2> DEFINE o == task[1]
    <2>1. /\ task # Nothing /\ task' = Nothing /\ crossed' = crossed \cup {o}
          /\ UNCHANGED <<route, calls, boot, copy, sel, edit, saved, updated>>
      BY <1>4, Zenon DEF NotifyFails, matrix
    <2>2. ASSUME NEW p \in Output, p \notin crossed'
          PROVE  p \notin crossed /\ task[1] # p /\ (OnTheWay(p)' <=> OnTheWay(p))
      BY <2>1, <2>2 DEF OnTheWay
    <2>3. UpdatesCarryRoutes'
      <3> SUFFICES ASSUME NEW p \in Output, p \notin crossed'
                   PROVE  /\ \A n \in DOMAIN calls :
                                calls[n][1] = p => calls[n][2] = route[p]
                          /\ \A n, m \in DOMAIN calls :
                                calls[n][1] = p /\ calls[m][1] = p => n = m
        BY <2>1, Zenon DEF UpdatesCarryRoutes
      <3> QED BY <2>1, <2>2, Zenon DEF RouteInv, UpdatesCarryRoutes
    <2>4. CopiesAreRoutes'
      BY <2>1, <2>2, Zenon DEF RouteInv, CopiesAreRoutes
    <2> QED BY <2>3, <2>4 DEF RouteInv
  <1> QED BY <1>1, <1>2, <1>3, <1>4

(* mtx_async_apply(): what was on the way arrives.                          *)
LEMMA RoutesApply ==
  ASSUME TypeOK, TypeOK', BootOrder, RouteInv, NEW n \in 1..MaxCalls, Apply(n)
  PROVE  RouteInv'
  <1>0. PICK o, i : o = calls[n][1] /\ i = calls[n][2]
    OBVIOUS
  <1>1. /\ n \in DOMAIN calls /\ calls' = RemoveAt(calls, n)
        /\ crossed' = IF Settled(o, n) THEN crossed \ {o} ELSE crossed
        /\ copy' = [copy EXCEPT ![o] = i]
        /\ updated' = (updated \/ (edit /\ o = sel))
        /\ UNCHANGED <<route, task, boot, sel, edit, saved>>
    BY <1>0, Zenon DEF Apply, Dequeue
  <1>2. calls \in Seq(Output \X Input) /\ o \in Output
    BY <1>0, <1>1 DEF TypeOK
  <1>3. /\ \A k \in DOMAIN calls' :
              \E j \in DOMAIN calls : j # n /\ calls'[k] = calls[j]
        /\ \A j \in DOMAIN calls : j # n =>
              \E k \in DOMAIN calls' : calls'[k] = calls[j]
        /\ \A k, l \in DOMAIN calls' : k # l =>
              \E j, m \in DOMAIN calls :
                 j # m /\ calls'[k] = calls[j] /\ calls'[l] = calls[m]
    BY ONLY <1>1, <1>2, Others, SMTT(30)
  <1>4. \A p \in Output \ {o} : OnTheWay(p)' <=> OnTheWay(p)
    BY <1>0, <1>1, <1>3 DEF OnTheWay
  <1>5. \A p \in Output \ {o} : (p \in crossed' <=> p \in crossed) /\ copy'[p] = copy[p]
    <2>1. copy \in [Output -> Input]
      BY DEF TypeOK
    <2> QED BY ONLY <1>1, <2>1
  <1>6. copy'[o] = i
    <2>1. copy \in [Output -> Input]
      BY DEF TypeOK
    <2> QED BY ONLY <1>1, <1>2, <2>1
  <1>7. ASSUME Settled(o, n)
        PROVE  ~OnTheWay(o)' /\ i = route[o]
    <2>1. /\ task = Nothing \/ task[1] # o
          /\ \A k \in DOMAIN calls' : calls'[k][1] # o
          /\ route[o] = i
      BY <1>0, <1>1, <1>7, Zenon DEF Settled
    <2> QED BY <1>1, <2>1 DEF OnTheWay
  <1>8. UpdatesCarryRoutes'
    <2> SUFFICES ASSUME NEW p \in Output, p \notin crossed'
                 PROVE  /\ task # Nothing /\ task[1] = p => task[2] = route[p]
                        /\ task = Nothing \/ task[1] # p =>
                              \A k \in DOMAIN calls' :
                                 calls'[k][1] = p => calls'[k][2] = route[p]
                        /\ \A k, l \in DOMAIN calls' :
                              calls'[k][1] = p /\ calls'[l][1] = p => k = l
      BY <1>1, Zenon DEF UpdatesCarryRoutes
    <2>1. CASE p \notin crossed
      <3>1. /\ task # Nothing /\ task[1] = p => task[2] = route[p]
            /\ task = Nothing \/ task[1] # p =>
                  \A k \in DOMAIN calls :
                     calls[k][1] = p => calls[k][2] = route[p]
            /\ \A k, l \in DOMAIN calls :
                  calls[k][1] = p /\ calls[l][1] = p => k = l
        BY <2>1, Zenon DEF RouteInv, UpdatesCarryRoutes
      <3>2. task = Nothing \/ task[1] # p =>
               \A k \in DOMAIN calls' : calls'[k][1] = p => calls'[k][2] = route[p]
        BY <1>3, <3>1
      <3>3. \A k, l \in DOMAIN calls' :
               calls'[k][1] = p /\ calls'[l][1] = p => k = l
        BY <1>3, <3>1
      <3> QED BY <3>1, <3>2, <3>3
    <2>2. CASE p \in crossed
      <3>1. p = o /\ Settled(o, n)
        BY <1>1, <2>2
      <3>2. ~OnTheWay(o)'
        BY <1>7, <3>1
      <3> QED BY <1>1, <3>1, <3>2 DEF OnTheWay
    <2> QED BY <2>1, <2>2
  <1>9. CopiesAreRoutes'
    <2> SUFFICES ASSUME NEW p \in Output, p \notin crossed', ~OnTheWay(p)'
                 PROVE  IF edit /\ sel = p THEN saved = route[p] \/ updated'
                                           ELSE copy'[p] = route[p]
      BY <1>1, Zenon DEF CopiesAreRoutes
    <2>1. CASE p # o
      <3>1. boot # "build"
        BY <1>1 DEF BootOrder
      <3>2. p \notin crossed /\ ~OnTheWay(p)
        BY <1>4, <1>5, <2>1
      <3>3. IF edit /\ sel = p THEN saved = route[p] \/ updated
                               ELSE copy[p] = route[p]
        BY <3>1, <3>2, Zenon DEF RouteInv, CopiesAreRoutes
      <3>4. updated => updated'
        BY <1>1
      <3> QED BY <1>5, <2>1, <3>3, <3>4, Zenon
    <2>2. CASE p = o /\ edit /\ sel = o
      BY <1>1, <2>2, Zenon
    <2>3. CASE p = o /\ ~(edit /\ sel = o)
      <3>1. i = route[o]
        <4>1. CASE Settled(o, n)
          BY <1>7, <4>1
        <4>2. CASE ~Settled(o, n)
          <5>1. o \notin crossed
            BY <1>1, <2>3, <4>2
          <5>2. task = Nothing \/ task[1] # o
            BY <1>1, <2>3 DEF OnTheWay
          <5> QED BY <1>0, <1>1, <1>2, <5>1, <5>2, Zenon DEF RouteInv, UpdatesCarryRoutes
        <4> QED BY <4>1, <4>2
      <3> QED BY <1>6, <2>3, <3>1, Zenon
    <2> QED BY <2>1, <2>2, <2>3
  <1> QED BY <1>8, <1>9 DEF RouteInv

(* The encoder on the matrix screen, and the screens being built.           *)
LEMMA RoutesMain ==
  ASSUME TypeOK, BootOrder, RouteInv,
         BeginEdit \/ Commit \/ Cancel \/ Build
  PROVE  RouteInv'
  <1>0. /\ sel \in Output /\ edit \in BOOLEAN
        /\ \A v \in Input : \A p \in Output :
              /\ [copy EXCEPT ![sel] = v][p] = IF p = sel THEN v ELSE copy[p]
              /\ [route EXCEPT ![sel] = v][p] = IF p = sel THEN v ELSE route[p]
        /\ saved \in Input /\ copy[sel] \in Input
    BY DEF TypeOK
  <1>1. CASE BeginEdit
    <2>1. /\ UNCHANGED <<route, task, calls, boot, crossed, copy, sel>>
          /\ saved' = copy[sel] /\ ~edit /\ updated' = updated
      BY <1>1, Zenon DEF BeginEdit, OnMain
    <2>2. UpdatesCarryRoutes'
      BY <2>1 DEF RouteInv, UpdatesCarryRoutes
    <2>3. \A p : OnTheWay(p)' <=> OnTheWay(p)
      BY <2>1 DEF OnTheWay
    <2>4. CopiesAreRoutes'
      BY <1>0, <2>1, <2>3, Zenon DEF RouteInv, CopiesAreRoutes
    <2> QED BY <2>2, <2>4 DEF RouteInv
  <1>2. CASE Commit
    <2>1. /\ UNCHANGED <<task, calls, boot, copy, sel, saved>>
          /\ edit /\ edit' = FALSE
          /\ route' = [route EXCEPT ![sel] = copy[sel]]
          /\ crossed' = IF OnTheWay(sel) THEN crossed \cup {sel}
                                         ELSE crossed \ {sel}
      BY <1>2, Zenon DEF Commit, OnMain
    <2>2. \A p \in Output : route'[p] = IF p = sel THEN copy[sel] ELSE route[p]
      BY <1>0, <2>1
    <2>3. \A p : OnTheWay(p)' <=> OnTheWay(p)
      BY <2>1 DEF OnTheWay
    <2>4. \A p \in Output \ crossed' :
             (p # sel /\ p \notin crossed) \/ (p = sel /\ ~OnTheWay(p))
      BY <2>1
    <2>5. UpdatesCarryRoutes'
      <3> SUFFICES ASSUME NEW p \in Output, p \notin crossed'
                   PROVE  /\ task # Nothing /\ task[1] = p => task[2] = route'[p]
                          /\ task = Nothing \/ task[1] # p =>
                                \A k \in DOMAIN calls :
                                   calls[k][1] = p => calls[k][2] = route'[p]
                          /\ \A k, l \in DOMAIN calls :
                                calls[k][1] = p /\ calls[l][1] = p => k = l
        BY <2>1, Zenon DEF UpdatesCarryRoutes
      <3>1. CASE p # sel /\ p \notin crossed
        BY <2>2, <3>1, Zenon DEF RouteInv, UpdatesCarryRoutes
      <3>2. CASE p = sel /\ ~OnTheWay(p)
        BY <3>2, Zenon DEF OnTheWay
      <3> QED BY <2>4, <3>1, <3>2
    <2>6. CopiesAreRoutes'
      BY <2>1, <2>2, <2>3, <2>4, Zenon DEF RouteInv, CopiesAreRoutes
    <2> QED BY <2>5, <2>6 DEF RouteInv
  <1>3. CASE Cancel
    <2>1. /\ UNCHANGED <<route, task, calls, boot, sel, saved>>
          /\ edit /\ edit' = FALSE
          /\ copy' = [copy EXCEPT ![sel] = saved]
          /\ crossed' = IF updated THEN crossed \cup {sel} ELSE crossed
      BY <1>3, Zenon DEF Cancel, OnMain
    <2>2. \A p \in Output : copy'[p] = IF p = sel THEN saved ELSE copy[p]
      BY <1>0, <2>1
    <2>3. \A p : OnTheWay(p)' <=> OnTheWay(p)
      BY <2>1 DEF OnTheWay
    <2>4. \A p \in Output \ crossed' : p \notin crossed /\ (p = sel => ~updated)
      BY <2>1
    <2>5. UpdatesCarryRoutes'
      BY <2>1, <2>4, Zenon DEF RouteInv, UpdatesCarryRoutes
    <2>6. CopiesAreRoutes'
      BY <2>1, <2>2, <2>3, <2>4, Zenon DEF RouteInv, CopiesAreRoutes
    <2> QED BY <2>5, <2>6 DEF RouteInv
  <1>4. CASE Build
    <2>1. /\ UNCHANGED <<route, task, calls, crossed, edit>>
          /\ copy' = route /\ edit = FALSE
      BY <1>0, <1>4, Zenon DEF Build, BootOrder
    <2>2. UpdatesCarryRoutes'
      BY <2>1 DEF RouteInv, UpdatesCarryRoutes
    <2>3. CopiesAreRoutes'
      BY <2>1, Zenon DEF CopiesAreRoutes
    <2> QED BY <2>2, <2>3 DEF RouteInv
  <1> QED BY <1>1, <1>2, <1>3, <1>4

(* All other steps.                                                         *)
LEMMA RoutesKept ==
  ASSUME TypeOK, TypeOK', BootOrder, RouteInv, Next
  PROVE  RouteInv'
  <1>1. ASSUME NEW d \in {-1, 1}, MoveSelection(d)
        PROVE  RouteInv'
    <2>1. /\ UNCHANGED <<route, task, calls, boot, crossed, copy, edit>>
          /\ ~edit
      BY <1>1, Zenon DEF MoveSelection, OnMain
    <2>2. UpdatesCarryRoutes'
      BY <2>1 DEF RouteInv, UpdatesCarryRoutes
    <2>3. \A p : OnTheWay(p)' <=> OnTheWay(p)
      BY <2>1 DEF OnTheWay
    <2>4. CopiesAreRoutes'
      BY <2>1, <2>3, Zenon DEF RouteInv, CopiesAreRoutes
    <2> QED BY <2>2, <2>4 DEF RouteInv
  <1>2. ASSUME NEW d \in {-1, 1}, ChooseInput(d)
        PROVE  RouteInv'
    <2>1. /\ UNCHANGED <<route, task, calls, boot, crossed, sel, edit, saved, updated>>
          /\ edit
      BY <1>2, Zenon DEF ChooseInput, OnMain
    <2>2. \A p \in Output \ {sel} : copy'[p] = copy[p]
      BY <1>2 DEF ChooseInput, TypeOK
    <2>3. UpdatesCarryRoutes'
      BY <2>1 DEF RouteInv, UpdatesCarryRoutes
    <2>4. \A p : OnTheWay(p)' <=> OnTheWay(p)
      BY <2>1 DEF OnTheWay
    <2>5. CopiesAreRoutes'
      BY <2>1, <2>2, <2>4, Zenon DEF RouteInv, CopiesAreRoutes
    <2> QED BY <2>3, <2>5 DEF RouteInv
  <1>3. ASSUME NEW d \in {-1, 1}, BrightnessStep(d) \/ Turn(d)
        PROVE  RouteInv'
    <2>1. /\ UNCHANGED <<route, task, calls, crossed, copy, sel, saved>>
          /\ edit' = edit /\ updated' = updated /\ boot' = boot
      BY <1>3, Zenon DEF BrightnessStep, Turn, matrix
    <2> QED BY <2>1, RoutesUntouched
  <1>4. ASSUME \/ OpenMenu \/ OpenCanScreen \/ ShowBrightness
               \/ SaveBrightness \/ CancelBrightness \/ Reapply
        PROVE  RouteInv'
    <2>1. /\ UNCHANGED <<route, task, calls, crossed, copy, sel, saved>>
          /\ edit' = edit /\ updated' = updated /\ boot' = boot
      BY <1>4, Zenon DEF OpenMenu, OpenCanScreen, ShowBrightness, Load,
         SaveBrightness, CancelBrightness, Reapply, matrix
    <2> QED BY <2>1, RoutesUntouched
  <1>5. CASE ShowMain
    <2>1. edit = FALSE /\ edit' = FALSE
      BY <1>5, Zenon DEF ShowMain, BootOrder, TypeOK
    <2>2. /\ UNCHANGED <<route, task, calls, crossed, copy, sel, saved>>
          /\ updated' = updated /\ boot' = boot
      BY <1>5, Zenon DEF ShowMain, Load
    <2> QED BY <2>1, <2>2, RoutesUntouched
  <1>6. ASSUME EndSplash \/ BeginFade \/ EndFade \/ Register
        PROVE  RouteInv'
    <2>1. /\ UNCHANGED <<route, task, calls, crossed, copy, sel, saved>>
          /\ edit' = edit /\ updated' = updated
      BY <1>6, Zenon DEF EndSplash, BeginFade, EndFade, Register, matrix
    <2>2. boot # "build" /\ boot' # "build"
      BY <1>6 DEF EndSplash, BeginFade, EndFade, Register
    <2> QED BY <2>1, <2>2, RoutesUntouched
  <1> QED BY <1>1, <1>2, <1>3, <1>4, <1>5, <1>6, RoutesCanTask, RoutesApply,
             RoutesMain, Zenon DEF Next

------------------------------------------------------------------------------
(* The theorems.                                                            *)

IInv == TypeOK /\ BootOrder /\ ScreenDrawsState /\ RouteInv /\ SettingInv

LEMMA TypeKept ==
  ASSUME TypeOK, Next
  PROVE  TypeOK'
  BY TypeCanTask, TypeApply, TypeMain, TypeScreens, TypeBoot, Zenon DEF Next

LEMMA InitInvariance == Init => IInv
  <1> SUFFICES ASSUME Init PROVE IInv
    OBVIOUS
  <1>1. BootOrder
    BY DEF Init, BootOrder
  <1>2. ScreenDrawsState /\ CopiesAreRoutes
    BY DEF Init, ScreenDrawsState, CopiesAreRoutes
  <1>3. UpdatesCarryRoutes
    BY DEF Init, UpdatesCarryRoutes
  <1>4. SettingInv
    BY DEF Init, SettingInv, LightIsSetting, SettingIsSaved, SavedPctIsSaved
  <1> QED BY TypeInit, <1>1, <1>2, <1>3, <1>4 DEF IInv, RouteInv

(* The inductive invariant of the user interface.                           *)
THEOREM Invariance == Spec => []IInv
  <1>1. ASSUME IInv, Next
        PROVE  IInv'
    <2>1. TypeOK /\ BootOrder /\ ScreenDrawsState /\ RouteInv /\ SettingInv
      BY <1>1 DEF IInv
    <2>2. TypeOK'            BY <1>1, <2>1, TypeKept
    <2>3. BootOrder'         BY <1>1, <2>1, BootOrderKept
    <2>4. ScreenDrawsState'  BY <1>1, <2>1, <2>2, ScreenKept
    <2>5. RouteInv'          BY <1>1, <2>1, <2>2, RoutesKept
    <2>6. SettingInv'        BY <1>1, <2>1, SettingKept
    <2> QED BY <2>2, <2>3, <2>4, <2>5, <2>6 DEF IInv
  <1>2. ASSUME IInv, UNCHANGED vars
        PROVE  IInv'
    <2>1. TypeOK'
      BY <1>2 DEF IInv, vars, matrix, bright, TypeOK
    <2>4. BootOrder'
      <3>1. UNCHANGED <<screen, boot, edit, updated, calls>>
        BY <1>2, Zenon DEF vars, matrix
      <3>2. BootOrder
        BY <1>2 DEF IInv
      <3> QED BY ONLY <3>1, <3>2, Zenon DEF BootOrder
    <2>5. SettingInv'
      BY <1>2, Zenon DEF IInv, vars, bright,
         SettingInv, LightIsSetting, SettingIsSaved, SavedPctIsSaved
    <2>2. ScreenDrawsState'
      BY <1>2, Zenon DEF IInv, vars, matrix, ScreenDrawsState, Drawn
    <2>3. RouteInv'
      <3>1. /\ UNCHANGED <<route, task, calls, crossed, copy, sel, saved>>
            /\ edit' = edit /\ updated' = updated /\ boot' = boot
        BY <1>2, Zenon DEF vars, matrix
      <3> QED BY <1>2, <3>1, RoutesUntouched DEF IInv
    <2> QED BY <2>1, <2>2, <2>3, <2>4, <2>5 DEF IInv
  <1>3. IInv /\ [Next]_vars => IInv'
    BY <1>1, <1>2
  <1> QED BY InitInvariance, <1>3, PTL DEF Spec

(* The state of the user interface keeps its types: no index leaves the     *)
(* matrix and the brightness stays in its range.                            *)
THEOREM TypeCorrectness == Spec => []TypeOK
  BY Invariance, PTL DEF IInv

(* The screen shows what the next event acts on.                            *)
THEOREM DrawnAsIs == Spec => []ScreenDrawsState
  BY Invariance, PTL DEF IInv

(* The screen shows what is routed, unless changes crossed or were lost.    *)
THEOREM RoutesShown == Spec => []ScreenTellsRoute
  <1>1. IInv => ScreenTellsRoute
    <2> SUFFICES ASSUME IInv, boot # "build", NEW o \in Output, ~OnTheWay(o),
                        o \notin crossed, ~(edit /\ sel = o)
                 PROVE  cell[o].input = route[o]
      BY DEF ScreenTellsRoute
    <2>1. copy[o] = route[o]
      BY Zenon DEF IInv, RouteInv, CopiesAreRoutes
    <2>2. cell[o] = Drawn(copy, sel, edit, o)
      BY Zenon DEF IInv, ScreenDrawsState
    <2>3. Drawn(copy, sel, edit, o).input = copy[o]
      BY DEF Drawn
    <2> QED BY <2>1, <2>2, <2>3
  <1> QED BY <1>1, Invariance, PTL

(* The backlight and flash have the brightness that is set.                 *)
THEOREM BrightnessKept == Spec => [](LightIsSetting /\ SettingIsSaved)
  <1>1. IInv => LightIsSetting /\ SettingIsSaved
    BY DEF IInv, SettingInv
  <1> QED BY <1>1, Invariance, PTL

(* Only the splash leaves half a turn behind.                               *)
THEOREM NoTurnIsLeftOver == Spec => NoTurnLeftOver
  <1>1. IInv /\ [Next]_vars =>
           [screen' # screen /\ screen # "splash" => accum' = 0]_vars
    <2> SUFFICES ASSUME BootOrder, Next, screen' # screen, screen # "splash"
                 PROVE  accum' = 0
      BY DEF IInv
    <2>1. CASE \/ OpenMenu \/ OpenCanScreen \/ ShowMain
               \/ ShowBrightness \/ SaveBrightness \/ CancelBrightness
      BY <2>1, Zenon DEF OpenMenu, OpenCanScreen, ShowMain, ShowBrightness,
         SaveBrightness, CancelBrightness, Load
    <2>2. CASE Build \/ EndSplash
      BY <2>2 DEF Build, EndSplash, BootOrder
    <2>3. CASE Notify \/ NotifyFails \/ NotifyNobody \/ BeginEdit \/ Commit \/ Cancel
      BY <2>3, Zenon DEF Notify, NotifyFails, NotifyNobody, BeginEdit, Commit, Cancel
    <2>4. CASE BeginFade \/ EndFade \/ Register \/ Reapply
      BY <2>4, Zenon DEF BeginFade, EndFade, Register, Reapply
    <2>5. ASSUME NEW d \in {-1, 1},
                 MoveSelection(d) \/ ChooseInput(d) \/ BrightnessStep(d) \/ Turn(d)
          PROVE  FALSE
      BY <2>5, Zenon DEF MoveSelection, ChooseInput, BrightnessStep, Turn
    <2>6. ASSUME NEW o \in Output, NEW i \in Input, ExternalSet(o, i)
          PROVE  FALSE
      BY <2>6, Zenon DEF ExternalSet
    <2>7. ASSUME NEW n \in 1..MaxCalls, Apply(n)
          PROVE  FALSE
      BY <2>7, Zenon DEF Apply, Dequeue
    <2> QED BY <2>1, <2>2, <2>3, <2>4, <2>5, <2>6, <2>7, Zenon DEF Next
  <1> QED BY <1>1, Invariance, PTL DEF Spec, NoTurnLeftOver
==============================================================================
