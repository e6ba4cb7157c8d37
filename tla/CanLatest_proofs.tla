--------------------------- MODULE CanLatest_proofs ---------------------------
(****************************************************************************)
(* Proofs about CanLatest for every number of columns and rows up to 16,    *)
(* every set of images, every frame and every initial routing.              *)
(****************************************************************************)
EXTENDS CanLatest, Columns_proofs

(* What goes to a panel is one value per lamp.                              *)
LEMMA PayloadType ==
  ASSUME NEW k, NEW t, NEW leds \in [Lamp -> 0..3]
  PROVE  Payload(k, t, leds) \in Lamps8
BY DEF Payload, FirstEight, SecondEight, Lamps8, Lamp

------------------------------------------------------------------------------
(* What a frame shows of a column.                                          *)

(* The modes there are, by the number they have on the wire.                *)
LEMMA ModesOf ==
  ASSUME NEW k, WellFormed(k), k.len > 0
  PROVE  /\ k.mode \in 0..5
         /\ Cycles(k) <=> k.mode \in {0, 4}
         /\ SixSteps(k) <=> k.mode \in {1, 5}
         /\ Radio(k) <=> k.mode \in {2, 3}
         /\ PartnerMode(k.mode) = IF k.mode = 0 THEN 4 ELSE IF k.mode = 4 THEN 0
                                  ELSE IF k.mode = 1 THEN 5
                                  ELSE IF k.mode = 5 THEN 1
                                  ELSE IF k.mode = 2 THEN 3 ELSE 2
BY DEF WellFormed, Cycles, SixSteps, Radio, PartnerMode, MODE_NORMAL,
       MODE_6STEP, MODE_RADIO_GREEN, MODE_RADIO_RED, MODE_NORMAL_SECONDARY,
       MODE_6STEP_SECONDARY

(* Only a radio bank has lamps on a second layer, and only a long one.      *)
LEMMA LampOfState ==
  ASSUME NEW k, WellFormed(k), NEW s \in State(k)
  PROVE  /\ LampOf(k, s) \in Lamp /\ k.len > 0 /\ k.len \in 0..16
         /\ ~Radio(k) => LampOf(k, s) < 8 /\ k.len <= 8
         /\ LampOf(k, s) >= 8 => k.len > 8
<1>1. k.len \in 0..16 /\ k.len > 0 /\ s \in 0..15 /\ s < k.len
  BY DEF WellFormed, Layout, State
<1>2. CASE Radio(k)
  BY <1>1, <1>2 DEF LampOf, Lamp
<1>3. CASE ~Radio(k)
  <2>1. LampOf(k, s) \in 0..4
    BY <1>3 DEF LampOf
  <2>2. k.len <= 8
    BY <1>1, <1>3 DEF WellFormed
  <2> QED BY <1>1, <1>3, <2>1, <2>2 DEF Lamp
<1> QED BY <1>2, <1>3

(* A lamp's layer is its bank's first, or the next one, which is another.   *)
LEMMA LayersOf ==
  ASSUME NEW k, WellFormed(k), NEW g \in Lamp
  PROVE  /\ g < 8 => LayerOfLamp(k, g) = Layer(k.base) /\ g % 8 = g
         /\ g >= 8 => LayerOfLamp(k, g) = NextLayer(k.base) /\ g % 8 = g - 8
         /\ NextLayer(k.base) # Layer(k.base)
<1>1. k.base \in 0..255
  BY DEF WellFormed, Layout, Byte
<1>2. Layer(k.base) \in 0..255
  BY <1>1 DEF Layer
<1>3. g \in 0..15
  BY DEF Lamp
<1>4. g < 8 => g \div 8 = 0 /\ g % 8 = g
  BY <1>3
<1>5. g >= 8 => g \div 8 = 1 /\ g % 8 = g - 8
  BY <1>3
<1> QED BY <1>2, <1>4, <1>5 DEF LayerOfLamp, NextLayer

(* The layer of a column's lamp is one it sends to, and the lamp is where   *)
(* the frame has it.                                                        *)
LEMMA LampIsSent ==
  ASSUME NEW k, WellFormed(k), NEW s \in State(k), NEW a \in Addresses(k),
         NEW leds \in [Lamp -> 0..3]
  PROVE  LET g == LampOf(k, s)
             t == <<a, LayerOfLamp(k, g)>>
         IN  t \in Targets(k) /\ Payload(k, t, leds)[g % 8] = leds[g]
<1> DEFINE g == LampOf(k, s)
           t == <<a, LayerOfLamp(k, g)>>
<1>1. g \in Lamp /\ (g >= 8 => k.len > 8)
  BY LampOfState
<1> HIDE DEF g
<1>2. CASE g < 8
  <2>1. t = <<a, Layer(k.base)>> /\ g % 8 = g /\ g \in 0..7
    BY <1>1, <1>2, LayersOf DEF Lamp
  <2>2. Payload(k, t, leds)[g] = leds[g]
    BY <2>1 DEF Payload, FirstEight
  <2> QED BY <2>1, <2>2 DEF Targets, g
<1>3. CASE g >= 8
  <2>1. /\ t = <<a, NextLayer(k.base)>> /\ g % 8 = g - 8 /\ g - 8 \in 0..7
        /\ NextLayer(k.base) # Layer(k.base) /\ g - 8 + 8 = g
    BY <1>1, <1>3, LayersOf DEF Lamp
  <2>2. Payload(k, t, leds)[g - 8] = leds[g - 8 + 8]
    BY <2>1 DEF Payload, SecondEight
  <2>3. t \in Targets(k)
    BY <1>1, <1>3, <2>1 DEF Targets
  <2> QED BY <2>1, <2>2, <2>3 DEF g
<1>4. g < 8 \/ g >= 8
  BY <1>1 DEF Lamp
<1> QED BY <1>2, <1>3, <1>4

(* In particular, every lamp of a column is on a layer it sends to.         *)
LEMMA LampSent ==
  ASSUME NEW k, WellFormed(k), NEW s \in State(k), NEW a \in Addresses(k)
  PROVE  <<a, LayerOfLamp(k, LampOf(k, s))>> \in Targets(k)
<1>1. [g \in Lamp |-> 0] \in [Lamp -> 0..3]
  OBVIOUS
<1> QED BY <1>1, LampIsSent

(* A column's lamps have its colours only.                                  *)
LEMMA OwnColourKept ==
  ASSUME NEW k, WellFormed(k), NEW s \in State(k), NEW u
  PROVE  LET x == OwnLamps(k, u)[LampOf(k, s)] IN OwnColour(k, x) = x
<1> DEFINE g == LampOf(k, s)
           x == OwnLamps(k, u)[g]
<1>1. g \in Lamp
  BY LampOfState
<1>2. CASE k.mode = MODE_RADIO_GREEN
  <2>1. x \in {0, 1}
    BY <1>1, <1>2 DEF OwnLamps, LightOf
  <2> HIDE DEF x
  <2>2. x % 2 = x
    BY <2>1
  <2>3. OwnColour(k, x) = x
    BY <1>2, <2>2 DEF OwnColour
  <2> QED BY <2>3 DEF x
<1>3. CASE k.mode = MODE_RADIO_RED
  <2>1. x \in {0, 2}
    BY <1>1, <1>3 DEF OwnLamps, LightOf, MODE_RADIO_GREEN, MODE_RADIO_RED
  <2> HIDE DEF x
  <2>2. 2 * (x \div 2) = x
    BY <2>1
  <2>3. OwnColour(k, x) = x
    BY <1>3, <2>2 DEF OwnColour, MODE_RADIO_GREEN, MODE_RADIO_RED
  <2> QED BY <2>3 DEF x
<1>4. CASE k.mode \notin {MODE_RADIO_GREEN, MODE_RADIO_RED}
  BY <1>4 DEF OwnColour
<1> QED BY <1>2, <1>3, <1>4

(* The lamps of a column show in a frame that has its partner's too.        *)
LEMMA ColourOfSum ==
  ASSUME NEW k, WellFormed(k), NEW s \in State(k), NEW u,
         NEW q, WellFormed(q), q.mode = PartnerMode(k.mode), NEW v
  PROVE  LET g == LampOf(k, s) IN
         /\ OwnLamps(k, u)[g] \in 0..3 /\ OwnLamps(q, v)[g] \in 0..3
         /\ OwnColour(k, OwnLamps(k, u)[g]) = OwnLamps(k, u)[g]
         /\ OwnColour(k, OwnLamps(k, u)[g] + OwnLamps(q, v)[g])
               = OwnLamps(k, u)[g]
<1> DEFINE g == LampOf(k, s)
           x == OwnLamps(k, u)[g]
           y == OwnLamps(q, v)[g]
<1>1. g \in Lamp /\ k.len > 0
  BY LampOfState
<1>2. x \in 0..3 /\ y \in 0..3
  BY <1>1, OwnLampsType
<1>3. CASE k.mode = MODE_RADIO_GREEN
  <2>1. x \in {0, 1} /\ y \in {0, 2}
    BY <1>1, <1>3
       DEF OwnLamps, LightOf, PartnerMode, MODE_NORMAL, MODE_6STEP,
           MODE_RADIO_GREEN, MODE_RADIO_RED, MODE_NORMAL_SECONDARY,
           MODE_6STEP_SECONDARY
  <2> HIDE DEF x, y
  <2>2. x % 2 = x /\ (x + y) % 2 = x
    BY <2>1
  <2>3. OwnColour(k, x) = x /\ OwnColour(k, x + y) = x
    BY <1>3, <2>2 DEF OwnColour
  <2> QED BY <1>2, <2>3 DEF x, y
<1>4. CASE k.mode = MODE_RADIO_RED
  <2>1. x \in {0, 2} /\ y \in {0, 1}
    BY <1>1, <1>4
       DEF OwnLamps, LightOf, PartnerMode, MODE_NORMAL, MODE_6STEP,
           MODE_RADIO_GREEN, MODE_RADIO_RED, MODE_NORMAL_SECONDARY,
           MODE_6STEP_SECONDARY
  <2> HIDE DEF x, y
  <2>2. 2 * (x \div 2) = x /\ 2 * ((x + y) \div 2) = x
    BY <2>1
  <2>3. OwnColour(k, x) = x /\ OwnColour(k, x + y) = x
    BY <1>4, <2>2 DEF OwnColour, MODE_RADIO_GREEN, MODE_RADIO_RED
  <2> QED BY <1>2, <2>3 DEF x, y
<1>5. CASE k.mode \notin {MODE_RADIO_GREEN, MODE_RADIO_RED}
  <2>1. y = 0
    <3>1. LampOf(q, v) # g
      BY <1>1, <1>5, ModesOf
         DEF LampOf, PartnerMode, Radio, SixSteps, MODE_NORMAL, MODE_6STEP,
             MODE_RADIO_GREEN, MODE_RADIO_RED, MODE_NORMAL_SECONDARY,
             MODE_6STEP_SECONDARY
    <3> QED BY <1>1, <3>1 DEF OwnLamps
  <2>2. OwnColour(k, x) = x /\ OwnColour(k, x + y) = x
    <3> HIDE DEF x, y
    <3>1. x + y = x
      BY <1>2, <2>1
    <3> QED BY <1>5, <3>1 DEF OwnColour
  <2> QED BY <1>2, <2>2
<1> QED BY <1>3, <1>4, <1>5

(* The one column that completes another is the one fill_ledbuff() finds.   *)
LEMMA OnlyComplementIsPartner ==
  ASSUME NEW cf, NEW d \in Column, WellFormed(cf[d]), cf[d].len > 0, NEW c,
         {e \in Column \ {d} : Complements(cf[d], cf[e])} = {c}
  PROVE  Partner(cf, d) = c
<1> DEFINE m == PartnerMode(cf[d].mode)
<1>1. c \in Column /\ c # d /\ Complements(cf[d], cf[c])
  OBVIOUS
<1>2. CASE Radio(cf[d])
  <2> DEFINE paired == {e \in Column \ {d} : /\ cf[e].mode = m
                                             /\ cf[e].base = cf[d].base}
  <2>1. paired = {c}
    BY <1>2 DEF Complements
  <2>2. Min(paired) = c
    BY <1>1, <2>1, ExtremeColumns
  <2>3. FindRadioPartner(cf, d, m) = c
    BY <2>1, <2>2 DEF FindRadioPartner
  <2> QED BY <1>2, <2>3 DEF Partner
<1>3. CASE ~Radio(cf[d])
  <2> DEFINE paired(i) == {e \in OwnersOf(cf, cf[d].addrs[i]) \ {d} :
                             cf[e].mode = m}
             shared == {i \in 1..4 : paired(i) # {}}
  <2>1. ASSUME NEW i \in 1..4, NEW e \in paired(i)
        PROVE  e = c
    <3>1. /\ e \in Column \ {d} /\ cf[e].mode = m /\ cf[d].addrs[i] # None
          /\ \E j \in 1..4 : cf[e].addrs[j] = cf[d].addrs[i]
      BY DEF OwnersOf
    <3>2. cf[d].addrs[i] \in Addresses(cf[d]) \cap Addresses(cf[e])
      BY <3>1 DEF Addresses
    <3> QED BY <1>3, <3>1, <3>2 DEF Complements
  <2>2. shared # {}
    <3>1. PICK a \in Addresses(cf[d]) \cap Addresses(cf[c]) : TRUE
      BY <1>1, <1>3 DEF Complements
    <3>2. PICK i \in 1..4 : cf[d].addrs[i] = a
      BY <3>1 DEF Addresses
    <3>3. c \in OwnersOf(cf, a)
      BY <1>1, <3>1 DEF OwnersOf, Addresses
    <3>4. c \in paired(i)
      BY <1>1, <3>2, <3>3 DEF Complements
    <3> QED BY <3>4
  <2>3. Min(shared) \in shared
    <3>1. shared \in SUBSET Nat
      OBVIOUS
    <3> QED BY <2>2, <3>1, MinOfNaturals
  <2>4. paired(Min(shared)) = {c}
    BY <2>1, <2>3
  <2>5. Min(paired(Min(shared))) = c
    BY <1>1, <2>4, ExtremeColumns
  <2>6. FindCompanion(cf, d, m) = c
    BY <2>2, <2>5 DEF FindCompanion
  <2> QED BY <1>3, <2>6 DEF Partner
<1> QED BY <1>2, <1>3

(* Which columns may send what for target t: c, and columns made to share   *)
(* lamps with c alone.                                                      *)
MaySend(cf, c, t, w) ==
    /\ w \in Column /\ cf[w].len > 0 /\ t \in Targets(cf[w])
    /\ w # c => {e \in Column \ {w} : Complements(cf[w], cf[e])} = {c}

(* Whoever of them sends a frame, it shows the state column c is in.        *)
LEMMA FrameShows ==
  ASSUME NEW cf, \A d \in Column : WellFormed(cf[d]), NEW sl,
         NEW c \in Column, NEW s \in State(cf[c]), NEW a \in Addresses(cf[c]),
         NEW w, MaySend(cf, c, <<a, LayerOfLamp(cf[c], LampOf(cf[c], s))>>, w),
         sl[w] \in State(cf[w])
  PROVE  LET g == LampOf(cf[c], s)
             t == <<a, LayerOfLamp(cf[c], g)>>
         IN  OwnColour(cf[c], Payload(cf[w], t, FillLedBuff(cf, sl, w))[g % 8])
                = OwnLamps(cf[c], sl[c])[g]
<1> DEFINE k == cf[c]
           g == LampOf(k, s)
           t == <<a, LayerOfLamp(k, g)>>
           leds == FillLedBuff(cf, sl, w)
<1>1. w \in Column /\ WellFormed(k) /\ WellFormed(cf[w])
  BY DEF MaySend
<1>2. g \in Lamp /\ k.len > 0 /\ leds \in [Lamp -> 0..3]
  BY <1>1, LampOfState, FillLedBuffType
<1>3. CASE w = c
  <2>1. Payload(k, t, leds)[g % 8] = leds[g]
    <3> HIDE DEF leds
    <3> QED BY <1>1, <1>2, LampIsSent
  <2>2. OwnColour(k, leds[g]) = OwnLamps(k, sl[c])[g]
    <3>1. CASE Partner(cf, c) = None
      <4>1. leds[g] = OwnLamps(k, sl[c])[g]
        BY <1>3, <3>1 DEF FillLedBuff
      <4>2. OwnColour(k, OwnLamps(k, sl[c])[g]) = OwnLamps(k, sl[c])[g]
        BY <1>1, OwnColourKept
      <4> QED BY <4>1, <4>2
    <3>2. CASE Partner(cf, c) # None
      <4> DEFINE p == Partner(cf, c)
      <4>1. p \in Column /\ cf[p].mode = PartnerMode(k.mode)
        BY <3>2, PartnerHasPartnerMode
      <4>2. leds[g] = OwnLamps(k, sl[c])[g] + OwnLamps(cf[p], sl[p])[g]
        BY <1>2, <1>3, <3>2 DEF FillLedBuff
      <4>3. WellFormed(cf[p])
        BY <4>1
      <4> HIDE DEF p
      <4> QED BY <1>1, <4>1, <4>2, <4>3, ColourOfSum
    <3> QED BY <3>1, <3>2
  <2> QED BY <1>3, <2>1, <2>2
<1>4. CASE w # c
  <2>1. Partner(cf, w) = c /\ cf[w].len > 0 /\ Complements(cf[w], k)
    BY <1>1, <1>4, OnlyComplementIsPartner DEF MaySend
  <2>2. k.mode = PartnerMode(cf[w].mode) /\ cf[w].mode = PartnerMode(k.mode)
    <3>1. k.mode = PartnerMode(cf[w].mode)
      BY <2>1 DEF Complements
    <3>2. /\ cf[w].mode \in 0..5
          /\ PartnerMode(cf[w].mode) =
               IF cf[w].mode = 0 THEN 4 ELSE IF cf[w].mode = 4 THEN 0
               ELSE IF cf[w].mode = 1 THEN 5 ELSE IF cf[w].mode = 5 THEN 1
               ELSE IF cf[w].mode = 2 THEN 3 ELSE 2
      BY <1>1, <2>1, ModesOf
    <3>3. PartnerMode(k.mode) =
            IF k.mode = 0 THEN 4 ELSE IF k.mode = 4 THEN 0
            ELSE IF k.mode = 1 THEN 5 ELSE IF k.mode = 5 THEN 1
            ELSE IF k.mode = 2 THEN 3 ELSE 2
      BY <1>1, <1>2, ModesOf
    <3> QED BY <3>1, <3>2, <3>3
  <2>3. leds[g] = OwnLamps(cf[w], sl[w])[g] + OwnLamps(k, sl[c])[g]
    <3>1. c # None
      BY SizeFacts
    <3> QED BY <1>2, <2>1, <3>1 DEF FillLedBuff
  <2>4. OwnColour(k, leds[g]) = OwnLamps(k, sl[c])[g]
    <3> DEFINE x == OwnLamps(k, sl[c])[g]
               y == OwnLamps(cf[w], sl[w])[g]
    <3>1. x \in 0..3 /\ y \in 0..3 /\ OwnColour(k, x + y) = x
      BY <1>1, <2>2, ColourOfSum
    <3> HIDE DEF x, y
    <3>2. y + x = x + y
      BY <3>1
    <3>3. leds[g] = y + x
      BY <2>3 DEF x, y
    <3>4. OwnColour(k, leds[g]) = x
      BY <3>1, <3>2, <3>3
    <3> QED BY <3>4 DEF x
  <2>5. Payload(cf[w], t, leds)[g % 8] = leds[g]
    <3> HIDE DEF leds
    <3>1. t \in Targets(cf[w])
      BY DEF MaySend
    <3>2. CASE Radio(cf[w])
      <4>1. k.base = cf[w].base
        BY <2>1, <3>2 DEF Complements
      <4>2. Payload(k, t, leds)[g % 8] = leds[g]
        BY <1>1, <1>2, LampIsSent
      <4>3. Payload(cf[w], t, leds) = Payload(k, t, leds)
        BY <4>1 DEF Payload
      <4> QED BY <4>2, <4>3
    <3>3. CASE ~Radio(cf[w])
      <4>1. ~Radio(k)
        <5>1. /\ Radio(k) <=> k.mode \in {2, 3}
              /\ Radio(cf[w]) <=> cf[w].mode \in {2, 3}
          BY <1>1, <1>2, <2>1, ModesOf
        <5>2. /\ cf[w].mode \in 0..5
              /\ PartnerMode(cf[w].mode) =
                   IF cf[w].mode = 0 THEN 4 ELSE IF cf[w].mode = 4 THEN 0
                   ELSE IF cf[w].mode = 1 THEN 5 ELSE IF cf[w].mode = 5 THEN 1
                   ELSE IF cf[w].mode = 2 THEN 3 ELSE 2
          BY <1>1, <2>1, ModesOf
        <5> QED BY <2>2, <3>3, <5>1, <5>2
      <4>2. g < 8 /\ g \in 0..7
        BY <1>1, <1>2, <4>1, LampOfState DEF Lamp
      <4>3. t = <<a, Layer(k.base)>> /\ g % 8 = g
        BY <1>1, <1>2, <4>2, LayersOf
      <4>4. cf[w].len <= 8 /\ cf[w].len \in 0..16
        BY <1>1, <3>3, LampOfState
      <4>5. t[2] = Layer(cf[w].base)
        BY <3>1, <4>4 DEF Targets
      <4> QED BY <4>2, <4>3, <4>5 DEF Payload, FirstEight
    <3> QED BY <3>2, <3>3
  <2> QED BY <2>4, <2>5
<1> QED BY <1>3, <1>4

------------------------------------------------------------------------------
(* The inductive invariant: types, and the cursor of every configured column*)
(* right after its selected state.  LampsTellTheRoute is inductive with it. *)

IInv == TypeOK /\ CursorFollowsSelection /\ LampsTellTheRoute

(* A set of panel updates leaves every panel with lamp values.              *)
LEMMA PanelsStayTyped ==
  ASSUME NEW cf, \A d \in Column : WellFormed(cf[d]), NEW sl, TypeOK
  PROVE  /\ Broadcast(cf, sl) => panel' \in [Panels -> Lamps8 \cup {Unknown}]
         /\ \A c \in Column : \A sl2 :
              SendToColumn(c, FillLedBuff(cf, sl2, c))
                => panel' \in [Panels -> Lamps8 \cup {Unknown}]
<1>1. \A c \in Column : \A t, sl2 :
         Payload(cf[c], t, FillLedBuff(cf, sl2, c)) \in Lamps8
  BY FillLedBuffType, PayloadType
<1>2. \A c \in Column : \A t, k, sl2 :
         Payload(k, t, FillLedBuff(cf, sl2, c)) \in Lamps8
  BY FillLedBuffType, PayloadType
<1>3. ASSUME Broadcast(cf, sl)
      PROVE  panel' \in [Panels -> Lamps8 \cup {Unknown}]
  <2> DEFINE on == {c \in Column : cf[c].len > 0}
             writes == UNION {{c} \X Targets(cf[c]) : c \in on}
             writers(sent, t) == {c \in on : <<c, t>> \in sent}
  <2>1. PICK sent \in SUBSET writes :
          panel' = [t \in Panels |->
             IF writers(sent, t) # {}
             THEN Payload(cf[Max(writers(sent, t))], t,
                          FillLedBuff(cf, sl, Max(writers(sent, t))))
             ELSE IF \E c \in on : t \in Targets(cf[c]) THEN Unknown
             ELSE panel[t]]
    BY <1>3 DEF Broadcast
  <2>2. ASSUME NEW t \in Panels
        PROVE  panel'[t] \in Lamps8 \cup {Unknown}
    <3>1. CASE writers(sent, t) # {}
      <4>1. Max(writers(sent, t)) \in Column
        BY <3>1, ExtremeColumns
      <4>2. QED
        BY <1>1, <2>1, <3>1, <4>1
    <3>2. CASE writers(sent, t) = {}
      BY <2>1, <3>2 DEF TypeOK
    <3>3. QED
      BY <3>1, <3>2
  <2>3. QED
    BY <2>1, <2>2
<1>4. ASSUME NEW c \in Column, NEW sl2,
             SendToColumn(c, FillLedBuff(cf, sl2, c))
      PROVE  panel' \in [Panels -> Lamps8 \cup {Unknown}]
  BY <1>2, <1>4 DEF SendToColumn, TypeOK
<1>5. QED
  BY <1>3, <1>4

(* The configuration at boot satisfies the invariant.                       *)
LEMMA InitIInv == Init => IInv
<1> SUFFICES ASSUME Init PROVE IInv
  OBVIOUS
<1>1. conf \in [Column -> Layout] /\ \A c \in Column : WellFormed(conf[c])
  BY BlankWellFormed DEF Init, Unconfigured, WellFormed
<1>2. Configured = {}
  BY DEF Init, Unconfigured, Configured, Blank
<1>3. TypeOK
  BY <1>1, ImagesAssumption DEF Init, TypeOK, Slot
<1>4. QED
  BY <1>2, <1>3 DEF IInv, CursorFollowsSelection, LampsTellTheRoute

(* can_latest_reconfigure() restores it for any new image.                  *)
LEMMA ReconfigureIInv ==
  ASSUME IInv, NEW img \in Images, Reconfigure(img)
  PROVE  IInv'
<1>1. \A c \in Column : conf'[c] = LayoutOf(img[c]) /\ WellFormed(conf'[c])
  BY ImagesAssumption, LayoutWellFormed DEF Reconfigure, Configure
<1>2. conf' \in [Column -> Layout]
  BY <1>1 DEF Reconfigure, Configure, WellFormed
<1>3. \A c \in Column :
        conf'[c].len > 0 =>
          /\ sel'[c] \in State(conf'[c])
          /\ ptr'[c] = CursorAfter(conf'[c], sel'[c], 0)
          /\ \/ route'[c] = conf'[c].rows[sel'[c]]
             \/ \A i \in State(conf'[c]) : route'[c] # conf'[c].rows[i]
  <2> SUFFICES ASSUME NEW c \in Column, conf'[c].len > 0
               PROVE  /\ sel'[c] \in State(conf'[c])
                      /\ ptr'[c] = CursorAfter(conf'[c], sel'[c], 0)
                      /\ \/ route'[c] = conf'[c].rows[sel'[c]]
                         \/ \A i \in State(conf'[c]) :
                              route'[c] # conf'[c].rows[i]
    OBVIOUS
  <2> DEFINE k == conf'[c]
  <2>1. k.len \in 1..16 /\ 0 \in State(k) /\ None \notin State(k)
    BY <1>1 DEF WellFormed, Layout, State, None
  <2>2. LET found == StateForRow(k, route[c]) IN
        \/ found \in State(k) /\ k.rows[found] = route[c]
        \/ found = None /\ \A i \in State(k) : k.rows[i] # route[c]
    BY <1>1, StateForRowFinds
  <2>3. sel'[c] = RestoredState(k, route[c])
        /\ ptr'[c] = RestoredCursor(k, sel'[c]) /\ route'[c] = route[c]
    BY DEF Reconfigure
  <2>4. QED
    BY <2>1, <2>2, <2>3 DEF RestoredState, RestoredCursor
<1>4. sel' \in [Column -> Slot] /\ ptr' \in [Column -> Slot]
  <2>1. \A c \in Column : sel'[c] \in Slot /\ ptr'[c] \in Slot
    <3> SUFFICES ASSUME NEW c \in Column
                 PROVE  sel'[c] \in Slot /\ ptr'[c] \in Slot
      OBVIOUS
    <3>1. conf'[c].len \in 0..16
      BY <1>1 DEF WellFormed, Layout
    <3>2. CASE conf'[c].len = 0
      BY <3>2 DEF Reconfigure, RestoredState, RestoredCursor, Slot
    <3>3. CASE conf'[c].len > 0
      <4>1. sel'[c] \in State(conf'[c]) /\ ptr'[c] \in State(conf'[c])
        BY <1>1, <1>3, <3>3, CursorAfterInRange
      <4>2. QED
        BY <3>1, <4>1 DEF State, Slot
    <3>4. QED
      BY <3>1, <3>2, <3>3
  <2>2. QED
    BY <2>1 DEF Reconfigure
<1>5. panel' \in [Panels -> Lamps8 \cup {Unknown}]
  BY <1>1, PanelsStayTyped DEF Reconfigure, IInv
<1>6. route' \in [Column -> Row]
  BY DEF Reconfigure, IInv, TypeOK
<1>7. QED
  BY <1>1, <1>2, <1>3, <1>4, <1>5, <1>6
     DEF IInv, TypeOK, CursorFollowsSelection, LampsTellTheRoute, Configured

(* Answering a panel's refresh request preserves it.                        *)
LEMMA RefreshRequestIInv ==
  ASSUME IInv, NEW f \in BusFrames, RefreshRequest(f)
  PROVE  IInv'
<1>1. panel' \in [Panels -> Lamps8 \cup {Unknown}]
  BY PanelsStayTyped DEF RefreshRequest, IInv, TypeOK
<1>2. QED
  BY <1>1 DEF RefreshRequest, IInv, TypeOK, CursorFollowsSelection,
              LampsTellTheRoute, Configured

(* One column moves to state s with its cursor after s, and the route       *)
(* becomes the one s stands for unless s is an unassigned slot: what a      *)
(* press and an edit in the UI have in common.                              *)
LEMMA ColumnMovesIInv ==
  ASSUME IInv, NEW c \in Column, conf[c].len > 0, NEW s \in State(conf[c]),
         conf' = conf,
         sel' = [sel EXCEPT ![c] = s],
         ptr' = [ptr EXCEPT ![c] = CursorAfter(conf[c], s, 0)],
         SetRoute(c, conf[c].rows[s]),
         panel' \in [Panels -> Lamps8 \cup {Unknown}]
  PROVE  IInv'
<1> USE DEF IInv, TypeOK
<1>0. conf[c] \in Layout
  OBVIOUS
<1>1. conf[c].len \in 0..16 /\ s \in Slot
      /\ conf[c].rows[s] \in Row \cup {None}
  <2>1. conf[c].len \in 0..16
    BY <1>0 DEF Layout
  <2>2. s \in Slot
    BY <2>1 DEF State, Slot
  <2>3. QED
    BY <1>0, <2>1, <2>2 DEF Layout
<1>2. CursorAfter(conf[c], s, 0) \in State(conf[c])
  BY CursorAfterInRange
<1>3. CursorAfter(conf[c], s, 0) \in Slot
  BY <1>1, <1>2 DEF State, Slot
<1>4. route' \in [Column -> Row]
  BY <1>1 DEF SetRoute
<1>5. TypeOK'
  BY <1>1, <1>3, <1>4
<1>6. CursorFollowsSelection'
  BY DEF CursorFollowsSelection, Configured
<1>7. LampsTellTheRoute'
  <2> SUFFICES ASSUME NEW d \in Column, conf[d].len > 0,
                      FullyAssigned(conf[d])
               PROVE  \/ route'[d] = conf[d].rows[sel'[d]]
                      \/ \A i \in State(conf[d]) : route'[d] # conf[d].rows[i]
    BY DEF LampsTellTheRoute, Configured
  <2>1. CASE d # c
    BY <2>1 DEF LampsTellTheRoute, Configured, SetRoute
  <2>2. CASE d = c
    BY <1>1, <2>2 DEF FullyAssigned, SetRoute
  <2>3. QED
    BY <2>1, <2>2
<1>8. QED
  BY <1>5, <1>6, <1>7

(* A frame resolves to a column whose layout owns the position.             *)
LEMMA ResolvedIsColumn ==
  ASSUME NEW cf, NEW a, NEW b, NEW red, ResolveColumn(cf, a, b, red) # None
  PROVE  ResolveColumn(cf, a, b, red) \in Column
<1> DEFINE owners == OwnersOf(cf, a)
           placed == {c \in owners : OwnsPosition(cf[c], b % 8)}
<1>1. owners \in SUBSET Column
  BY DEF OwnersOf
<1>2. Cardinality(owners) \in {1, 2}
  BY DEF ResolveColumn
<1>3. owners # {}
  BY <1>2, FS_EmptySet
<1>4. Min(owners) \in Column /\ Max(owners) \in Column
  BY <1>1, <1>3, ExtremeColumns
<1>5. placed # {} => Min(placed) \in Column
  BY <1>1, ExtremeColumns
<1>6. QED
  BY <1>4, <1>5 DEF ResolveColumn

(* A button press preserves it.                                             *)
LEMMA ButtonPressIInv ==
  ASSUME IInv, NEW f \in BusFrames, ButtonPress(f)
  PROVE  IInv'
<1> DEFINE c     == ResolveColumn(conf, PressAddress(f), PressButton(f),
                                  PressIsRed(f))
           k     == conf[c]
           which == PressButton(f) - k.base
           s     == PressedState(k, which, ptr[c])
<1>1. c \in Column
  BY ResolvedIsColumn DEF ButtonPress
<1>2. WellFormed(k) /\ k.base \in Int
  <2>1. conf \in [Column -> Layout] /\ \A d \in Column : WellFormed(conf[d])
    BY DEF IInv, TypeOK
  <2>2. k \in Layout
    BY ONLY <1>1, <2>1
  <2>3. k.base \in Int
    <3> HIDE DEF k
    <3>1. k.base \in Byte
      BY ONLY <2>2, Zenon DEF Layout
    <3> QED BY ONLY <3>1 DEF Byte
  <2> QED BY ONLY <1>1, <2>1, <2>3
<1>3. which \in Int
  BY <1>2, ImagesAssumption DEF PressButton, Byte
<1>4. AcceptsButton(k, which) /\ k.len > 0
  <2>1. AcceptsButton(k, which)
    BY DEF ButtonPress
  <2>2. QED
    BY <1>2, <1>3, <2>1 DEF AcceptsButton, WellFormed, Layout
<1>5. sel[c] \in State(k) /\ ptr[c] = CursorAfter(k, sel[c], 0)
  BY <1>1, <1>4 DEF IInv, CursorFollowsSelection, Configured
<1>6. ptr[c] \in State(k) /\ (Radio(k) => ptr[c] = 0)
  BY <1>2, <1>4, <1>5, CursorAfterInRange
     DEF Radio, Cycles, SixSteps, MODE_NORMAL, MODE_6STEP, MODE_RADIO_GREEN,
         MODE_RADIO_RED, MODE_NORMAL_SECONDARY, MODE_6STEP_SECONDARY
<1>7. s \in State(k) /\ PressedCursor(k, which, s, ptr[c])
                         = CursorAfter(k, s, 0)
  BY <1>2, <1>3, <1>4, <1>6, PressStaysOnTrack
<1>8. /\ conf' = conf
      /\ sel' = [sel EXCEPT ![c] = s]
      /\ ptr' = [ptr EXCEPT ![c] = CursorAfter(k, s, 0)]
      /\ SetRoute(c, k.rows[s])
      /\ SendToColumn(c, FillLedBuff(conf, sel', c))
  BY <1>7 DEF ButtonPress
<1>9. panel' \in [Panels -> Lamps8 \cup {Unknown}]
  BY <1>1, <1>8, PanelsStayTyped DEF IInv, TypeOK
<1>10. QED
  BY <1>1, <1>4, <1>7, <1>8, <1>9, ColumnMovesIInv

(* A routing change from the display preserves it.                          *)
LEMMA UiRouteIInv ==
  ASSUME IInv, NEW c \in Column, NEW row \in Row, UiRoute(c, row)
  PROVE  IInv'
<1> DEFINE k     == conf[c]
           found == StateForRow(k, row)
<1>1. WellFormed(k) /\ k.len \in 0..16
  BY DEF IInv, TypeOK, WellFormed, Layout
<1>2. \/ found \in State(k) /\ k.rows[found] = row
      \/ found = None /\ \A i \in State(k) : k.rows[i] # row
  BY <1>1, StateForRowFinds
<1>3. CASE found # None
  <2>1. found \in State(k) /\ k.rows[found] = row /\ k.len > 0
    BY <1>1, <1>2, <1>3 DEF State
  <2>2. /\ conf' = conf
        /\ sel' = [sel EXCEPT ![c] = found]
        /\ ptr' = [ptr EXCEPT ![c] = CursorAfter(k, found, ptr[c])]
        /\ SetRoute(c, k.rows[found])
        /\ SendToColumn(c, FillLedBuff(conf, sel', c))
    BY <1>3, <2>1 DEF UiRoute
  <2>3. sel[c] \in State(k) /\ ptr[c] = CursorAfter(k, sel[c], 0)
    BY <2>1 DEF IInv, CursorFollowsSelection, Configured
  <2>4. CursorAfter(k, found, ptr[c]) = CursorAfter(k, found, 0)
    BY <1>1, <2>1, <2>3, CursorAfterInRange
  <2>5. panel' \in [Panels -> Lamps8 \cup {Unknown}]
    BY <2>2, PanelsStayTyped DEF IInv, TypeOK
  <2>6. QED
    BY <2>1, <2>2, <2>4, <2>5, ColumnMovesIInv
<1>4. CASE found = None
  <2>1. None \notin State(k)
    BY <1>1 DEF State, None
  <2>2. /\ conf' = conf /\ sel' = sel /\ ptr' = ptr /\ panel' = panel
        /\ route' = [route EXCEPT ![c] = row]
        /\ \A i \in State(k) : k.rows[i] # row
    BY <1>2, <1>4, <2>1 DEF UiRoute, SetRoute
  <2>3. QED
    BY <2>2 DEF IInv, TypeOK, CursorFollowsSelection, LampsTellTheRoute,
                Configured
<1>5. QED
  BY <1>3, <1>4

(* The invariant of the component, for every installation.                  *)
THEOREM Invariance == Spec => []IInv
<1>1. Init => IInv
  BY InitIInv
<1>2. IInv /\ [Next]_vars => IInv'
  <2> SUFFICES ASSUME IInv, [Next]_vars PROVE IInv'
    OBVIOUS
  <2>1. CASE \E img \in Images : Reconfigure(img)
    BY <2>1, ReconfigureIInv
  <2>2. CASE \E f \in BusFrames : RefreshRequest(f)
    BY <2>2, RefreshRequestIInv
  <2>3. CASE \E f \in BusFrames : ButtonPress(f)
    BY <2>3, ButtonPressIInv
  <2>4. CASE \E c \in Column, row \in UiInputs : UiRoute(c, row)
    BY <2>4, UiRouteIInv, ImagesAssumption
  <2>5. CASE UNCHANGED vars
    BY <2>5 DEF vars, IInv, TypeOK, CursorFollowsSelection, LampsTellTheRoute,
                Configured
  <2>6. QED
    BY <2>1, <2>2, <2>3, <2>4, <2>5 DEF Next
<1>3. QED
  BY <1>1, <1>2, PTL DEF Spec

(* Types are respected; in particular the merged lamps of partner columns   *)
(* never need more than their two bits.                                     *)
THEOREM TypeCorrectness == Spec => []TypeOK
BY Invariance, PTL DEF IInv

(* The next press always resumes right after the selected state.            *)
THEOREM CursorCorrectness == Spec => []CursorFollowsSelection
BY Invariance, PTL DEF IInv

(* Where every slot is assigned, the lamps stand for the input that is      *)
(* really routed, or the route is foreign to the column.                    *)
THEOREM LampsTellTruth == Spec => []LampsTellTheRoute
BY Invariance, PTL DEF IInv

(* A repeated upload, or one that changes other columns only, leaves the    *)
(* selection and the cursor of a column where they are.                     *)
THEOREM SelectionOutlivesUpload == Spec => UploadKeepsSelection
<1> DEFINE Kept == \A img \in Images, c \in Configured :
                     /\ LayoutOf(img[c]) = conf[c]
                     /\ route[c] = conf[c].rows[sel[c]]
                     /\ Reconfigure(img)
                     => sel'[c] = sel[c] /\ ptr'[c] = ptr[c]
<1>1. IInv => Kept
  <2> SUFFICES ASSUME IInv, NEW img \in Images, NEW c \in Configured,
                      LayoutOf(img[c]) = conf[c],
                      route[c] = conf[c].rows[sel[c]], Reconfigure(img)
               PROVE  sel'[c] = sel[c] /\ ptr'[c] = ptr[c]
    OBVIOUS
  <2>1. c \in Column /\ conf[c].len > 0 /\ img[c] \in ColumnImage
    BY ImagesAssumption DEF Configured
  <2>2. sel[c] \in State(conf[c]) /\ ptr[c] = CursorAfter(conf[c], sel[c], 0)
    BY DEF IInv, CursorFollowsSelection
  <2>3. route[c] # None
    BY <2>1, SizeFacts DEF IInv, TypeOK
  <2>4. StateForRow(conf[c], route[c]) = sel[c]
    BY <2>1, <2>2, <2>3, RouteFindsState
  <2>5. conf'[c] = conf[c]
    BY <2>1 DEF Reconfigure, Configure
  <2>6. sel[c] # None
    BY <2>1, <2>2 DEF IInv, TypeOK, Slot, None
  <2>7. sel'[c] = sel[c]
    BY <2>1, <2>4, <2>5, <2>6 DEF Reconfigure, RestoredState
  <2>8. ptr'[c] = CursorAfter(conf[c], sel[c], 0)
    BY <2>1, <2>5, <2>7 DEF Reconfigure, RestoredCursor
  <2> QED BY <2>2, <2>7, <2>8
<1>2. [Kept]_vars <=> Kept \/ UNCHANGED vars
  OBVIOUS
<1> HIDE DEF Kept
<1>3. QED
  BY <1>1, Invariance, PTL DEF UploadKeepsSelection, Kept

------------------------------------------------------------------------------
(* The panels.                                                              *)

(* Every column sends to panels there are.                                  *)
PanelsKnown == \A c \in Column : Targets(conf[c]) \subseteq Panels

(* PanelsShowSelection, of any layouts cf, selections sl and panels pn.      *)
OnlyPartnersSend(cf, c, t) ==
    \A d \in Column \ {c} :
        cf[d].len > 0 /\ t \in Targets(cf[d]) =>
            {e \in Column \ {d} : Complements(cf[d], cf[e])} = {c}

LampTold(cf, sl, pn, c, a, s) ==
    LET g == LampOf(cf[c], s)
        t == <<a, LayerOfLamp(cf[c], g)>>
    IN  OnlyPartnersSend(cf, c, t) /\ pn[t] # Unknown =>
            OwnColour(cf[c], pn[t][g % 8]) = OwnLamps(cf[c], sl[c])[g]

PanelsTold(cf, sl, pn) ==
    \A c \in Column : cf[c].len > 0 =>
        \A a \in Addresses(cf[c]), s \in State(cf[c]) :
            LampTold(cf, sl, pn, c, a, s)

(* The invariant is that of the present layouts, selections and panels.     *)
LEMMA ToldNow == PanelsShowSelection <=> PanelsTold(conf, sel, panel)
<1>1. \A c, t : SharedOnlyWithPartners(c, t) <=> OnlyPartnersSend(conf, c, t)
  BY DEF SharedOnlyWithPartners, OnlyPartnersSend, Configured
<1> QED
  BY <1>1 DEF PanelsShowSelection, PanelsTold, LampTold, Configured

(* And so after a step.                                                     *)
LEMMA ToldNext == PanelsShowSelection' <=> PanelsTold(conf', sel', panel')
<1>1. PanelsShowSelection' <=> PanelsTold(conf, sel, panel)'
  BY ToldNow, PTL
<1>2. PanelsTold(conf, sel, panel)' <=> PanelsTold(conf', sel', panel')
  BY DEF PanelsTold, LampTold, OnlyPartnersSend
<1> QED BY <1>1, <1>2

(* Frames of one column, or lost frames, leave every panel right.           *)
LEMMA SendShows ==
  ASSUME TypeOK, CursorFollowsSelection', PanelsKnown, PanelsShowSelection,
         UNCHANGED conf, NEW w \in Column, conf[w].len > 0,
         \A d \in Column \ {w} : sel'[d] = sel[d],
         SendToColumn(w, FillLedBuff(conf, sel', w))
  PROVE  PanelsTold(conf, sel', panel')
<1>0. /\ \A d \in Column : WellFormed(conf[d])
      /\ w \in Configured /\ Configured \subseteq Column
  BY DEF TypeOK, Configured
<1>1. PICK sent \in SUBSET Targets(conf[w]) :
        panel' = [t \in Panels |->
                    IF t \in sent
                    THEN Payload(conf[w], t, FillLedBuff(conf, sel', w))
                    ELSE IF t \in Targets(conf[w]) THEN Unknown
                    ELSE panel[t]]
  BY DEF SendToColumn
<1> SUFFICES ASSUME NEW c \in Column, conf[c].len > 0,
                    NEW a \in Addresses(conf[c]), NEW s \in State(conf[c])
             PROVE  LampTold(conf, sel', panel', c, a, s)
  BY DEF PanelsTold
<1> DEFINE g == LampOf(conf[c], s)
           t == <<a, LayerOfLamp(conf[c], g)>>
<1> SUFFICES ASSUME OnlyPartnersSend(conf, c, t), panel'[t] # Unknown
             PROVE  OwnColour(conf[c], panel'[t][g % 8])
                       = OwnLamps(conf[c], sel'[c])[g]
  BY DEF LampTold
<1>2. c \in Column /\ t \in Targets(conf[c]) /\ t \in Panels
  <2>1. t \in Targets(conf[c])
    BY <1>0, LampSent
  <2> QED BY <1>0, <2>1 DEF PanelsKnown
<1>3. CASE t \in sent
  <2>1. MaySend(conf, c, t, w)
    BY <1>0, <1>2, <1>3 DEF MaySend, OnlyPartnersSend
  <2>2. sel'[w] \in State(conf[w])
    BY <1>0 DEF CursorFollowsSelection, Configured
  <2>3. panel'[t] = Payload(conf[w], t, FillLedBuff(conf, sel', w))
    BY <1>1, <1>2, <1>3
  <2> QED BY <1>0, <1>2, <2>1, <2>2, <2>3, FrameShows
<1>4. CASE t \notin sent
  <2>1. t \notin Targets(conf[w]) /\ panel'[t] = panel[t]
    BY <1>1, <1>2, <1>4
  <2>2. c # w
    BY <1>2, <2>1
  <2>3. sel'[c] = sel[c]
    BY <1>2, <2>2
  <2>4. OnlyPartnersSend(conf, c, t) /\ panel[t] # Unknown =>
          OwnColour(conf[c], panel[t][g % 8]) = OwnLamps(conf[c], sel[c])[g]
    BY ToldNow DEF PanelsTold, LampTold
  <2> QED BY <2>1, <2>3, <2>4
<1> QED BY <1>3, <1>4

(* A broadcast leaves every panel right, or lost.                           *)
LEMMA BroadcastShows ==
  ASSUME NEW cf, \A d \in Column : WellFormed(cf[d]),
         \A d \in Column : Targets(cf[d]) \subseteq Panels,
         NEW sl, \A d \in Column : cf[d].len > 0 => sl[d] \in State(cf[d]),
         Broadcast(cf, sl)
  PROVE  PanelsTold(cf, sl, panel')
<1> DEFINE on == {c \in Column : cf[c].len > 0}
           writes == UNION {{c} \X Targets(cf[c]) : c \in on}
<1>1. PICK sent \in SUBSET writes :
        panel' = [t \in Panels |->
           LET writers == {c \in on : <<c, t>> \in sent}
           IN  IF writers # {}
               THEN Payload(cf[Max(writers)], t,
                            FillLedBuff(cf, sl, Max(writers)))
               ELSE IF \E c \in on : t \in Targets(cf[c]) THEN Unknown
               ELSE panel[t]]
  BY DEF Broadcast
<1> SUFFICES ASSUME NEW c \in Column, cf[c].len > 0,
                    NEW a \in Addresses(cf[c]), NEW s \in State(cf[c])
             PROVE  LampTold(cf, sl, panel', c, a, s)
  BY DEF PanelsTold
<1> DEFINE g == LampOf(cf[c], s)
           t == <<a, LayerOfLamp(cf[c], g)>>
           W == {x \in on : <<x, t>> \in sent}
<1> SUFFICES ASSUME OnlyPartnersSend(cf, c, t), panel'[t] # Unknown
             PROVE  OwnColour(cf[c], panel'[t][g % 8])
                       = OwnLamps(cf[c], sl[c])[g]
  BY DEF LampTold
<1>2. c \in Column /\ t \in Targets(cf[c]) /\ t \in Panels
  <2>1. t \in Targets(cf[c])
    BY LampSent
  <2> QED BY <2>1
<1>3. panel'[t] = IF W # {}
                  THEN Payload(cf[Max(W)], t,
                               FillLedBuff(cf, sl, Max(W)))
                  ELSE IF \E x \in on : t \in Targets(cf[x]) THEN Unknown
                  ELSE panel[t]
  BY <1>1, <1>2
<1>4. W # {}
  BY <1>2, <1>3
<1>5. PICK w \in W : w = Max(W)
  BY <1>4, ExtremeColumns
<1>6. t \in Targets(cf[w])
  <2>1. <<w, t>> \in writes
    BY <1>5
  <2>2. PICK x \in on : <<w, t>> \in {x} \X Targets(cf[x])
    BY <2>1
  <2> QED BY <2>2
<1>7. MaySend(cf, c, t, w)
  BY <1>5, <1>6 DEF MaySend, OnlyPartnersSend
<1>8. sl[w] \in State(cf[w])
  BY <1>5
<1>9. panel'[t] = Payload(cf[w], t, FillLedBuff(cf, sl, w))
  BY <1>3, <1>4, <1>5
<1>10. OwnColour(cf[c], Payload(cf[w], t, FillLedBuff(cf, sl, w))[g % 8])
         = OwnLamps(cf[c], sl[c])[g]
  <2> HIDE DEF on, writes, W
  <2> QED BY <1>7, <1>8, FrameShows, SMTT(60)
<1> QED BY <1>9, <1>10

(* PanelsShowSelection with what its proof needs besides: the states that   *)
(* IInv speaks of, and that the targets of every column are panels.         *)
PInv == IInv /\ PanelsKnown /\ PanelsShowSelection

(* Whatever lamps are on a panel, they stand for the state its columns are  *)
(* in: no column's frame wipes another's, and no bank's layer is left out   *)
(* (can_latest.c:306-459).                                                  *)
THEOREM PanelsCorrectness == Spec => []PanelsShowSelection
<1>1. Init => PInv
  <2> SUFFICES ASSUME Init PROVE PInv
    OBVIOUS
  <2>1. Configured = {}
    BY DEF Init, Unconfigured, Configured, Blank
  <2>2. \A c \in Column : Targets(conf[c]) = {}
    BY DEF Init, Unconfigured, Blank, Targets, Addresses
  <2> QED BY <2>1, <2>2, InitIInv DEF PInv, PanelsKnown, PanelsShowSelection
<1>2. IInv' /\ PInv /\ [Next]_vars => PInv'
  <2> SUFFICES ASSUME IInv', PInv, [Next]_vars
               PROVE  PanelsKnown' /\ PanelsShowSelection'
    BY DEF PInv
  <2>00. ASSUME PanelsKnown', Broadcast(conf', sel')
         PROVE  PanelsShowSelection'
    <3>1. /\ \A d \in Column : WellFormed(conf'[d])
          /\ \A d \in Column : conf'[d].len > 0 => sel'[d] \in State(conf'[d])
      BY DEF IInv, TypeOK, CursorFollowsSelection, Configured
    <3>2. \A d \in Column : Targets(conf'[d]) \subseteq Panels
      BY <2>00 DEF PanelsKnown
    <3>3. PanelsTold(conf', sel', panel')
      BY <2>00, <3>1, <3>2, BroadcastShows
    <3> QED BY <3>3, ToldNext
  <2>0. TypeOK /\ TypeOK' /\ CursorFollowsSelection'
    BY DEF PInv, IInv
  <2>1. ASSUME NEW img \in Images, Reconfigure(img)
        PROVE  PanelsKnown' /\ PanelsShowSelection'
    <3>1. PanelsKnown'
      <4>1. \A c \in Column : conf'[c] = LayoutOf(img[c])
        BY <2>1 DEF Reconfigure, Configure
      <4> QED BY <4>1 DEF PanelsKnown, Panels
    <3> QED BY <2>1, <2>00, <3>1 DEF Reconfigure
  <2>2. ASSUME UNCHANGED conf
        PROVE  PanelsKnown'
    BY <2>2 DEF PInv, PanelsKnown
  <2>3. ASSUME NEW f \in BusFrames, RefreshRequest(f)
        PROVE  PanelsKnown' /\ PanelsShowSelection'
    <3>1. conf' = conf /\ Broadcast(conf', sel')
      BY <2>3 DEF RefreshRequest
    <3> QED BY <2>2, <2>00, <3>1
  <2>4. ASSUME NEW c \in Column, conf[c].len > 0, conf' = conf, NEW s,
               sel' = [sel EXCEPT ![c] = s],
               SendToColumn(c, FillLedBuff(conf, sel', c))
        PROVE  PanelsKnown' /\ PanelsShowSelection'
    <3>1. \A d \in Column \ {c} : sel'[d] = sel[d]
      BY <2>0, <2>4 DEF TypeOK
    <3>2. PanelsTold(conf, sel', panel')
      BY <2>0, <2>4, <3>1, SendShows DEF PInv
    <3> QED BY <2>2, <2>4, <3>2, ToldNext
  <2>5. ASSUME NEW f \in BusFrames, ButtonPress(f)
        PROVE  PanelsKnown' /\ PanelsShowSelection'
    <3>1. PICK c \in Column, which \in Int :
             /\ AcceptsButton(conf[c], which)
             /\ conf' = conf
             /\ sel' = [sel EXCEPT ![c] = PressedState(conf[c], which, ptr[c])]
             /\ SendToColumn(c, FillLedBuff(conf, sel', c))
      <4> DEFINE w == ResolveColumn(conf, PressAddress(f), PressButton(f),
                                    PressIsRed(f))
      <4>1. w \in Column
        BY <2>5, ResolvedIsColumn DEF ButtonPress
      <4>2. PressButton(f) - conf[w].base \in Int
        <5>1. conf[w].base \in Int
          <6>1. ASSUME NEW d \in Column PROVE conf[d].base \in Int
            <7>1. conf[d] \in Layout
              BY <2>0 DEF TypeOK, WellFormed
            <7> QED BY <7>1 DEF Layout, Byte
          <6> QED BY <4>1, <6>1
        <5>2. PressButton(f) \in Int
          BY ImagesAssumption DEF PressButton, Byte
        <5> QED BY <5>1, <5>2
      <4> QED BY <2>5, <4>1, <4>2 DEF ButtonPress
    <3>2. conf[c].len > 0
      <4>1. conf[c].len \in 0..16
        BY <2>0 DEF TypeOK, WellFormed, Layout
      <4> QED BY <3>1, <4>1 DEF AcceptsButton
    <3> QED BY <2>4, <3>1, <3>2
  <2>6. ASSUME NEW c \in Column, NEW row \in UiInputs, UiRoute(c, row)
        PROVE  PanelsKnown' /\ PanelsShowSelection'
    <3> DEFINE found == StateForRow(conf[c], row)
    <3>1. CASE found = None
      <4>1. UNCHANGED <<conf, sel, panel>>
        BY <2>6, <3>1 DEF UiRoute
      <4>2. PanelsShowSelection'
        BY <4>1
           DEF PInv, PanelsShowSelection, SharedOnlyWithPartners, Configured
      <4> QED BY <2>2, <4>1, <4>2
    <3>2. CASE found # None
      <4>1. /\ conf' = conf /\ sel' = [sel EXCEPT ![c] = found]
            /\ SendToColumn(c, FillLedBuff(conf, sel', c))
        BY <2>6, <3>2 DEF UiRoute
      <4>2. found \in State(conf[c]) /\ WellFormed(conf[c])
        BY <2>0, <3>2, StateForRowFinds DEF TypeOK
      <4>3. conf[c].len > 0
        BY <4>2, LampOfState
      <4> HIDE DEF found
      <4> QED BY <2>4, <4>1, <4>3
    <3> QED BY <3>1, <3>2
  <2>7. CASE UNCHANGED vars
    BY <2>2, <2>7
       DEF vars, PInv, PanelsShowSelection, SharedOnlyWithPartners, Configured
  <2> QED BY <2>1, <2>3, <2>5, <2>6, <2>7 DEF Next
<1> QED BY <1>1, <1>2, Invariance, PTL DEF Spec, PInv
==============================================================================
