------------------------------- MODULE Columns -------------------------------
(****************************************************************************)
(* The pure part of main/services/can_latest.c: what one output column of   *)
(* the matrix is configured to do, which column a button press belongs to,  *)
(* which state of the column comes next, and which lamps its state lights.  *)
(*                                                                          *)
(* An image is what an upload commits: for each column its property bytes   *)
(* and its matrix cells.  A layout is what can_latest_configure() makes of  *)
(* a column of it, the part of led_seq_t that only a new configuration      *)
(* changes; ptr and sel_idx are state of the modules that extend this one.  *)
(****************************************************************************)
EXTENDS Integers, FiniteSets, FiniteSetsExt

CONSTANTS NumColumns,   \* outputs of the matrix (16 in the firmware)
          NumRows       \* inputs of the matrix (16 in the firmware)

ASSUME SizeAssumption == NumColumns \in 1..16 /\ NumRows \in 1..16

Column == 0..NumColumns-1
Row    == 0..NumRows-1
Slot   == 0..15           \* MAX_SEQ_LEN entries of rows[] and led_order[]
Byte   == 0..255
None   == 255             \* 0xFF: no column, no row, unused address

MODE_NORMAL           == 0
MODE_6STEP            == 1
MODE_RADIO_GREEN      == 2
MODE_RADIO_RED        == 3
MODE_NORMAL_SECONDARY == 4
MODE_6STEP_SECONDARY  == 5

Cycles(k)   == k.mode \in {MODE_NORMAL, MODE_NORMAL_SECONDARY}
SixSteps(k) == k.mode \in {MODE_6STEP, MODE_6STEP_SECONDARY}
Radio(k)    == k.mode \in {MODE_RADIO_GREEN, MODE_RADIO_RED}

ColumnImage == [mode : Byte, base : Byte, addrs : [1..4 -> Byte],
                cell : [Row -> 0..15]]

Layout == [mode : Byte, base : Byte, addrs : [1..4 -> Byte], len : 0..16,
           rows : [Slot -> Row \cup {None}], led : [Slot -> 0..3]]

(* The layouts there can be: never more states than the column's mode has   *)
(* room for, and a six-step column has all of its six or none.              *)
WellFormed(k) ==
    /\ k \in Layout
    /\ k.len = 0 \/ Cycles(k) \/ SixSteps(k) \/ Radio(k)
    /\ Cycles(k)   => k.len <= 4
    /\ SixSteps(k) => k.len \in {0, 6}

(* A column before can_latest_configure() has run: s_cols is zero, and so   *)
(* is s_addr_to_col_mask, as if the column had no address.                  *)
Blank == [mode |-> 0, base |-> 0, addrs |-> [i \in 1..4 |-> None],
          len |-> 0, rows |-> [i \in Slot |-> 0], led |-> [i \in Slot |-> 0]]

------------------------------------------------------------------------------
(* The states of a column, from its image m.                                *)

Coloured(m) == {r \in Row : m.cell[r] > 0}

(* Variant: the four-state limit of a NORMAL column forgotten.              *)
LenOfUncapped(m) ==
    IF SixSteps(m) THEN IF \E r \in Row : m.cell[r] \in 5..10 THEN 6 ELSE 0
    ELSE IF Cycles(m) \/ Radio(m) THEN Cardinality(Coloured(m))
    ELSE 0

(* len: a NORMAL column takes the first four coloured rows, a RADIO column  *)
(* all of them, a 6STEP column has its six fixed slots once any cell holds  *)
(* a value in 5..10.  An unknown mode leaves the column without states.     *)
LenOf(m) ==
    IF SixSteps(m) THEN IF \E r \in Row : m.cell[r] \in 5..10 THEN 6 ELSE 0
    ELSE IF Cycles(m) /\ Cardinality(Coloured(m)) > 4 THEN 4
    ELSE IF Cycles(m) \/ Radio(m) THEN Cardinality(Coloured(m))
    ELSE 0

(* rows[i]: the i-th coloured row, or for a 6STEP column the last row whose *)
(* cell holds i+5 and the 0xFF sentinel when there is none.                 *)
RowOf(m, i) ==
    LET here == IF SixSteps(m)
                THEN {r \in Row : m.cell[r] = i + 5 /\ i < 6}
                ELSE {r \in Coloured(m) :
                        Cardinality({q \in Coloured(m) : q < r}) = i}
    IN  IF here = {} THEN None ELSE CHOOSE r \in here : \A q \in here : q <= r

(* led_order[i], as far as the two bits that reach the wire.                *)
LedOf(m, i) ==
    IF RowOf(m, i) = None THEN 0
    ELSE IF SixSteps(m) THEN (i % 3) + 1
    ELSE (m.cell[RowOf(m, i)] - 1) % 4

(* The body of the loop over the columns in can_latest_configure().         *)
LayoutOf(m) ==
    [mode |-> m.mode, base |-> m.base, addrs |-> m.addrs, len |-> LenOf(m),
     rows |-> [i \in Slot |-> RowOf(m, i)],
     led  |-> [i \in Slot |-> LedOf(m, i)]]

------------------------------------------------------------------------------
(* Moving between the states of a column with layout k.                     *)

State(k) == 0..k.len-1

(* A column whose six-step slots are all assigned, or that has no slots.    *)
FullyAssigned(k) == \A i \in State(k) : k.rows[i] # None

(* Variant: the search stops one state early.                               *)
StateForRowShort(k, row) ==
    LET hits == {i \in 0..k.len-2 : k.rows[i] = row}
    IN  IF hits = {} THEN None ELSE Min(hits)

(* The first state of the column that routes `row`, None if there is none.  *)
StateForRow(k, row) ==
    LET hits == {i \in State(k) : k.rows[i] = row}
    IN  IF hits = {} THEN None ELSE Min(hits)

Half(k) == k.len \div 2

(* The cursor apply_col_state() leaves behind for state i; p is the cursor  *)
(* before, which a RADIO column keeps.                                      *)
CursorAfter(k, i, p) ==
    IF Cycles(k) THEN IF i + 1 >= k.len THEN 0 ELSE i + 1
    ELSE IF SixSteps(k) /\ i < Half(k)
         THEN IF i + 1 >= Half(k) THEN 0 ELSE i + 1
    ELSE IF SixSteps(k)
         THEN IF i + 1 >= k.len THEN Half(k) ELSE i + 1
    ELSE p

------------------------------------------------------------------------------
(* From a button press to a column, a state and a cursor.                   *)

(* s_addr_to_col_mask[a] as a set of columns.                               *)
OwnersOf(conf, a) ==
    IF a = None THEN {}
    ELSE {c \in Column : \E i \in 1..4 : conf[c].addrs[i] = a}

(* The button positions of a shared device that belong to a column.         *)
OwnsPosition(k, pos) ==
    \/ k.mode = MODE_NORMAL           /\ pos = 1
    \/ k.mode = MODE_NORMAL_SECONDARY /\ pos = 2
    \/ k.mode = MODE_6STEP            /\ pos \in {1, 2}
    \/ k.mode = MODE_6STEP_SECONDARY  /\ pos \in {3, 4}

ResolveColumn(conf, addr, button, preferRed) ==
    LET owners == OwnersOf(conf, addr)
        placed == {c \in owners : OwnsPosition(conf[c], button % 8)}
    IN  IF Cardinality(owners) \notin {1, 2} THEN None
        ELSE IF Cardinality(owners) = 1 THEN Min(owners)
        ELSE IF placed # {} THEN Min(placed)
        ELSE IF (conf[Min(owners)].mode = MODE_RADIO_RED) <=> preferRed
             THEN Min(owners) ELSE Max(owners)

(* The range checks on button_id - base_addr.                               *)
AcceptsButton(k, which) ==
    /\ which >= 0
    /\ which < k.len
    /\ SixSteps(k) => which < 4
    /\ Cycles(k)   => which < 2

(* Variant: a press takes the cursor as it is, whichever button it was.     *)
PressedStateAnyHalf(k, which, p) == IF Radio(k) THEN which ELSE p

(* sel_idx after an accepted press, from the cursor p: a 6STEP button whose *)
(* half the cursor is not in starts that half over.                         *)
PressedState(k, which, p) ==
    IF Radio(k) THEN which
    ELSE IF SixSteps(k) /\ which = 0 /\ p >= Half(k) THEN 0
    ELSE IF SixSteps(k) /\ which # 0 /\ p < Half(k)  THEN Half(k)
    ELSE p

(* The cursor after that press chose state s.                               *)
PressedCursor(k, which, s, p) ==
    LET first == IF SixSteps(k) /\ which # 0 THEN Half(k) ELSE 0
        end   == IF SixSteps(k) /\ which = 0 THEN Half(k) ELSE k.len
    IN  IF Radio(k) THEN p
        ELSE IF s + 1 >= end THEN first ELSE s + 1

------------------------------------------------------------------------------
(* Lamps.  LedBuff holds sixteen two-bit lamps: bit 0 green, bit 1 red,     *)
(* both yellow.  Lamp g is bits 2*(g%4) and 2*(g%4)+1 of LedBuff[g \div 4]. *)

Lamp == 0..15

(* The lamp state s of column k lights, its colour, and the sixteen lamps.  *)
LampOf(k, s) ==
    IF Radio(k) THEN s
    ELSE (IF SixSteps(k) /\ s >= Half(k) THEN 1 ELSE 0)
         + (IF k.mode = MODE_NORMAL_SECONDARY THEN 1 ELSE 0)
         + (IF k.mode = MODE_6STEP_SECONDARY THEN 2 ELSE 0)

LightOf(k, s) ==
    IF k.mode = MODE_RADIO_GREEN THEN 1
    ELSE IF k.mode = MODE_RADIO_RED THEN 2
    ELSE k.led[s]

OwnLamps(k, s) ==
    [g \in Lamp |-> IF s \in State(k) /\ g = LampOf(k, s)
                    THEN LightOf(k, s) ELSE 0]

(* Variant: the companion is looked for by LED base address.                *)
FindCompanionByBase(conf, c, companionMode) ==
    LET paired == {d \in Column \ {c} : /\ conf[d].mode = companionMode
                                        /\ conf[d].base = conf[c].base}
    IN  IF paired = {} THEN None ELSE Min(paired)

(* The first column in companionMode that shares a device address with c,   *)
(* the addresses of c taken in order.                                       *)
FindCompanion(conf, c, companionMode) ==
    LET paired(i) == {d \in OwnersOf(conf, conf[c].addrs[i]) \ {c} :
                        conf[d].mode = companionMode}
        shared    == {i \in 1..4 : paired(i) # {}}
    IN  IF shared = {} THEN None ELSE Min(paired(Min(shared)))

(* The first other column in companionMode with exactly c's base address.   *)
FindRadioPartner(conf, c, companionMode) ==
    LET paired == {d \in Column \ {c} : /\ conf[d].mode = companionMode
                                        /\ conf[d].base = conf[c].base}
    IN  IF paired = {} THEN None ELSE Min(paired)

(* The mode of the column that completes a column in `mode`.                *)
PartnerMode(mode) ==
    IF mode = MODE_NORMAL THEN MODE_NORMAL_SECONDARY
    ELSE IF mode = MODE_NORMAL_SECONDARY THEN MODE_NORMAL
    ELSE IF mode = MODE_6STEP THEN MODE_6STEP_SECONDARY
    ELSE IF mode = MODE_6STEP_SECONDARY THEN MODE_6STEP
    ELSE IF mode = MODE_RADIO_GREEN THEN MODE_RADIO_RED
    ELSE MODE_RADIO_GREEN

(* The column whose lamps fill_ledbuff() merges into c's.                   *)
Partner(conf, c) ==
    IF Radio(conf[c]) THEN FindRadioPartner(conf, c, PartnerMode(conf[c].mode))
    ELSE FindCompanion(conf, c, PartnerMode(conf[c].mode))

(* LedBuff for column c: its own lamps and its partner's, which never claim *)
(* the same bit, so or-ing them is adding them.                             *)
FillLedBuff(conf, sel, c) ==
    LET own == OwnLamps(conf[c], sel[c])
        p   == Partner(conf, c)
    IN  IF sel[c] \notin State(conf[c]) \/ p = None THEN own
        ELSE [g \in Lamp |-> own[g] + OwnLamps(conf[p], sel[p])[g]]

------------------------------------------------------------------------------
(* LED frames.  A frame carries eight lamps to one layer of one device.     *)

Layer(base) == IF base = 255 \/ base < 128 THEN 255
               ELSE 48 + ((base - 128) \div 8)

NextLayer(base) == (Layer(base) + 1) % 256

Addresses(k) == {k.addrs[i] : i \in 1..4} \ {None}

FirstEight(leds)  == [g \in 0..7 |-> leds[g]]
SecondEight(leds) == [g \in 0..7 |-> leds[g + 8]]

(* What send_to_col_addrs() transmits: for each <<device, layer>> it writes *)
(* the eight lamps it carries there.                                        *)
Targets(k) ==
    {<<a, Layer(k.base)>> : a \in Addresses(k)} \cup
    (IF k.len > 8 THEN {<<a, NextLayer(k.base)>> : a \in Addresses(k)}
                         ELSE {})

Payload(k, target, leds) ==
    IF target[2] = Layer(k.base) THEN FirstEight(leds) ELSE SecondEight(leds)
==============================================================================
