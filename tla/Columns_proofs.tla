---------------------------- MODULE Columns_proofs ----------------------------
(****************************************************************************)
(* Lemmas about the operators of Columns, for every number of columns and   *)
(* rows up to 16, that the proofs about CanLatest and CanLatestTasks share. *)
(****************************************************************************)
EXTENDS Columns, TLAPS, FiniteSetTheorems, WellFoundedInduction

------------------------------------------------------------------------------
(* Least and greatest elements.                                             *)

(* A nonempty set of naturals has a minimum, and Min names it.              *)
LEMMA MinOfNaturals ==
  ASSUME NEW S \in SUBSET Nat, S # {}
  PROVE  Min(S) \in S /\ \A n \in S : Min(S) <= n
<1>1. PICK x \in S : \A y \in S : ~ (<<y, x>> \in OpToRel(<, Nat))
  BY WFMin, NatLessThanWellFounded
<1>2. ASSUME NEW y \in S, y < x
      PROVE  FALSE
  <2>1. <<y, x>> \in OpToRel(<, Nat)
    BY <1>2 DEF OpToRel
  <2>2. QED
    BY <1>1, <2>1
<1>3. \A y \in S : x <= y
  BY <1>2
<1>4. QED
  BY <1>3 DEF Min

(* The ranges of columns and rows, in the form the provers need.            *)
LEMMA SizeFacts ==
  /\ NumColumns \in Nat /\ NumRows \in Nat
  /\ Column \in SUBSET (0..15) /\ Row \in SUBSET (0..15)
  /\ None \notin Row /\ None \notin Column /\ None \in Nat
BY SizeAssumption DEF Column, Row, None

(* A nonempty set of small naturals has a greatest element.                 *)
LEMMA GreatestOfSmall ==
  ASSUME NEW S \in SUBSET (0..15), S # {}
  PROVE  \E x \in S : \A y \in S : y <= x
<1> DEFINE T == {n \in 0..15 : 15 - n \in S}
<1>1. PICK s \in S : TRUE
  OBVIOUS
<1>2. 15 - s \in T
  BY <1>1
<1>3. T \in SUBSET Nat /\ T # {}
  <2>1. T \in SUBSET Nat
    OBVIOUS
  <2>2. T # {}
    BY <1>2
  <2> QED BY <2>1, <2>2
<1> HIDE DEF T
<1>4. Min(T) \in T /\ \A n \in T : Min(T) <= n
  BY <1>3, MinOfNaturals
<1>5. 15 - Min(T) \in S /\ Min(T) \in 0..15
  BY <1>4 DEF T
<1>6. ASSUME NEW y \in S
      PROVE  y <= 15 - Min(T)
  <2>1. 15 - y \in T
    BY DEF T
  <2>2. QED
    BY <1>4, <1>5, <2>1
<1>7. QED
  BY <1>5, <1>6

(* Both extremes of a set of columns are among them.                        *)
LEMMA ExtremeColumns ==
  ASSUME NEW S \in SUBSET Column, S # {}
  PROVE  Min(S) \in S /\ Max(S) \in S
<1>1. Min(S) \in S
  BY SizeFacts, MinOfNaturals
<1>2. PICK x \in S : \A y \in S : y <= x
  BY SizeFacts, GreatestOfSmall
<1>3. \A y \in S : x >= y
  BY <1>2, SizeFacts
<1>4. QED
  BY <1>1, <1>3 DEF Max

------------------------------------------------------------------------------
(* Layouts.                                                                 *)

(* A column's coloured rows can be counted: there are at most 16.           *)
LEMMA ColouredSize ==
  ASSUME NEW m \in ColumnImage
  PROVE  Cardinality(Coloured(m)) \in 0..16
<1>1. \A r \in Coloured(m) : r \in 0..15
  BY SizeFacts DEF Coloured
<1>2. IsFiniteSet(Coloured(m)) /\ Cardinality(Coloured(m)) <= 15 + 1
  <2>1. Coloured(m) \in SUBSET Nat /\ \A r \in Coloured(m) : r <= 15
    BY <1>1
  <2>2. QED
    BY <2>1, FS_BoundedSetOfNaturals
<1>3. QED
  BY <1>2, FS_CardinalityType

(* Each slot of a column's layout names a row or none.                      *)
LEMMA RowOfType ==
  ASSUME NEW m \in ColumnImage, NEW i \in Slot
  PROVE  RowOf(m, i) \in Row \cup {None}
<1> DEFINE here == IF SixSteps(m)
                   THEN {r \in Row : m.cell[r] = i + 5 /\ i < 6}
                   ELSE {r \in Coloured(m) :
                           Cardinality({q \in Coloured(m) : q < r}) = i}
<1>1. here \in SUBSET Row
  BY DEF Coloured
<1>2. RowOf(m, i) = IF here = {} THEN None
                    ELSE CHOOSE r \in here : \A q \in here : q <= r
  BY DEF RowOf
<1> HIDE DEF here
<1>3. CASE here = {}
  BY <1>2, <1>3
<1>4. CASE here # {}
  <2>1. \E r \in here : \A q \in here : q <= r
    BY <1>1, <1>4, SizeFacts, GreatestOfSmall
  <2>2. QED
    BY <1>1, <1>2, <1>4, <2>1
<1>5. QED
  BY <1>3, <1>4

(* No row is the row of two slots.                                          *)
LEMMA SlotsDiffer ==
  ASSUME NEW m \in ColumnImage, NEW i \in Slot, NEW j \in Slot,
         RowOf(m, i) = RowOf(m, j), RowOf(m, i) # None
  PROVE  i = j
<1> DEFINE H(n) == IF SixSteps(m)
                   THEN {r \in Row : m.cell[r] = n + 5 /\ n < 6}
                   ELSE {r \in Coloured(m) :
                           Cardinality({q \in Coloured(m) : q < r}) = n}
<1>1. ASSUME NEW n \in Slot, RowOf(m, n) # None
      PROVE  RowOf(m, n) \in H(n)
  <2> DEFINE here == H(n)
  <2>1. here \in SUBSET Row
    BY DEF Coloured
  <2>2. RowOf(m, n) = IF here = {} THEN None
                      ELSE CHOOSE r \in here : \A q \in here : q <= r
    BY DEF RowOf
  <2> HIDE DEF here
  <2>3. here # {}
    BY <1>1, <2>2
  <2>4. \E r \in here : \A q \in here : q <= r
    BY <2>1, <2>3, SizeFacts, GreatestOfSmall
  <2>5. RowOf(m, n) \in here
    BY <2>2, <2>3, <2>4
  <2> QED BY <2>5 DEF here
<1>2. RowOf(m, i) \in H(i) /\ RowOf(m, i) \in H(j)
  BY <1>1
<1>3. CASE SixSteps(m)
  BY <1>2, <1>3 DEF Slot
<1>4. CASE ~SixSteps(m)
  BY <1>2, <1>4
<1> QED BY <1>3, <1>4

(* Each slot's lamp value fits the wire's two bits.                         *)
LEMMA LedOfType ==
  ASSUME NEW m \in ColumnImage, NEW i \in Slot
  PROVE  LedOf(m, i) \in 0..3
<1>1. RowOf(m, i) # None => m.cell[RowOf(m, i)] \in Int
  BY RowOfType DEF ColumnImage
<1>2. QED
  BY <1>1 DEF LedOf, Slot

(* The layout built from any column image is well formed.                   *)
LEMMA LayoutWellFormed ==
  ASSUME NEW m \in ColumnImage
  PROVE  WellFormed(LayoutOf(m))
<1>1. LenOf(m) \in 0..16
  BY ColouredSize DEF LenOf
<1>2. Cycles(m) => LenOf(m) <= 4
  BY ColouredSize
     DEF LenOf, SixSteps, Cycles, MODE_NORMAL, MODE_NORMAL_SECONDARY,
         MODE_6STEP, MODE_6STEP_SECONDARY
<1>3. SixSteps(m) => LenOf(m) \in {0, 6}
  BY DEF LenOf
<1>4. LenOf(m) = 0 \/ Cycles(m) \/ SixSteps(m) \/ Radio(m)
  BY DEF LenOf
<1>5. [i \in Slot |-> RowOf(m, i)] \in [Slot -> Row \cup {None}]
  BY RowOfType
<1>6. [i \in Slot |-> LedOf(m, i)] \in [Slot -> 0..3]
  BY LedOfType
<1>7. QED
  BY <1>1, <1>2, <1>3, <1>4, <1>5, <1>6
     DEF WellFormed, Layout, LayoutOf, ColumnImage, Cycles, SixSteps, Radio

(* So is the layout of a column before can_latest_reconfigure().            *)
LEMMA BlankWellFormed == WellFormed(Blank)
BY SizeFacts, SizeAssumption
   DEF WellFormed, Blank, Layout, Byte, Slot, Row, None, Cycles, SixSteps,
       MODE_NORMAL, MODE_NORMAL_SECONDARY, MODE_6STEP, MODE_6STEP_SECONDARY

------------------------------------------------------------------------------
(* Cursors.                                                                 *)

(* The state found for a row is a state of the column and routes that row;  *)
(* when none is found, no state routes it.                                  *)
LEMMA StateForRowFinds ==
  ASSUME NEW k, WellFormed(k), NEW row
  PROVE  LET found == StateForRow(k, row) IN
         \/ found \in State(k) /\ k.rows[found] = row
         \/ found = None /\ \A i \in State(k) : k.rows[i] # row
<1> DEFINE hits == {i \in State(k) : k.rows[i] = row}
<1>1. hits \in SUBSET Nat
  BY DEF WellFormed, Layout, State
<1>2. hits # {} => Min(hits) \in hits
  BY <1>1, MinOfNaturals
<1>3. QED
  BY <1>2 DEF StateForRow

(* In a layout that an upload gives, the state found for the row of a state *)
(* is that state.                                                           *)
LEMMA RouteFindsState ==
  ASSUME NEW m \in ColumnImage, NEW s \in State(LayoutOf(m)),
         LayoutOf(m).rows[s] # None
  PROVE  StateForRow(LayoutOf(m), LayoutOf(m).rows[s]) = s
<1> DEFINE k == LayoutOf(m)
           found == StateForRow(k, k.rows[s])
<1>1. WellFormed(k) /\ k.len \in 0..16
  <2>1. WellFormed(k)
    BY LayoutWellFormed
  <2> QED BY <2>1 DEF WellFormed, Layout
<1>2. State(k) \subseteq Slot
  BY <1>1 DEF State, Slot
<1>3. \A i \in Slot : k.rows[i] = RowOf(m, i)
  BY DEF LayoutOf
<1>4. found \in State(k) /\ k.rows[found] = k.rows[s]
  <2>1. s \in State(k)
    OBVIOUS
  <2> HIDE DEF k
  <2> QED BY <1>1, <2>1, StateForRowFinds
<1> HIDE DEF found
<1>5. RowOf(m, found) = RowOf(m, s) /\ RowOf(m, s) # None
  BY <1>2, <1>3, <1>4
<1> QED BY <1>2, <1>4, <1>5, SlotsDiffer DEF found

(* A cursor computed from a state is a state again.                         *)
LEMMA CursorAfterInRange ==
  ASSUME NEW k, WellFormed(k), k.len > 0, NEW i \in State(k)
  PROVE  /\ CursorAfter(k, i, 0) \in State(k)
         /\ ~ (Cycles(k) \/ SixSteps(k)) => CursorAfter(k, i, 0) = 0
         /\ \A p : Cycles(k) \/ SixSteps(k) =>
                     CursorAfter(k, i, p) = CursorAfter(k, i, 0)
         /\ \A p : ~ (Cycles(k) \/ SixSteps(k)) => CursorAfter(k, i, p) = p
<1>1. k.len \in 0..16
  BY DEF WellFormed, Layout
<1>2. CASE Cycles(k)
  BY <1>1, <1>2 DEF CursorAfter, State
<1>3. CASE SixSteps(k) /\ ~ Cycles(k)
  <2>1. k.len = 6 /\ Half(k) = 3
    BY <1>3 DEF WellFormed, Half
  <2>2. QED
    BY <1>3, <2>1 DEF CursorAfter, State
<1>4. CASE ~ (Cycles(k) \/ SixSteps(k))
  BY <1>1, <1>4 DEF CursorAfter, State
<1>5. QED
  BY <1>2, <1>3, <1>4

(* From a cursor that is a state, an accepted press chooses a state, and the*)
(* cursor it leaves is the one apply_col_state() would leave for it.        *)
LEMMA PressStaysOnTrack ==
  ASSUME NEW k, WellFormed(k), k.len > 0, NEW p \in State(k),
         NEW which \in Int, AcceptsButton(k, which),
         Radio(k) => p = 0
  PROVE  LET s == PressedState(k, which, p) IN
         /\ s \in State(k)
         /\ PressedCursor(k, which, s, p) = CursorAfter(k, s, 0)
<1> USE DEF Cycles, SixSteps, Radio, MODE_NORMAL, MODE_6STEP,
            MODE_RADIO_GREEN, MODE_RADIO_RED, MODE_NORMAL_SECONDARY,
            MODE_6STEP_SECONDARY
<1>1. k.len \in 0..16
  BY DEF WellFormed, Layout
<1>2. CASE Cycles(k)
  BY <1>1, <1>2 DEF PressedState, PressedCursor, CursorAfter, State
<1>3. CASE Radio(k)
  BY <1>1, <1>3
     DEF PressedState, PressedCursor, CursorAfter, State, AcceptsButton
<1>4. CASE SixSteps(k)
  <2>1. k.len = 6 /\ Half(k) = 3
    BY <1>4 DEF WellFormed, Half
  <2>2. QED
    BY <1>4, <2>1 DEF PressedState, PressedCursor, CursorAfter, State
<1>5. QED
  BY <1>2, <1>3, <1>4 DEF WellFormed

------------------------------------------------------------------------------
(* Lamps.                                                                   *)

(* A column lights lamps only with values of the wire.                      *)
LEMMA OwnLampsType ==
  ASSUME NEW k, WellFormed(k), NEW s
  PROVE  OwnLamps(k, s) \in [Lamp -> 0..3]
<1>1. s \in State(k) => k.led[s] \in 0..3
  BY DEF WellFormed, Layout, State, Slot
<1>2. s \in State(k) => LightOf(k, s) \in 0..3
  BY <1>1 DEF LightOf
<1>3. QED
  BY <1>2 DEF OwnLamps

(* Two columns whose modes complete one another never light the same bit of *)
(* a lamp, so merging them stays within the two bits a lamp has.            *)
LEMMA PartnersNeverCollide ==
  ASSUME NEW k, WellFormed(k), NEW q, WellFormed(q),
         NEW s \in State(k), NEW t, q.mode = PartnerMode(k.mode),
         NEW g \in Lamp
  PROVE  OwnLamps(k, s)[g] + OwnLamps(q, t)[g] \in 0..3
<1> USE DEF Cycles, SixSteps, Radio, MODE_NORMAL, MODE_6STEP,
            MODE_RADIO_GREEN, MODE_RADIO_RED, MODE_NORMAL_SECONDARY,
            MODE_6STEP_SECONDARY
<1>1. OwnLamps(k, s)[g] \in 0..3 /\ OwnLamps(q, t)[g] \in 0..3
  BY OwnLampsType
<1>2. CASE Radio(k)
  <2>1. k.mode = MODE_RADIO_GREEN => /\ OwnLamps(k, s)[g] \in {0, 1}
                                     /\ OwnLamps(q, t)[g] \in {0, 2}
    BY <1>2 DEF OwnLamps, LightOf, PartnerMode
  <2>2. k.mode = MODE_RADIO_RED => /\ OwnLamps(k, s)[g] \in {0, 2}
                                   /\ OwnLamps(q, t)[g] \in {0, 1}
    BY <1>2 DEF OwnLamps, LightOf, PartnerMode
  <2>3. QED
    BY <1>2, <2>1, <2>2
<1>3. CASE ~ Radio(k)
  <2>1. k.len > 0
    BY DEF State, WellFormed, Layout
  <2>2. Cycles(k) \/ SixSteps(k)
    BY <1>3, <2>1 DEF WellFormed
  <2>3. LampOf(k, s) # LampOf(q, t)
    BY <2>2 DEF LampOf, PartnerMode
  <2>4. OwnLamps(k, s)[g] = 0 \/ OwnLamps(q, t)[g] = 0
    BY <2>3 DEF OwnLamps
  <2>5. QED
    BY <1>1, <2>4
<1>4. QED
  BY <1>2, <1>3

(* A companion's partner, if it has one, is of the partner mode.            *)
LEMMA PartnerHasPartnerMode ==
  ASSUME NEW cf, NEW c \in Column, Partner(cf, c) # None
  PROVE  /\ Partner(cf, c) \in Column
         /\ cf[Partner(cf, c)].mode = PartnerMode(cf[c].mode)
<1> DEFINE m == PartnerMode(cf[c].mode)
<1>1. ASSUME FindRadioPartner(cf, c, m) # None
      PROVE  /\ FindRadioPartner(cf, c, m) \in Column
             /\ cf[FindRadioPartner(cf, c, m)].mode = m
  <2> DEFINE paired == {d \in Column \ {c} : /\ cf[d].mode = m
                                             /\ cf[d].base = cf[c].base}
  <2>1. paired # {} /\ FindRadioPartner(cf, c, m) = Min(paired)
    BY <1>1 DEF FindRadioPartner
  <2>2. paired \in SUBSET Column
    OBVIOUS
  <2>3. Min(paired) \in paired
    BY <2>1, <2>2, ExtremeColumns
  <2>4. QED
    BY <2>1, <2>3
<1>2. ASSUME FindCompanion(cf, c, m) # None
      PROVE  /\ FindCompanion(cf, c, m) \in Column
             /\ cf[FindCompanion(cf, c, m)].mode = m
  <2> DEFINE paired(i) == {d \in OwnersOf(cf, cf[c].addrs[i]) \ {c} :
                             cf[d].mode = m}
             shared    == {i \in 1..4 : paired(i) # {}}
  <2>1. shared # {} /\ FindCompanion(cf, c, m) = Min(paired(Min(shared)))
    BY <1>2 DEF FindCompanion
  <2>2. shared \in SUBSET Nat
    OBVIOUS
  <2>3. Min(shared) \in shared
    BY <2>1, <2>2, MinOfNaturals
  <2>4. paired(Min(shared)) # {} /\ paired(Min(shared)) \in SUBSET Column
    BY <2>3 DEF OwnersOf
  <2>5. Min(paired(Min(shared))) \in paired(Min(shared))
    BY <2>4, ExtremeColumns
  <2>6. QED
    BY <2>1, <2>4, <2>5
<1>3. QED
  BY <1>1, <1>2 DEF Partner

(* fill_led_buff() leaves one lamp value per button.                        *)
LEMMA FillLedBuffType ==
  ASSUME NEW cf, \A d \in Column : WellFormed(cf[d]), NEW sl,
         NEW c \in Column
  PROVE  FillLedBuff(cf, sl, c) \in [Lamp -> 0..3]
<1>1. OwnLamps(cf[c], sl[c]) \in [Lamp -> 0..3]
  BY OwnLampsType
<1>2. CASE sl[c] \notin State(cf[c]) \/ Partner(cf, c) = None
  BY <1>1, <1>2 DEF FillLedBuff
<1>3. CASE sl[c] \in State(cf[c]) /\ Partner(cf, c) # None
  <2> DEFINE p == Partner(cf, c)
  <2>1. p \in Column /\ cf[p].mode = PartnerMode(cf[c].mode)
    BY <1>3, PartnerHasPartnerMode
  <2>2. \A g \in Lamp : OwnLamps(cf[c], sl[c])[g] + OwnLamps(cf[p], sl[p])[g]
                           \in 0..3
    BY <1>3, <2>1, PartnersNeverCollide
  <2>3. QED
    BY <1>3, <2>2 DEF FillLedBuff
<1>4. QED
  BY <1>2, <1>3
==============================================================================
