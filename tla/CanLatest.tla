------------------------------ MODULE CanLatest ------------------------------
(****************************************************************************)
(* can_latest.c as a sequential component: every handler runs to completion *)
(* before the next one starts.  The handlers really run in several tasks    *)
(* that share s_cols and LedBuff without a lock; what an interleaving of    *)
(* them can do is outside this module.                                      *)
(*                                                                          *)
(* The panels on the bus are part of the model: panel[<<a, l>>] is what the *)
(* device with address a shows on LED layer l, which is what the last frame *)
(* it received for that layer said.  Any frame may fail to be sent          *)
(* (can_service_send() returns an error: pool exhausted, transmit timeout,  *)
(* bus-off); the panel it should have updated is then Unknown.              *)
(*                                                                          *)
(* A received frame that is not accepted changes nothing here and is a      *)
(* stuttering step; s_frame, which no one reads, is left out.               *)
(****************************************************************************)
EXTENDS Columns

CONSTANTS Images,        \* the images an upload may commit: column |-> image
          BusFrames,     \* frames [dlc, data] other nodes put on the bus
          BootRoutes,    \* routing tables videomtx_init() may load
          UiInputs,      \* the inputs chosen in the matrix screen
          Unknown        \* what a panel shows after a frame to it was lost

ASSUME ImagesAssumption ==
    /\ Images \subseteq [Column -> ColumnImage]
    /\ BusFrames \subseteq [dlc : 0..8, data : [0..3 -> Byte]]
    /\ BootRoutes \subseteq [Column -> Row]
    /\ UiInputs \subseteq Row

VARIABLES conf,     \* column |-> its layout, the fixed part of s_cols[c]
          ptr,      \* column |-> s_cols[c].ptr
          sel,      \* column |-> s_cols[c].sel_idx
          route,    \* column |-> s_route[c], the input videomtx connects
          panel     \* <<device, layer>> |-> lamps it shows

vars == <<conf, ptr, sel, route, panel>>

Unconfigured == [c \in Column |-> Blank]

(* What can_latest_configure() makes of each image, and every layer of every*)
(* device that one of them addresses.                                       *)
Configure(img) == [c \in Column |-> LayoutOf(img[c])]
Panels == UNION {Targets(LayoutOf(img[c])) : img \in Images, c \in Column}

Lamps8 == [0..7 -> 0..3]

Configured == {c \in Column : conf[c].len > 0}

------------------------------------------------------------------------------
(* The state before app_main() calls can_latest_reconfigure(): the routing  *)
(* table is loaded, s_cols is zero, and nobody has told the panels anything.*)
Init ==
    /\ conf  = Unconfigured
    /\ ptr   = [c \in Column |-> 0]
    /\ sel   = [c \in Column |-> 0]
    /\ route \in BootRoutes
    /\ panel = [t \in Panels |-> Unknown]

(* send_to_col_addrs(): `sent` are the targets whose frames were accepted.  *)
SendToColumn(c, leds) ==
    \E sent \in SUBSET Targets(conf[c]) :
        panel' = [t \in Panels |->
                    IF t \in sent THEN Payload(conf[c], t, leds)
                    ELSE IF t \in Targets(conf[c]) THEN Unknown
                    ELSE panel[t]]

(* can_latest_broadcast(): the columns in order, so a layer that several    *)
(* columns write ends up with what the last successful one wrote.           *)
Broadcast(cf, sl) ==
    LET on == {c \in Column : cf[c].len > 0}
        writes == UNION {{c} \X Targets(cf[c]) : c \in on}
    IN  \E sent \in SUBSET writes :
          panel' = [t \in Panels |->
             LET writers == {c \in on : <<c, t>> \in sent}
             IN  IF writers # {}
                 THEN Payload(cf[Max(writers)], t,
                              FillLedBuff(cf, sl, Max(writers)))
                 ELSE IF \E c \in on : t \in Targets(cf[c]) THEN Unknown
                 ELSE panel[t]]

(* videomtx_set(): an input outside the matrix, such as the sentinel of an  *)
(* unconfigured slot, is ignored.                                           *)
SetRoute(c, row) ==
    route' = IF row \in Row THEN [route EXCEPT ![c] = row] ELSE route

(* vmtx_to_cols(): the state that routes what is routed now, else state 0.  *)
RestoredState(k, row) ==
    LET found == StateForRow(k, row)
    IN  IF k.len = 0 \/ found = None THEN 0 ELSE found

RestoredCursor(k, s) == IF k.len = 0 THEN 0 ELSE CursorAfter(k, s, 0)

(* can_latest_reconfigure(): from app_main() at boot and from usb_to_can_   *)
(* task after a committed upload.                                           *)
Reconfigure(img) ==
    /\ conf' = Configure(img)
    /\ sel'  = [c \in Column |-> RestoredState(conf'[c], route[c])]
    /\ ptr'  = [c \in Column |-> RestoredCursor(conf'[c], sel'[c])]
    /\ Broadcast(conf', sel')
    /\ UNCHANGED route

(* can_latest_update() of a request to refresh the panels.                  *)
RefreshRequest(f) ==
    /\ f.dlc = 4 /\ f.data[3] = 24 /\ f.data[1] = 4
    /\ Broadcast(conf, sel)
    /\ UNCHANGED <<conf, ptr, sel, route>>

PressAddress(f) == (f.data[0] + 1) % 256
PressButton(f)  == (f.data[2] + 1) % 256
PressIsRed(f)   == f.data[1] = 8

(* can_latest_update() of a button press: HH (1) or CSEND (8).              *)
ButtonPress(f) ==
    LET c     == ResolveColumn(conf, PressAddress(f), PressButton(f),
                               PressIsRed(f))
        k     == conf[c]
        which == PressButton(f) - k.base
        s     == PressedState(k, which, ptr[c])
    IN  /\ f.dlc = 4 /\ f.data[3] = 24 /\ f.data[1] \in {1, 8}
        /\ c # None
        /\ PressIsRed(f) <=> k.mode = MODE_RADIO_RED
        /\ AcceptsButton(k, which)
        /\ sel' = [sel EXCEPT ![c] = s]
        /\ ptr' = [ptr EXCEPT ![c] = PressedCursor(k, which, s, ptr[c])]
        /\ SetRoute(c, k.rows[s])
        /\ SendToColumn(c, FillLedBuff(conf, sel', c))
        /\ UNCHANGED conf

(* The click that ends an edit in the matrix screen: videomtx_set_silent()  *)
(* and then can_latest_notify_route().  The screen exists only once app_    *)
(* main() has configured the columns.                                       *)
UiRoute(c, row) ==
    LET found == StateForRow(conf[c], row)
    IN  /\ conf # Unconfigured
        /\ SetRoute(c, row)
        /\ IF found = None
           THEN UNCHANGED <<sel, ptr, panel>>
           ELSE /\ sel' = [sel EXCEPT ![c] = found]
                /\ ptr' = [ptr EXCEPT ![c] =
                             CursorAfter(conf[c], found, ptr[c])]
                /\ SendToColumn(c, FillLedBuff(conf, sel', c))
        /\ UNCHANGED conf

Next ==
    \/ \E img \in Images : Reconfigure(img)
    \/ \E f \in BusFrames : RefreshRequest(f)
    \/ \E f \in BusFrames : ButtonPress(f)
    \/ \E c \in Column, row \in UiInputs : UiRoute(c, row)

Spec == Init /\ [][Next]_vars

------------------------------------------------------------------------------
(* Type invariant: the state can_latest.c keeps per column (led_seq_t),     *)
(* the layouts being ones that can_latest_configure() can build.            *)
TypeOK ==
    /\ conf \in [Column -> Layout] /\ \A c \in Column : WellFormed(conf[c])
    /\ ptr \in [Column -> Slot]
    /\ sel \in [Column -> Slot]
    /\ route \in [Column -> Row]
    /\ panel \in [Panels -> Lamps8 \cup {Unknown}]

(* However presses of either button, UI edits, uploads and boots follow one *)
(* another, the next press resumes cycling right after the state that is    *)
(* selected now: ptr is the successor of sel_idx, within its half for a     *)
(* 6STEP column (can_latest.c:77-95 against 593-630).                       *)
CursorFollowsSelection ==
    \A c \in Configured :
        /\ sel[c] \in State(conf[c])
        /\ ptr[c] = CursorAfter(conf[c], sel[c], 0)

(* The state the lamps stand for is the input the video really comes from,  *)
(* unless the route is one that no state of the column stands for           *)
(* (docs/can_latest.md, step 5; can_latest.c:503-511).                      *)
LampsTellTheRoute ==
    \A c \in Configured :
        FullyAssigned(conf[c]) =>
            \/ route[c] = conf[c].rows[sel[c]]
            \/ \A i \in State(conf[c]) : route[c] # conf[c].rows[i]

(* The same for every column, without the proviso about unassigned slots:   *)
(* docs/can_latest.md:180 says of sel_idx, without exception, that rows[sel]*)
(* "is the video input that column now routes to".                          *)
SelectedInputIsRouted ==
    \A c \in Configured :
        \/ route[c] = conf[c].rows[sel[c]]
        \/ \A i \in State(conf[c]) : route[c] # conf[c].rows[i]

(* The layer that carries lamp g of a column, and the bits of a shown lamp  *)
(* that are the column's: a radio bank has one colour of each lamp.         *)
LayerOfLamp(k, g) == (Layer(k.base) + (g \div 8)) % 256

OwnColour(k, light) ==
    IF k.mode = MODE_RADIO_GREEN THEN light % 2
    ELSE IF k.mode = MODE_RADIO_RED THEN 2 * (light \div 2)
    ELSE light

(* Two columns made to share lamps (column_properties.h:143-157): the two   *)
(* halves of one device, or two banks of one colour each on the same lamps. *)
Complements(k, m) ==
    /\ m.mode = PartnerMode(k.mode)
    /\ IF Radio(k) THEN m.base = k.base
       ELSE Addresses(k) \cap Addresses(m) # {}

(* Whoever else writes to the target was made to share lamps with c alone.  *)
SharedOnlyWithPartners(c, target) ==
    \A d \in Configured \ {c} :
        target \in Targets(conf[d]) =>
            {e \in Column \ {d} : Complements(conf[d], conf[e])} = {c}

(* Every device shows, in the lamps of every column it serves, the state    *)
(* that column is in, whichever column was the last to send to it: a frame  *)
(* for one column never wipes the lamps of the column it shares the layer   *)
(* with, and both layers of a long bank are kept (can_latest.c:306-459).    *)
PanelsShowSelection ==
    \A c \in Configured :
        \A a \in Addresses(conf[c]), s \in State(conf[c]) :
            LET g == LampOf(conf[c], s)
                t == <<a, LayerOfLamp(conf[c], g)>>
            IN  SharedOnlyWithPartners(c, t) /\ panel[t] # Unknown =>
                    OwnColour(conf[c], panel[t][g % 8]) =
                    OwnLamps(conf[c], sel[c])[g]

(* An upload that leaves a column as it was, such as a repeated COMMIT or   *)
(* one that changes other columns, moves neither its selection nor its      *)
(* cursor, although both are worked out anew from the route                 *)
(* (can_latest.c:100-119, 216).                                             *)
UploadKeepsSelection ==
    [][\A img \in Images, c \in Configured :
         /\ LayoutOf(img[c]) = conf[c]
         /\ route[c] = conf[c].rows[sel[c]]
         /\ Reconfigure(img)
         => sel'[c] = sel[c] /\ ptr'[c] = ptr[c]]_vars
==============================================================================
