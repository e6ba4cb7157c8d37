----------------------------- MODULE MC_CanLatest -----------------------------
(* Small instances of CanLatest: two columns, installations that share *)
(* the same two devices, and every press those devices' buttons can make.   *)
EXTENDS CanLatest, TLC

Addrs(a, b) == [i \in 1..4 |-> CASE i = 1 -> a [] i = 2 -> b [] OTHER -> None]

(* A configuration with the listed cells coloured and all others grey.      *)
Config(mode, base, a, b, cells) ==
    [mode |-> mode, base |-> base, addrs |-> Addrs(a, b),
     cell |-> [r \in Row |-> IF r \in DOMAIN cells THEN cells[r] ELSE 0]]

(* Three states, and five coloured rows of which only four count.           *)
NormalPair ==
    0 :> Config(MODE_NORMAL, 129, 10, 11, 0 :> 1 @@ 2 :> 2 @@ 4 :> 3) @@
    1 :> Config(MODE_NORMAL_SECONDARY, 130, 10, None,
                [r \in 1..5 |-> (r % 4) + 1])

(* The secondary column has the lower index; slot i of each is row i or 5-i.*)
SixStepPair ==
    0 :> Config(MODE_6STEP_SECONDARY, 131, 11, 10, [r \in 0..5 |-> 10 - r]) @@
    1 :> Config(MODE_6STEP, 129, None, 10, [r \in 0..5 |-> 5 + r])

(* Six-step slots 1, 4 and 5 unassigned, two rows on slot 0, an ignored cell*)
(* value; beside it a single-state column on another device.               *)
PartialSixStep ==
    0 :> Config(MODE_6STEP, 129, 10, None,
                0 :> 5 @@ 1 :> 5 @@ 2 :> 7 @@ 3 :> 8 @@ 4 :> 12) @@
    1 :> Config(MODE_NORMAL, 129, 11, None, 3 :> 4)

(* A green bank of nine states, so two layers of its device, and a red bank *)
(* of two on its first layer and on a second device, in the lower column.   *)
RadioPair ==
    0 :> Config(MODE_RADIO_RED, 129, 10, 11, [r \in 3..4 |-> 2]) @@
    1 :> Config(MODE_RADIO_GREEN, 129, 10, None, [r \in 0..8 |-> 1])

PairImages == {NormalPair, SixStepPair, RadioPair, PartialSixStep}
HoleImages == {PartialSixStep}

Frame(addr, type, button) ==
    [dlc |-> 4, data |-> 0 :> addr - 1 @@ 1 :> type @@ 2 :> button - 1 @@ 3 :> 24]

Presses(addr, type, buttons) == {Frame(addr, type, b) : b \in buttons}

(* A red press (8) differs from a green one (1) only for two radio banks.   *)
MCFrames ==
    Presses(10, 1, 128..134 \cup {137, 138}) \cup Presses(10, 8, {129, 131, 138})
    \cup Presses(11, 1, {129, 131}) \cup Presses(11, 8, {130})
    \cup {Frame(10, 4, 1)}

(* The identity routing a blank flash gives, and one where it is not.       *)
MCBoot == {[c \in Column |-> c], [c \in Column |-> 5 - c]}

(* An input that many columns have a state for, and one that few have.      *)
MCUiInputs == {0, 5}
==============================================================================
