-------------------------- MODULE MC_CanLatestTasks --------------------------
(* Two columns that share a device; an upload shortens the first to one     *)
(* state, beside a partner that keeps its two, and another undoes that.     *)
EXTENDS CanLatestTasks, TLC

Config(mode, base, addr, cells) ==
    [mode |-> mode, base |-> base,
     addrs |-> [i \in 1..4 |-> IF i = 1 THEN addr ELSE None],
     cell |-> [r \in Row |-> IF r \in cells THEN 1 ELSE 0]]

Pair ==
    0 :> Config(MODE_NORMAL, 129, 10, {0, 1}) @@
    1 :> Config(MODE_NORMAL_SECONDARY, 130, 10, {1, 2})

Short ==
    0 :> Config(MODE_NORMAL, 129, 10, {2}) @@
    1 :> Config(MODE_NORMAL_SECONDARY, 130, 10, {1, 2})

MCImages == {Pair, Short}
MCUiInputs == {0, 1, 2}
==============================================================================
