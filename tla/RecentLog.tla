------------------------------ MODULE RecentLog ------------------------------
(****************************************************************************)
(* What the CAN monitor promises: the latest LOG_SIZE entries in the order  *)
(* in which they were pushed, and a text that is the whole log as it was at *)
(* one moment.                                                              *)
(****************************************************************************)
EXTENDS Naturals, Sequences

CONSTANTS Entry, LOG_SIZE

VARIABLES log,     \* the latest entries, oldest first
          shown    \* the log the text was last rendered from

vars == <<log, shown>>

Init == log = <<>> /\ shown = <<>>

Pushed(e) ==
    IF Len(log) < LOG_SIZE THEN Append(log, e) ELSE Append(Tail(log), e)

Push ==
    /\ \E e \in Entry : log' = Pushed(e)
    /\ UNCHANGED shown

Show == shown' = log /\ UNCHANGED log

Next == Push \/ Show

Spec == Init /\ [][Next]_vars
==============================================================================
