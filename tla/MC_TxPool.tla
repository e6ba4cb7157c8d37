------------------------------ MODULE MC_TxPool ------------------------------
(* Two senders on a pool of a few slots.                    *)
EXTENDS TxPool
==============================================================================
