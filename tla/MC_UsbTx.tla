------------------------------ MODULE MC_UsbTx ------------------------------
(* Two frames fit into each queue.                                          *)
EXTENDS UsbTx
==============================================================================
