------------------------------- MODULE MC_Prog -------------------------------
(* Two configurations, a queue of two packets.                              *)
EXTENDS Prog
==============================================================================
