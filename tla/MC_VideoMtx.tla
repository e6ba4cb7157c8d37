----------------------------- MODULE MC_VideoMtx -----------------------------
(* A two by two matrix that starts with the identity routing.               *)
EXTENDS VideoMtx

MCOutput   == 0..1
MCInput    == 0..1
MCIdentity == [o \in MCOutput |-> o]
==============================================================================
