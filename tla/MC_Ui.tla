------------------------------- MODULE MC_Ui -------------------------------
(* MC_UiMatrix.cfg takes two outputs, two inputs and one brightness;        *)
(* MC_UiScreens.cfg takes one cell, and three levels of brightness of which *)
(* the middle one is less than a step away from either end.                 *)
EXTENDS Ui
==============================================================================
