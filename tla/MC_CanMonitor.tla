---------------------------- MODULE MC_CanMonitor ----------------------------
(* can_task and usb_to_can_task push while the LVGL task serves the monitor *)
(* screen; two slots, so that the log wraps and an entry is written over.   *)
EXTENDS CanMonitor
==============================================================================
