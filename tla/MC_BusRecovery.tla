--------------------------- MODULE MC_BusRecovery ---------------------------
(* One tick is a second: the poll period and the retry timeout of can.c.    *)
EXTENDS BusRecovery

MCPollPeriod   == 2
MCRetryTimeout == 5
==============================================================================
