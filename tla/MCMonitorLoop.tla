--------------------------- MODULE MCMonitorLoop ----------------------------
(* Values of the constants for the runs of the loop: a tick is half a day. *)
EXTENDS MonitorLoopProps

MCPeriodLength == [p \in Periods |-> IF p = "daily" THEN 1 ELSE 2]
=============================================================================
