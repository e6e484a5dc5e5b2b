--------------------------- MODULE MCCommandLanes ---------------------------
(* Instance of CommandLanes: all commands but one go to the first lane.    *)
EXTENDS CommandLanes

CONSTANTS main, cron, e1, e2, e3

MCLaneOf == [e \in Entry |-> IF e = e3 THEN cron ELSE main]
=============================================================================
