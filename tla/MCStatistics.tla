---------------------------- MODULE MCStatistics ----------------------------
(***************************************************************************)
(* Statistics on a bus with two slaves of one coil each, called also for   *)
(* the broadcast address and for an id that libmodbus refuses.             *)
(***************************************************************************)
EXTENDS Statistics

MCSlaves   == {1, 2}
MCIds      == {0, 2, 300}
MCValidIds == 0..247
MCRetries  == {-1, 0, 2}

============================================================================
