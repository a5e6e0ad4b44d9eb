---------------------------- MODULE MCTelemetry ----------------------------
(***************************************************************************)
(* A parent that is replaced once, and two RobotClients that the program   *)
(* makes for itself; to show what ends tracing, one of each.               *)
(***************************************************************************)
EXTENDS Telemetry

MCParents == {"p1", "p2"}
OneParent == {"p1"}
MCOthers  == {"other", "another"}
OneOther  == {"other"}
=============================================================================
