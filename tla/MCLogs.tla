--------------------------------- MODULE MCLogs ---------------------------------
(* Logs for TLC. *)
EXTENDS Logs
=============================================================================
