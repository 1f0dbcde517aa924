------------------------------ MODULE MCDaemon ------------------------------
(***************************************************************************)
(* Daemon for TLC.  Its pids are not permuted: the run checks liveness.    *)
(***************************************************************************)
EXTENDS Daemon
=============================================================================
