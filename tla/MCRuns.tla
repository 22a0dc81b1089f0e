-------------------------------- MODULE MCRuns --------------------------------
(***************************************************************************)
(* Small instances of Runs: two runs at a time, which is all that a stop   *)
(* request, a restart and the scheduler can tell apart.                    *)
(***************************************************************************)
EXTENDS Runs, TLC
=============================================================================
