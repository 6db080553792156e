------------------------------ MODULE MCProcs ------------------------------
(***************************************************************************)
(* Procs for TLC.  The sizes are in MCProcs.cfg.                           *)
(***************************************************************************)
EXTENDS Procs
=============================================================================
