---------------------------- MODULE MCWorkspace ----------------------------
(***************************************************************************)
(* Workspace for TLC.  The counts are in MCWorkspace.cfg.                  *)
(***************************************************************************)
EXTENDS Workspace
=============================================================================
