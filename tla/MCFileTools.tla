---------------------------- MODULE MCFileTools ----------------------------
(***************************************************************************)
(* FileTools for TLC.  The counts are in MCFileTools.cfg.                  *)
(***************************************************************************)
EXTENDS FileTools
=============================================================================
