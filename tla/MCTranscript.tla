--------------------------- MODULE MCTranscript ---------------------------
(***************************************************************************)
(* Transcript for TLC.  The counts are in MCTranscript.cfg.                *)
(***************************************************************************)
EXTENDS Transcript
=============================================================================
