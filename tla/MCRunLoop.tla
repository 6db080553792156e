----------------------------- MODULE MCRunLoop -----------------------------
(***************************************************************************)
(* RunLoop for TLC.  The gate and the trackers meet only in finish(), so   *)
(* one run turns the change guard and the verify gate on, another the      *)
(* trackers, with limits small enough to be reached in a few turns.        *)
(***************************************************************************)
EXTENDS RunLoop

\* Of FAILURE_KINDS, the two the loop records itself and one of the others.
MCFailureKinds == {"malformed_entry", "empty_reply", "bad_args"}
MCCommands     == {"test", "status"}
MCOutputs      == {"red"}
=============================================================================
