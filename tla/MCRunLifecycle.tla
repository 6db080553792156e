--------------------------- MODULE MCRunLifecycle ---------------------------
(***************************************************************************)
(* RunLifecycle for TLC: one fresh run and its resumes.  Processes may be  *)
(* killed; or everything may happen that does not need a command started   *)
(* while another one works; or Ctrl-C alone.                               *)
(***************************************************************************)
EXTENDS RunLifecycle

CrashOrSequential == {{"crash"}, AllEvents \ {"overlap"}}
InterruptOnly     == {{"interrupt"}}
=============================================================================
