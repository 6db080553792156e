-------------------------- MODULE MCDockerSandbox --------------------------
(***************************************************************************)
(* DockerSandbox for TLC.  Two tool calls let a call meet what an earlier  *)
(* one left behind; the code's own limits are three and three, and two is  *)
(* enough to be below each, at it and reset in between.                    *)
(***************************************************************************)
EXTENDS DockerSandbox

MCMaxTurns == 2
MCMaxDiskCheckFailures == 2
MCSettleChecks == 2
=============================================================================
