----------------------------- MODULE MCRunJson -----------------------------
(***************************************************************************)
(* RunJson for TLC: three commands with any requests, and two tries, so    *)
(* that a command that retries can be overtaken once too often.  The       *)
(* commands differ by their requests only, which Init gives them in every  *)
(* way.                                                                    *)
(***************************************************************************)
EXTENDS RunJson, TLC

CONSTANTS c1, c2, c3

MCCommands == {c1, c2, c3}
Symmetry   == Permutations(MCCommands)
=============================================================================
