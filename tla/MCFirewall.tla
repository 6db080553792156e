---------------------------- MODULE MCFirewall -----------------------------
(***************************************************************************)
(* Firewall for TLC: every path of at most MaxParts parts and every name   *)
(* of at most MaxTokens tokens, each as the only call of its turn, and     *)
(* every turn of up to three calls of a few shapes.                        *)
(***************************************************************************)
EXTENDS Firewall

CONSTANTS MaxParts, MaxTokens

MCKinds   == {"read", "write", "bash", "finish"}
MCMarkers == {<<"_", "t", "_">>, <<"_", "_", "t", "_", "_">>, <<"<">>}
MCLink    == <<"l">>
MCTarget  == <<"a", "a">>
MCBelow   == <<"wt">>

Here == [abs |-> FALSE, parts |-> <<"a">>]
Call(id, name, path, command, bad) ==
  [id |-> id, name |-> name, path |-> path, command |-> command, bad |-> bad]

SeqsUpTo(S, n) == UNION {[1 .. k -> S] : k \in 0 .. n}

PathTurns ==
  {<<Call(1, <<kind>>, [abs |-> abs, parts |-> parts], "ok", "none")>> :
     kind \in {"read", "write"}, abs \in BOOLEAN,
     parts \in SeqsUpTo({"..", ".git", "l", "a", "wt"}, MaxParts)
               \cup SeqsUpTo({"..", ".", ".git", "a"}, MaxParts)}

NameTurns ==
  {<<Call(1, name, Here, "ok", "none")>> :
     name \in SeqsUpTo({"_", "t", " ", "bash"}, MaxTokens)
               \cup SeqsUpTo({"_", "<", " ", "bash"}, MaxTokens - 1)}

Shapes(id) ==
  {Call(id, <<"write">>, Here, "ok", "none"),
   Call(id, <<"bash">>, Here, "host", "none"),
   Call(id, <<"finish">>, Here, "ok", "none"),
   Call(id, <<"read">>, Here, "ok", "arguments_unparseable")}

MixedTurns ==
  UNION {[1 .. k -> UNION {Shapes(id) : id \in 0 .. 2}] : k \in 1 .. 3}
    \cup {[i \in 1 .. 4 |-> Call(i, <<"bash">>, Here, command, "none")] : command \in {"into", "always"}}
    \cup {<<Call(1, <<"grep?">>, Here, "ok", "none"), Call(2, <<"read">>, Here, "ok", "argument_missing")>>}

MCBatches == PathTurns \cup NameTurns \cup MixedTurns
=============================================================================
