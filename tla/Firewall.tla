----------------------------- MODULE Firewall ------------------------------
(***************************************************************************)
(* The Worker Action Firewall: how the calls of one model turn are decided *)
(* (firewall/, firewall_gate.py) and then applied one by one (runner.py),  *)
(* beside the second looks the registry (toolspec.py) and the backends     *)
(* (guardrails.py, sandbox/docker.py) take at the same call.  Any function *)
(* of the Firewall may raise, which the code is written to survive.        *)
(***************************************************************************)
EXTENDS Integers, SequencesExt

CONSTANTS
  Batches,     \* the turns to decide: sequences of calls
  BatchLimit,  \* MAX_BATCH_CALLS
  Kinds,       \* the tools' names, each one token
  Markers,     \* TOOL_CALL_MARKERS, as sequences of tokens
  Link, Target, \* a link on the way to the worktree, and where it leads; without one, the same
  Below,       \* the worktree's root, seen from there
  MaxFaults    \* exceptions out of the Firewall's own functions

Space == " "

\* A name, or a path: the tokens, or the parts, it is made of.
Tokens == Seq(STRING)

\* A call: id (0 is no valid id), name (tokens), path, command (what the shell rules find in
\* it), bad (the code it is refused with on its own, or "none").
Calls == [id : Nat, name : Tokens, path : [abs : BOOLEAN, parts : Tokens],
          command : STRING, bad : STRING]

\* The worktree's root as given, and as resolved.
Given == Link \o Below
Real  == Target \o Below

ASSUME FirewallAssumption ==
  /\ {"write", "bash", "finish"} \subseteq Kinds
  /\ BatchLimit \in Nat /\ MaxFaults \in Nat
  /\ Batches \subseteq Seq(Calls)
  /\ <<>> \notin Batches            \* a turn without calls never gets here

\* A marker ends in something that is no space, and no name of a tool is one.
ASSUME NamesAssumption ==
  /\ Kinds \subseteq STRING \ {Space}
  /\ Markers \subseteq Tokens
  /\ \A m \in Markers : m # <<>> /\ m[Len(m)] # Space

\* Both forms are normalised, resolving leaves no link, and the worktree has none of its own.
ASSUME RootAssumption ==
  /\ {Link, Target, Below} \subseteq Seq(STRING \ {".", ".."})
  /\ Link # <<>> /\ Real # <<>>
  /\ Link = Target \/ (~IsPrefix(Link, Real) /\ ~IsPrefix(Real, Link))

VARIABLES
  mode,      \* "host" or "docker"
  cut,       \* the reply ended at the output cap
  batch,
  pc,        \* "duplicates", "decide", "apply", "over"
  positions, \* the later calls of a repeated id
  outcomes,  \* of the calls decided so far
  results,   \* of the calls applied so far
  events,    \* positions with a firewall_denial record
  faults,
  \* History variables.
  failed,    \* positions where the Firewall raised
  ran        \* positions whose tool was called

turn    == <<mode, cut, batch>>
vars    == <<turn, pc, positions, outcomes, results, events, faults, failed, ran>>

Positions == DOMAIN batch

Init ==
  /\ mode \in {"host", "docker"} /\ cut \in BOOLEAN /\ batch \in Batches
  /\ pc = "duplicates" /\ positions = {} /\ outcomes = <<>> /\ results = <<>>
  /\ events = {} /\ faults = 0 /\ failed = {} /\ ran = {}

-----------------------------------------------------------------------------
(* Names                                                                   *)

\* The last token of s that is not a space, or 0; the first, or 1.
Solid(s)      == {i \in DOMAIN s : s[i] # Space}
LastSolid(s)  == IF Solid(s) = {} THEN 0 ELSE CHOOSE i \in Solid(s) : \A j \in Solid(s) : j <= i
FirstSolid(s) == IF Solid(s) = {} THEN 1 ELSE CHOOSE i \in Solid(s) : \A j \in Solid(s) : i <= j

\* strip(): leading and trailing spaces only.
Stripped(s) == SubSeq(s, FirstSolid(s), LastSolid(s))
IsKind(s)   == Len(s) = 1 /\ s[1] \in Kinds
Unchanged(name) == [name |-> name, marker |-> <<>>, cut |-> 0]

MarkerEndsAt(name, m, e) == e >= Len(m) /\ SubSeq(name, e - Len(m) + 1, e) = m

IsPadded(s) == IsKind(Stripped(s))

\* ToolRegistry.recover_name(): of all the markers in the name that leave a registered
\* name behind, the one that ends last, and of those that end there the longest.
RegistryName(name) ==
  LET found == {f \in (1 .. Len(name)) \X Markers :
                  MarkerEndsAt(name, f[2], f[1]) /\ IsPadded(SubSeq(name, f[1] + 1, Len(name)))}
      best  == CHOOSE f \in found :
                 \A g \in found : f[1] > g[1] \/ (f[1] = g[1] /\ Len(f[2]) >= Len(g[2]))
  IN  IF IsKind(name) \/ found = {} THEN Unchanged(name)
      ELSE [name   |-> Stripped(SubSeq(name, best[1] + 1, Len(name))),
            marker |-> best[2],
            cut    |-> best[1] - Len(best[2])]

\* Mutant: space between the marker and the name is not passed over.
RightBefore(name, last) == last - 1

\* Where a marker before the name at last has to end.
MarkerEnd(name, last) == LastSolid(SubSeq(name, 1, last - 1))

\* normalize.recover_name(): from the end, a name, any space, a marker, the longest first.
FirewallName(name) ==
  LET last  == LastSolid(name)
      found == {m \in Markers : MarkerEndsAt(name, m, MarkerEnd(name, last))}
      best  == CHOOSE m \in found : \A n \in found : Len(m) >= Len(n)
  IN  IF IsKind(name) \/ last = 0 \/ name[last] \notin Kinds \/ found = {}
      THEN Unchanged(name)
      ELSE [name |-> <<name[last]>>, marker |-> best,
            cut |-> MarkerEnd(name, last) - Len(best)]

KindOf(c) == FirewallName(c.name).name

-----------------------------------------------------------------------------
(* Paths                                                                   *)

\* What a step makes of start, after each part of a path.
Along(step, start, parts) ==
  LET at[i \in 0 .. Len(parts)] == IF i = 0 THEN start ELSE step[at[i - 1]][parts[i]]
  IN  at

\* normalize_path(): "." and empty parts go, ".." stays where it is.
Keep[s \in Tokens] == [x \in STRING |-> IF x = "." THEN s ELSE Append(s, x)]
Kept(parts) == Along(Keep, <<>>, parts)[Len(parts)]

\* posixpath.normpath(), of a relative path that normalize_path() has been over.
Collapse[s \in Tokens] ==
  [x \in STRING |-> IF x = ".." /\ s # <<>> /\ s[Len(s)] # ".." THEN Front(s) ELSE Append(s, x)]
Normpath(parts) == Along(Collapse, <<>>, parts)[Len(parts)]

StartsWith(s, x) == s # <<>> /\ s[1] = x
HasParent(s)     == \E i \in DOMAIN s : s[i] = ".."

\* _deny_relative(): the code, or "none".
DenyRelative(rel, writes) ==
  IF StartsWith(rel, "..") THEN "path_outside_workspace"
  ELSE IF StartsWith(rel, ".git") /\ writes THEN "repo_metadata_target"
  ELSE "none"

\* Mutant: what follows the root is taken as it stands.
RestAsIs(parts, root) == SubSeq(parts, Len(root) + 1, Len(parts))

\* What follows the root, its ".." resolved.
Rest(parts, root) == Normpath(SubSeq(parts, Len(root) + 1, Len(parts)))

\* The longer root first; docker has none.
Roots == IF mode = "docker" THEN {} ELSE {Given, Real}
RootsOf(parts) == {r \in Roots : IsPrefix(r, parts)}
RootOf(parts)  == CHOOSE r \in RootsOf(parts) : \A q \in RootsOf(parts) : Len(q) <= Len(r)

\* _evaluate_path_kind(), first match wins.
EvaluatePath(path, writes) ==
  LET p == Kept(path.parts)
  IN  IF path.abs
        THEN IF RootsOf(p) = {} THEN "path_outside_workspace"
             ELSE DenyRelative(Rest(p, RootOf(p)), writes)
      ELSE IF StartsWith(p, "..") THEN "path_outside_workspace"
      ELSE IF StartsWith(p, ".git") /\ ~HasParent(p) THEN DenyRelative(p, writes)
      ELSE IF HasParent(p) THEN DenyRelative(Normpath(p), writes)
      ELSE "none"

\* analyze_command(): "into" matches a host rule only until the worktree's root is
\* rewritten to ".", and docker skips the host rules.
EvaluateBash(command) ==
  IF command = "always" \/ (command = "host" /\ mode = "host") THEN command ELSE "none"

Writes(c) == KindOf(c) = <<"write">>

\* evaluate(): the reason of a denial, or "none".
Evaluate(c) ==
  IF KindOf(c) = <<"finish">> THEN "none"
  ELSE IF KindOf(c) = <<"bash">> THEN EvaluateBash(c.command)
  ELSE EvaluatePath(c.path, Writes(c))

\* check_request() in its order, then the fields.
Rejection(c) ==
  IF Len(batch) > BatchLimit THEN "batch_too_large"
  ELSE IF c.id = 0 THEN "call_id_invalid"
  ELSE IF ~IsKind(KindOf(c)) THEN "tool_unknown"
  ELSE c.bad

-----------------------------------------------------------------------------
(* decide_batch()                                                          *)

Denied(code, action, event) == [allow |-> FALSE, code |-> code, action |-> action, event |-> event]
Allowed == [allow |-> TRUE, code |-> "none", action |-> TRUE, event |-> "action"]
Internal == "firewall_internal_error"

\* Mutant: only a call that was not itself refused makes a later one a duplicate.
AmongAccepted ==
  {i \in Positions : \E j \in 1 .. i - 1 :
     batch[j].id = batch[i].id /\ batch[i].id # 0 /\ Rejection(batch[j]) = "none"}

\* duplicate_positions(): ids as given, before anything is validated.
DuplicatePositions ==
  {i \in Positions : \E j \in 1 .. i - 1 : batch[j].id = batch[i].id /\ batch[i].id # 0}

MayFault == faults < MaxFaults /\ faults' = faults + 1

FindDuplicates ==
  /\ pc = "duplicates"
  /\ \/ /\ positions' = DuplicatePositions /\ pc' = "decide"
        /\ UNCHANGED <<outcomes, faults, failed>>
     \/ /\ MayFault                              \* it raised: every call is denied
        /\ \E event \in {"request", "none"} :
             outcomes' = [i \in Positions |-> Denied(Internal, FALSE, event)]
        /\ failed' = Positions /\ pc' = "apply"
        /\ UNCHANGED positions
  /\ UNCHANGED <<turn, results, events, ran>>

I == Len(outcomes) + 1
This == batch[I]
Duplicate == I \in positions
Deciding == pc = "decide" /\ I \in Positions
Decides(outcome) ==
  /\ outcomes' = Append(outcomes, outcome)
  /\ pc' = IF I = Len(batch) THEN "apply" ELSE "decide"
  /\ UNCHANGED <<turn, positions, results, events, ran>>

Refuse ==
  /\ Deciding /\ (Duplicate \/ Rejection(This) # "none")
  /\ Decides(Denied(IF Duplicate THEN "call_id_duplicate" ELSE Rejection(This), FALSE, "request"))
  /\ UNCHANGED <<faults, failed>>

Judge ==
  /\ Deciding /\ ~Duplicate /\ Rejection(This) = "none"
  /\ Decides(IF Evaluate(This) = "none" THEN Allowed
             ELSE Denied(Evaluate(This), TRUE, "action"))
  /\ UNCHANGED <<faults, failed>>

\* _internal_error_outcome(): canonicalize raised, or the record of a rejection could not
\* be built.
FailBefore ==
  /\ Deciding /\ MayFault
  /\ \E event \in {"request", "none"} : Decides(Denied(Internal, FALSE, event))
  /\ failed' = failed \cup {I}

\* _action_internal_error_outcome(): evaluate raised, or the record of its verdict could
\* not be built; the action is kept, and the record is the best that can be.
FailAfter ==
  /\ Deciding /\ ~Duplicate /\ Rejection(This) = "none" /\ MayFault
  /\ \E event \in {"action", "request", "none"} : Decides(Denied(Internal, TRUE, event))
  /\ failed' = failed \cup {I}

-----------------------------------------------------------------------------
(* The loop over the calls (runner.py)                                     *)

At == Len(results) + 1
Applying == pc = "apply" /\ At \in Positions

\* Cut off: arguments that do not parse, or a required one that is missing.
IsCut(c) == cut /\ c.bad \in {"arguments_unparseable", "argument_missing"}

\* The result; after a strike the failure counters may end the run.
Answers(how, mayAbort) ==
  /\ results' = Append(results, how)
  /\ pc' \in {IF At = Len(batch) THEN "over" ELSE "apply"} \cup (IF mayAbort THEN {"over"} ELSE {})
  /\ UNCHANGED <<turn, positions, outcomes, faults, failed>>

\* Truncation comes before the outcome, which is not even looked at.
CutOff ==
  /\ Applying /\ IsCut(batch[At])
  /\ Answers("cut", TRUE) /\ UNCHANGED <<events, ran>>

\* denial_strike(): malformed and out of bounds are strikes, a lack of authority clears the
\* counters, an internal error leaves them.
Strikes == {"batch_too_large", "call_id_invalid", "call_id_duplicate", "tool_unknown",
            "arguments_unparseable", "argument_missing"}

Deny ==
  /\ Applying /\ ~IsCut(batch[At]) /\ ~outcomes[At].allow
  /\ Answers("denied", outcomes[At].code \in Strikes)
  /\ events' = events \cup {At} /\ UNCHANGED ran

\* The canonical action is what runs; a registered tool may fail, or end the run.
Run ==
  /\ Applying /\ ~IsCut(batch[At]) /\ outcomes[At].allow
  /\ Answers(IF KindOf(batch[At]) = <<"finish">> THEN "finish" ELSE "ran",
             KindOf(batch[At]) # <<"finish">>)
  /\ ran' = ran \cup {At} /\ UNCHANGED events

Terminated == pc = "over" /\ UNCHANGED vars

Next ==
  \/ FindDuplicates \/ Refuse \/ Judge \/ FailBefore \/ FailAfter
  \/ CutOff \/ Deny \/ Run \/ Terminated

Spec == Init /\ [][Next]_vars

-----------------------------------------------------------------------------
(* The backends' own look at a path                                        *)

\* One step of a walk through the file system, in which Link leads to Target.
Walk[at \in Tokens] ==
  [x \in STRING |-> IF x = ".." THEN (IF at = <<>> THEN <<>> ELSE Front(at))
                   ELSE IF Append(at, x) = Link THEN Target
                   ELSE Append(at, x)]

Start(path) == IF path.abs THEN <<>> ELSE Real
Where(path, n) == Along(Walk, Start(path), Kept(path.parts))[n]
Inside(loc) == IsPrefix(Real, loc)
Reaches(path) == Where(path, Len(Kept(path.parts)))

\* resolve_in_worktree(), in a worktree without links of its own.
HostRefuses(path, writes) ==
  \/ ~Inside(Reaches(path))
  \/ writes /\ StartsWith(SubSeq(Reaches(path), Len(Real) + 1, Len(Reaches(path))), ".git")

\* DockerSandbox's _rel().
DockerRefuses(path, writes) ==
  \/ path.abs
  \/ HasParent(Normpath(Kept(path.parts)))
  \/ writes /\ StartsWith(Normpath(Kept(path.parts)), ".git")

\* On its way the path leaves the worktree, or by then has not entered it by a root.
Leaves(path) ==
  \E n \in 0 .. Len(Kept(path.parts)) :
    /\ ~Inside(Where(path, n))
    /\ path.abs => n >= Len(Given) \/ n >= Len(Real)

-----------------------------------------------------------------------------
(* Properties                                                              *)

\* A tool only ever runs for a call that is allowed on its own merits, was not cut off,
\* whose evaluation did not fail anywhere, and whose id no earlier call of the batch had,
\* whatever became of that one; and a call whose own evaluation did not fail is decided as
\* if its neighbours were not there.  Every denial the loop reached left a record.
\* (decide_batch, "one request's failure never affects its neighbours"; "never returns
\* ALLOW from the internal-error path".)
FailsClosed ==
  /\ \A i \in ran :
       /\ i \notin failed /\ ~IsCut(batch[i])
       /\ Rejection(batch[i]) = "none" /\ Evaluate(batch[i]) = "none"
       /\ \A j \in 1 .. i - 1 : batch[j].id # batch[i].id
  /\ \A i \in DOMAIN outcomes \ failed :
       outcomes[i].allow <=>
         /\ Rejection(batch[i]) = "none" /\ Evaluate(batch[i]) = "none"
         /\ \A j \in 1 .. i - 1 : batch[j].id # batch[i].id
  /\ events = {i \in DOMAIN results : ~outcomes[i].allow /\ ~IsCut(batch[i])}

\* The Firewall, which never looks at the disk, lets no path through that the backend would
\* refuse for where it leads; and what it refuses the backend would refuse too, but for a
\* host path that leaves the worktree on its way and comes back.  (_evaluate_path_kind
\* against resolve_in_worktree and _rel.)
LayersAgree ==
  \A i \in Positions :
    LET c == batch[i]
        denies  == EvaluatePath(c.path, Writes(c)) # "none"
        refuses == IF mode = "host" THEN HostRefuses(c.path, Writes(c))
                   ELSE DockerRefuses(c.path, Writes(c))
    IN  /\ refuses => denies
        /\ denies => refuses \/ (mode = "host" /\ Leaves(c.path))

\* "The same answer as the registry's own recover_name, computed by a linear, end-anchored
\* algorithm" (normalize.py): the tool that runs is the one the transcript and the
\* trackers name.
NamesAgree == \A i \in Positions : FirewallName(batch[i].name) = RegistryName(batch[i].name)
=============================================================================
