----------------------------- MODULE Workspace -----------------------------
(***************************************************************************)
(* snapshot_worktree() (workspace.py) and its two callers: `dirtywork runs *)
(* snapshot` (runs.py) and `dirtywork run --branch-from @<slug>`           *)
(* (__main__.py), which goes on to create_worktree() for the new run.      *)
(* Each git command is one step.  Between two of them the other caller,    *)
(* the operator's own git and a process in the worktree may act.           *)
(***************************************************************************)
EXTENDS Integers, Sequences, FiniteSets

CONSTANTS
  MaxCalls,   \* snapshots taken, by either caller
  MaxRivals,  \* steps of the operator and of processes in the worktree
  StatFails   \* sets of paths whose stat may fail in one look at the worktree

Absent == 0
InBuild == {"keep", "out"}           \* the files of the directory build/
Paths == InBuild \cup {"main"}
Rank == [keep |-> 1, out |-> 2, main |-> 3]
EmptyTree == [p \in Paths |-> Absent]

ASSUME WorkspaceAssumption ==
  MaxCalls \in Nat \ {0} /\ MaxRivals \in Nat /\ StatFails \subseteq SUBSET Paths

Callers == {"snapshot", "run"}
None == 0                            \* no commit

VARIABLES
  \* the repository
  commits,     \* sequence of [tree, parent]: commit i is commits[i]
  branch,      \* the run's branch, None when it is deleted
  onBranch,    \* HEAD of the worktree is refs/heads/<branch>
  away,        \* the commit HEAD stands for when it is not
  index,       \* the worktree's index
  objects,     \* contents whose blob is in the object store
  \* the worktree
  files, listable, buildIgnored,
  \* snapshot_worktree(), of each caller
  pc, walked, shut, base, entries, made, result, calls,
  \* create_worktree(), of the new run
  dest,        \* .worktrees/dw-<slug>: "none", "link", "made", or "outside" through a link
  newBranch,   \* dirtywork/<slug>: "none", "theirs", "ours"
  existed, newBase,
  rivals,
  \* History variables.
  seen, ignored, quiet,  \* during each caller's last call
  skipped,               \* paths that were there and could not be stat'ed
  saved,                 \* the commit it made, or found to say it all
  theirs,                \* the new run's branch existed before
  leftover               \* a clean-up failed, or none was attempted

repo    == <<commits, branch, onBranch, away, index, objects>>
work    == <<files, listable, buildIgnored>>
local   == <<walked, shut, skipped, base, entries, made>>
create  == <<dest, newBranch, existed, newBase, theirs, leftover>>
observed == <<seen, ignored, quiet>>
vars    == <<repo, work, pc, local, result, calls, create, rivals, observed, saved>>

TreeOf(c) == [p \in Paths |-> IF p \in DOMAIN entries[c] THEN entries[c][p] ELSE Absent]
BaseTree(c) == commits[base[c]].tree
HeadTree == IF onBranch THEN commits[branch].tree ELSE commits[away].tree

\* What git takes as ignored: a path that is tracked is not.
Ignored(p) == buildIgnored /\ p \in InBuild /\ index[p] = Absent

\* git status, as host_worktree_dirty() asks it.
DirtyAt(p) == index[p] # HeadTree[p] \/ (files[p] # index[p] /\ ~Ignored(p))
Dirty      == \E p \in Paths : DirtyAt(p)

Outside == {"idle", "refused", "started"}

Goto(c, l)    == pc' = [pc EXCEPT ![c] = l]
Ends(c, how)  ==
  /\ result' = [result EXCEPT ![c] = how]
  /\ Goto(c, IF c = "snapshot" THEN "idle" ELSE IF how = "error" THEN "refused" ELSE "exclude")
Raises(c)     == Ends(c, "error") /\ UNCHANGED <<saved, local>>

Init ==
  /\ \E keep \in 0 .. 1 :
       commits = <<[tree |-> [main |-> 1, keep |-> keep, out |-> Absent], parent |-> None]>>
  /\ branch = 1 /\ onBranch = TRUE /\ away = 1
  /\ index \in {commits[1].tree, EmptyTree}   \* empty: a --no-checkout worktree
  /\ objects = {1}
  /\ files \in {commits[1].tree, [commits[1].tree EXCEPT !["main"] = 2, !["out"] = 1], EmptyTree}
  /\ listable = TRUE /\ buildIgnored \in BOOLEAN
  /\ pc = [c \in Callers |-> "idle"] /\ result = [c \in Callers |-> "none"] /\ calls = 0
  /\ walked = [c \in Callers |-> {}] /\ shut = [c \in Callers |-> FALSE]
  /\ skipped = [c \in Callers |-> {}]
  /\ base = [c \in Callers |-> None] /\ made = [c \in Callers |-> None]
  /\ entries = [c \in Callers |-> <<>>]
  /\ dest = "none"
  /\ theirs \in BOOLEAN /\ (theirs => ~buildIgnored)   \* independent: one combination less
  /\ newBranch = IF theirs THEN "theirs" ELSE "none"
  /\ existed = FALSE /\ newBase = None /\ leftover = FALSE /\ rivals = 0
  /\ seen = [c \in Callers |-> [p \in Paths |-> {}]]
  /\ ignored = [c \in Callers |-> [p \in Paths |-> {}]]
  /\ quiet = [c \in Callers |-> TRUE] /\ saved = [c \in Callers |-> None]

-----------------------------------------------------------------------------
(* snapshot_worktree()                                                     *)

\* preflight_run_worktree() let the caller through.  The new run asks first whether the
\* worktree is dirty, and takes a git status that fails for a yes.
Start(c) ==
  /\ pc[c] = "idle" /\ calls < MaxCalls
  /\ \/ Goto(c, "check") /\ result' = [result EXCEPT ![c] = "none"] /\ calls' = calls + 1
     \/ c = "run" /\ ~Dirty /\ Goto(c, "exclude") /\ UNCHANGED <<result, calls>>
  /\ walked' = [walked EXCEPT ![c] = {}] /\ shut' = [shut EXCEPT ![c] = FALSE]
  /\ skipped' = [skipped EXCEPT ![c] = {}]
  /\ entries' = [entries EXCEPT ![c] = <<>>]
  /\ base' = [base EXCEPT ![c] = None] /\ made' = [made EXCEPT ![c] = None]
  /\ saved' = [saved EXCEPT ![c] = None]
  /\ UNCHANGED <<repo, work, create>>

\* A git command fails, or its pipe breaks.
GitFails(c) ==
  /\ pc[c] \in {"check", "dirs", "filter", "head", "probe", "write", "tree", "update"}
  /\ Raises(c) /\ UNCHANGED <<repo, work, calls, create>>

\* symbolic-ref -q HEAD.
CheckBranch(c) ==
  /\ pc[c] = "check"
  /\ IF onBranch THEN Goto(c, "walk") /\ UNCHANGED <<result, saved, local>> ELSE Raises(c)
  /\ UNCHANGED <<repo, work, calls, create>>

Present == {p \in Paths : files[p] # Absent}

\* Those of some entries whose stat or readlink fails.
Unreadable(there) == {{}} \cup {fails \cap there : fails \in StatFails}

\* The entries of a directory, but those that cannot be looked at: these are left out.
Take(c, there, lost) ==
  /\ walked' = [walked EXCEPT ![c] = @ \cup (there \ lost)]
  /\ skipped' = [skipped EXCEPT ![c] = @ \cup lost]

\* The first level of the walk: the root's files, and build/ when it is there, whose stat
\* fails for all that is in it.
WalkRoot(c) ==
  /\ pc[c] = "walk"
  /\ \E lost \in Unreadable(Present) :
       /\ lost \cap InBuild \in {{}, Present \cap InBuild}
       /\ Take(c, Present \ InBuild, lost)
       /\ Goto(c, IF Present \cap InBuild \subseteq lost THEN "filter" ELSE "dirs")
  /\ UNCHANGED <<repo, work, shut, base, entries, made, result, saved, calls, create>>

\* Mutant: check-ignore --no-index, which also reports what is tracked.
NoIndex(p) == buildIgnored /\ p \in InBuild

\* check-ignore -z --stdin, which consults the index.
CheckIgnore(p) == buildIgnored /\ p \in InBuild /\ index[p] = Absent

\* A directory is reported when no tracked file is in it.
CheckIgnoreBuild == \A p \in InBuild : CheckIgnore(p)

\* One batch for the directories of a level, before any of them is entered.
CheckDirs(c) ==
  /\ pc[c] = "dirs"
  /\ Goto(c, IF CheckIgnoreBuild THEN "filter" ELSE "walkdir")
  /\ UNCHANGED <<repo, work, local, result, saved, calls, create>>

WalkBuild(c) ==
  /\ pc[c] = "walkdir"
  /\ IF listable
       THEN /\ \E lost \in Unreadable(Present \cap InBuild) : Take(c, Present \cap InBuild, lost)
            /\ UNCHANGED shut
       ELSE shut' = [shut EXCEPT ![c] = TRUE] /\ UNCHANGED <<walked, skipped>>
  /\ Goto(c, "filter")
  /\ UNCHANGED <<repo, work, base, entries, made, result, saved, calls, create>>

\* The one batch over files, links and the directories that could not be listed.
Filter(c) ==
  /\ pc[c] = "filter"
  /\ IF shut[c] /\ ~CheckIgnoreBuild
       THEN Raises(c)
       ELSE /\ walked' = [walked EXCEPT ![c] = {p \in @ : ~CheckIgnore(p)}]
            /\ Goto(c, "head")
            /\ UNCHANGED <<shut, skipped, base, entries, made, result, saved>>
  /\ UNCHANGED <<repo, work, calls, create>>

\* rev-parse refs/heads/<branch>; the head's tree; no empty tree over one that is not.
ReadHead(c) ==
  /\ pc[c] = "head"
  /\ IF branch = None \/ (walked[c] = {} /\ commits[branch].tree # EmptyTree)
       THEN Raises(c)
       ELSE /\ base' = [base EXCEPT ![c] = branch]
            /\ Goto(c, "probe")
            /\ UNCHANGED <<walked, shut, skipped, entries, made, result, saved>>
  /\ UNCHANGED <<repo, work, calls, create>>

Rest(c) == walked[c] \ DOMAIN entries[c]
Turn(c) == CHOOSE p \in Rest(c) : \A q \in Rest(c) : Rank[p] <= Rank[q]

\* hash-object reads the next file; one that is gone fails the command.
Hash(c) ==
  IF files[Turn(c)] = Absent
    THEN Raises(c)
    ELSE /\ entries' = [entries EXCEPT ![c] =
                          [p \in DOMAIN @ \cup {Turn(c)} |-> IF p = Turn(c) THEN files[p] ELSE @[p]]]
         /\ UNCHANGED <<pc, result, saved, walked, shut, skipped, base, made>>

\* The first pass writes nothing: it only decides whether anything changed.
Probe(c) ==
  /\ pc[c] = "probe"
  /\ \/ Rest(c) # {} /\ Hash(c)
     \/ /\ Rest(c) = {}
        /\ IF TreeOf(c) = BaseTree(c)
             THEN /\ Ends(c, "nothing") /\ saved' = [saved EXCEPT ![c] = base[c]]
                  /\ UNCHANGED local
             ELSE /\ entries' = [entries EXCEPT ![c] = <<>>] /\ Goto(c, "write")
                  /\ UNCHANGED <<walked, shut, skipped, base, made, result, saved>>
  /\ UNCHANGED <<repo, work, calls, create>>

\* The second pass: hash-object -w, and the entries anew from its shas.
Write(c) ==
  /\ pc[c] = "write"
  /\ \/ /\ Rest(c) # {} /\ Hash(c)
        /\ objects' = objects \cup ({files[Turn(c)]} \ {Absent})
     \/ /\ Rest(c) = {} /\ Goto(c, "tree")
        /\ UNCHANGED <<objects, local, result, saved>>
  /\ UNCHANGED <<commits, branch, onBranch, away, index, work, calls, create>>

\* update-index into a private index, write-tree, which wants every blob, commit-tree.
WriteTree(c) ==
  /\ pc[c] = "tree"
  /\ \A p \in DOMAIN entries[c] : entries[c][p] \in objects
  /\ IF TreeOf(c) = BaseTree(c)
       THEN Ends(c, "nothing") /\ saved' = [saved EXCEPT ![c] = base[c]] /\ UNCHANGED <<commits, made>>
       ELSE /\ commits' = Append(commits, [tree |-> TreeOf(c), parent |-> base[c]])
            /\ made' = [made EXCEPT ![c] = Len(commits) + 1]
            /\ Goto(c, "update") /\ UNCHANGED <<result, saved>>
  /\ UNCHANGED <<branch, onBranch, away, index, objects, work, walked, shut, skipped, base,
                 entries, calls, create>>

\* Mutant: update-ref without the old value.
UpdateRefBlind(c) ==
  /\ pc[c] = "update"
  /\ branch' = made[c] /\ Goto(c, "refresh") /\ UNCHANGED <<result, saved, local>>
  /\ UNCHANGED <<commits, onBranch, away, index, objects, work, calls, create>>

\* update-ref <branch> <commit> <head>: a compare-and-swap.
UpdateRef(c) ==
  /\ pc[c] = "update"
  /\ IF branch = base[c]
       THEN branch' = made[c] /\ Goto(c, "refresh") /\ UNCHANGED <<result, saved, local>>
       ELSE Raises(c) /\ UNCHANGED branch
  /\ UNCHANGED <<commits, onBranch, away, index, objects, work, calls, create>>

\* Mutant: the index is left as it was.
NoRefresh(c) ==
  /\ pc[c] = "refresh"
  /\ Ends(c, "committed") /\ saved' = [saved EXCEPT ![c] = made[c]]
  /\ UNCHANGED <<repo, local, work, calls, create>>

\* host_read_tree(): read-tree HEAD.  When it fails the snapshot raises, after the commit.
Refresh(c) ==
  /\ pc[c] = "refresh"
  /\ \/ /\ index' = HeadTree
        /\ Ends(c, "committed") /\ saved' = [saved EXCEPT ![c] = made[c]] /\ UNCHANGED local
     \/ Raises(c) /\ UNCHANGED index
  /\ UNCHANGED <<commits, branch, onBranch, away, objects, work, calls, create>>

-----------------------------------------------------------------------------
(* _workspace_new(), _execute() up to the run directory                    *)

R == "run"
At(l) == pc[R] = l
InCreate == UNCHANGED <<repo, work, local, result, saved, calls, theirs>>

\* ensure_worktrees_excluded(), and the lstat of the destination.
Exclude ==
  /\ At("exclude")
  /\ \/ dest = "none" /\ Goto(R, "existed")
     \/ Goto(R, "refused")
  /\ InCreate /\ UNCHANGED <<dest, newBranch, existed, newBase, leftover>>

Existed ==
  /\ At("existed") /\ Goto(R, "add")
  /\ existed' = (newBranch # "none")
  /\ InCreate /\ UNCHANGED <<dest, newBranch, newBase, leftover>>

\* git worktree add -b: it may fail before or after the branch is made.
Add ==
  /\ At("add")
  /\ \/ /\ newBranch = "none" /\ branch # None
        /\ newBranch' = "ours" /\ newBase' = branch
        /\ \/ dest' = (IF dest = "link" THEN "outside" ELSE "made") /\ Goto(R, "resolve")
           \/ Goto(R, "cleanup") /\ UNCHANGED dest
     \/ Goto(R, "cleanup") /\ UNCHANGED <<dest, newBranch, newBase>>
  /\ InCreate /\ UNCHANGED <<existed, leftover>>

\* Mutant: the branch is deleted whether or not it was there before.
CleanupAlways ==
  /\ At("cleanup") /\ Goto(R, "refused")
  /\ newBranch' = "none"
  /\ InCreate /\ UNCHANGED <<dest, existed, newBase, leftover>>

\* branch -D, whose result is ignored.
Cleanup ==
  /\ At("cleanup") /\ Goto(R, "refused")
  /\ IF existed THEN UNCHANGED <<newBranch, leftover>>
     ELSE \/ newBranch' = "none" /\ UNCHANGED leftover
          \/ leftover' = TRUE /\ UNCHANGED newBranch
  /\ InCreate /\ UNCHANGED <<dest, existed, newBase>>

Resolve ==
  /\ At("resolve")
  /\ Goto(R, IF dest = "outside" THEN "rollback" ELSE "base")
  /\ InCreate /\ UNCHANGED <<dest, newBranch, existed, newBase, leftover>>

\* worktree_base_commit(), outside the try of _workspace_new: main() answers its error with
\* exit 2 and no roll-back.  Then create_run_dir(), whose error is rolled back.
BaseCommit ==
  /\ At("base")
  /\ \/ Goto(R, "started") /\ UNCHANGED leftover
     \/ Goto(R, "rollback") /\ UNCHANGED leftover
     \/ Goto(R, "refused") /\ leftover' = TRUE
  /\ InCreate /\ UNCHANGED <<dest, newBranch, existed, newBase>>

\* remove_worktree(): both commands run, their results are ignored.
Rollback ==
  /\ At("rollback") /\ Goto(R, "refused")
  /\ \/ dest' = "none" /\ newBranch' = "none" /\ UNCHANGED leftover
     \/ leftover' = TRUE /\ UNCHANGED <<dest, newBranch>>
  /\ InCreate /\ UNCHANGED <<existed, newBase>>

-----------------------------------------------------------------------------
(* The operator, and processes in the worktree                             *)

Edit ==
  /\ \E p \in Paths, x \in 0 .. 2 : x # files[p] /\ files' = [files EXCEPT ![p] = x]
  /\ UNCHANGED <<repo, listable, buildIgnored, create>>

Chmod == listable' = ~listable /\ UNCHANGED <<repo, files, buildIgnored, create>>

\* git add -A && git commit.
Commit ==
  LET tree == [p \in Paths |-> IF Ignored(p) THEN Absent ELSE files[p]]
  IN  /\ onBranch /\ listable /\ tree # commits[branch].tree
      /\ commits' = Append(commits, [tree |-> tree, parent |-> branch])
      /\ branch' = Len(commits) + 1
      /\ index' = tree
      /\ objects' = objects \cup ({tree[p] : p \in Paths} \ {Absent})
      /\ UNCHANGED <<onBranch, away, work, create>>

\* git switch -c <another branch>, and perhaps git branch -D of the one left.
SwitchAway ==
  /\ onBranch /\ onBranch' = FALSE /\ away' = branch
  /\ branch' \in {branch, None}
  /\ UNCHANGED <<commits, index, objects, work, create>>

PlantLink ==
  /\ dest = "none" /\ dest' = "link"
  /\ UNCHANGED <<repo, work, newBranch, existed, newBase, theirs, leftover>>

Rival ==
  /\ rivals < MaxRivals /\ rivals' = rivals + 1
  /\ Edit \/ Chmod \/ Commit \/ SwitchAway \/ PlantLink
  /\ UNCHANGED <<pc, local, result, saved, calls>>

-----------------------------------------------------------------------------
Snapshot(c) ==
  \/ Start(c) \/ GitFails(c) \/ CheckBranch(c) \/ WalkRoot(c) \/ CheckDirs(c) \/ WalkBuild(c)
  \/ Filter(c) \/ ReadHead(c) \/ Probe(c) \/ Write(c) \/ WriteTree(c) \/ UpdateRef(c)
  \/ Refresh(c)

NewRun == Exclude \/ Existed \/ Add \/ Cleanup \/ Resolve \/ BaseCommit \/ Rollback

\* What a call could have seen, and whether anyone but the caller has changed anything.
Observe(actor) ==
  LET starting(c) == pc[c] = "idle" /\ pc'[c] = "check"
      inCall(c)   == pc'[c] \notin Outside \/ pc[c] \notin Outside
  IN  /\ seen' = [c \in Callers |->
                    IF starting(c) THEN [p \in Paths |-> {files[p]}]
                    ELSE IF inCall(c) THEN [p \in Paths |-> seen[c][p] \cup {files'[p]}]
                    ELSE seen[c]]
      /\ ignored' = [c \in Callers |->
                    IF starting(c) THEN [p \in Paths |-> {Ignored(p)}]
                    ELSE IF inCall(c) THEN [p \in Paths |-> ignored[c][p] \cup {Ignored(p)'}]
                    ELSE ignored[c]]
      /\ quiet' = [c \in Callers |->
                    \/ starting(c)
                    \/ quiet[c] /\ (actor = c \/ UNCHANGED <<repo, work>>)]

Terminated == pc[R] \in Outside /\ pc["snapshot"] = "idle" /\ UNCHANGED vars

Next ==
  \/ \E c \in Callers : Snapshot(c) /\ UNCHANGED rivals /\ Observe(c)
  \/ NewRun /\ UNCHANGED rivals /\ Observe(R)
  \/ Rival /\ Observe("rival")
  \/ Terminated

Spec == Init /\ [][Next]_vars

-----------------------------------------------------------------------------
(* Properties                                                              *)

\* A snapshot that says "committed" or "nothing to snapshot" left a commit that holds,
\* for each path, content the worktree had at some moment of the call: a file nobody
\* touched meanwhile is in it as it is, and one that is missing although it is there was
\* ignored, which a tracked file is not, or could not be stat'ed.  (snapshot_worktree, which
\* reads the tree twice and asks for the ignore rules twice while others write.)
SnapshotIsTrue ==
  \A c \in Callers : result[c] \in {"committed", "nothing"} =>
    \A p \in Paths :
      LET x == commits[saved[c]].tree[p]
      IN  x \in seen[c][p] \/ (x = Absent /\ (TRUE \in ignored[c][p] \/ p \in skipped[c]))

\* The branch only ever moves to a child of what it is, so that a commit someone else made
\* in the meantime is never dropped; and a tree that holds something is never followed by
\* an empty one that a snapshot made.  (update-ref with the old value; the empty-tree guard.)
NothingClobbered ==
  [][branch' \notin {branch, None} =>
       /\ commits'[branch'].parent = branch
       /\ (\E c \in Callers : made[c] = branch') /\ commits[branch].tree # EmptyTree
            => commits'[branch'].tree # EmptyTree]_vars

\* When nobody else acts meanwhile, git status has nothing to say after a snapshot that
\* committed, but of files that could not be stat'ed: the walk, the two filters and
\* host_worktree_dirty() agree on what counts.
CleanAfterwards ==
  [][\A c \in Callers :
       result[c] # "committed" /\ result'[c] = "committed" /\ quiet'[c]
         => \A p \in Paths \ skipped'[c] : ~DirtyAt(p)']_vars

\* A commit and all that lies below it: what every set holds that holds the commit and the
\* parents of its own.
Ancestors(i) ==
  {a \in DOMAIN commits :
     \A S \in SUBSET DOMAIN commits :
       i \in S /\ (\A j \in S : commits[j].parent \in S \cup {None}) => a \in S}

\* A new run that does not start leaves neither its worktree nor its branch behind, unless
\* git failed to remove them or the base commit could not be read, and it never deletes a
\* branch that was there before; one that starts has the snapshot it took in its history.
\* ("exit 2 creates nothing", __main__.py; create_worktree, remove_worktree.)
NewRunStartsOrLeavesNothing ==
  /\ At("refused") /\ ~leftover => dest \notin {"made", "outside"} /\ newBranch # "ours"
  /\ theirs => newBranch = "theirs"
  /\ At("started") /\ saved[R] # None => saved[R] \in Ancestors(newBase)
=============================================================================
