-------------------------- MODULE Workspace_proofs --------------------------
(***************************************************************************)
(* The snapshot and the new run, for any number of snapshots and any       *)
(* number of acts of the operator and of processes in the worktree.        *)
(*                                                                         *)
(* Each caller is alone with its own variables: LookedInv says what it has *)
(* seen of the worktree so far, CarriedInv what it is about to write over  *)
(* the branch, QuietInv what it knows when nobody else acts.  BelowInv is  *)
(* about both and the branch: whatever a caller read or wrote stays in the *)
(* branch's history.  CreateInv is the roll-back of the new run.           *)
(***************************************************************************)
EXTENDS Workspace, TLAPS

Contents == 0 .. 2
Trees == [Paths -> Contents]

InSnapshot == {"check", "walk", "dirs", "walkdir", "filter", "head", "probe", "write", "tree",
               "update", "refresh"}
InNewRun   == {"exclude", "existed", "add", "cleanup", "resolve", "base", "rollback",
               "refused", "started"}

CommitsOK ==
  /\ commits \in Seq([tree : Trees, parent : Nat])
  /\ Len(commits) \in Nat /\ Len(commits) > 0
  /\ \A i \in 1 .. Len(commits) : commits[i].parent < i

RepoOK ==
  /\ branch \in Nat /\ branch <= Len(commits)
  /\ away \in Nat /\ 0 < away /\ away <= Len(commits)
  /\ index \in Trees /\ files \in Trees

FlagsOK ==
  /\ onBranch \in BOOLEAN /\ listable \in BOOLEAN /\ buildIgnored \in BOOLEAN
  /\ onBranch => branch # None

LabelsOK ==
  /\ pc \in [Callers -> {"idle"} \cup InSnapshot \cup InNewRun]
  /\ pc["snapshot"] \in {"idle"} \cup InSnapshot
  /\ result \in [Callers -> {"none", "error", "nothing", "committed"}]
  /\ pc[R] = "idle" => result[R] = "none"

LocalOK ==
  /\ walked \in [Callers -> SUBSET Paths] /\ shut \in [Callers -> BOOLEAN]
  /\ skipped \in [Callers -> SUBSET Paths]
  /\ base \in [Callers -> Nat] /\ made \in [Callers -> Nat] /\ saved \in [Callers -> Nat]
  /\ \A c \in Callers :
       base[c] <= Len(commits) /\ made[c] <= Len(commits) /\ saved[c] <= Len(commits)

EntriesOK ==
  /\ DOMAIN entries = Callers
  /\ \A c \in Callers : \A p \in DOMAIN entries[c] : p \in Paths /\ entries[c][p] \in {1, 2}

TypeInv == CommitsOK /\ RepoOK /\ FlagsOK /\ LabelsOK /\ LocalOK /\ EntriesOK

\* What a caller in a call has of the worktree as it is now.
NowInv(c) ==
  pc[c] \notin Outside =>
    \A p \in Paths : files[p] \in seen[c][p] /\ (Ignored(p) => TRUE \in ignored[c][p])

\* Path p may be missing from what c writes.
MayMiss(c, p) == Absent \in seen[c][p] \/ TRUE \in ignored[c][p] \/ p \in skipped[c]

SaysTrue(c, tree) ==
  \A p \in Paths :
    tree[p] \in seen[c][p] \/ (tree[p] = Absent /\ (TRUE \in ignored[c][p] \/ p \in skipped[c]))

LookedInv(c) ==
  /\ pc[c] \in {"dirs", "walkdir"} => "main" \in walked[c] \/ MayMiss(c, "main")
  /\ pc[c] = "filter" =>
       \A p \in Paths : p \in walked[c] \/ MayMiss(c, p) \/ (shut[c] /\ p \in InBuild)
  /\ pc[c] \in {"head", "probe", "write", "tree"} =>
       \A p \in Paths : p \in walked[c] \/ MayMiss(c, p)
  /\ pc[c] \in {"probe", "write", "tree"} =>
       \A p \in DOMAIN entries[c] : entries[c][p] \in seen[c][p]
  /\ pc[c] \in {"update", "refresh"} => SaysTrue(c, commits[made[c]].tree)
  /\ result[c] \in {"committed", "nothing"} => SaysTrue(c, commits[saved[c]].tree)

CarriedInv(c) ==
  /\ pc[c] \in {"check", "walk"} => walked[c] = {}
  /\ pc[c] \in {"check", "walk", "dirs", "walkdir", "filter", "head"} => DOMAIN entries[c] = {}
  /\ pc[c] \in {"probe", "write", "tree", "update", "refresh"} => base[c] # None
  /\ pc[c] \in {"probe", "write", "tree"} =>
       /\ walked[c] = {} => BaseTree(c) = EmptyTree
       /\ DOMAIN entries[c] \subseteq walked[c]
  /\ pc[c] = "tree" => walked[c] \subseteq DOMAIN entries[c]
  /\ pc[c] \in {"update", "refresh"} =>
       /\ made[c] # None
       /\ commits[made[c]].parent = base[c]
       /\ BaseTree(c) # EmptyTree => commits[made[c]].tree # EmptyTree
  /\ result[c] \in {"committed", "nothing"} => saved[c] # None

\* What a snapshot is to take in, and what it does.
Wanted(p) == files[p] # Absent /\ ~Ignored(p)

TakesWanted(c) ==
  \A p \in Paths : (p \in walked[c] => Wanted(p)) /\ (Wanted(p) => p \in walked[c] \cup skipped[c])

\* Path p of a tree is as the worktree has it, or left out.
AsItIs(c, tree, p) == tree[p] = files[p] \/ (tree[p] = Absent /\ (Ignored(p) \/ p \in skipped[c]))

QuietInv(c) ==
  quiet[c] =>
    /\ pc[c] \in InSnapshot \ {"check"} => onBranch
    /\ pc[c] \in {"dirs", "walkdir"} =>
         "main" \in walked[c] \cup skipped[c] \/ files["main"] = Absent
    /\ pc[c] \in {"dirs", "walkdir", "filter"} => \A p \in walked[c] : files[p] # Absent
    /\ pc[c] = "filter" =>
         \A p \in Paths : p \in walked[c] \cup skipped[c] \/ files[p] = Absent
                          \/ (p \in InBuild /\ (shut[c] \/ CheckIgnoreBuild))
    /\ pc[c] \in {"head", "probe", "write", "tree"} => TakesWanted(c)
    /\ pc[c] \in {"probe", "write", "tree"} =>
         \A p \in DOMAIN entries[c] : entries[c][p] = files[p]
    /\ pc[c] \in {"update", "refresh"} =>
         \A p \in Paths : AsItIs(c, commits[made[c]].tree, p)
    /\ pc[c] = "refresh" => branch = made[c]

BelowInv(c) ==
  branch # None =>
    /\ base[c] # None => base[c] \in Ancestors(branch)
    /\ saved[c] # None => saved[c] \in Ancestors(branch)
    /\ pc[c] = "refresh" => made[c] \in Ancestors(branch)

StartedInv ==
  At("resolve") \/ At("base") \/ At("started") =>
    /\ newBase \in 1 .. Len(commits)
    /\ saved[R] # None => saved[R] \in Ancestors(newBase)

Before == {"idle", "exclude", "existed"} \cup InSnapshot

CreateInv ==
  /\ dest \in {"none", "link", "made", "outside"} /\ newBranch \in {"none", "theirs", "ours"}
  /\ theirs => newBranch = "theirs"
  /\ newBranch = "theirs" => theirs
  /\ pc[R] \in Before \cup {"add"} => dest \in {"none", "link"} /\ newBranch # "ours"
  /\ At("add") => (existed <=> newBranch # "none")
  /\ At("cleanup") => dest \in {"none", "link"} /\ (existed <=> newBranch = "theirs")
  /\ At("resolve") \/ At("base") \/ At("rollback") => newBranch = "ours"
  /\ At("refused") /\ ~leftover => dest \in {"none", "link"} /\ newBranch # "ours"

IInv ==
  /\ TypeInv
  /\ \A c \in Callers : NowInv(c) /\ LookedInv(c) /\ CarriedInv(c) /\ QuietInv(c) /\ BelowInv(c)
  /\ StartedInv /\ CreateInv

-----------------------------------------------------------------------------
(* What a step leaves alone                                                *)

Same(c) ==
  /\ pc'[c] = pc[c] /\ walked'[c] = walked[c] /\ shut'[c] = shut[c] /\ base'[c] = base[c]
  /\ skipped'[c] = skipped[c]
  /\ entries'[c] = entries[c] /\ made'[c] = made[c] /\ result'[c] = result[c]
  /\ saved'[c] = saved[c]

\* The two callers.
LEMMA CallersAre ==
  /\ "snapshot" \in Callers /\ R \in Callers /\ R # "snapshot"
  /\ \A c \in Callers : c = "snapshot" \/ c = R
  BY DEF Callers, R

\* The paths of the model's worktree: two in build/, one at its root.
LEMMA PathsAre ==
  /\ \A p \in Paths : p = "keep" \/ p = "out" \/ p = "main"
  /\ \A p \in Paths : p \in InBuild <=> p # "main"
  /\ "keep" \in Paths /\ "out" \in Paths /\ "main" \in Paths /\ InBuild \subseteq Paths
  BY DEF Paths, InBuild

\* The next file to hash is one that is left.
LEMMA TurnIsLeft ==
  ASSUME NEW c \in Callers, walked[c] \subseteq Paths, Rest(c) # {}
  PROVE  Turn(c) \in Rest(c)
<1>1. \A p \in Rest(c) : p \in Paths
  BY DEF Rest
<1>2. \E p \in Rest(c) : \A q \in Rest(c) : Rank[p] <= Rank[q]
  <2>1. /\ Rank["keep"] = 1
        /\ Rank["out"] = 2
        /\ Rank["main"] = 3
    BY DEF Rank
  <2>2. CASE "keep" \in Rest(c)
    BY <1>1, <2>1, <2>2, PathsAre
  <2>3. CASE "keep" \notin Rest(c) /\ "out" \in Rest(c)
    BY <1>1, <2>1, <2>3, PathsAre
  <2>4. CASE "keep" \notin Rest(c) /\ "out" \notin Rest(c)
    BY <1>1, <2>1, <2>4, PathsAre
  <2> QED
    BY <2>2, <2>3, <2>4
<1> QED
  BY <1>2 DEF Turn

\* A step of a snapshot touches nothing of the other caller, nor of the new run.
LEMMA SnapshotFrame ==
  ASSUME TypeInv, NEW c \in Callers, Snapshot(c)
  PROVE  /\ UNCHANGED <<work, create, onBranch, away>>
         /\ \A d \in Callers \ {c} : Same(d)
<1> USE DEF TypeInv, LabelsOK, LocalOK, EntriesOK, Same, work, create, repo, local, Ends, Goto,
            Raises, Hash
<1>1. CASE Start(c)
  BY <1>1 DEF Start
<1>2. CASE GitFails(c)
  BY <1>2 DEF GitFails
<1>3. CASE CheckBranch(c)
  BY <1>3 DEF CheckBranch
<1>4. CASE WalkRoot(c)
  BY <1>4 DEF WalkRoot, Take
<1>5. CASE CheckDirs(c)
  BY <1>5 DEF CheckDirs
<1>6. CASE WalkBuild(c)
  BY <1>6 DEF WalkBuild, Take
<1>7. CASE Filter(c)
  BY <1>7 DEF Filter
<1>8. CASE ReadHead(c)
  BY <1>8 DEF ReadHead
<1>9. CASE Probe(c)
  BY <1>9 DEF Probe
<1>10. CASE Write(c)
  BY <1>10 DEF Write
<1>11. CASE WriteTree(c)
  BY <1>11 DEF WriteTree
<1>12. CASE UpdateRef(c)
  BY <1>12 DEF UpdateRef
<1>13. CASE Refresh(c)
  BY <1>13 DEF Refresh
<1> QED
  BY <1>1, <1>2, <1>3, <1>4, <1>5, <1>6, <1>7, <1>8, <1>9, <1>10, <1>11, <1>12, <1>13 DEF Snapshot

\* The new run's own steps touch neither the repository nor the snapshots, and stay its own.
LEMMA NewRunFrame ==
  ASSUME TypeInv, NewRun
  PROVE  /\ UNCHANGED <<repo, work, local, result, saved, theirs>>
         /\ pc' = [pc EXCEPT ![R] = pc'[R]]
         /\ pc[R] \in InNewRun /\ pc'[R] \in InNewRun
         /\ Same("snapshot")
<1> USE DEF TypeInv, LabelsOK, Same, work, repo, local, InCreate, Goto, At, InNewRun
<1>1. /\ \E l \in InNewRun : pc' = [pc EXCEPT ![R] = l]
      /\ pc[R] \in InNewRun
      /\ UNCHANGED <<repo, work, local, result, saved, theirs>>
  <2>1. CASE Exclude
    BY <2>1 DEF Exclude
  <2>2. CASE Existed
    BY <2>2 DEF Existed
  <2>3. CASE Add
    BY <2>3 DEF Add
  <2>4. CASE Cleanup
    BY <2>4 DEF Cleanup
  <2>5. CASE Resolve
    BY <2>5 DEF Resolve
  <2>6. CASE BaseCommit
    BY <2>6 DEF BaseCommit
  <2>7. CASE Rollback
    BY <2>7 DEF Rollback
  <2> QED
    BY <2>1, <2>2, <2>3, <2>4, <2>5, <2>6, <2>7 DEF NewRun
<1> QED
  BY <1>1, CallersAre

\* The operator and other processes touch no caller's variables.
LEMMA RivalFrame ==
  ASSUME Rival
  PROVE  /\ UNCHANGED <<theirs, newBranch, existed, newBase, leftover>>
         /\ \A c \in Callers : Same(c)
         /\ UNCHANGED <<pc, local, result, saved>>
         /\ dest' = dest \/ (dest = "none" /\ dest' = "link")
  BY DEF Rival, Same, local, Edit, Chmod, Commit, SwitchAway, PlantLink, create

\* A branch is only ever appended to: a new commit stands on one that is there.
LEMMA CommitsGrow ==
  ASSUME TypeInv, [Next]_vars
  PROVE  \/ commits' = commits
         \/ \E t \in Trees, q \in Nat :
              q <= Len(commits) /\ commits' = Append(commits, [tree |-> t, parent |-> q])
<1> USE DEF repo, work
<1>1. CASE Rival
  <2>1. CASE Commit
    <3> DEFINE tree == [p \in Paths |-> IF Ignored(p) THEN Absent ELSE files[p]]
    <3>1. tree \in Trees
      BY DEF TypeInv, RepoOK, Trees, Contents, Absent
    <3>2. commits' = Append(commits, [tree |-> tree, parent |-> branch])
      BY <2>1 DEF Commit
    <3> HIDE DEF tree
    <3> QED
      BY <3>1, <3>2 DEF TypeInv, RepoOK
  <2> QED
    BY <1>1, <2>1 DEF Rival, Edit, Chmod, SwitchAway, PlantLink
<1>2. CASE NewRun
  BY <1>2, NewRunFrame
<1>3. ASSUME NEW c \in Callers, Snapshot(c)
      PROVE  \/ commits' = commits
             \/ \E t \in Trees, q \in Nat :
                  q <= Len(commits) /\ commits' = Append(commits, [tree |-> t, parent |-> q])
  <2>1. CASE WriteTree(c)
    <3>1. TreeOf(c) \in Trees
      BY DEF TypeInv, EntriesOK, TreeOf, Trees, Contents, Absent
    <3>2. base[c] \in Nat /\ base[c] <= Len(commits)
      BY DEF TypeInv, LocalOK
    <3>3. commits' = commits \/ commits' = Append(commits, [tree |-> TreeOf(c), parent |-> base[c]])
      BY <2>1 DEF WriteTree
    <3> QED
      BY <3>1, <3>2, <3>3
  <2> QED
    BY <1>3, <2>1 DEF Snapshot, Start, GitFails, CheckBranch, WalkRoot, CheckDirs, WalkBuild,
                      Filter, ReadHead, Probe, Write, UpdateRef, Refresh
<1> QED
  BY <1>1, <1>2, <1>3 DEF Next, Terminated, vars

Grown ==
  /\ Len(commits') >= Len(commits)
  /\ \A i \in 1 .. Len(commits) : commits'[i] = commits[i]

\* So the sequence of commits keeps its type, and each commit its place.
LEMMA CommitsStep ==
  ASSUME TypeInv, [Next]_vars
  PROVE  CommitsOK' /\ Grown
<1>1. CASE commits' = commits
  BY <1>1 DEF TypeInv, CommitsOK, Grown
<1>2. ASSUME NEW t \in Trees, NEW q \in Nat, q <= Len(commits),
             commits' = Append(commits, [tree |-> t, parent |-> q])
      PROVE  CommitsOK' /\ Grown
  <2>1. [tree |-> t, parent |-> q] \in [tree : Trees, parent : Nat]
    OBVIOUS
  <2>2. /\ commits \in Seq([tree : Trees, parent : Nat])
        /\ Len(commits) \in Nat
        /\ Len(commits) > 0
        /\ \A i \in 1 .. Len(commits) : commits[i].parent < i
    BY DEF TypeInv, CommitsOK
  <2>3. /\ commits' \in Seq([tree : Trees, parent : Nat])
        /\ Len(commits') = Len(commits) + 1
        /\ \A i \in 1 .. Len(commits) : commits'[i] = commits[i]
        /\ commits'[Len(commits) + 1] = [tree |-> t, parent |-> q]
    BY <1>2, <2>1, <2>2
  <2>4. \A i \in 1 .. Len(commits') : commits'[i].parent < i
    BY <1>2, <2>2, <2>3
  <2> QED
    BY <2>2, <2>3, <2>4 DEF CommitsOK, Grown
<1> QED
  BY <1>1, <1>2, CommitsGrow

-----------------------------------------------------------------------------
(* The types                                                               *)

\* HEAD stands for a tree.
LEMMA HeadTreeOK ==
  ASSUME TypeInv
  PROVE  HeadTree \in Trees
<1>1. ASSUME NEW i \in 1 .. Len(commits)
      PROVE  commits[i].tree \in Trees
  <2> DEFINE C == [tree : Trees, parent : Nat]
  <2>1. commits \in Seq(C)
    BY DEF TypeInv, CommitsOK
  <2>2. \A x \in C : x.tree \in Trees
    OBVIOUS
  <2> HIDE DEF C
  <2>3. commits[i] \in C
    BY <2>1
  <2> QED
    BY <2>2, <2>3
<1> QED
  BY <1>1 DEF TypeInv, RepoOK, FlagsOK, HeadTree, None

\* Only a compare-and-swap moves the branch during a snapshot.
LEMMA RepoOfSnapshot ==
  ASSUME TypeInv, NEW c \in Callers, Snapshot(c)
  PROVE  /\ branch' = branch \/ (branch' = made[c] /\ pc[c] = "update")
         /\ index' = index \/ index' = HeadTree
<1> USE DEF repo, local, Ends, Raises, Goto
<1>1. CASE Start(c)
  BY <1>1 DEF Start
<1>2. CASE GitFails(c)
  BY <1>2 DEF GitFails
<1>3. CASE CheckBranch(c)
  BY <1>3 DEF CheckBranch
<1>4. CASE WalkRoot(c)
  BY <1>4 DEF WalkRoot, Take
<1>5. CASE CheckDirs(c)
  BY <1>5 DEF CheckDirs
<1>6. CASE WalkBuild(c)
  BY <1>6 DEF WalkBuild, Take
<1>7. CASE Filter(c)
  BY <1>7 DEF Filter
<1>8. CASE ReadHead(c)
  BY <1>8 DEF ReadHead
<1>9. CASE Probe(c)
  BY <1>9 DEF Probe
<1>10. CASE Write(c)
  BY <1>10 DEF Write
<1>11. CASE WriteTree(c)
  BY <1>11 DEF WriteTree
<1>12. CASE UpdateRef(c)
  BY <1>12 DEF UpdateRef
<1>13. CASE Refresh(c)
  BY <1>13 DEF Refresh
<1> QED
  BY <1>1, <1>2, <1>3, <1>4, <1>5, <1>6, <1>7, <1>8, <1>9, <1>10, <1>11, <1>12, <1>13 DEF Snapshot

\* The repository and the worktree keep their types; HEAD's branch is there while HEAD is on it.
LEMMA RepoStep ==
  ASSUME TypeInv, \A c \in Callers : CarriedInv(c), [Next]_vars
  PROVE  RepoOK' /\ FlagsOK'
<1> USE DEF TypeInv, RepoOK, FlagsOK
<1>1. Len(commits) \in Nat /\ Len(commits') \in Nat /\ Len(commits') >= Len(commits)
  BY CommitsStep DEF CommitsOK, Grown
<1>2. ASSUME NEW c \in Callers, Snapshot(c)
      PROVE  RepoOK' /\ FlagsOK'
  <2>1. UNCHANGED <<files, listable, buildIgnored, onBranch, away>>
    BY <1>2, SnapshotFrame DEF work
  <2>2. index' \in Trees
    BY <1>2, RepoOfSnapshot, HeadTreeOK
  <2>3. branch' \in Nat /\ branch' <= Len(commits') /\ (onBranch' => branch' # None)
    <3>1. CASE branch' = branch
      BY <1>1, <2>1, <3>1
    <3>2. CASE branch' = made[c] /\ pc[c] = "update"
      <4>1. made[c] \in Nat /\ made[c] <= Len(commits) /\ made[c] # None
        BY <3>2 DEF LocalOK, CarriedInv
      <4> QED
        BY <1>1, <3>2, <4>1
    <3> QED
      BY <1>2, <3>1, <3>2, RepoOfSnapshot
  <2> QED
    BY <1>1, <2>1, <2>2, <2>3
<1>3. CASE NewRun
  BY <1>1, <1>3, NewRunFrame DEF repo, work
<1>4. CASE Rival
  <2>1. CommitsOK'
    BY CommitsStep
  <2>2. CASE Edit
    <3>1. files' \in Trees
      BY <2>2 DEF Edit, Trees, Contents
    <3> QED
      BY <1>1, <2>2, <3>1 DEF Edit, repo
  <2>3. CASE Chmod
    BY <1>1, <2>3 DEF Chmod, repo
  <2>4. CASE Commit
    <3> DEFINE tree == [p \in Paths |-> IF Ignored(p) THEN Absent ELSE files[p]]
    <3>1. tree \in Trees
      BY DEF Trees, Contents, Absent
    <3>2. /\ commits' = Append(commits, [tree |-> tree, parent |-> branch])
          /\ branch' = Len(commits) + 1
          /\ index' = tree
          /\ UNCHANGED <<onBranch, away, files, listable, buildIgnored>>
      BY <2>4 DEF Commit, work
    <3> HIDE DEF tree
    <3>3. Len(commits') = Len(commits) + 1
      BY <3>2 DEF CommitsOK
    <3> QED
      BY <1>1, <3>1, <3>2, <3>3 DEF None
  <2>5. CASE SwitchAway
    <3>1. branch # None /\ onBranch' = FALSE
      BY <2>5 DEF SwitchAway
    <3>2. /\ away' = branch
          /\ branch' = branch \/ branch' = None
          /\ UNCHANGED <<index, files, listable, buildIgnored>>
      BY <2>5 DEF SwitchAway, work
    <3>3. RepoOK'
      BY <1>1, <3>1, <3>2 DEF None
    <3>4. FlagsOK'
      BY <3>1, <3>2
    <3> QED
      BY <3>3, <3>4
  <2>6. CASE PlantLink
    BY <1>1, <2>6 DEF PlantLink, repo, work
  <2> QED
    BY <1>4, <2>2, <2>3, <2>4, <2>5, <2>6 DEF Rival
<1>5. CASE UNCHANGED vars
  BY <1>1, <1>5 DEF vars, repo, work
<1> QED
  BY <1>2, <1>3, <1>4, <1>5 DEF Next, Terminated

\* A snapshot goes to a label of its own, or leaves to the new run.
LEMMA LabelsOfSnapshot ==
  ASSUME TypeInv, NEW c \in Callers, Snapshot(c)
  PROVE  /\ \E l \in {"idle"} \cup InSnapshot \cup {"exclude", "refused"} :
              pc' = [pc EXCEPT ![c] = l]
         /\ \E h \in {"none", "error", "nothing", "committed"} : result' = [result EXCEPT ![c] = h]
         /\ c = "snapshot" => pc'[c] \in {"idle"} \cup InSnapshot
         /\ pc[c] \in {"idle"} \cup InSnapshot
         /\ pc'[c] # "idle" \/ c # R
<1> USE DEF TypeInv, LabelsOK, Ends, Raises, Goto, local, InSnapshot, R, Hash
<1>1. CASE Start(c)
  BY <1>1 DEF Start
<1>2. CASE GitFails(c)
  BY <1>2 DEF GitFails
<1>3. CASE CheckBranch(c)
  BY <1>3 DEF CheckBranch
<1>4. CASE WalkRoot(c)
  BY <1>4 DEF WalkRoot, Take
<1>5. CASE CheckDirs(c)
  BY <1>5 DEF CheckDirs
<1>6. CASE WalkBuild(c)
  BY <1>6 DEF WalkBuild, Take
<1>7. CASE Filter(c)
  BY <1>7 DEF Filter
<1>8. CASE ReadHead(c)
  BY <1>8 DEF ReadHead
<1>9. CASE Probe(c)
  BY <1>9 DEF Probe
<1>10. CASE Write(c)
  BY <1>10 DEF Write
<1>11. CASE WriteTree(c)
  BY <1>11 DEF WriteTree
<1>12. CASE UpdateRef(c)
  BY <1>12 DEF UpdateRef
<1>13. CASE Refresh(c)
  BY <1>13 DEF Refresh
<1> QED
  BY <1>1, <1>2, <1>3, <1>4, <1>5, <1>6, <1>7, <1>8, <1>9, <1>10, <1>11, <1>12, <1>13 DEF Snapshot

\* Each caller stays at its labels.
LEMMA LabelsStep ==
  ASSUME TypeInv, [Next]_vars
  PROVE  LabelsOK'
<1> USE DEF TypeInv, LabelsOK
<1>1. ASSUME NEW c \in Callers, Snapshot(c)
      PROVE  LabelsOK'
  <2>1. /\ pc' \in [Callers -> {"idle"} \cup InSnapshot \cup InNewRun]
        /\ result' \in [Callers -> {"none", "error", "nothing", "committed"}]
    BY <1>1, LabelsOfSnapshot DEF InNewRun
  <2>2. CASE c = "snapshot"
    BY <1>1, <2>1, <2>2, LabelsOfSnapshot, SnapshotFrame, CallersAre DEF Same
  <2>3. CASE c = R
    BY <1>1, <2>1, <2>3, LabelsOfSnapshot, SnapshotFrame, CallersAre DEF Same
  <2> QED
    BY <2>2, <2>3, CallersAre
<1>2. CASE NewRun
  BY <1>2, NewRunFrame, CallersAre DEF InNewRun, Same
<1>3. CASE Rival
  BY <1>3, RivalFrame
<1> QED
  BY <1>1, <1>2, <1>3 DEF Next, Terminated, vars

\* A file that was hashed is there.
LEMMA HashIsOf ==
  ASSUME TypeInv, NEW c \in Callers, Rest(c) # {}, Hash(c)
  PROVE  \/ Raises(c)
         \/ /\ Turn(c) \in Rest(c) /\ files[Turn(c)] \in {1, 2}
            /\ entries' = [entries EXCEPT ![c] =
                 [p \in DOMAIN @ \cup {Turn(c)} |-> IF p = Turn(c) THEN files[p] ELSE @[p]]]
            /\ UNCHANGED <<pc, result, saved, walked, shut, skipped, base, made>>
<1>1. Turn(c) \in Rest(c)
  BY TurnIsLeft DEF TypeInv, LocalOK
<1>2. Turn(c) \in Paths
  BY <1>1 DEF Rest, TypeInv, LocalOK
<1>3. files[Turn(c)] \in 0 .. 2
  BY <1>2 DEF TypeInv, RepoOK, Trees, Contents
<1> QED
  BY <1>1, <1>3 DEF Hash, Absent

\* A function whose values are bounded, and one of them raised to a higher bound.
LEMMA Bounded ==
  ASSUME NEW S, NEW f \in [S -> Nat], NEW c \in S, NEW n \in Nat, NEW m \in Nat, n <= m,
         \A d \in S : f[d] <= n
  PROVE  /\ [f EXCEPT ![c] = m] \in [S -> Nat]
         /\ \A d \in S : [f EXCEPT ![c] = m][d] <= m
  OBVIOUS

\* What is walked and what is skipped are paths.
LEMMA TakeKeepsType ==
  ASSUME TypeInv, NEW c \in Callers, NEW there \in SUBSET Paths, NEW lost \in SUBSET Paths,
         Take(c, there, lost)
  PROVE  walked' \in [Callers -> SUBSET Paths] /\ skipped' \in [Callers -> SUBSET Paths]
  BY DEF TypeInv, LocalOK, Take

\* What a caller remembers of the repository is there.
LEMMA LocalOfSnapshot ==
  ASSUME TypeInv, NEW c \in Callers, Snapshot(c), CommitsOK', Grown
  PROVE  LocalOK'
<1>1. Len(commits) \in Nat /\ Len(commits') \in Nat /\ Len(commits') >= Len(commits)
  BY DEF TypeInv, CommitsOK, Grown
<1> USE <1>1 DEF TypeInv, LocalOK, RepoOK, Ends, Raises, Goto, local, repo, None, Hash
<1>2. CASE Start(c)
  BY <1>2 DEF Start
<1>3. CASE GitFails(c)
  BY <1>3 DEF GitFails
<1>4. CASE CheckBranch(c)
  BY <1>4 DEF CheckBranch
<1>5. CASE WalkRoot(c)
  <2>1. walked' \in [Callers -> SUBSET Paths] /\ skipped' \in [Callers -> SUBSET Paths]
    <3>1. PICK lost \in Unreadable(Present) : Take(c, Present \ InBuild, lost)
      BY <1>5 DEF WalkRoot
    <3>2. lost \subseteq Paths /\ Present \ InBuild \subseteq Paths
      BY DEF Unreadable, Present
    <3> QED
      BY <3>1, <3>2, TakeKeepsType
  <2> QED
    BY <1>5, <2>1 DEF WalkRoot
<1>6. CASE CheckDirs(c)
  BY <1>6 DEF CheckDirs
<1>7. CASE WalkBuild(c)
  <2>1. CASE listable
    <3>1. walked' \in [Callers -> SUBSET Paths] /\ skipped' \in [Callers -> SUBSET Paths]
      BY <1>7, <2>1, TakeKeepsType DEF WalkBuild, Present, Unreadable
    <3> QED
      BY <1>7, <2>1, <3>1 DEF WalkBuild
  <2>2. CASE ~listable
    BY <1>7, <2>2 DEF WalkBuild
  <2> QED
    BY <2>1, <2>2
<1>8. CASE Filter(c)
  BY <1>8 DEF Filter
<1>9. CASE ReadHead(c)
  BY <1>9 DEF ReadHead
<1>10. CASE Probe(c)
  BY <1>10 DEF Probe
<1>11. CASE Write(c)
  BY <1>11 DEF Write
<1>12. CASE WriteTree(c)
  <2>1. CASE TreeOf(c) = BaseTree(c)
    BY <1>12, <2>1 DEF WriteTree
  <2>2. CASE TreeOf(c) # BaseTree(c)
    <3>1. Len(commits') = Len(commits) + 1
      BY <1>12, <2>2 DEF WriteTree, CommitsOK
    <3>2. /\ made' = [made EXCEPT ![c] = Len(commits')]
          /\ UNCHANGED <<walked, shut, skipped, base, saved>>
      BY <1>12, <2>2, <3>1 DEF WriteTree
    <3> DEFINE n == Len(commits)
               m == Len(commits')
    <3>3. n \in Nat /\ m \in Nat /\ n <= m /\ made' = [made EXCEPT ![c] = m]
      BY <3>2
    <3>4. \A d \in Callers : base[d] <= n /\ made[d] <= n /\ saved[d] <= n
      OBVIOUS
    <3> HIDE DEF n, m
    <3>5. made' \in [Callers -> Nat] /\ \A d \in Callers : made'[d] <= m
      <4>1. made \in [Callers -> Nat] /\ \A d \in Callers : made[d] <= n
        BY <3>4
      <4> QED
        BY <3>3, <4>1, Bounded, Zenon
    <3>6. \A d \in Callers : base'[d] <= m /\ saved'[d] <= m
      BY <3>2, <3>3, <3>4
    <3> QED
      BY <3>2, <3>5, <3>6 DEF m
  <2> QED
    BY <2>1, <2>2
<1>13. CASE UpdateRef(c)
  BY <1>13 DEF UpdateRef
<1>14. CASE Refresh(c)
  BY <1>14 DEF Refresh
<1> QED
  BY <1>2, <1>3, <1>4, <1>5, <1>6, <1>7, <1>8, <1>9, <1>10, <1>11, <1>12, <1>13, <1>14 DEF Snapshot

\* The callers' own variables keep their types.
LEMMA LocalStep ==
  ASSUME TypeInv, [Next]_vars
  PROVE  LocalOK'
<1>1. Len(commits) \in Nat /\ Len(commits') \in Nat /\ Len(commits') >= Len(commits)
  BY CommitsStep DEF TypeInv, CommitsOK, Grown
<1>2. ASSUME NEW c \in Callers, Snapshot(c)
      PROVE  LocalOK'
  BY <1>2, LocalOfSnapshot, CommitsStep
<1>3. CASE UNCHANGED <<local, saved>>
  BY <1>1, <1>3 DEF TypeInv, LocalOK, local
<1> QED
  BY <1>2, <1>3, NewRunFrame, RivalFrame DEF Next, Terminated, vars

\* An entry is the content of a file that was there.
LEMMA EntriesOfSnapshot ==
  ASSUME TypeInv, NEW c \in Callers, Snapshot(c)
  PROVE  EntriesOK'
<1> USE DEF Ends, Raises, Goto, local
<1>1. walked[c] \subseteq Paths
  BY DEF TypeInv, LocalOK
<1>2. CASE UNCHANGED entries \/ entries' = [entries EXCEPT ![c] = <<>>]
  <2>1. DOMAIN <<>> = {}
    OBVIOUS
  <2> QED
    BY <1>2, <2>1 DEF TypeInv, EntriesOK
<1>3. CASE Rest(c) # {} /\ Hash(c) /\ ~UNCHANGED entries
  <2> DEFINE E == [p \in DOMAIN entries[c] \cup {Turn(c)} |->
                     IF p = Turn(c) THEN files[p] ELSE entries[c][p]]
  <2>1. /\ Turn(c) \in Paths
        /\ files[Turn(c)] \in {1, 2}
        /\ entries' = [entries EXCEPT ![c] = E]
    BY <1>1, <1>3, HashIsOf DEF Rest
  <2>2. \A p \in DOMAIN E : p \in Paths /\ E[p] \in {1, 2}
    BY <2>1 DEF TypeInv, EntriesOK
  <2> HIDE DEF E
  <2>3. /\ DOMAIN entries' = Callers
        /\ entries'[c] = E
        /\ \A d \in Callers \ {c} : entries'[d] = entries[d]
    BY <2>1 DEF TypeInv, EntriesOK
  <2> QED
    BY <2>2, <2>3 DEF TypeInv, EntriesOK
<1>4. CASE Start(c)
  BY <1>4, <1>2 DEF Start
<1>5. CASE GitFails(c)
  BY <1>5, <1>2 DEF GitFails
<1>6. CASE CheckBranch(c)
  BY <1>6, <1>2 DEF CheckBranch
<1>7. CASE WalkRoot(c)
  BY <1>7, <1>2 DEF WalkRoot
<1>8. CASE CheckDirs(c)
  BY <1>8, <1>2 DEF CheckDirs
<1>9. CASE WalkBuild(c)
  BY <1>9, <1>2 DEF WalkBuild
<1>10. CASE Filter(c)
  BY <1>10, <1>2 DEF Filter
<1>11. CASE ReadHead(c)
  BY <1>11, <1>2 DEF ReadHead
<1>12. CASE Probe(c)
  BY <1>12, <1>2, <1>3 DEF Probe
<1>13. CASE Write(c)
  BY <1>13, <1>2, <1>3 DEF Write
<1>14. CASE WriteTree(c)
  BY <1>14, <1>2 DEF WriteTree
<1>15. CASE UpdateRef(c)
  BY <1>15, <1>2 DEF UpdateRef
<1>16. CASE Refresh(c)
  BY <1>16, <1>2 DEF Refresh
<1> QED
  BY <1>4, <1>5, <1>6, <1>7, <1>8, <1>9, <1>10, <1>11, <1>12, <1>13, <1>14, <1>15, <1>16
     DEF Snapshot

\* No other step touches the entries.
LEMMA EntriesStep ==
  ASSUME TypeInv, [Next]_vars
  PROVE  EntriesOK'
<1>1. ASSUME NEW c \in Callers, Snapshot(c)
      PROVE  EntriesOK'
  BY <1>1, EntriesOfSnapshot
<1>2. CASE UNCHANGED entries
  BY <1>2 DEF TypeInv, EntriesOK
<1> QED
  BY <1>1, <1>2, NewRunFrame, RivalFrame DEF Next, Terminated, vars, local

\* Every variable keeps its type.
LEMMA TypeStep ==
  ASSUME TypeInv, \A c \in Callers : CarriedInv(c), [Next]_vars
  PROVE  TypeInv'
  BY CommitsStep, RepoStep, LabelsStep, LocalStep, EntriesStep DEF TypeInv

-----------------------------------------------------------------------------
(* What a caller sees                                                      *)

Starting(c) == pc[c] = "idle" /\ pc'[c] = "check"

\* What a step adds to what a caller has seen, and when the caller stops being alone.
LEMMA Watched ==
  ASSUME NEW actor, Observe(actor), NEW c \in Callers
  PROVE  /\ Starting(c) => \A p \in Paths : files[p] \in seen'[c][p]
                                            /\ (Ignored(p) => TRUE \in ignored'[c][p])
         /\ ~Starting(c) => \A p \in Paths : /\ seen[c][p] \subseteq seen'[c][p]
                                             /\ ignored[c][p] \subseteq ignored'[c][p]
         /\ ~Starting(c) /\ pc'[c] \notin Outside =>
              \A p \in Paths : files'[p] \in seen'[c][p]
                               /\ (Ignored(p)' => TRUE \in ignored'[c][p])
         /\ quiet'[c] => Starting(c) \/ (quiet[c] /\ (actor = c \/ UNCHANGED <<repo, work>>))
<1> DEFINE in == pc'[c] \notin Outside \/ pc[c] \notin Outside
<1>1. seen'[c] = IF Starting(c) THEN [p \in Paths |-> {files[p]}]
                 ELSE IF in THEN [p \in Paths |-> seen[c][p] \cup {files'[p]}]
                 ELSE seen[c]
  BY DEF Observe, Starting
<1>2. ignored'[c] = IF Starting(c) THEN [p \in Paths |-> {Ignored(p)}]
                    ELSE IF in THEN [p \in Paths |-> ignored[c][p] \cup {Ignored(p)'}]
                    ELSE ignored[c]
  BY Zenon DEF Observe, Starting
<1>3. quiet'[c] = (Starting(c) \/ (quiet[c] /\ (actor = c \/ UNCHANGED <<repo, work>>)))
  BY Zenon DEF Observe, Starting
<1>4. CASE Starting(c)
  <2>1. \A p \in Paths : seen'[c][p] = {files[p]}
    BY <1>1, <1>4
  <2>2. \A p \in Paths : ignored'[c][p] = {Ignored(p)}
    BY <1>2, <1>4, Zenon
  <2>3. \A p \in Paths : Ignored(p) => TRUE \in ignored'[c][p]
    <3> SUFFICES ASSUME NEW p \in Paths, Ignored(p)
                 PROVE  TRUE \in ignored'[c][p]
      OBVIOUS
    <3>1. Ignored(p) = TRUE
      BY Zenon DEF Ignored
    <3> QED
      BY <2>2, <3>1, Zenon
  <2> QED
    BY <1>3, <1>4, <2>1, <2>3
<1>5. CASE ~Starting(c) /\ in
  <2>1. \A p \in Paths : seen'[c][p] = seen[c][p] \cup {files'[p]}
    BY <1>1, <1>5
  <2>2. \A p \in Paths : ignored'[c][p] = ignored[c][p] \cup {Ignored(p)'}
    BY <1>2, <1>5, Zenon
  <2>3. \A p \in Paths : Ignored(p)' => TRUE \in ignored'[c][p]
    <3> SUFFICES ASSUME NEW p \in Paths, Ignored(p)'
                 PROVE  TRUE \in ignored'[c][p]
      OBVIOUS
    <3>1. Ignored(p)' = TRUE
      BY Zenon DEF Ignored
    <3> QED
      BY <2>2, <3>1, Zenon
  <2>4. \A p \in Paths : ignored[c][p] \subseteq ignored'[c][p]
    BY <2>2, Zenon
  <2> QED
    BY <1>3, <1>5, <2>1, <2>3, <2>4
<1>6. CASE ~Starting(c) /\ ~in
  BY <1>1, <1>2, <1>3, <1>6
<1> QED
  BY <1>4, <1>5, <1>6

\* A call begins with a look at the worktree as it is.
LEMMA StartingIs ==
  ASSUME TypeInv, NEW c \in Callers, Starting(c), Next
  PROVE  Start(c) /\ UNCHANGED <<repo, work>>
<1>1. ASSUME NEW d \in Callers, Snapshot(d)
      PROVE  Start(c) /\ UNCHANGED <<repo, work>>
  <2>1. c = d
    BY <1>1, SnapshotFrame DEF Starting, Same
  <2> QED
    BY <1>1, <2>1 DEF Starting, Snapshot, Start, GitFails, CheckBranch, WalkRoot, CheckDirs,
                      WalkBuild, Filter, ReadHead, Probe, Write, WriteTree, UpdateRef, Refresh
<1>2. CASE NewRun
  BY <1>2, NewRunFrame, CallersAre DEF Starting, Same, InNewRun
<1>3. CASE Rival
  BY <1>3, RivalFrame DEF Starting
<1> QED
  BY <1>1, <1>2, <1>3 DEF Next, Terminated, vars, Starting

\* During a call the caller has seen each path as it is now.
LEMMA NowStep ==
  ASSUME TypeInv, NEW c \in Callers, NowInv(c), [Next]_vars
  PROVE  NowInv(c)'
<1>1. CASE UNCHANGED vars
  BY <1>1 DEF vars, repo, work, observed, NowInv, Ignored
<1>2. CASE Next /\ ~Terminated
  <2>1. PICK actor : Observe(actor)
    BY <1>2 DEF Next
  <2>2. CASE Starting(c)
    BY <1>2, <2>1, <2>2, StartingIs, Watched DEF NowInv, repo, work, Ignored
  <2>3. CASE ~Starting(c)
    BY <2>1, <2>3, Watched DEF NowInv
  <2> QED
    BY <2>2, <2>3
<1> QED
  BY <1>1, <1>2 DEF Terminated

-----------------------------------------------------------------------------
(* What a caller is about to write over the branch                         *)

\* What a caller holds of the repository stays as it is while others append to it.
LEMMA CommitsStand ==
  ASSUME TypeInv, Grown, NEW i \in Nat, i # None, i <= Len(commits)
  PROVE  i \in 1 .. Len(commits) /\ commits'[i] = commits[i]
  BY DEF TypeInv, CommitsOK, Grown, None

\* A step of somebody else leaves what the caller carries.
LEMMA CarriedOfOthers ==
  ASSUME TypeInv, Grown, NEW c \in Callers, Same(c), CarriedInv(c)
  PROVE  CarriedInv(c)'
<1>1. base[c] # None => BaseTree(c)' = BaseTree(c)
  BY CommitsStand DEF TypeInv, LocalOK, Same, BaseTree
<1>2. made[c] # None => commits'[made'[c]] = commits[made[c]]
  BY CommitsStand DEF TypeInv, LocalOK, Same
<1> QED
  BY <1>1, <1>2 DEF Same, CarriedInv

\* The caller's commit holds something when it stands on something: a snapshot of nothing
\* was refused, and each entry is a file that was there.
LEMMA TreeHolds ==
  ASSUME TypeInv, NEW c \in Callers, CarriedInv(c), pc[c] = "tree", BaseTree(c) # EmptyTree
  PROVE  TreeOf(c) # EmptyTree
<1>1. PICK p \in DOMAIN entries[c] : TRUE
  BY DEF CarriedInv
<1>2. p \in Paths /\ entries[c][p] \in {1, 2}
  BY <1>1 DEF TypeInv, EntriesOK
<1>3. TreeOf(c)[p] # Absent
  BY <1>1, <1>2 DEF TreeOf, Absent
<1> QED
  BY <1>2, <1>3 DEF EmptyTree

\* A call that ends carries nothing further.
LEMMA EndsOutside ==
  ASSUME TypeInv, NEW c \in Callers, NEW how, Ends(c, how)
  PROVE  pc'[c] \in {"idle", "refused", "exclude"} /\ result'[c] = how
  BY DEF Ends, Goto, TypeInv, LabelsOK

\* A call that succeeds names the commit it made or found.
LEMMA CarriedWhenOver ==
  ASSUME TypeInv, NEW c \in Callers, NEW how, Ends(c, how),
         how = "error" \/ saved'[c] # None
  PROVE  CarriedInv(c)'
  BY EndsOutside DEF CarriedInv

\* A call that fails carries nothing.
LEMMA CarriedWhenRaised ==
  ASSUME TypeInv, NEW c \in Callers, Raises(c)
  PROVE  CarriedInv(c)'
  BY CarriedWhenOver DEF Raises

\* Looking at the worktree writes nothing down yet.
LEMMA CarriedWhenLooking ==
  ASSUME TypeInv, NEW c \in Callers, CarriedInv(c),
         pc[c] \in {"check", "walk", "dirs", "walkdir", "filter", "head"},
         pc'[c] \in {"check", "walk", "dirs", "walkdir", "filter", "head"},
         pc'[c] \in {"check", "walk"} => pc[c] = "check" /\ UNCHANGED walked,
         UNCHANGED <<entries, result, saved>>
  PROVE  CarriedInv(c)'
  BY DEF CarriedInv

\* A file is hashed: one more entry, of what was walked.
LEMMA HashedCarried ==
  ASSUME TypeInv, NEW c \in Callers, CarriedInv(c), pc[c] \in {"probe", "write"}, Rest(c) # {},
         Hash(c), UNCHANGED commits
  PROVE  CarriedInv(c)'
<1>1. CASE Raises(c)
  BY <1>1, CarriedWhenRaised
<1>2. CASE ~Raises(c)
  <2> DEFINE E == [p \in DOMAIN entries[c] \cup {Turn(c)} |->
                     IF p = Turn(c) THEN files[p] ELSE entries[c][p]]
  <2>1. entries' = [entries EXCEPT ![c] = E] /\ Turn(c) \in walked[c]
    BY <1>2, HashIsOf DEF Rest
  <2>2. DOMAIN E = DOMAIN entries[c] \cup {Turn(c)}
    OBVIOUS
  <2> HIDE DEF E
  <2>3. entries'[c] = E
    BY <2>1 DEF TypeInv, EntriesOK
  <2>4. UNCHANGED <<pc, result, saved, walked, base, made>>
    BY <1>2, HashIsOf
  <2> QED
    BY <2>1, <2>2, <2>3, <2>4 DEF CarriedInv, BaseTree
<1> QED
  BY <1>1, <1>2

\* The caller's own steps, from the walk to update-ref.
LEMMA CarriedOfOwn ==
  ASSUME TypeInv, Grown, NEW c \in Callers, Snapshot(c), CarriedInv(c)
  PROVE  CarriedInv(c)'
<1>1. pc \in [Callers -> {"idle"} \cup InSnapshot \cup InNewRun]
  BY DEF TypeInv, LabelsOK
<1>2. CASE Start(c)
  <2>1. DOMAIN entries'[c] = {}
    <3>1. DOMAIN <<>> = {}
      OBVIOUS
    <3>2. entries'[c] = <<>>
      BY <1>2 DEF Start, TypeInv, EntriesOK
    <3> QED
      BY <3>1, <3>2
  <2>2. result'[c] = "none"
    BY <1>2 DEF Start, TypeInv, LabelsOK, R
  <2>3. pc'[c] \in {"check", "exclude"}
    BY <1>1, <1>2 DEF Start, Goto
  <2> QED
    BY <1>2, <2>1, <2>3, <2>2 DEF CarriedInv, Start, TypeInv, LocalOK
<1>3. CASE GitFails(c)
  BY <1>3, CarriedWhenRaised DEF GitFails
<1>4. CASE CheckBranch(c)
  <2>1. CASE onBranch
    BY <1>1, <1>4, <2>1, CarriedWhenLooking DEF CheckBranch, Goto, local
  <2> QED
    BY <1>4, <2>1, CarriedWhenRaised DEF CheckBranch
<1>5. CASE WalkRoot(c)
  BY <1>1, <1>5, CarriedWhenLooking DEF WalkRoot, Goto
<1>6. CASE CheckDirs(c)
  BY <1>1, <1>6, CarriedWhenLooking DEF CheckDirs, Goto, local
<1>7. CASE WalkBuild(c)
  BY <1>1, <1>7, CarriedWhenLooking DEF WalkBuild, Goto
<1>8. CASE Filter(c)
  <2>1. CASE shut[c] /\ ~CheckIgnoreBuild
    BY <1>8, <2>1, CarriedWhenRaised DEF Filter
  <2> QED
    BY <1>1, <1>8, <2>1, CarriedWhenLooking DEF Filter, Goto
<1>9. CASE ReadHead(c)
  <2>1. CASE branch = None \/ (walked[c] = {} /\ commits[branch].tree # EmptyTree)
    BY <1>9, <2>1, CarriedWhenRaised DEF ReadHead
  <2>2. CASE ~(branch = None \/ (walked[c] = {} /\ commits[branch].tree # EmptyTree))
    <3>1. /\ pc'[c] = "probe" /\ base'[c] = branch /\ branch # None
          /\ walked[c] = {} => commits[branch].tree = EmptyTree
          /\ UNCHANGED <<commits, walked, entries, result, saved>>
      BY <1>9, <2>2 DEF ReadHead, repo, Goto, TypeInv, LabelsOK, LocalOK
    <3>2. pc[c] = "head" /\ DOMAIN entries[c] = {}
      BY <1>9 DEF ReadHead, CarriedInv
    <3> QED
      BY <3>1, <3>2 DEF CarriedInv, BaseTree
  <2> QED
    BY <2>1, <2>2
<1>10. CASE Probe(c)
  <2>1. pc[c] = "probe" /\ UNCHANGED commits
    BY <1>10 DEF Probe, repo
  <2>2. CASE Rest(c) # {} /\ Hash(c)
    BY <2>1, <2>2, HashedCarried
  <2>3. CASE Rest(c) = {} /\ TreeOf(c) = BaseTree(c)
    <3>1. Ends(c, "nothing") /\ saved'[c] = base[c] /\ base[c] # None
      BY <1>10, <2>1, <2>3 DEF Probe, TypeInv, LocalOK, CarriedInv
    <3> QED
      BY <3>1, CarriedWhenOver
  <2>4. CASE Rest(c) = {} /\ TreeOf(c) # BaseTree(c)
    <3>1. /\ pc'[c] = "write" /\ entries'[c] = <<>>
          /\ UNCHANGED <<walked, base, result, saved>>
      BY <1>1, <1>10, <2>4 DEF Probe, Goto, TypeInv, EntriesOK
    <3>2. DOMAIN entries'[c] = {}
      BY <3>1
    <3> QED
      BY <2>1, <3>1, <3>2 DEF CarriedInv, BaseTree
  <2> QED
    BY <1>10, <2>2, <2>3, <2>4 DEF Probe
<1>11. CASE Write(c)
  <2>1. pc[c] = "write" /\ UNCHANGED commits
    BY <1>11 DEF Write
  <2>2. CASE Rest(c) # {} /\ Hash(c)
    BY <2>1, <2>2, HashedCarried
  <2>3. CASE Rest(c) = {}
    <3>1. pc'[c] = "tree" /\ UNCHANGED <<local, result, saved>>
      BY <1>1, <1>11, <2>3 DEF Write, Goto
    <3> QED
      BY <2>1, <2>3, <3>1 DEF CarriedInv, BaseTree, Rest, local
  <2> QED
    BY <1>11, <2>2, <2>3 DEF Write
<1>12. CASE WriteTree(c)
  <2>1. pc[c] = "tree"
    BY <1>12 DEF WriteTree
  <2>2. CASE TreeOf(c) = BaseTree(c)
    <3>1. Ends(c, "nothing") /\ saved'[c] = base[c] /\ base[c] # None
      BY <1>12, <2>2 DEF WriteTree, TypeInv, LocalOK, CarriedInv
    <3> QED
      BY <3>1, CarriedWhenOver
  <2>3. CASE TreeOf(c) # BaseTree(c)
    <3>1. /\ made'[c] = Len(commits) + 1 /\ pc'[c] = "update"
          /\ commits' = Append(commits, [tree |-> TreeOf(c), parent |-> base[c]])
          /\ UNCHANGED <<base, entries, walked, result, saved>>
      BY <1>12, <2>3 DEF WriteTree, TypeInv, LabelsOK, LocalOK, Goto
    <3>2. Len(commits) \in Nat /\ commits'[made'[c]] = [tree |-> TreeOf(c), parent |-> base[c]]
      BY <3>1 DEF TypeInv, CommitsOK
    <3>3. base[c] # None /\ BaseTree(c)' = BaseTree(c)
      BY <2>1, <3>1, CommitsStand DEF TypeInv, LocalOK, CarriedInv, BaseTree
    <3> QED
      BY <2>1, <3>1, <3>2, <3>3, TreeHolds DEF CarriedInv, None
  <2> QED
    BY <2>2, <2>3
<1>13. CASE UpdateRef(c)
  <2>1. CASE branch = base[c]
    <3>1. pc[c] = "update" /\ pc'[c] = "refresh" /\ UNCHANGED <<commits, local, result, saved>>
      BY <1>1, <1>13, <2>1 DEF UpdateRef, Goto
    <3> QED
      BY <3>1 DEF CarriedInv, BaseTree, local
  <2> QED
    BY <1>13, <2>1, CarriedWhenRaised DEF UpdateRef
<1>14. CASE Refresh(c)
  <2>1. CASE Ends(c, "committed") /\ saved' = [saved EXCEPT ![c] = made[c]]
    <3>1. made[c] # None /\ saved'[c] = made[c]
      BY <1>14, <2>1 DEF Refresh, CarriedInv, TypeInv, LocalOK
    <3> QED
      BY <2>1, <3>1, CarriedWhenOver
  <2> QED
    BY <1>14, <2>1, CarriedWhenRaised DEF Refresh
<1> QED
  BY <1>2, <1>3, <1>4, <1>5, <1>6, <1>7, <1>8, <1>9, <1>10, <1>11, <1>12, <1>13, <1>14
     DEF Snapshot

\* Every step keeps what a caller is about to write in order.
LEMMA CarriedStep ==
  ASSUME TypeInv, NEW c \in Callers, CarriedInv(c), [Next]_vars
  PROVE  CarriedInv(c)'
<1>1. ASSUME NEW d \in Callers, Snapshot(d)
      PROVE  CarriedInv(c)'
  BY <1>1, SnapshotFrame, CarriedOfOthers, CarriedOfOwn, CommitsStep
<1>2. CASE NewRun
  <2>1. CASE c = R
    <3>1. pc'[R] \in InNewRun /\ UNCHANGED <<result, saved>>
      BY <1>2, NewRunFrame
    <3> QED
      BY <2>1, <3>1 DEF CarriedInv, InNewRun
  <2> QED
    BY <1>2, <2>1, NewRunFrame, CarriedOfOthers, CommitsStep, CallersAre
<1>3. CASE Rival
  BY <1>3, RivalFrame, CarriedOfOthers, CommitsStep
<1>4. CASE UNCHANGED vars
  BY <1>4, CarriedOfOthers, CommitsStep DEF vars, local, Same
<1> QED
  BY <1>1, <1>2, <1>3, <1>4 DEF Next, Terminated

-----------------------------------------------------------------------------
(* SnapshotIsTrue                                                          *)

\* What was seen in a call stays seen.
LEMMA SeenStands ==
  ASSUME NEW actor, Observe(actor), NEW c \in Callers, ~Starting(c), skipped[c] \subseteq skipped'[c]
  PROVE  /\ \A p \in Paths : MayMiss(c, p) => MayMiss(c, p)'
         /\ \A p \in Paths : \A x : x \in seen[c][p] => x \in seen'[c][p]
         /\ \A t : SaysTrue(c, t) => SaysTrue(c, t)'
<1>1. \A p \in Paths : seen[c][p] \subseteq seen'[c][p] /\ ignored[c][p] \subseteq ignored'[c][p]
  BY Watched
<1>2. ASSUME NEW t, SaysTrue(c, t)
      PROVE  SaysTrue(c, t)'
  BY <1>1, <1>2 DEF SaysTrue
<1> QED
  BY <1>1, <1>2 DEF MayMiss

\* What a call skipped stays skipped, until the caller starts another one.
LEMMA SkippedGrows ==
  ASSUME TypeInv, NEW c \in Callers, Snapshot(c), ~Start(c)
  PROVE  skipped[c] \subseteq skipped'[c]
<1> USE DEF Raises, Hash, local
<1>1. CASE WalkRoot(c) \/ WalkBuild(c)
  BY <1>1 DEF WalkRoot, WalkBuild, Take, TypeInv, LocalOK
<1>2. CASE GitFails(c) \/ CheckBranch(c) \/ CheckDirs(c) \/ Filter(c) \/ ReadHead(c)
  BY <1>2 DEF GitFails, CheckBranch, CheckDirs, Filter, ReadHead
<1>3. CASE Probe(c) \/ Write(c) \/ WriteTree(c) \/ UpdateRef(c) \/ Refresh(c)
  BY <1>3 DEF Probe, Write, WriteTree, UpdateRef, Refresh
<1> QED
  BY <1>1, <1>2, <1>3 DEF Snapshot

\* The commit of a finished call stays true.
LEMMA SavedStands ==
  ASSUME TypeInv, Grown, NEW actor, Observe(actor), NEW c \in Callers, ~Starting(c),
         skipped[c] \subseteq skipped'[c], result'[c] = result[c], saved'[c] = saved[c], CarriedInv(c), LookedInv(c),
         result[c] \in {"committed", "nothing"}
  PROVE  SaysTrue(c, commits[saved[c]].tree)'
<1> DEFINE t == commits[saved[c]].tree
<1>1. commits'[saved'[c]].tree = t
  BY CommitsStand DEF TypeInv, LocalOK, CarriedInv
<1>2. SaysTrue(c, t)
  BY DEF LookedInv
<1> QED
  BY <1>1, <1>2, SeenStands DEF SaysTrue

\* A step of somebody else takes nothing from what the caller saw.
LEMMA LookedOfOthers ==
  ASSUME TypeInv, Grown, NEW actor, Observe(actor), NEW c \in Callers, Same(c),
         CarriedInv(c), LookedInv(c)
  PROVE  LookedInv(c)'
<1>1. ~Starting(c) /\ skipped[c] \subseteq skipped'[c]
  BY DEF Starting, Same
<1>2. pc[c] \in {"update", "refresh"} => SaysTrue(c, commits[made[c]].tree)'
  <2> SUFFICES ASSUME pc[c] \in {"update", "refresh"}
               PROVE  SaysTrue(c, commits[made[c]].tree)'
    OBVIOUS
  <2> DEFINE t == commits[made[c]].tree
  <2>1. commits'[made'[c]].tree = t
    BY CommitsStand DEF TypeInv, LocalOK, CarriedInv, Same
  <2>2. SaysTrue(c, t)
    BY DEF LookedInv
  <2> QED
    BY <1>1, <2>1, <2>2, SeenStands DEF SaysTrue
<1>3. result[c] \in {"committed", "nothing"} => SaysTrue(c, commits[saved[c]].tree)'
  BY <1>1, SavedStands DEF Same
<1>4. DOMAIN entries[c] \subseteq Paths
  BY DEF TypeInv, EntriesOK
<1> QED
  BY <1>1, <1>2, <1>3, <1>4, SeenStands, PathsAre DEF LookedInv, Same

\* A call that ends reports only what it saw.
LEMMA LookedWhenOver ==
  ASSUME TypeInv, NEW c \in Callers, NEW how, Ends(c, how),
         how = "error" \/ SaysTrue(c, commits[saved[c]].tree)'
  PROVE  LookedInv(c)'
  BY EndsOutside DEF LookedInv

\* A call that fails reports nothing.
LEMMA LookedWhenRaised ==
  ASSUME TypeInv, NEW c \in Callers, Raises(c)
  PROVE  LookedInv(c)'
  BY LookedWhenOver DEF Raises

\* What the entries say, and leave out, is what was seen.
LEMMA TreeSaysTrue ==
  ASSUME NEW c \in Callers, pc[c] \in {"probe", "write", "tree"},
         Rest(c) = {}, LookedInv(c)
  PROVE  SaysTrue(c, TreeOf(c))
<1> SUFFICES ASSUME NEW p \in Paths
             PROVE  \/ TreeOf(c)[p] \in seen[c][p]
                    \/ /\ TreeOf(c)[p] = Absent
                       /\ TRUE \in ignored[c][p] \/ p \in skipped[c]
  BY DEF SaysTrue
<1>1. CASE p \in DOMAIN entries[c]
  BY <1>1 DEF TreeOf, LookedInv
<1>2. CASE p \notin DOMAIN entries[c]
  <2>1. p \notin walked[c] /\ TreeOf(c)[p] = Absent
    BY <1>2 DEF Rest, TreeOf
  <2>2. MayMiss(c, p)
    BY <2>1 DEF LookedInv
  <2> QED
    BY <2>1, <2>2 DEF MayMiss
<1> QED
  BY <1>1, <1>2

\* The content that hash-object reads is seen at that moment.
LEMMA LookedWhenHashed ==
  ASSUME TypeInv, NEW actor, Observe(actor), Grown, NEW c \in Callers, CarriedInv(c), LookedInv(c),
         NowInv(c)', pc[c] \in {"probe", "write"}, Rest(c) # {}, Hash(c), UNCHANGED files
  PROVE  LookedInv(c)'
<1>1. CASE Raises(c)
  BY <1>1, LookedWhenRaised
<1>2. CASE ~Raises(c)
  <2> DEFINE E == [p \in DOMAIN entries[c] \cup {Turn(c)} |->
                     IF p = Turn(c) THEN files[p] ELSE entries[c][p]]
  <2>1. UNCHANGED <<pc, result, saved, walked, skipped, base, made>>
    BY <1>2, HashIsOf
  <2>2. entries' = [entries EXCEPT ![c] = E] /\ Turn(c) \in Paths
    BY <1>2, HashIsOf DEF Rest, TypeInv, LocalOK
  <2>3. ~Starting(c)
    BY <2>1 DEF Starting
  <2>4. \A p \in Paths : files[p] \in seen'[c][p]
    BY <2>1 DEF NowInv, Outside
  <2>5. \A p \in DOMAIN E : E[p] \in seen'[c][p]
    <3> SUFFICES ASSUME NEW p \in DOMAIN E
                 PROVE  E[p] \in seen'[c][p]
      OBVIOUS
    <3>1. CASE p = Turn(c)
      BY <2>2, <2>4, <3>1
    <3>2. CASE p # Turn(c)
      <4>1. p \in DOMAIN entries[c] /\ E[p] = entries[c][p]
        BY <3>2
      <4>2. p \in Paths
        BY <4>1 DEF TypeInv, EntriesOK
      <4>3. entries[c][p] \in seen[c][p]
        BY <4>1 DEF LookedInv
      <4> HIDE DEF E
      <4> QED
        BY <2>1, <2>3, <4>1, <4>2, <4>3, SeenStands
    <3> QED
      BY <3>1, <3>2
  <2> HIDE DEF E
  <2>6. entries'[c] = E
    BY <2>2 DEF TypeInv, EntriesOK
  <2>7. \A p \in Paths : p \in walked'[c] \/ MayMiss(c, p)'
    BY <2>1, <2>3, SeenStands DEF LookedInv
  <2>8. result'[c] \in {"committed", "nothing"} => SaysTrue(c, commits[saved[c]].tree)'
    BY <2>1, <2>3, SavedStands
  <2>9. pc'[c] \in {"probe", "write"}
    BY <2>1
  <2>10. \A p \in DOMAIN entries'[c] : entries'[c][p] \in seen'[c][p]
    BY <2>5, <2>6
  <2> QED
    BY <2>7, <2>8, <2>9, <2>10 DEF LookedInv
<1> QED
  BY <1>1, <1>2

\* A commit of what was seen is a true one, and stays one.
LEMMA SaysStill ==
  ASSUME NEW actor, Observe(actor), NEW c \in Callers, ~Starting(c),
         skipped[c] \subseteq skipped'[c], NEW t, SaysTrue(c, t)
  PROVE  /\ commits'[saved'[c]].tree = t => SaysTrue(c, commits[saved[c]].tree)'
         /\ commits'[made'[c]].tree = t => SaysTrue(c, commits[made[c]].tree)'
  BY SeenStands DEF SaysTrue

\* The caller's own steps: what the walk and its filters leave out was absent, ignored
\* or skipped.
LEMMA LookedOfOwn ==
  ASSUME TypeInv, NEW c \in Callers, Observe(c), Grown, CarriedInv(c), LookedInv(c), NowInv(c)',
         Snapshot(c)
  PROVE  LookedInv(c)'
<1>1. pc \in [Callers -> {"idle"} \cup InSnapshot \cup InNewRun]
  BY DEF TypeInv, LabelsOK
<1>2. /\ walked \in [Callers -> SUBSET Paths] /\ shut \in [Callers -> BOOLEAN]
      /\ skipped \in [Callers -> SUBSET Paths]
  BY DEF TypeInv, LocalOK
<1>3. UNCHANGED <<files, listable, buildIgnored>>
  BY SnapshotFrame DEF work
<1>4. CASE Start(c)
  <2>1. result'[c] = "none"
    BY <1>4 DEF Start, TypeInv, LabelsOK, R
  <2>2. pc'[c] \in {"check", "exclude"}
    BY <1>1, <1>4 DEF Start, Goto
  <2> QED
    BY <2>1, <2>2 DEF LookedInv
<1>5. CASE GitFails(c)
  BY <1>5, LookedWhenRaised DEF GitFails
<1> SUFFICES ASSUME ~Start(c), ~GitFails(c), ~Raises(c)
             PROVE  LookedInv(c)'
  BY <1>4, <1>5, LookedWhenRaised
<1>0. skipped[c] \subseteq skipped'[c]
  BY SkippedGrows
<1>6. pc[c] \in InSnapshot /\ ~Starting(c)
  BY DEF Snapshot, CheckBranch, WalkRoot, CheckDirs, WalkBuild, Filter, ReadHead, Probe, Write,
         WriteTree, UpdateRef, Refresh, InSnapshot, Starting
<1>7. UNCHANGED <<result, saved>> /\ result'[c] \in {"committed", "nothing"}
        => SaysTrue(c, commits[saved[c]].tree)'
  BY <1>0, <1>6, SavedStands
<1>8. pc'[c] \in InSnapshot => \A p \in Paths : /\ files[p] \in seen'[c][p]
                                                /\ Ignored(p)' => TRUE \in ignored'[c][p]
  BY <1>3 DEF NowInv, InSnapshot, Outside
<1>9. \A p \in Paths : MayMiss(c, p) => MayMiss(c, p)'
  BY <1>0, <1>6, SeenStands
<1>10. UNCHANGED index => \A p \in Paths : CheckIgnore(p) => Ignored(p)'
  BY <1>3 DEF CheckIgnore, Ignored
<1>11. CASE CheckBranch(c)
  <2>1. pc'[c] = "walk" /\ UNCHANGED <<result, saved>>
    BY <1>1, <1>11 DEF CheckBranch, Goto
  <2> QED
    BY <1>7, <2>1 DEF LookedInv
<1>12. CASE WalkRoot(c)
  <2>1. PICK lost \in Unreadable(Present) :
          /\ Take(c, Present \ InBuild, lost)
          /\ Goto(c, IF Present \cap InBuild \subseteq lost THEN "filter" ELSE "dirs")
    BY <1>12 DEF WalkRoot
  <2>2. UNCHANGED <<result, saved>>
    BY <1>12 DEF WalkRoot
  <2>3. /\ Present \ InBuild \subseteq walked'[c] \cup skipped'[c]
        /\ lost \subseteq skipped'[c]
    BY <1>2, <2>1 DEF Take
  <2>4. \/ pc'[c] = "dirs"
        \/ pc'[c] = "filter" /\ Present \cap InBuild \subseteq lost
    BY <1>1, <2>1 DEF Goto
  <2>5. \A p \in Paths : p \in walked'[c] \/ MayMiss(c, p)' \/ (p \in InBuild /\ pc'[c] = "dirs")
    BY <1>8, <2>3, <2>4 DEF MayMiss, InSnapshot, Present
  <2> QED
    BY <1>7, <2>2, <2>4, <2>5, PathsAre DEF LookedInv
<1>13. CASE CheckDirs(c)
  <2>1. pc[c] = "dirs" /\ UNCHANGED <<index, local, result, saved>>
    BY <1>13 DEF CheckDirs, repo
  <2>2. \/ pc'[c] = "filter" /\ \A p \in InBuild : CheckIgnore(p)
        \/ pc'[c] = "walkdir"
    BY <1>1, <1>13 DEF CheckDirs, CheckIgnoreBuild, Goto
  <2>3. "main" \in walked'[c] \/ MayMiss(c, "main")'
    BY <1>9, <2>1, PathsAre DEF LookedInv, local
  <2>4. pc'[c] = "filter" => \A p \in InBuild : MayMiss(c, p)'
    BY <1>8, <1>10, <2>1, <2>2, PathsAre DEF MayMiss, InSnapshot
  <2> QED
    BY <1>7, <2>1, <2>2, <2>3, <2>4, PathsAre DEF LookedInv
<1>14. CASE WalkBuild(c)
  <2>1. pc[c] = "walkdir" /\ pc'[c] = "filter" /\ UNCHANGED <<result, saved>>
    BY <1>1, <1>14 DEF WalkBuild, Goto
  <2>2. "main" \in walked[c] \/ MayMiss(c, "main")'
    BY <1>9, <2>1, PathsAre DEF LookedInv
  <2>3. CASE listable
    <3>1. /\ walked[c] \subseteq walked'[c]
          /\ Present \cap InBuild \subseteq walked'[c] \cup skipped'[c]
      BY <1>14, <1>2, <2>3 DEF WalkBuild, Take
    <3>2. \A p \in InBuild : p \in walked'[c] \/ MayMiss(c, p)'
      BY <1>8, <2>1, <3>1, PathsAre DEF MayMiss, InSnapshot, Present
    <3> QED
      BY <1>7, <2>1, <2>2, <3>1, <3>2, PathsAre DEF LookedInv
  <2>4. CASE ~listable
    <3>1. shut'[c] /\ walked' = walked
      BY <1>14, <1>2, <2>4 DEF WalkBuild
    <3> QED
      BY <1>7, <2>1, <2>2, <3>1, PathsAre DEF LookedInv
  <2> QED
    BY <2>3, <2>4
<1>15. CASE Filter(c)
  <2>1. /\ pc[c] = "filter" /\ pc'[c] = "head" /\ UNCHANGED <<index, result, saved>>
        /\ walked'[c] = {p \in walked[c] : ~CheckIgnore(p)}
        /\ ~(shut[c] /\ ~CheckIgnoreBuild)
    BY <1>1, <1>15, <1>2 DEF Filter, Goto, repo
  <2>2. \A p \in Paths : CheckIgnore(p) => MayMiss(c, p)'
    BY <1>8, <1>10, <2>1 DEF MayMiss, InSnapshot
  <2>3. \A p \in Paths : p \in walked'[c] \/ MayMiss(c, p)'
    BY <1>9, <2>1, <2>2 DEF LookedInv, CheckIgnoreBuild
  <2> QED
    BY <1>7, <2>1, <2>3 DEF LookedInv
<1>16. CASE ReadHead(c)
  <2>1. pc[c] = "head" /\ pc'[c] = "probe" /\ UNCHANGED <<walked, entries, result, saved>>
    BY <1>1, <1>16 DEF ReadHead, Goto
  <2>2. DOMAIN entries[c] = {}
    BY <2>1 DEF CarriedInv
  <2> QED
    BY <1>7, <1>9, <2>1, <2>2 DEF LookedInv
<1>17. CASE Probe(c)
  <2>1. pc[c] = "probe" /\ UNCHANGED commits
    BY <1>17 DEF Probe, repo
  <2>2. CASE Rest(c) # {} /\ Hash(c)
    BY <1>3, <2>1, <2>2, LookedWhenHashed
  <2>3. CASE Rest(c) = {} /\ TreeOf(c) = BaseTree(c)
    <3>1. Ends(c, "nothing") /\ saved'[c] = base[c]
      BY <1>17, <2>1, <2>3 DEF Probe, TypeInv, LocalOK
    <3>2. SaysTrue(c, BaseTree(c))
      BY <2>1, <2>3, TreeSaysTrue
    <3>3. SaysTrue(c, commits[saved[c]].tree)'
      <4>1. commits'[saved'[c]].tree = BaseTree(c)
        BY <2>1, <3>1 DEF BaseTree
      <4> QED
        BY <1>6, <3>2, <4>1, SaysStill, <1>0
    <3> QED
      BY <3>1, <3>3, LookedWhenOver
  <2>4. CASE Rest(c) = {} /\ TreeOf(c) # BaseTree(c)
    <3>1. pc'[c] = "write" /\ entries'[c] = <<>> /\ UNCHANGED <<walked, result, saved>>
      BY <1>1, <1>17, <2>4 DEF Probe, Goto, TypeInv, EntriesOK
    <3>2. DOMAIN entries'[c] = {}
      BY <3>1
    <3> QED
      BY <1>7, <1>9, <2>1, <3>1, <3>2 DEF LookedInv
  <2> QED
    BY <1>17, <2>2, <2>3, <2>4 DEF Probe
<1>18. CASE Write(c)
  <2>1. pc[c] = "write"
    BY <1>18 DEF Write
  <2>2. CASE Rest(c) # {} /\ Hash(c)
    BY <1>3, <1>18, <2>1, <2>2, LookedWhenHashed DEF Write
  <2>3. CASE Rest(c) = {}
    <3>1. pc'[c] = "tree" /\ UNCHANGED <<local, result, saved>>
      BY <1>1, <1>18, <2>3 DEF Write, Goto
    <3>2. \A p \in DOMAIN entries[c] : p \in Paths /\ entries[c][p] \in seen[c][p]
      BY <2>1 DEF LookedInv, TypeInv, EntriesOK
    <3> QED
      BY <1>0, <1>6, <1>7, <1>9, <2>1, <3>1, <3>2, SeenStands DEF LookedInv, local
  <2> QED
    BY <1>18, <2>2, <2>3 DEF Write
<1>19. CASE WriteTree(c)
  <2>1. pc[c] = "tree" /\ Rest(c) = {}
    BY <1>19 DEF WriteTree, CarriedInv, Rest
  <2>2. SaysTrue(c, TreeOf(c))
    BY <2>1, TreeSaysTrue
  <2>3. CASE TreeOf(c) = BaseTree(c)
    <3>1. Ends(c, "nothing") /\ saved'[c] = base[c] /\ UNCHANGED commits
      BY <1>19, <2>3 DEF WriteTree, TypeInv, LocalOK
    <3>2. SaysTrue(c, commits[saved[c]].tree)'
      <4>1. commits'[saved'[c]].tree = TreeOf(c)
        BY <2>3, <3>1 DEF BaseTree
      <4> QED
        BY <1>6, <2>2, <4>1, SaysStill, <1>0
    <3> QED
      BY <3>1, <3>2, LookedWhenOver
  <2>4. CASE TreeOf(c) # BaseTree(c)
    <3>1. /\ made'[c] = Len(commits) + 1 /\ pc'[c] = "update"
          /\ commits' = Append(commits, [tree |-> TreeOf(c), parent |-> base[c]])
          /\ UNCHANGED <<result, saved>>
      BY <1>19, <2>4 DEF WriteTree, TypeInv, LabelsOK, LocalOK, Goto
    <3>2. Len(commits) \in Nat /\ commits'[made'[c]].tree = TreeOf(c)
      BY <3>1 DEF TypeInv, CommitsOK
    <3>3. SaysTrue(c, commits[made[c]].tree)'
      BY <1>6, <2>2, <3>2, SaysStill, <1>0
    <3> QED
      BY <1>7, <3>1, <3>3 DEF LookedInv
  <2> QED
    BY <2>3, <2>4
<1>20. CASE UpdateRef(c)
  <2>1. pc[c] = "update" /\ pc'[c] = "refresh" /\ UNCHANGED <<commits, local, result, saved>>
    BY <1>1, <1>20 DEF UpdateRef, Goto
  <2>2. SaysTrue(c, commits[made[c]].tree)'
    <3>1. SaysTrue(c, commits[made[c]].tree) /\ commits'[made'[c]].tree = commits[made[c]].tree
      BY <2>1 DEF LookedInv, local
    <3> QED
      BY <1>6, <3>1, SaysStill, <1>0
  <2> QED
    BY <1>7, <2>1, <2>2 DEF LookedInv
<1>21. CASE Refresh(c)
  <2>1. /\ Ends(c, "committed") /\ saved'[c] = made[c]
        /\ pc[c] = "refresh" /\ UNCHANGED commits
    BY <1>21 DEF Refresh, TypeInv, LocalOK
  <2>2. SaysTrue(c, commits[saved[c]].tree)'
    <3>1. SaysTrue(c, commits[made[c]].tree) /\ commits'[saved'[c]].tree = commits[made[c]].tree
      BY <2>1 DEF LookedInv
    <3> QED
      BY <1>6, <3>1, SaysStill, <1>0
  <2> QED
    BY <2>1, <2>2, LookedWhenOver
<1> QED
  BY <1>11, <1>12, <1>13, <1>14, <1>15, <1>16, <1>17, <1>18, <1>19, <1>20, <1>21 DEF Snapshot

\* Every step keeps what a caller writes within what it has seen.
LEMMA LookedStep ==
  ASSUME TypeInv, NEW c \in Callers, CarriedInv(c), LookedInv(c), NowInv(c), [Next]_vars
  PROVE  LookedInv(c)'
<1>1. Grown /\ NowInv(c)'
  BY CommitsStep, NowStep
<1>2. ASSUME NEW d \in Callers, Snapshot(d), Observe(d)
      PROVE  LookedInv(c)'
  BY <1>1, <1>2, SnapshotFrame, LookedOfOthers, LookedOfOwn
<1>3. CASE NewRun /\ Observe(R)
  <2>1. CASE c = R
    <3>1. pc[R] \in InNewRun /\ pc'[R] \in InNewRun /\ UNCHANGED <<result, saved, skipped>>
      BY <1>3, NewRunFrame DEF local
    <3>2. ~Starting(c)
      BY <2>1, <3>1 DEF Starting, InNewRun
    <3> QED
      BY <1>1, <1>3, <2>1, <3>1, <3>2, SavedStands DEF LookedInv, InNewRun
  <2> QED
    BY <1>1, <1>3, <2>1, NewRunFrame, LookedOfOthers, CallersAre
<1>4. CASE Rival /\ Observe("rival")
  BY <1>1, <1>4, RivalFrame, LookedOfOthers
<1>5. CASE UNCHANGED vars
  BY <1>5 DEF vars, repo, local, observed, LookedInv, SaysTrue, MayMiss
<1> QED
  BY <1>2, <1>3, <1>4, <1>5 DEF Next, Terminated

-----------------------------------------------------------------------------
(* CleanAfterwards                                                         *)

\* A caller that is still alone saw nobody change anything.
LEMMA QuietOfOthers ==
  ASSUME NEW actor, Observe(actor), NEW c \in Callers, actor # c, Same(c), QuietInv(c)
  PROVE  QuietInv(c)'
<1> SUFFICES ASSUME quiet'[c]
             PROVE  QuietInv(c)'
  BY DEF QuietInv
<1>1. quiet[c] /\ UNCHANGED <<repo, work>>
  BY Watched DEF Starting, Same
<1>2. \A p \in Paths : Ignored(p)' = Ignored(p) /\ (Wanted(p)' <=> Wanted(p))
  BY <1>1, Zenon DEF repo, work, Ignored, Wanted
<1>3. CheckIgnoreBuild' <=> CheckIgnoreBuild
  BY <1>1, Zenon DEF repo, work, CheckIgnoreBuild, CheckIgnore
<1>4. TakesWanted(c)' <=> TakesWanted(c)
  BY <1>2 DEF TakesWanted, Same
<1>5. \A tree, p : p \in Paths => (AsItIs(c, tree, p)' <=> AsItIs(c, tree, p))
  BY <1>1, <1>2 DEF AsItIs, Same, work
<1> QED
  BY <1>1, <1>2, <1>3, <1>4, <1>5, PathsAre DEF QuietInv, Same, repo, work

\* Outside of a call, and at its first label, there is nothing to know.
LEMMA QuietOutside ==
  ASSUME NEW c \in Callers, pc[c] \notin InSnapshot \/ pc[c] = "check"
  PROVE  QuietInv(c)
  BY DEF QuietInv, InSnapshot

\* Nor when it ends.
LEMMA QuietWhenOver ==
  ASSUME TypeInv, NEW c \in Callers, NEW how, Ends(c, how)
  PROVE  QuietInv(c)'
  BY EndsOutside, QuietOutside DEF QuietInv, InSnapshot

\* The entries of a quiet call are the files that are to be taken in.
LEMMA TreeIsWanted ==
  ASSUME NEW c \in Callers, quiet[c], pc[c] \in {"probe", "write", "tree"}, Rest(c) = {},
         DOMAIN entries[c] \subseteq walked[c], QuietInv(c), NEW p \in Paths
  PROVE  AsItIs(c, TreeOf(c), p)
<1> USE DEF AsItIs
<1>1. (p \in walked[c] => Wanted(p)) /\ (Wanted(p) => p \in walked[c] \cup skipped[c])
  BY DEF QuietInv, TakesWanted
<1>2. CASE p \in DOMAIN entries[c]
  BY <1>2 DEF TreeOf, QuietInv
<1>3. CASE p \notin DOMAIN entries[c]
  BY <1>1, <1>3 DEF TreeOf, Rest, Wanted
<1> QED
  BY <1>2, <1>3

\* The caller's own steps: walk, filters, entries and commit follow the worktree exactly.
LEMMA QuietOfOwn ==
  ASSUME TypeInv, NEW c \in Callers, Observe(c), CarriedInv(c), QuietInv(c), Snapshot(c)
  PROVE  QuietInv(c)'
<1>1. pc \in [Callers -> {"idle"} \cup InSnapshot \cup InNewRun]
  BY DEF TypeInv, LabelsOK
<1>2. /\ walked \in [Callers -> SUBSET Paths] /\ shut \in [Callers -> BOOLEAN]
      /\ skipped \in [Callers -> SUBSET Paths]
  BY DEF TypeInv, LocalOK
<1>3. UNCHANGED <<files, listable, buildIgnored, onBranch>>
  BY SnapshotFrame DEF work
<1>4. CASE Start(c)
  <2>1. pc'[c] \in {"check", "exclude"}
    BY <1>1, <1>4 DEF Start, Goto
  <2> QED
    BY <2>1 DEF QuietInv, InSnapshot
<1>5. CASE GitFails(c)
  BY <1>5, QuietWhenOver DEF GitFails, Raises
<1> SUFFICES ASSUME ~Start(c), ~GitFails(c), ~Raises(c), quiet'[c]
             PROVE  QuietInv(c)'
  BY <1>4, <1>5, QuietWhenOver DEF Raises, QuietInv
<1>6. pc[c] \in InSnapshot /\ ~Starting(c)
  BY DEF Snapshot, CheckBranch, WalkRoot, CheckDirs, WalkBuild, Filter, ReadHead, Probe, Write,
         WriteTree, UpdateRef, Refresh, InSnapshot, Starting
<1>7. quiet[c]
  BY <1>6, Watched
<1>8. UNCHANGED index => /\ \A p \in Paths : Ignored(p)' <=> Ignored(p)
                         /\ \A p \in Paths : Wanted(p)' <=> Wanted(p)
                         /\ CheckIgnoreBuild' <=> CheckIgnoreBuild
  BY <1>3 DEF CheckIgnoreBuild, CheckIgnore, Ignored, Wanted
<1>9. pc[c] # "check" => onBranch
  BY <1>6, <1>7 DEF QuietInv
<1>10. CASE CheckBranch(c)
  <2>1. pc'[c] = "walk" /\ onBranch
    BY <1>1, <1>10 DEF CheckBranch, Goto
  <2> QED
    BY <1>3, <2>1 DEF QuietInv
<1>11. CASE WalkRoot(c)
  <2>1. PICK lost \in Unreadable(Present) :
          /\ Take(c, Present \ InBuild, lost)
          /\ Goto(c, IF Present \cap InBuild \subseteq lost THEN "filter" ELSE "dirs")
    BY <1>11 DEF WalkRoot
  <2>2. pc[c] = "walk" /\ walked[c] = {}
    BY <1>11 DEF WalkRoot, CarriedInv
  <2>3. /\ Present \ InBuild \subseteq walked'[c] \cup skipped'[c]
        /\ lost \subseteq skipped'[c]
        /\ walked'[c] \subseteq Present
    BY <1>2, <2>1, <2>2 DEF Take
  <2>4. \/ pc'[c] = "dirs"
        \/ pc'[c] = "filter" /\ Present \cap InBuild \subseteq lost
    BY <1>1, <2>1 DEF Goto
  <2>5. \A p \in Paths : \/ p \in walked'[c] \cup skipped'[c] \/ files[p] = Absent
                         \/ p \in InBuild /\ pc'[c] = "dirs"
    BY <2>3, <2>4 DEF Present
  <2>6. \A p \in walked'[c] : files[p] # Absent
    BY <2>3 DEF Present
  <2> QED
    BY <1>3, <1>9, <2>2, <2>4, <2>5, <2>6, PathsAre DEF QuietInv
<1>12. CASE CheckDirs(c)
  <2>1. pc[c] = "dirs" /\ UNCHANGED <<index, local>>
    BY <1>12 DEF CheckDirs, repo
  <2>2. \/ pc'[c] = "filter" /\ CheckIgnoreBuild
        \/ pc'[c] = "walkdir"
    BY <1>1, <1>12 DEF CheckDirs, Goto
  <2> QED
    BY <1>3, <1>7, <1>8, <1>9, <2>1, <2>2, PathsAre DEF QuietInv, local
<1>13. CASE WalkBuild(c)
  <2>1. pc[c] = "walkdir" /\ pc'[c] = "filter"
    BY <1>1, <1>13 DEF WalkBuild, Goto
  <2>2. /\ "main" \in walked[c] \cup skipped[c] \/ files["main"] = Absent
        /\ \A p \in walked[c] : files[p] # Absent
    BY <1>7, <2>1 DEF QuietInv
  <2>3. CASE listable
    <3>1. /\ walked[c] \subseteq walked'[c] /\ skipped[c] \subseteq skipped'[c]
          /\ walked'[c] \subseteq walked[c] \cup Present
          /\ Present \cap InBuild \subseteq walked'[c] \cup skipped'[c]
      BY <1>13, <1>2, <2>3 DEF WalkBuild, Take
    <3>2. \A p \in Paths : p \in walked'[c] \cup skipped'[c] \/ files[p] = Absent
      BY <2>2, <3>1, PathsAre DEF Present
    <3>3. \A p \in walked'[c] : files[p] # Absent
      BY <2>2, <3>1 DEF Present
    <3> QED
      BY <1>3, <1>9, <2>1, <3>2, <3>3, PathsAre DEF QuietInv
  <2>4. CASE ~listable
    <3>1. shut'[c] /\ walked' = walked /\ skipped' = skipped
      BY <1>13, <1>2, <2>4 DEF WalkBuild
    <3> QED
      BY <1>3, <1>9, <2>1, <2>2, <3>1, PathsAre DEF QuietInv
  <2> QED
    BY <2>3, <2>4
<1>14. CASE Filter(c)
  <2>1. /\ pc[c] = "filter" /\ pc'[c] = "head" /\ UNCHANGED <<index, skipped>>
        /\ walked'[c] = {p \in walked[c] : ~CheckIgnore(p)}
        /\ ~(shut[c] /\ ~CheckIgnoreBuild)
    BY <1>1, <1>14, <1>2 DEF Filter, Goto, repo
  <2>2. \A p \in Paths : CheckIgnore(p) <=> Ignored(p)
    BY DEF CheckIgnore, Ignored
  <2>3. TakesWanted(c)'
    BY <1>7, <1>8, <2>1, <2>2 DEF QuietInv, TakesWanted, Wanted, CheckIgnoreBuild
  <2> QED
    BY <1>3, <1>9, <2>1, <2>3 DEF QuietInv
<1>15. CASE ReadHead(c)
  <2>1. pc[c] = "head" /\ pc'[c] = "probe" /\ UNCHANGED <<index, walked, skipped, entries>>
    BY <1>1, <1>15 DEF ReadHead, Goto, repo
  <2>2. DOMAIN entries[c] = {}
    BY <2>1 DEF CarriedInv
  <2>3. TakesWanted(c)'
    BY <1>7, <1>8, <2>1 DEF QuietInv, TakesWanted
  <2> QED
    BY <1>3, <1>8, <1>9, <2>1, <2>2, <2>3 DEF QuietInv
<1>16. ASSUME pc[c] \in {"probe", "write"}, Rest(c) # {}, Hash(c), UNCHANGED index
      PROVE  QuietInv(c)'
  <2> DEFINE E == [p \in DOMAIN entries[c] \cup {Turn(c)} |->
                     IF p = Turn(c) THEN files[p] ELSE entries[c][p]]
  <2>1. entries' = [entries EXCEPT ![c] = E] /\ UNCHANGED <<pc, walked, skipped>>
    BY <1>16, HashIsOf
  <2>2. \A p \in DOMAIN E : E[p] = files[p]
    BY <1>7, <1>16 DEF QuietInv
  <2> HIDE DEF E
  <2>3. entries'[c] = E
    BY <2>1 DEF TypeInv, EntriesOK
  <2>4. TakesWanted(c)'
    BY <1>7, <1>8, <1>16, <2>1 DEF QuietInv, TakesWanted
  <2> QED
    BY <1>3, <1>8, <1>9, <1>16, <2>1, <2>2, <2>3, <2>4 DEF QuietInv
<1>17. CASE Probe(c)
  <2>1. pc[c] = "probe" /\ UNCHANGED index
    BY <1>17 DEF Probe, repo
  <2>2. CASE Rest(c) # {} /\ Hash(c)
    BY <1>16, <2>1, <2>2
  <2>3. CASE Rest(c) = {} /\ TreeOf(c) = BaseTree(c)
    BY <1>17, <2>3, QuietWhenOver DEF Probe
  <2>4. CASE Rest(c) = {} /\ TreeOf(c) # BaseTree(c)
    <3>1. pc'[c] = "write" /\ entries'[c] = <<>> /\ UNCHANGED <<walked, skipped>>
      BY <1>1, <1>17, <2>4 DEF Probe, Goto, TypeInv, EntriesOK
    <3>2. DOMAIN entries'[c] = {}
      BY <3>1
    <3>3. TakesWanted(c)'
      BY <1>7, <1>8, <2>1, <3>1 DEF QuietInv, TakesWanted
    <3> QED
      BY <1>3, <1>8, <1>9, <2>1, <3>1, <3>2, <3>3 DEF QuietInv
  <2> QED
    BY <1>17, <2>2, <2>3, <2>4 DEF Probe
<1>18. CASE Write(c)
  <2>1. pc[c] = "write" /\ UNCHANGED index
    BY <1>18 DEF Write
  <2>2. CASE Rest(c) # {} /\ Hash(c)
    BY <1>16, <2>1, <2>2
  <2>3. CASE Rest(c) = {}
    <3>1. pc'[c] = "tree" /\ UNCHANGED <<walked, skipped, entries>>
      BY <1>1, <1>18, <2>3 DEF Write, Goto, local
    <3>2. /\ TakesWanted(c)'
          /\ \A p \in DOMAIN entries[c] : entries[c][p] = files[p]
      BY <1>7, <1>8, <2>1, <3>1 DEF QuietInv, TakesWanted
    <3> QED
      BY <1>3, <1>8, <1>9, <2>1, <3>1, <3>2 DEF QuietInv
  <2> QED
    BY <1>18, <2>2, <2>3 DEF Write
<1>19. CASE WriteTree(c)
  <2>1. pc[c] = "tree" /\ Rest(c) = {} /\ DOMAIN entries[c] \subseteq walked[c]
    BY <1>19 DEF WriteTree, CarriedInv, Rest
  <2>2. CASE TreeOf(c) = BaseTree(c)
    BY <1>19, <2>2, QuietWhenOver DEF WriteTree
  <2>3. CASE TreeOf(c) # BaseTree(c)
    <3>1. /\ made'[c] = Len(commits) + 1 /\ pc'[c] = "update"
          /\ commits' = Append(commits, [tree |-> TreeOf(c), parent |-> base[c]])
          /\ UNCHANGED <<index, skipped>>
      BY <1>19, <2>3 DEF WriteTree, TypeInv, LabelsOK, LocalOK, Goto
    <3>2. Len(commits) \in Nat /\ commits'[made'[c]].tree = TreeOf(c)
      BY <3>1 DEF TypeInv, CommitsOK
    <3>3. \A p \in Paths : AsItIs(c, TreeOf(c), p)
      BY <1>7, <2>1, TreeIsWanted
    <3>4. \A p \in Paths : AsItIs(c, commits[made[c]].tree, p)'
      BY <1>3, <1>8, <3>1, <3>2, <3>3 DEF AsItIs
    <3> QED
      BY <1>3, <1>9, <2>1, <3>1, <3>4 DEF QuietInv
  <2> QED
    BY <2>2, <2>3
<1>20. CASE UpdateRef(c)
  <2>1. /\ pc[c] = "update" /\ pc'[c] = "refresh" /\ UNCHANGED <<commits, local, index>>
        /\ branch' = made[c]
    BY <1>1, <1>20 DEF UpdateRef, Goto
  <2>2. \A p \in Paths : AsItIs(c, commits[made[c]].tree, p)
    BY <1>7, <2>1 DEF QuietInv
  <2>3. \A p \in Paths : AsItIs(c, commits[made[c]].tree, p)'
    BY <1>3, <1>8, <2>1, <2>2 DEF AsItIs, local
  <2> QED
    BY <1>3, <1>9, <2>1, <2>3 DEF QuietInv, local
<1>21. CASE Refresh(c)
  BY <1>21, QuietWhenOver DEF Refresh
<1> QED
  BY <1>10, <1>11, <1>12, <1>13, <1>14, <1>15, <1>17, <1>18, <1>19, <1>20, <1>21 DEF Snapshot

\* Every step keeps what a caller that is alone knows.
LEMMA QuietStep ==
  ASSUME TypeInv, NEW c \in Callers, CarriedInv(c), QuietInv(c), [Next]_vars
  PROVE  QuietInv(c)'
<1>1. ASSUME NEW d \in Callers, Snapshot(d), Observe(d)
      PROVE  QuietInv(c)'
  BY <1>1, SnapshotFrame, QuietOfOthers, QuietOfOwn
<1>2. CASE NewRun /\ Observe(R)
  <2>1. CASE c = R
    <3>1. pc'[R] \in InNewRun
      BY <1>2, NewRunFrame
    <3> QED
      BY <2>1, <3>1 DEF QuietInv, InNewRun, InSnapshot
  <2> QED
    BY <1>2, <2>1, NewRunFrame, QuietOfOthers, CallersAre
<1>3. CASE Rival /\ Observe("rival")
  BY <1>3, RivalFrame, QuietOfOthers DEF Callers
<1>4. CASE UNCHANGED vars
  <2>1. \A p \in Paths : (Ignored(p)' <=> Ignored(p)) /\ (Wanted(p)' <=> Wanted(p))
    BY <1>4 DEF vars, repo, work, Ignored, Wanted
  <2>2. CheckIgnoreBuild' <=> CheckIgnoreBuild
    BY <1>4 DEF vars, repo, work, CheckIgnoreBuild, CheckIgnore
  <2> QED
    BY <1>4, <2>1, <2>2 DEF vars, repo, work, local, observed, QuietInv, TakesWanted, AsItIs
<1> QED
  BY <1>1, <1>2, <1>3, <1>4 DEF Next, Terminated

-----------------------------------------------------------------------------
(* The history of the branch                                               *)

Under(C, a, i) ==
  /\ a \in DOMAIN C
  /\ \A S \in SUBSET DOMAIN C :
       i \in S /\ (\A j \in S : C[j].parent \in S \cup {None}) => a \in S

\* Ancestors, as a relation on a sequence of commits, now and after the step.
LEMMA AncestorsAre ==
  ASSUME NEW a, NEW i
  PROVE  /\ a \in Ancestors(i) <=> Under(commits, a, i)
         /\ (a \in Ancestors(i))' <=> Under(commits', a, i)
  BY DEF Ancestors, Under

\* What lies below a parent lies below its child.
LEMMA UnderParent ==
  ASSUME NEW C, NEW i, NEW a, Under(C, a, C[i].parent), C[i].parent # None
  PROVE  Under(C, a, i)
  BY DEF Under

\* Appending a commit takes nothing from what is below the others.
LEMMA UnderGrows ==
  ASSUME NEW C, NEW D, DOMAIN C \subseteq DOMAIN D, \A j \in DOMAIN C : D[j] = C[j],
         \A j \in DOMAIN C : C[j].parent \in DOMAIN C \cup {None},
         NEW i \in DOMAIN C, NEW a, Under(C, a, i)
  PROVE  Under(D, a, i)
<1> SUFFICES ASSUME NEW S \in SUBSET DOMAIN D, i \in S,
                    \A j \in S : D[j].parent \in S \cup {None}
             PROVE  a \in S
  BY DEF Under
<1> DEFINE T == S \cap DOMAIN C
<1>1. T \in SUBSET DOMAIN C /\ i \in T
  OBVIOUS
<1>2. \A j \in T : C[j].parent \in T \cup {None}
  OBVIOUS
<1> HIDE DEF T
<1>3. a \in T
  BY <1>1, <1>2 DEF Under
<1> QED
  BY <1>3 DEF T

\* No step takes a commit from below another.
LEMMA AncestorsStand ==
  ASSUME TypeInv, [Next]_vars
  PROVE  \A i \in 1 .. Len(commits) : \A a : a \in Ancestors(i) => (a \in Ancestors(i))'
<1>1. DOMAIN commits = 1 .. Len(commits) /\ DOMAIN commits' = 1 .. Len(commits')
      /\ Len(commits) \in Nat /\ Len(commits') \in Nat
  BY CommitsStep DEF TypeInv, CommitsOK
<1>2. \A j \in 1 .. Len(commits) : commits[j].parent \in 1 .. Len(commits) \cup {None}
  <2> SUFFICES ASSUME NEW j \in 1 .. Len(commits)
               PROVE  commits[j].parent \in 1 .. Len(commits) \cup {None}
    OBVIOUS
  <2> DEFINE C == [tree : Trees, parent : Nat]
  <2>1. commits \in Seq(C)
    BY DEF TypeInv, CommitsOK
  <2>2. \A x \in C : x.parent \in Nat
    OBVIOUS
  <2> HIDE DEF C
  <2>3. commits[j] \in C
    BY <2>1
  <2>4. commits[j].parent \in Nat
    BY <2>2, <2>3
  <2>5. commits[j].parent < j
    BY DEF TypeInv, CommitsOK
  <2> QED
    BY <1>1, <2>4, <2>5 DEF None
<1>3. DOMAIN commits \subseteq DOMAIN commits' /\ \A j \in DOMAIN commits : commits'[j] = commits[j]
  BY <1>1, CommitsStep DEF Grown
<1>4. ASSUME NEW i \in DOMAIN commits, NEW a, Under(commits, a, i)
      PROVE  Under(commits', a, i)
  BY <1>1, <1>2, <1>3, <1>4, UnderGrows
<1> QED
  BY <1>1, <1>4, AncestorsAre

\* The branch only moves to a child of what it is, and one that is deleted stays deleted.
LEMMA BranchMoves ==
  ASSUME TypeInv, \A c \in Callers : CarriedInv(c), [Next]_vars
  PROVE  \/ branch' = branch
         \/ branch' = None
         \/ branch # None /\ commits'[branch'].parent = branch
<1>1. ASSUME NEW c \in Callers, Snapshot(c), branch' # branch
      PROVE  branch # None /\ commits'[branch'].parent = branch
  <2>1. pc[c] = "update" /\ branch' = made[c]
    BY <1>1, RepoOfSnapshot
  <2>2. branch = base[c] /\ commits' = commits
    BY <1>1, <2>1 DEF Snapshot, Start, GitFails, CheckBranch, WalkRoot, CheckDirs, WalkBuild,
                      Filter, ReadHead, Probe, Write, WriteTree, UpdateRef, Refresh, repo
  <2> QED
    BY <2>1, <2>2 DEF CarriedInv
<1>2. CASE Rival
  <2>1. CASE Commit
    <3>1. /\ branch' = Len(commits) + 1 /\ branch # None
          /\ \E t : commits' = Append(commits, [tree |-> t, parent |-> branch])
      BY <2>1 DEF Commit, TypeInv, FlagsOK
    <3> QED
      BY <3>1 DEF TypeInv, CommitsOK
  <2> QED
    BY <1>2, <2>1 DEF Rival, Edit, Chmod, SwitchAway, PlantLink, repo
<1> QED
  BY <1>1, <1>2, NewRunFrame DEF Next, Terminated, vars, repo

\* What is in the branch's history stays in it, as long as there is a branch.
LEMMA BranchKeepsHistory ==
  ASSUME TypeInv, \A c \in Callers : CarriedInv(c), [Next]_vars, branch' # None
  PROVE  branch # None /\ \A a : a \in Ancestors(branch) => (a \in Ancestors(branch))'
<1>1. CASE branch' = branch
  <2>1. branch \in 1 .. Len(commits)
    BY <1>1 DEF TypeInv, CommitsOK, RepoOK, None
  <2>2. \A a : a \in Ancestors(branch) => Under(commits', a, branch)
    BY <2>1, AncestorsStand, AncestorsAre
  <2> QED
    BY <1>1, <2>2 DEF Ancestors, Under
<1>2. CASE branch # None /\ commits'[branch'].parent = branch
  <2>1. branch \in 1 .. Len(commits)
    BY <1>2 DEF TypeInv, CommitsOK, RepoOK, None
  <2>2. \A a : a \in Ancestors(branch) => Under(commits', a, branch)
    BY <2>1, AncestorsStand, AncestorsAre
  <2>3. \A a : a \in Ancestors(branch) => Under(commits', a, branch')
    BY <1>2, <2>2, UnderParent
  <2> QED
    BY <1>2, <2>3 DEF Ancestors, Under
<1> QED
  BY <1>1, <1>2, BranchMoves

\* The branch is in its own history.
LEMMA SelfUnder ==
  ASSUME TypeInv, branch # None
  PROVE  branch \in Ancestors(branch)
  BY DEF Ancestors, TypeInv, CommitsOK, RepoOK, None

\* A step of somebody else moves the branch up only.
LEMMA BelowOfOthers ==
  ASSUME TypeInv, \A d \in Callers : CarriedInv(d), [Next]_vars, NEW c \in Callers, Same(c),
         BelowInv(c)
  PROVE  BelowInv(c)'
  BY BranchKeepsHistory DEF BelowInv, Same

\* The caller's own steps read the branch's head, or make it a child.
LEMMA BelowOfOwn ==
  ASSUME TypeInv, \A d \in Callers : CarriedInv(d), [Next]_vars, NEW c \in Callers, Snapshot(c),
         BelowInv(c)
  PROVE  BelowInv(c)'
<1> SUFFICES ASSUME branch' # None
             PROVE  BelowInv(c)'
  BY DEF BelowInv
<1>1. branch # None /\ \A a : a \in Ancestors(branch) => (a \in Ancestors(branch))'
  BY BranchKeepsHistory
<1>2. /\ base[c] # None => (base[c] \in Ancestors(branch)')
      /\ saved[c] # None => (saved[c] \in Ancestors(branch)')
      /\ pc[c] = "refresh" => (made[c] \in Ancestors(branch)')
      /\ branch \in Ancestors(branch)'
  BY <1>1, SelfUnder DEF BelowInv
<1>3. pc \in [Callers -> {"idle"} \cup InSnapshot \cup InNewRun] /\ base \in [Callers -> Nat]
      /\ saved \in [Callers -> Nat]
  BY DEF TypeInv, LabelsOK, LocalOK
<1>4. CASE Start(c)
  <2>1. base'[c] = None /\ saved'[c] = None /\ pc'[c] \in {"check", "exclude"}
    BY <1>4, <1>3 DEF Start, Goto
  <2> QED
    BY <2>1 DEF BelowInv
<1>5. CASE ReadHead(c)
  <2>1. CASE Raises(c)
    <3>1. UNCHANGED <<base, saved>> /\ pc'[c] # "refresh"
      BY <2>1, EndsOutside DEF Raises, local
    <3> QED
      BY <1>2, <3>1 DEF BelowInv
  <2>2. CASE ~Raises(c)
    <3>1. base'[c] = branch /\ UNCHANGED saved /\ pc'[c] = "probe"
      BY <1>5, <1>3, <2>2 DEF ReadHead, Goto
    <3> QED
      BY <1>2, <3>1 DEF BelowInv
  <2> QED
    BY <2>1, <2>2
<1>6. CASE UpdateRef(c) /\ ~Raises(c)
  <2>1. pc[c] = "update" /\ branch' = made[c] /\ UNCHANGED <<base, saved, made>>
    BY <1>6 DEF UpdateRef, local
  <2>2. (branch \in Ancestors(branch))'
    <3>1. branch' \in 1 .. Len(commits) /\ commits' = commits
      BY <1>6, <2>1 DEF UpdateRef, TypeInv, CommitsOK, LocalOK, CarriedInv, None
    <3> QED
      BY <3>1 DEF Ancestors, TypeInv, CommitsOK
  <2> QED
    BY <1>2, <2>1, <2>2 DEF BelowInv
<1>7. CASE Refresh(c) /\ ~Raises(c)
  <2>1. /\ pc[c] = "refresh" /\ UNCHANGED base /\ saved'[c] = made[c]
        /\ Ends(c, "committed")
    BY <1>7, <1>3 DEF Refresh, local
  <2>2. pc'[c] # "refresh"
    BY <2>1, EndsOutside
  <2> QED
    BY <1>2, <2>1, <2>2 DEF BelowInv
<1>8. CASE Snapshot(c) /\ ~Start(c) /\ ~ReadHead(c) /\ ~(UpdateRef(c) /\ ~Raises(c))
           /\ ~(Refresh(c) /\ ~Raises(c))
  <2>1. /\ UNCHANGED base
        /\ saved' = saved \/ saved' = [saved EXCEPT ![c] = base[c]]
        /\ pc'[c] # "refresh"
    <3>1. CASE Raises(c)
      BY <3>1, EndsOutside DEF Raises, local
    <3>2. CASE ~Raises(c)
      <4>1. CASE Probe(c) \/ Write(c) \/ WriteTree(c)
        BY <1>3, <3>2, <4>1, HashIsOf, EndsOutside DEF Probe, Write, WriteTree, Goto, local
      <4>2. CASE CheckBranch(c) \/ WalkRoot(c) \/ CheckDirs(c) \/ WalkBuild(c) \/ Filter(c)
        BY <1>3, <3>2, <4>2 DEF CheckBranch, WalkRoot, CheckDirs, WalkBuild, Filter, Goto, local
      <4> QED
        BY <1>8, <3>2, <4>1, <4>2 DEF Snapshot, GitFails
    <3> QED
      BY <3>1, <3>2
  <2>2. saved'[c] = saved[c] \/ saved'[c] = base[c]
    BY <1>3, <2>1
  <2> QED
    BY <1>2, <2>1, <2>2 DEF BelowInv
<1> QED
  BY <1>4, <1>5, <1>6, <1>7, <1>8

\* Whatever a caller read or wrote stays in the branch's history.
LEMMA BelowStep ==
  ASSUME TypeInv, \A d \in Callers : CarriedInv(d), [Next]_vars, NEW c \in Callers, BelowInv(c)
  PROVE  BelowInv(c)'
<1>1. ASSUME NEW d \in Callers, Snapshot(d)
      PROVE  BelowInv(c)'
  BY <1>1, SnapshotFrame, BelowOfOthers, BelowOfOwn
<1>2. CASE NewRun
  <2>1. CASE c = R
    <3>1. pc'[R] # "refresh" /\ UNCHANGED <<base, saved>>
      BY <1>2, NewRunFrame DEF InNewRun, local
    <3> QED
      BY <2>1, <3>1, BranchKeepsHistory DEF BelowInv
  <2> QED
    BY <1>2, <2>1, NewRunFrame, BelowOfOthers, CallersAre
<1>3. CASE Rival
  BY <1>3, RivalFrame, BelowOfOthers
<1>4. CASE UNCHANGED vars
  BY <1>4, BelowOfOthers DEF vars, local, Same
<1> QED
  BY <1>1, <1>2, <1>3, <1>4 DEF Next, Terminated

\* The new run starts on the branch, so on its snapshot too.
LEMMA StartedStep ==
  ASSUME TypeInv, [Next]_vars, BelowInv(R), StartedInv
  PROVE  StartedInv'
<1> DEFINE On == {"resolve", "base", "started"}
<1>1. Len(commits) \in Nat /\ Len(commits') \in Nat /\ Len(commits') >= Len(commits)
  BY CommitsStep DEF TypeInv, CommitsOK, Grown
<1>2. CASE pc[R] \in On /\ UNCHANGED newBase /\ saved'[R] = saved[R]
  <2>1. newBase \in 1 .. Len(commits) /\ (saved[R] # None => saved[R] \in Ancestors(newBase))
    BY <1>2 DEF StartedInv, At
  <2>2. saved[R] # None => (saved[R] \in Ancestors(newBase)')
    <3>1. saved[R] # None => Under(commits', saved[R], newBase)
      BY <2>1, AncestorsStand, AncestorsAre
    <3> QED
      BY <1>2, <3>1 DEF Ancestors, Under
  <2> QED
    BY <1>1, <1>2, <2>1, <2>2 DEF StartedInv
<1>3. CASE pc'[R] \notin On
  BY <1>3 DEF StartedInv, At
<1>4. CASE Add /\ pc'[R] = "resolve"
  <2>1. newBase' = branch /\ branch # None /\ UNCHANGED <<commits, saved>>
    BY <1>4 DEF Add, InCreate, repo, Goto, TypeInv, LabelsOK, R, Callers
  <2>2. branch \in 1 .. Len(commits)
    BY <2>1 DEF TypeInv, RepoOK, CommitsOK, None
  <2>3. saved[R] # None => saved[R] \in Ancestors(branch)
    BY <2>1 DEF BelowInv
  <2> QED
    BY <2>1, <2>2, <2>3 DEF StartedInv, Ancestors
<1>5. ASSUME NEW d \in Callers, Snapshot(d)
      PROVE  StartedInv'
  <2>1. CASE d = R
    <3>1. pc'[R] \notin On
      BY <1>5, <2>1, LabelsOfSnapshot, CallersAre DEF InSnapshot, TypeInv, LabelsOK
    <3> QED
      BY <1>3, <3>1
  <2>2. CASE d # R
    BY <1>2, <1>3, <1>5, <2>2, SnapshotFrame, CallersAre DEF Same, create
  <2> QED
    BY <2>1, <2>2
<1>6. CASE NewRun
  <2>1. CASE Add
    BY <1>3, <1>4, <2>1 DEF Add, Goto, TypeInv, LabelsOK, R, Callers
  <2>2. CASE NewRun /\ ~Add
    BY <1>2, <1>3, <2>2 DEF NewRun, Exclude, Existed, Cleanup, Resolve, BaseCommit, Rollback,
                            InCreate, At, Goto, TypeInv, LabelsOK, R, Callers
  <2> QED
    BY <1>6, <2>1, <2>2
<1>7. CASE Rival
  BY <1>2, <1>3, <1>7, RivalFrame
<1>8. CASE UNCHANGED vars
  BY <1>2, <1>3, <1>8 DEF vars, create
<1> QED
  BY <1>5, <1>6, <1>7, <1>8 DEF Next, Terminated

-----------------------------------------------------------------------------
(* The new run                                                             *)

\* create_worktree, its clean-up and the roll-back.
LEMMA CreateOfNewRun ==
  ASSUME TypeInv, CreateInv, NewRun
  PROVE  CreateInv'
<1>1. /\ pc' = [pc EXCEPT ![R] = pc'[R]] /\ R \in Callers /\ UNCHANGED theirs
      /\ pc[R] \in InNewRun /\ pc'[R] \in InNewRun
  BY NewRunFrame, CallersAre
<1>2. pc \in [Callers -> {"idle"} \cup InSnapshot \cup InNewRun]
  BY DEF TypeInv, LabelsOK
<1> USE DEF CreateInv, At, Goto, Before, InSnapshot
<1>3. CASE Exclude
  <2>1. /\ pc[R] = "exclude" /\ pc'[R] \in {"existed", "refused"}
        /\ UNCHANGED <<dest, newBranch, existed, newBase, leftover>>
    BY <1>1, <1>2, <1>3 DEF Exclude
  <2> QED
    BY <1>1, <2>1
<1>4. CASE Existed
  <2>1. /\ pc[R] = "existed" /\ pc'[R] = "add" /\ existed' = (newBranch # "none")
        /\ UNCHANGED <<dest, newBranch, newBase, leftover>>
    BY <1>1, <1>2, <1>4 DEF Existed
  <2> QED
    BY <1>1, <2>1
<1>5. CASE Add
  BY <1>1, <1>2, <1>5 DEF Add
<1>6. CASE Cleanup
  BY <1>1, <1>2, <1>6 DEF Cleanup
<1>7. CASE Resolve
  BY <1>1, <1>2, <1>7 DEF Resolve
<1>8. CASE BaseCommit
  BY <1>1, <1>2, <1>8 DEF BaseCommit
<1>9. CASE Rollback
  BY <1>1, <1>2, <1>9 DEF Rollback
<1> QED
  BY <1>3, <1>4, <1>5, <1>6, <1>7, <1>8, <1>9 DEF NewRun

\* Every step keeps the new run's worktree and branch in order.
LEMMA CreateStep ==
  ASSUME TypeInv, CreateInv, [Next]_vars
  PROVE  CreateInv'
<1>1. ASSUME NEW d \in Callers, Snapshot(d)
      PROVE  CreateInv'
  <2>1. UNCHANGED create
    BY <1>1, SnapshotFrame
  <2>2. CASE d = R
    <3>1. /\ pc[R] \in {"idle"} \cup InSnapshot
          /\ pc'[R] \in {"idle"} \cup InSnapshot \cup {"exclude", "refused"}
      BY <1>1, <2>2, LabelsOfSnapshot, CallersAre DEF TypeInv, LabelsOK
    <3> QED
      BY <2>1, <3>1 DEF CreateInv, At, Before, InSnapshot, create
  <2>3. CASE d # R
    BY <1>1, <2>1, <2>3, SnapshotFrame, CallersAre DEF CreateInv, At, Same, create
  <2> QED
    BY <2>2, <2>3
<1>2. CASE NewRun
  BY <1>2, CreateOfNewRun
<1>3. CASE Rival
  BY <1>3, RivalFrame DEF CreateInv, At, Before
<1>4. CASE UNCHANGED vars
  BY <1>4 DEF CreateInv, At, Before, vars, create
<1> QED
  BY <1>1, <1>2, <1>3, <1>4 DEF Next, Terminated

-----------------------------------------------------------------------------
(* The theorems                                                            *)

\* The invariant holds before the first call.
LEMMA InvInit == Init => IInv
<1> SUFFICES ASSUME Init
             PROVE  IInv
  OBVIOUS
<1> PICK keep \in 0 .. 1 :
      commits = <<[tree |-> [main |-> 1, keep |-> keep, out |-> Absent], parent |-> None]>>
  BY DEF Init
<1> DEFINE t == [main |-> 1, keep |-> keep, out |-> Absent]
<1>1. t \in Trees /\ EmptyTree \in Trees /\ [t EXCEPT !["main"] = 2, !["out"] = 1] \in Trees
  <2> DEFINE S == [{"main", "keep", "out"} -> 0 .. 2]
  <2>1. Trees = S
    BY DEF Trees, Contents, Paths, InBuild
  <2>2. keep \in 0 .. 2 /\ Absent \in 0 .. 2
    BY DEF Absent
  <2>3. t \in S
    BY <2>2
  <2>4. \A f \in S : [f EXCEPT !["main"] = 2, !["out"] = 1] \in S
    OBVIOUS
  <2>5. EmptyTree \in Trees
    BY DEF Trees, Contents, Absent, EmptyTree
  <2> HIDE DEF S, t
  <2>6. [t EXCEPT !["main"] = 2, !["out"] = 1] \in S
    BY <2>3, <2>4
  <2> QED
    BY <2>1, <2>3, <2>5, <2>6
<1>2. commits = <<[tree |-> t, parent |-> None]>>
  OBVIOUS
<1> HIDE DEF t
<1>3. CommitsOK /\ Len(commits) = 1 /\ commits[1] = [tree |-> t, parent |-> None]
  <2>1. [tree |-> t, parent |-> None] \in [tree : Trees, parent : Nat]
    BY <1>1 DEF None
  <2> QED
    BY <1>2, <2>1 DEF CommitsOK, None
<1>4. commits[1].tree = t
  BY <1>3
<1>5. RepoOK
  <2>1. index \in {t, EmptyTree} /\ files \in {t, [t EXCEPT !["main"] = 2, !["out"] = 1], EmptyTree}
    BY <1>4 DEF Init
  <2>2. index \in Trees /\ files \in Trees
    BY <1>1, <2>1
  <2>3. branch = 1 /\ away = 1
    BY DEF Init
  <2> QED
    BY <1>3, <2>2, <2>3 DEF RepoOK
<1>6. FlagsOK
  BY DEF Init, FlagsOK, None
<1>7. LabelsOK
  BY CallersAre DEF Init, LabelsOK
<1>8. LocalOK
  BY <1>3 DEF Init, LocalOK, None
<1>9. EntriesOK
  <2>1. DOMAIN <<>> = {}
    OBVIOUS
  <2> QED
    BY <2>1 DEF Init, EntriesOK
<1>10. \A c \in Callers : pc[c] = "idle" /\ result[c] = "none" /\ base[c] = None /\ saved[c] = None
  BY DEF Init
<1>11. \A c \in Callers : NowInv(c) /\ LookedInv(c) /\ CarriedInv(c) /\ QuietInv(c)
  BY <1>10 DEF NowInv, LookedInv, CarriedInv, QuietInv, Outside, InSnapshot
<1>12. \A c \in Callers : BelowInv(c)
  BY <1>10 DEF BelowInv
<1>13. StartedInv
  BY <1>10, CallersAre DEF StartedInv, At
<1>14. CreateInv
  <2>1. pc[R] = "idle"
    BY <1>10, CallersAre
  <2> QED
    BY <2>1 DEF Init, CreateInv, At
<1> QED
  BY <1>3, <1>5, <1>6, <1>7, <1>8, <1>9, <1>11, <1>12, <1>13, <1>14 DEF IInv, TypeInv

\* Every step keeps it.
LEMMA InvStep == IInv /\ [Next]_vars => IInv'
<1> SUFFICES ASSUME IInv, [Next]_vars
             PROVE  IInv'
  OBVIOUS
<1>1. TypeInv'
  BY TypeStep DEF IInv
<1>2. ASSUME NEW c \in Callers
      PROVE  (NowInv(c) /\ LookedInv(c) /\ CarriedInv(c) /\ QuietInv(c) /\ BelowInv(c))'
  BY NowStep, LookedStep, CarriedStep, QuietStep, BelowStep DEF IInv
<1>3. StartedInv'
  BY StartedStep, CallersAre DEF IInv
<1>4. CreateInv'
  BY CreateStep DEF IInv
<1> QED
  BY <1>1, <1>2, <1>3, <1>4 DEF IInv

\* So it always holds.
LEMMA Invariant == Spec => []IInv
  BY InvInit, InvStep, PTL DEF Spec

\* A snapshot that reports success left a commit whose every path has content the worktree
\* had during the call, or is missing because it was seen missing or ignored or could not be
\* stat'ed, whoever else commits, switches branches or edits between two of its git commands (snapshot_worktree).
THEOREM SnapshotsAreTrue == Spec => []SnapshotIsTrue
<1>1. IInv => SnapshotIsTrue
  BY DEF IInv, LookedInv, SaysTrue, SnapshotIsTrue
<1> QED
  BY <1>1, Invariant, PTL

\* The branch only moves to a child of what it is, and no snapshot puts an empty tree over one
\* that holds something (update-ref with the old value, the empty-tree guard).
THEOREM NothingIsClobbered == Spec => NothingClobbered
<1> DEFINE Moved ==
      branch' \notin {branch, None} =>
        /\ commits'[branch'].parent = branch
        /\ (\E c \in Callers : made[c] = branch') /\ commits[branch].tree # EmptyTree
             => commits'[branch'].tree # EmptyTree
<1>1. IInv /\ [Next]_vars => [Moved]_vars
  <2> SUFFICES ASSUME IInv, [Next]_vars, branch' \notin {branch, None}
               PROVE  Moved
    OBVIOUS
  <2>1. TypeInv /\ \A c \in Callers : CarriedInv(c)
    BY DEF IInv
  <2>2. branch # None /\ commits'[branch'].parent = branch
    BY <2>1, BranchMoves
  <2>3. ASSUME NEW c \in Callers, made[c] = branch', commits[branch].tree # EmptyTree
        PROVE  commits'[branch'].tree # EmptyTree
    <3>1. ASSUME NEW d \in Callers, Snapshot(d)
          PROVE  commits'[branch'].tree # EmptyTree
      <4>1. pc[d] = "update" /\ branch' = made[d]
        BY <2>1, <3>1, RepoOfSnapshot
      <4>2. branch = base[d] /\ commits' = commits
        BY <3>1, <4>1 DEF Snapshot, Start, GitFails, CheckBranch, WalkRoot, CheckDirs, WalkBuild,
                          Filter, ReadHead, Probe, Write, WriteTree, UpdateRef, Refresh, repo
      <4> QED
        BY <2>1, <2>3, <4>1, <4>2 DEF CarriedInv, BaseTree
    <3>2. CASE Rival
      <4>1. branch' = Len(commits) + 1
        BY <3>2 DEF Rival, Edit, Chmod, Commit, SwitchAway, PlantLink, repo
      <4>2. made[c] \in Nat /\ made[c] <= Len(commits) /\ Len(commits) \in Nat
        BY <2>1 DEF TypeInv, LocalOK, CommitsOK
      <4> QED
        BY <2>3, <4>1, <4>2
    <3> QED
      BY <2>1, <3>1, <3>2, NewRunFrame DEF Next, Terminated, vars, repo
  <2> QED
    BY <2>2, <2>3
<1> QED
  BY <1>1, Invariant, PTL DEF Spec, NothingClobbered

\* When nobody else acts during a call that committed, git status has nothing to say of the
\* worktree afterwards, but of files that could not be stat'ed: the walk, its two filters and
\* host_worktree_dirty() agree.
THEOREM SnapshotsLeaveItClean == Spec => CleanAfterwards
<1> DEFINE Clean ==
      \A c \in Callers :
        result[c] # "committed" /\ result'[c] = "committed" /\ quiet'[c]
          => \A p \in Paths \ skipped'[c] : ~DirtyAt(p)'
<1>1. IInv /\ [Next]_vars => [Clean]_vars
  <2> SUFFICES ASSUME IInv, [Next]_vars, NEW c \in Callers,
                      result[c] # "committed", result'[c] = "committed", quiet'[c]
               PROVE  \A p \in Paths \ skipped'[c] : ~DirtyAt(p)'
    OBVIOUS
  <2>1. TypeInv /\ QuietInv(c)
    BY DEF IInv
  <2>2. Snapshot(c) /\ Observe(c)
    BY <2>1, SnapshotFrame, NewRunFrame, RivalFrame DEF Next, Terminated, vars, Same
  <2>3. Refresh(c) /\ ~Raises(c)
    <3>1. ASSUME NEW how, Ends(c, how), how # "committed"
          PROVE  FALSE
      BY <2>1, <3>1, EndsOutside
    <3>2. ~Raises(c)
      BY <3>1 DEF Raises
    <3>3. ~Start(c)
      BY <2>1 DEF Start, TypeInv, LabelsOK
    <3>4. ~Probe(c) /\ ~Write(c)
      BY <2>1, <3>1, <3>2, HashIsOf DEF Probe, Write
    <3>5. ~WriteTree(c)
      BY <2>1, <3>1 DEF WriteTree
    <3> QED
      BY <2>2, <3>2, <3>3, <3>4, <3>5
         DEF Snapshot, GitFails, CheckBranch, WalkRoot, CheckDirs, WalkBuild, Filter, ReadHead,
             UpdateRef
  <2>4. /\ pc[c] = "refresh" /\ index' = HeadTree
        /\ UNCHANGED <<commits, branch, onBranch, away, files, listable, buildIgnored, skipped>>
    BY <2>3 DEF Refresh, work, local
  <2>5. quiet[c]
    BY <2>2, <2>4, Watched DEF Starting
  <2>6. /\ onBranch /\ branch = made[c]
        /\ \A p \in Paths : AsItIs(c, commits[made[c]].tree, p)
    BY <2>1, <2>4, <2>5 DEF QuietInv, InSnapshot
  <2>7. index' = HeadTree' /\ index' = commits[made[c]].tree
    BY <2>4, <2>6 DEF HeadTree
  <2>8. \A p \in Paths \ skipped'[c] : files'[p] # index'[p] => Ignored(p)'
    BY <2>4, <2>6, <2>7 DEF Ignored, AsItIs
  <2> QED
    BY <2>7, <2>8 DEF DirtyAt
<1> QED
  BY <1>1, Invariant, PTL DEF Spec, CleanAfterwards

\* A new run that does not start leaves neither its worktree nor its branch, unless git failed
\* to remove them or the base commit could not be read; a branch that was there before stays;
\* and one that starts has the snapshot it took in its history (create_worktree).
THEOREM NewRunsStartOrLeaveNothing == Spec => []NewRunStartsOrLeavesNothing
<1>1. IInv => NewRunStartsOrLeavesNothing
  BY DEF IInv, CreateInv, StartedInv, NewRunStartsOrLeavesNothing, At
<1> QED
  BY <1>1, Invariant, PTL
=============================================================================
