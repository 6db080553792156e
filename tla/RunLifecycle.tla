---------------------------- MODULE RunLifecycle ----------------------------
(***************************************************************************)
(* Where a docker worker's work lives, from the first run to the last      *)
(* resume (dirtywork/__main__.py, sandbox/docker.py, sandbox/export.py,    *)
(* resume.py, runs.py).                                                    *)
(*                                                                         *)
(* A run works in a docker volume of its own.  When it ends, finalize()    *)
(* exports the volume into the host worktree and removes the volume.  A    *)
(* resumed run first moves the worktree's content into a stash, and moves  *)
(* it back if the export fails.  The runs here are one fresh run (1) and   *)
(* the resumes that follow it on the same worktree; beside them the        *)
(* operator runs `runs export` and `runs clean`.                           *)
(*                                                                         *)
(* A tree is the set of the runs that contributed to it, and Base for the  *)
(* base commit's files: each is one entry of the directory that a stash or *)
(* an extraction moves on its own.                                         *)
(***************************************************************************)
EXTENDS Integers, FiniteSets

CONSTANTS
  MaxRuns,   \* the fresh run and its resumes
  MaxDead,   \* runs that may be killed outright
  Scenarios  \* each the events that may happen beside the commands and a failing docker

(* "crash"       a process is killed outright (or the host goes down)       *)
(* "interrupt"   Ctrl-C                                                     *)
(* "host_error"  a rename, mkdir or git command on the host fails           *)
(* "log_error"   run_end cannot be written once finalize() is over          *)
(* "overlap"     a command starts while another one works on the worktree   *)
(* "clean"       `runs clean` without --force                               *)
AllEvents == {"crash", "interrupt", "host_error", "log_error", "overlap", "clean"}

ASSUME LifecycleAssumption ==
  MaxRuns \in Nat \ {0} /\ MaxDead \in Nat /\ Scenarios \subseteq SUBSET AllEvents

Runs   == 1..MaxRuns
Fresh  == 1
Base   == 0
Work   == Runs \cup {Base}
Op     == 0                     \* the operator's `runs` command
Agents == Runs \cup {Op}

VARIABLES
  pc,            \* where each process is
  mode,          \* "finish": in the runner; "fail": in _fail_run; "exit": dying
  ended,         \* the status the loop ended with: "completed" or "other"
  worktree,      \* the host worktree
  volume,        \* the docker volume of each run
  stash,         \* <worktree>.pre-resume-<slug> of each run
  todo,          \* what an extraction in progress still has to write
  exportFailed,  \* runs with DockerSandbox._export_failed
  keepVolume,    \* runs with cfg.keep_volume
  finalizeError, \* runs with finalize_state["error"]
  leaked,        \* the export container was never removed: it pins the volume
  status,        \* run.json: status
  prior,         \* run.json: resumed_from; 0 when fresh
  resumedBy,     \* run.json: resumed_by was set
  cleaned,       \* runs whose run directory is gone
  command,       \* the operator's command: its run, and --force
  scenario,      \* the events of this behaviour, chosen once
  \* History variables, read by no action.
  written,       \* runs whose worker has changed something
  discarded,     \* work removed by --force
  exported,      \* runs whose volume was extracted in full
  seed           \* the worktree as a resume found it

files   == <<worktree, volume, stash, todo>>
flags   == <<exportFailed, keepVolume, finalizeError>>
process == <<mode, ended, flags>>
records == <<status, prior, resumedBy, cleaned>>
history == <<written, discarded, exported, seed>>
vars == <<pc, process, files, leaked, records, command, scenario, history>>

Gone        == [there |-> FALSE, tree |-> {}]
Holding(t)  == [there |-> TRUE, tree |-> t]
Pristine    == Holding({})      \* nothing but the .git file

May(event) == event \in scenario

Seeded(r) == prior[r] # 0

Alive(r)  == pc[r] \notin {"new", "ended", "dead"}
Busy      == pc[Op] # "idle" \/ \E r \in Runs : Alive(r)
NoCommand == [run |-> Fresh, force |-> FALSE]
MayStart  == ~Busy \/ May("overlap")

\* pid_alive, as resume, export and clean ask it of a run they are given.
InProgress(r) == status[r] = "running" /\ Alive(r)

Goto(a, label) == pc' = [pc EXCEPT ![a] = label]
Set(f, r, v)   == [f EXCEPT ![r] = v]

\* The process is over, and with it what it kept in memory.
Exit(r, label) ==
  /\ Goto(r, label)
  /\ mode' = Set(mode, r, "finish") /\ ended' = Set(ended, r, "none")
  /\ exportFailed' = exportFailed \ {r}
  /\ keepVolume' = keepVolume \ {r}
  /\ finalizeError' = finalizeError \ {r}
  /\ seed' = Set(seed, r, {})

-----------------------------------------------------------------------------
Init ==
  /\ scenario \in Scenarios
  /\ pc = [a \in Agents |-> IF a = Op THEN "idle" ELSE "new"]
  /\ mode = [r \in Runs |-> "finish"]
  /\ ended = [r \in Runs |-> "none"]
  /\ worktree = Gone
  /\ volume = [r \in Runs |-> Gone]
  /\ stash = [r \in Runs |-> Gone]
  /\ todo = [a \in Agents |-> {}]
  /\ exportFailed = {} /\ keepVolume = {} /\ finalizeError = {}
  /\ leaked = {}
  /\ status = [r \in Runs |-> "absent"]
  /\ prior = [r \in Runs |-> 0]
  /\ resumedBy = {} /\ cleaned = {}
  /\ command = NoCommand
  /\ written = {} /\ discarded = {} /\ exported = {}
  /\ seed = [r \in Runs |-> {}]

-----------------------------------------------------------------------------
(* `dirtywork run` and `dirtywork resume`, up to a working sandbox.         *)

\* create_worktree(no_checkout=True), the run directory, run.json.
StartFresh ==
  /\ pc[Fresh] = "new" /\ MayStart
  /\ worktree' = Pristine
  /\ status' = Set(status, Fresh, "running")
  /\ Goto(Fresh, "setup")
  /\ UNCHANGED <<process, volume, stash, todo, leaked, prior, resumedBy,
                 cleaned, command, history>>

\* preflight_run_worktree: the prior run is not in progress, its worktree is
\* there, and no stash of an interrupted resume is parked beside it.
Resumable(p) ==
  /\ status[p] # "absent" /\ p \notin cleaned
  /\ ~InProgress(p)
  /\ worktree.there
  /\ \A r \in Runs : ~stash[r].there

StartResume(r, p) ==
  /\ pc[r] = "new" /\ MayStart
  /\ p < r /\ \A q \in 1..(r - 1) : pc[q] # "new"
  /\ Resumable(p)
  /\ status' = Set(status, r, "running")
  /\ prior' = Set(prior, r, p)
  /\ resumedBy' = resumedBy \cup {p}
  /\ Goto(r, "setup")
  /\ UNCHANGED <<process, files, leaked, cleaned, command, history>>

CreateVolume(r) ==
  /\ pc[r] = "setup"
  /\ volume' = Set(volume, r, Pristine)
  /\ Goto(r, "seeding")
  /\ UNCHANGED <<process, worktree, stash, todo, leaked, records, command,
                 history>>

\* A fresh volume gets the base commit's files, a resumed one the worktree's.
SeedVolume(r) ==
  /\ pc[r] = "seeding"
  /\ volume' = Set(volume, r, Holding(IF Seeded(r) THEN worktree.tree ELSE {Base}))
  /\ seed' = Set(seed, r, worktree.tree)
  /\ Goto(r, "working")
  /\ UNCHANGED <<process, worktree, stash, todo, leaked, records, command,
                 written, discarded, exported>>

\* `docker volume rm`: it may fail, and fails while a container uses the volume.
RemoveVolume(r) ==
  \/ r \notin leaked /\ volume' = Set(volume, r, Gone)
  \/ volume[r].there /\ UNCHANGED volume

\* start() raised: stop() removes the volume, _fail_setup a worktree of its own.
SetupFails(r) ==
  /\ pc[r] \in {"setup", "seeding"}
  /\ RemoveVolume(r)
  /\ worktree' = IF Seeded(r) THEN worktree ELSE Gone
  /\ status' = Set(status, r, "other")
  /\ Exit(r, "ended")
  /\ UNCHANGED <<stash, todo, leaked, prior, resumedBy, cleaned, command, written,
                 discarded, exported>>

WorkerWrites(r) ==
  /\ pc[r] = "working" /\ r \notin written
  /\ volume' = Set(volume, r, Holding(volume[r].tree \cup {r}))
  /\ written' = written \cup {r}
  /\ UNCHANGED <<pc, process, worktree, stash, todo, leaked, records, command,
                 discarded, exported, seed>>

\* The runner ends the loop itself, or an exception does and _fail_run takes over.
LoopEnds(r) ==
  /\ pc[r] = "working"
  /\ \/ ended' \in {Set(ended, r, "completed"), Set(ended, r, "other")} /\ UNCHANGED mode
     \/ ended' = Set(ended, r, "other") /\ mode' = Set(mode, r, "fail")
  /\ Goto(r, "stop_worker")
  /\ UNCHANGED <<files, flags, leaked, records, command, history>>

-----------------------------------------------------------------------------
(* finalize(): stash, export, then drop the stash or restore it.            *)

\* An exception leaves finalize(): the runner notes it, _fail_run keeps the volume.
Escape(r) ==
  /\ IF mode[r] = "finish"
       THEN /\ finalizeError' = finalizeError \cup {r}
            /\ UNCHANGED keepVolume
       ELSE /\ keepVolume' = keepVolume \cup {r}
            /\ UNCHANGED finalizeError
  /\ UNCHANGED exportFailed
  /\ Goto(r, "stop")

\* aside.mkdir() refuses to reuse a stash.
StopWorker(r) ==
  /\ pc[r] = "stop_worker"
  /\ IF ~Seeded(r)
       THEN Goto(r, "export") /\ UNCHANGED <<stash, flags>>
       ELSE \/ /\ ~stash[r].there
               /\ stash' = Set(stash, r, Pristine)
               /\ Goto(r, "stashing")
               /\ UNCHANGED flags
            \/ /\ stash[r].there \/ May("host_error")
               /\ Escape(r)
               /\ UNCHANGED stash
  /\ UNCHANGED <<mode, ended, worktree, volume, todo, leaked, records, command, history>>

StashEntry(r) ==
  /\ pc[r] = "stashing"
  /\ \E e \in worktree.tree :
       /\ worktree' = [worktree EXCEPT !.tree = @ \ {e}]
       /\ stash' = Set(stash, r, Holding(stash[r].tree \cup {e}))
  /\ UNCHANGED <<pc, process, volume, todo, leaked, records, command, history>>

StashDone(r) ==
  /\ pc[r] = "stashing" /\ worktree.tree = {}
  /\ Goto(r, "export")
  /\ UNCHANGED <<process, files, leaked, records, command, history>>

\* A rename on the way to or from the stash fails, in code no `try` covers.
RenameFails(r) ==
  /\ May("host_error")
  /\ pc[r] \in {"stashing", "restoring"}
  /\ Escape(r)
  /\ UNCHANGED <<mode, ended, files, leaked, records, command, history>>

\* Mutant: only the export's own verdict keeps the volume for a retry.
VolumeKeptBlind(r) == r \in keepVolume

VolumeKept(r) == r \in keepVolume \cup exportFailed

-----------------------------------------------------------------------------
(* export_run, by a run's finalize() or by `runs export`.                   *)

Target(a) == IF a = Op THEN command.run ELSE a

\* The export container mounts the volume: docker creates one that is missing.
ExportBegins(a) ==
  /\ pc[a] = "export"
  /\ worktree = Pristine /\ Target(a) \notin leaked
  /\ volume' = Set(volume, Target(a), [volume[Target(a)] EXCEPT !.there = TRUE])
  /\ todo' = [todo EXCEPT ![a] = volume[Target(a)].tree]
  /\ Goto(a, "extracting")
  /\ UNCHANGED <<process, worktree, stash, leaked, records, command, history>>

\* The worktree is not pristine, the container cannot be created (its name may
\* be taken by a leaked one), or a git step in it fails.
ExportRefused(a) ==
  /\ pc[a] = "export"
  /\ Goto(a, "export_failed")
  /\ UNCHANGED <<process, files, leaked, records, command, history>>

ExtractEntry(a) ==
  /\ pc[a] = "extracting"
  /\ \E e \in todo[a] \ worktree.tree :
       /\ worktree' = [worktree EXCEPT !.tree = @ \cup {e}]
       /\ todo' = [todo EXCEPT ![a] = @ \ {e}]
  /\ UNCHANGED <<pc, process, volume, stash, leaked, records, command, history>>

\* A limit, a full disk, a member already there, `git archive` killed: _fail
\* leaves only the .git file, and the volume.
ExtractFails(a) ==
  /\ pc[a] = "extracting"
  /\ worktree' = [worktree EXCEPT !.tree = {}]
  /\ todo' = [todo EXCEPT ![a] = {}]
  /\ Goto(a, "export_failed")
  /\ UNCHANGED <<process, volume, stash, leaked, records, command, history>>

ExtractDone(a) ==
  /\ pc[a] = "extracting" /\ todo[a] = {}
  /\ IF a # Op /\ Target(a) \in keepVolume THEN UNCHANGED volume ELSE RemoveVolume(Target(a))
  /\ exported' = exported \cup {Target(a)}
  /\ Goto(a, "exported")
  /\ UNCHANGED <<process, worktree, stash, todo, leaked, records, command,
                 written, discarded, seed>>

Export(a) == \/ ExportBegins(a) \/ ExportRefused(a)
             \/ ExtractEntry(a) \/ ExtractFails(a) \/ ExtractDone(a)

-----------------------------------------------------------------------------
(* The rest of finalize(), and the end of the process.                      *)

\* rmtree(aside), then host_read_tree, which may raise.
FinalizeOk(r) ==
  /\ pc[r] = "exported"
  /\ stash' = Set(stash, r, Gone)
  /\ \/ Goto(r, "stop") /\ UNCHANGED flags
     \/ May("host_error") /\ Escape(r)
  /\ UNCHANGED <<mode, ended, worktree, volume, todo, leaked, records, command, history>>

\* Mutant: the prior work stays in the stash after a failed export.
RestoreLater(r) == FALSE

RestoreNow(r) == Seeded(r)

\* _restore_prior_worktree clears the worktree before it moves anything back.
FinalizeFailed(r) ==
  /\ pc[r] = "export_failed"
  /\ exportFailed' = exportFailed \cup {r}
  /\ IF RestoreNow(r)
       THEN worktree' = [worktree EXCEPT !.tree = {}] /\ Goto(r, "restoring")
       ELSE Goto(r, "stop") /\ UNCHANGED worktree
  /\ UNCHANGED <<mode, ended, volume, stash, todo, keepVolume, finalizeError, leaked,
                 records, command, history>>

RestoreEntry(r) ==
  /\ pc[r] = "restoring"
  /\ \E e \in stash[r].tree :
       /\ worktree' = [worktree EXCEPT !.tree = @ \cup {e}]
       /\ stash' = Set(stash, r, Holding(stash[r].tree \ {e}))
  /\ UNCHANGED <<pc, process, volume, todo, leaked, records, command, history>>

RestoreDone(r) ==
  /\ pc[r] = "restoring" /\ stash[r].tree = {}
  /\ stash' = Set(stash, r, Gone)
  /\ Goto(r, "stop")
  /\ UNCHANGED <<process, worktree, volume, todo, leaked, records, command,
                 history>>

\* The turn that holds run_end cannot be written: _fail_run finalizes once more.
RunEndLost(r) ==
  /\ pc[r] = "stop" /\ mode[r] = "finish" /\ May("log_error")
  /\ mode' = Set(mode, r, "fail")
  /\ Goto(r, "stop_worker")
  /\ UNCHANGED <<ended, files, flags, leaked, records, command, history>>

\* sandbox.stop(), in the `finally` of _execute.
StopSandbox(r) ==
  /\ pc[r] = "stop"
  /\ IF VolumeKept(r) THEN UNCHANGED volume ELSE RemoveVolume(r)
  /\ IF mode[r] = "exit" THEN Exit(r, "dead")
                         ELSE Goto(r, "report") /\ UNCHANGED <<process, seed>>
  /\ UNCHANGED <<worktree, stash, todo, leaked, records, command, written, discarded,
                 exported>>

\* Mutant: an exception out of finalize() is not looked at.
FinalStatusBlind(r) ==
  IF ended[r] = "completed" /\ r \in exportFailed THEN "export_failed" ELSE ended[r]

\* _final_status, or _fail_run's own: only "completed" gives way to export_failed.
FinalStatus(r) ==
  IF mode[r] = "fail" THEN "other"
  ELSE IF ended[r] = "completed" /\ r \in finalizeError \cup exportFailed
       THEN "export_failed" ELSE ended[r]

\* The update of run.json is best effort: it may be lost.
Report(r) ==
  /\ pc[r] = "report"
  /\ status' \in {status, Set(status, r, FinalStatus(r))}
  /\ Exit(r, "ended")
  /\ UNCHANGED <<files, leaked, prior, resumedBy, cleaned, command, written, discarded,
                 exported>>

-----------------------------------------------------------------------------
(* A run cut short.                                                         *)

\* The process is gone; its worker dies with it, the volume and the files stay.
\* An export container that was up stays too, stopped.
Crash(r) ==
  /\ May("crash") /\ Alive(r)
  /\ Cardinality({q \in Runs : pc[q] = "dead"}) < MaxDead
  /\ leaked' = IF pc[r] = "extracting" THEN leaked \cup {r} ELSE leaked
  /\ todo' = [todo EXCEPT ![r] = {}]
  /\ Exit(r, "dead")
  /\ UNCHANGED <<worktree, volume, stash, records, command, written, discarded, exported>>

\* Ctrl-C in the loop ends the run "interrupted"; before the loop and after
\* finalize() it ends the process.
InterruptRun(r) ==
  /\ May("interrupt")
  /\ \/ /\ pc[r] = "working"
        /\ ended' = Set(ended, r, "other")
        /\ Goto(r, "stop_worker")
        /\ UNCHANGED <<mode, flags, seed>>
     \/ /\ pc[r] \in {"setup", "seeding", "stop", "report"}
        /\ Exit(r, "dead")
  /\ UNCHANGED <<files, leaked, records, command, written, discarded, exported>>

\* Ctrl-C in finalize(): the runner finishes again as "interrupted", but the
\* export is never tried again; in _fail_run it ends the process, after stop().
\* Inside export_run the stash is restored first, and the container leaks.
InterruptFinalize(r) ==
  /\ May("interrupt")
  /\ pc[r] \in {"stop_worker", "stashing", "export", "extracting", "exported",
                "export_failed", "restoring"}
  /\ IF mode[r] = "finish"
       THEN /\ finalizeError' = finalizeError \cup {r}
            /\ ended' = Set(ended, r, "other")
            /\ UNCHANGED mode
       ELSE /\ mode' = Set(mode, r, "exit")
            /\ UNCHANGED <<finalizeError, ended>>
  /\ IF pc[r] \in {"export", "extracting"} /\ Seeded(r)
       THEN Goto(r, "restoring") /\ worktree' = [worktree EXCEPT !.tree = {}]
       ELSE Goto(r, "stop") /\ UNCHANGED worktree
  /\ leaked' = IF pc[r] = "extracting" THEN leaked \cup {r} ELSE leaked
  /\ todo' = [todo EXCEPT ![r] = {}]
  /\ UNCHANGED <<volume, stash, exportFailed, keepVolume, records, command, history>>

-----------------------------------------------------------------------------
(* The operator: `runs export`, `runs clean`, and a stash moved back by hand.*)

CommandEnds == Goto(Op, "idle") /\ command' = NoCommand

Recorded(r) == status[r] # "absent" /\ r \notin cleaned

ExportCommand(r) ==
  /\ pc[Op] = "idle" /\ MayStart
  /\ Recorded(r) /\ ~InProgress(r)
  /\ worktree = Pristine /\ volume[r].there
  /\ command' = [run |-> r, force |-> FALSE]
  /\ Goto(Op, "export")
  /\ UNCHANGED <<process, files, leaked, records, history>>

\* _export_status_update.
MergedStatus(old, ok) ==
  IF ok THEN IF old \in {"running", "export_failed"} THEN "completed" ELSE old
        ELSE IF old \in {"running", "completed"} THEN "export_failed" ELSE old

MergeExport ==
  /\ pc[Op] \in {"exported", "export_failed"}
  /\ status' = Set(status, command.run,
                   MergedStatus(status[command.run], pc[Op] = "exported"))
  /\ CommandEnds
  /\ UNCHANGED <<process, files, leaked, prior, resumedBy, cleaned,
                 history>>

ExportCommandDies ==
  /\ May("crash") \/ May("interrupt")
  /\ pc[Op] \in {"export", "extracting", "exported", "export_failed"}
  /\ leaked' = IF pc[Op] = "extracting" THEN leaked \cup {command.run} ELSE leaked
  /\ todo' = [todo EXCEPT ![Op] = {}]
  /\ CommandEnds
  /\ UNCHANGED <<process, worktree, volume, stash, records, history>>

\* _staleness: a run marked running needs a dead process and --force.
CleanCommand(r, force) ==
  /\ pc[Op] = "idle" /\ MayStart
  /\ force \/ May("clean")
  /\ Recorded(r)
  /\ status[r] = "running" => ~Alive(r) /\ force
  /\ command' = [run |-> r, force |-> force]
  /\ Goto(Op, "clean_volume")
  /\ UNCHANGED <<process, files, leaked, records, history>>

\* What --force removes is given up on purpose.
Discard(trees) == discarded' = IF command.force THEN discarded \cup trees ELSE discarded

\* The docker resources go first; one that cannot be removed stops the command.
CleanVolume ==
  /\ pc[Op] = "clean_volume"
  /\ \/ /\ command.run \notin leaked
        /\ volume' = Set(volume, command.run, Gone)
        /\ Discard(volume[command.run].tree)
        /\ Goto(Op, "clean_worktree")
        /\ UNCHANGED command
     \/ /\ CommandEnds
        /\ UNCHANGED <<volume, discarded>>
  /\ UNCHANGED <<process, worktree, stash, todo, leaked, records,
                 written, exported, seed>>

StashedWork == UNION {stash[r].tree : r \in Runs}
NoStashes   == [r \in Runs |-> Gone]

\* `git status` is clean only when the tree is the base commit's.
Dirty == worktree.tree # {Base}

\* A worktree that a later resume took over is kept; with --force its stashes
\* are not.
CleanShared ==
  /\ pc[Op] = "clean_worktree" /\ command.run \in resumedBy
  /\ IF command.force
       THEN stash' = NoStashes /\ Discard(StashedWork)
       ELSE UNCHANGED <<stash, discarded>>
  /\ cleaned' = cleaned \cup {command.run}
  /\ CommandEnds
  /\ UNCHANGED <<process, worktree, volume, todo, leaked, status, prior,
                 resumedBy, written, exported, seed>>

CleanRefused ==
  /\ pc[Op] = "clean_worktree" /\ command.run \notin resumedBy
  /\ worktree.there /\ Dirty /\ ~command.force
  /\ CommandEnds
  /\ UNCHANGED <<process, files, leaked, records, history>>

CleanWorktree ==
  /\ pc[Op] = "clean_worktree" /\ command.run \notin resumedBy
  /\ worktree.there /\ Dirty => command.force
  /\ worktree' = Gone
  /\ stash' = NoStashes
  /\ Discard(worktree.tree \cup StashedWork)
  /\ cleaned' = cleaned \cup {command.run}
  /\ CommandEnds
  /\ UNCHANGED <<process, volume, todo, leaked, status, prior, resumedBy,
                 written, exported, seed>>

\* The documented way on after an interrupted resume: its stash moved back.
RecoverStash(r) ==
  /\ ~Busy /\ stash[r].there /\ worktree.there
  /\ worktree' = [worktree EXCEPT !.tree = @ \cup stash[r].tree]
  /\ stash' = Set(stash, r, Gone)
  /\ UNCHANGED <<pc, process, volume, todo, leaked, records, command, history>>

-----------------------------------------------------------------------------
Start(r)    == \/ CreateVolume(r) \/ SeedVolume(r) \/ SetupFails(r)
               \/ r = Fresh /\ StartFresh
               \/ \E p \in Runs : StartResume(r, p)
Finalize(r) == \/ StopWorker(r) \/ StashEntry(r) \/ StashDone(r) \/ RenameFails(r)
               \/ Export(r) \/ FinalizeOk(r) \/ FinalizeFailed(r)
               \/ RestoreEntry(r) \/ RestoreDone(r)
RunStep(r)  == \/ Start(r) \/ WorkerWrites(r) \/ LoopEnds(r) \/ Finalize(r)
               \/ RunEndLost(r) \/ StopSandbox(r) \/ Report(r)
CutShort(r) == Crash(r) \/ InterruptRun(r) \/ InterruptFinalize(r)
OpStep      == \/ \E r \in Runs : ExportCommand(r) \/ RecoverStash(r)
               \/ \E r \in Runs, force \in BOOLEAN : CleanCommand(r, force)
               \/ Export(Op) \/ MergeExport \/ ExportCommandDies
               \/ CleanVolume \/ CleanShared \/ CleanRefused \/ CleanWorktree

Next == ((\E r \in Runs : RunStep(r) \/ CutShort(r)) \/ OpStep) /\ UNCHANGED scenario

Spec == Init /\ [][Next]_vars

-----------------------------------------------------------------------------
Kept == worktree.tree \cup StashedWork \cup UNION {volume[r].tree : r \in Runs}

(* What a worker has written is in the worktree, a stash or a volume until  *)
(* `runs clean --force` gives it up: whatever docker refuses, and wherever  *)
(* the process is killed.                                                   *)
WorkNotLost == scenario \subseteq {"crash"} => written \subseteq Kept \cup discarded

(* docs/operating.md:311: "the prior work is moved aside during the final   *)
(* export and put back if that export fails, so a failed resume leaves the  *)
(* worktree exactly as it was."                                             *)
FailedResumeRestores ==
  scenario \subseteq {"crash"} =>
    \A r \in Runs :
      pc[r] \in {"stop", "report"} /\ Seeded(r) /\ r \notin exported => worktree.tree = seed[r]

(* A run that run.json calls completed was exported: neither an exception   *)
(* out of finalize(), nor a second finalize(), nor a retried `runs export`  *)
(* turns an undelivered run into a completed one (_final_status,            *)
(* _export_status_update).                                                  *)
CompletedIsExported == \A r \in Runs : status[r] = "completed" => r \in exported

-----------------------------------------------------------------------------
(* Stated by the documentation, and not what the code does.                 *)

(* docs/operating.md:298: "A run that ended early (`max_turns`, `stalled`,  *)
(* `timeout`, `interrupted`, a crash) keeps its worktree.  Continue it on   *)
(* the same worktree": the work of a run that Ctrl-C ended is still         *)
(* somewhere once the run is over.                                          *)
InterruptedRunKeepsWork ==
  \A r \in written : pc[r] = "ended" => r \in Kept \cup discarded
=============================================================================
