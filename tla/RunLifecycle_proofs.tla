------------------------ MODULE RunLifecycle_proofs ------------------------
(***************************************************************************)
(* Where the work of a run is, for every number of runs and resumes.       *)
(*                                                                         *)
(* CompletedIsExported holds in every scenario, also when commands overlap *)
(* and Ctrl-C strikes anywhere: on the way from finalize() to run.json an  *)
(* undelivered run is remembered in one of three places (CompletedInv).    *)
(*                                                                         *)
(* WorkNotLost and FailedResumeRestores are about runs that are killed and *)
(* docker commands that fail.  Only one process works on the worktree at a *)
(* time (Exclusive), and at each of its labels Phase says in which of the  *)
(* worktree, the stash and the volume the work is.                         *)
(*                                                                         *)
(* The last section is about run.json, through which the commands find out *)
(* about one another: only the holder of its lock changes it               *)
(* (JsonCheckedInv), which makes every update of it atomic.                *)
(***************************************************************************)
EXTENDS RunLifecycle, RunJson, TLAPS

Dirs == [there : BOOLEAN, tree : SUBSET Work]

Labels == {"new", "setup", "seeding", "working", "stop_worker", "stashing", "export",
           "extracting", "exported", "export_failed", "restoring", "stop", "report", "ended",
           "dead", "idle", "clean_volume", "clean_worktree"}

ControlOK ==
  /\ pc \in [Agents -> Labels]
  /\ mode \in [Runs -> {"finish", "fail", "exit"}]
  /\ ended \in [Runs -> {"none", "completed", "other"}]
  /\ status \in [Runs -> {"absent", "running", "completed", "export_failed", "other", "none"}]
  /\ prior \in [Runs -> Runs \cup {0}]

OpCommands == [run : Runs, force : BOOLEAN]

CommandOK == command \in OpCommands
DirsOK    == worktree \in Dirs /\ volume \in [Runs -> Dirs] /\ stash \in [Runs -> Dirs]
SetsOK    == todo \in [Agents -> SUBSET Work] /\ seed \in [Runs -> SUBSET Work]

TypeInv == ControlOK /\ CommandOK /\ DirsOK /\ SetsOK

(* The operator is not a run, and run 0 is no run.                          *)
LEMMA AgentsAre ==
  /\ Fresh \in Runs /\ Op \notin Runs /\ 0 \notin Runs /\ Runs \subseteq Agents /\ Op \in Agents
  /\ \A a \in Agents : a = Op \/ a \in Runs
  /\ Base \in Work /\ Runs \subseteq Work
  BY LifecycleAssumption DEF LifecycleAssumption, Fresh, Op, Runs, Agents, Base, Work

(* What the constructors of directories make.                               *)
LEMMA DirsAre ==
  /\ Gone \in Dirs /\ Gone.tree = {} /\ ~Gone.there
  /\ Pristine \in Dirs /\ Pristine.tree = {} /\ Pristine.there
  /\ \A t \in SUBSET Work : Holding(t) \in Dirs /\ Holding(t).tree = t /\ Holding(t).there
  /\ \A d \in Dirs : d.tree \in SUBSET Work
  BY DEF Dirs, Gone, Pristine, Holding

(* Removing a volume leaves the others alone, and that one as it was or gone.*)
LEMMA RemovedVolume ==
  ASSUME NEW r \in Runs, RemoveVolume(r), DirsOK
  PROVE  volume' \in [Runs -> Dirs] /\ volume' \in {volume, Set(volume, r, Gone)}
  BY DirsAre DEF RemoveVolume, Set, DirsOK

(* export_run works for a run or for `runs export`, on a run's volume.       *)
LEMMA TargetIsRun == CommandOK => \A a \in Agents : Target(a) \in Runs
  BY DEF CommandOK, OpCommands, Target, Agents, Op

(* A command is about a run.                                                 *)
LEMMA CommandsAre ==
  NoCommand \in OpCommands /\ \A r \in Runs, f \in BOOLEAN : [run |-> r, force |-> f] \in OpCommands
<1>1. \A r \in Runs, f \in BOOLEAN : [run |-> r, force |-> f] \in OpCommands
  BY DEF OpCommands
<1>2. FALSE \in BOOLEAN
  OBVIOUS
<1> QED
  BY <1>1, <1>2, AgentsAre DEF NoCommand

(* One entry of a table is replaced.                                         *)
LEMMA SetIs ==
  ASSUME NEW S, NEW f \in [Runs -> S], NEW r \in Runs, NEW v \in S
  PROVE  /\ Set(f, r, v) \in [Runs -> S]
         /\ Set(f, r, v)[r] = v
         /\ \A q \in Runs \ {r} : Set(f, r, v)[q] = f[q]
  BY DEF Set

-----------------------------------------------------------------------------
(* Every variable stays in its set.                                         *)
LEMMA TypeInit == Init => TypeInv
  BY AgentsAre, DirsAre, CommandsAre
  DEF Init, TypeInv, ControlOK, CommandOK, DirsOK, SetsOK, Labels

(* Labels, modes, end statuses and run.json's fields.                        *)
LEMMA ControlStep == ControlOK /\ [Next]_vars => ControlOK'
<1> SUFFICES ASSUME ControlOK, [Next]_vars PROVE ControlOK'
  OBVIOUS
<1> USE AgentsAre DEF ControlOK, Labels, Goto, Set, Exit, process, files, flags,
       records, history
<1>1. ASSUME NEW r \in Runs, CreateVolume(r) \/ SeedVolume(r) \/ SetupFails(r)
      PROVE  ControlOK'
  BY <1>1 DEF CreateVolume, SeedVolume, SetupFails, Seeded, RemoveVolume
<1>2. ASSUME StartFresh PROVE ControlOK'
  BY <1>2 DEF StartFresh, MayStart
<1>3. ASSUME NEW r \in Runs, NEW p \in Runs, StartResume(r, p) PROVE ControlOK'
  BY <1>3 DEF StartResume
<1>4. ASSUME NEW r \in Runs, WorkerWrites(r) \/ LoopEnds(r) \/ RunEndLost(r) \/
             StopSandbox(r)
      PROVE  ControlOK'
  BY <1>4 DEF WorkerWrites, LoopEnds, RunEndLost, StopSandbox, RemoveVolume, VolumeKept
<1>5. ASSUME NEW r \in Runs, Report(r) PROVE ControlOK'
  <2>1. FinalStatus(r) \in {"completed", "export_failed", "other", "none"}
    BY DEF FinalStatus
  <2> QED
    BY <1>5, <2>1 DEF Report
<1>6. ASSUME NEW r \in Runs, StopWorker(r) \/ StashEntry(r) \/ StashDone(r) \/
             RenameFails(r)
      PROVE  ControlOK'
  BY <1>6 DEF StopWorker, StashEntry, StashDone, RenameFails, Escape, Seeded
<1>7. ASSUME NEW r \in Runs, FinalizeOk(r) \/ FinalizeFailed(r) \/ RestoreEntry(r) \/
             RestoreDone(r)
      PROVE  ControlOK'
  BY <1>7 DEF FinalizeOk, FinalizeFailed, RestoreEntry, RestoreDone, Escape, RestoreNow,
     Seeded
<1>8. ASSUME NEW a \in Agents, ExportBegins(a) \/ ExportRefused(a) \/ ExtractEntry(a) \/
             ExtractFails(a) \/ ExtractDone(a)
      PROVE  ControlOK'
  BY <1>8 DEF ExportBegins, ExportRefused, ExtractEntry, ExtractFails, ExtractDone,
     Target, RemoveVolume
<1>9. ASSUME NEW r \in Runs, Crash(r) \/ InterruptRun(r) PROVE ControlOK'
  BY <1>9 DEF Crash, InterruptRun
<1>10. ASSUME NEW r \in Runs, InterruptFinalize(r) PROVE ControlOK'
  BY <1>10 DEF InterruptFinalize, Seeded
<1>11. ASSUME NEW r \in Runs, ExportCommand(r) \/ RecoverStash(r) PROVE ControlOK'
  BY <1>11 DEF ExportCommand, RecoverStash
<1>12. ASSUME NEW r \in Runs, NEW force \in BOOLEAN, CleanCommand(r, force)
       PROVE  ControlOK'
  BY <1>12 DEF CleanCommand
<1>13. ASSUME MergeExport \/ ExportCommandDies \/ CleanVolume \/ CleanShared \/
              CleanRefused \/ CleanWorktree
       PROVE  ControlOK'
  BY <1>13 DEF MergeExport, ExportCommandDies, CleanVolume, CleanShared, CleanRefused,
     CleanWorktree, MergedStatus, CommandEnds, NoCommand, Discard, NoStashes
<1>14. CASE UNCHANGED vars
  BY <1>14 DEF vars
<1> QED
  BY <1>1, <1>2, <1>3, <1>4, <1>5, <1>6, <1>7, <1>8, <1>9, <1>10, <1>11, <1>12, <1>13,
     <1>14, AgentsAre DEF Next, RunStep, Start, Finalize, Export, CutShort, OpStep

(* The worktree, the volumes and the stashes.                                *)
LEMMA DirsStep == DirsOK /\ SetsOK /\ CommandOK /\ [Next]_vars => DirsOK'
<1> SUFFICES ASSUME DirsOK, SetsOK, CommandOK, [Next]_vars PROVE DirsOK'
  OBVIOUS
<1> USE AgentsAre, DirsAre, SetIs DEF DirsOK, SetsOK, CommandOK, Goto, Exit, process,
       files, flags, records, history
<1>1. ASSUME NEW r \in Runs, CreateVolume(r) PROVE DirsOK'
  BY <1>1 DEF CreateVolume
<1>2. ASSUME NEW r \in Runs, SeedVolume(r) PROVE DirsOK'
  <2>1. (IF Seeded(r) THEN worktree.tree ELSE {Base}) \in SUBSET Work
    OBVIOUS
  <2>2. Holding(IF Seeded(r) THEN worktree.tree ELSE {Base}) \in Dirs
    BY <2>1
  <2> QED
    BY <1>2, <2>2 DEF SeedVolume

<1>3. ASSUME NEW r \in Runs, SetupFails(r) PROVE DirsOK'
  BY <1>3, RemovedVolume DEF SetupFails, Seeded
<1>4. ASSUME StartFresh PROVE DirsOK'
  BY <1>4 DEF StartFresh, MayStart
<1>5. ASSUME NEW r \in Runs, NEW p \in Runs, StartResume(r, p) PROVE DirsOK'
  BY <1>5 DEF StartResume
<1>6. ASSUME NEW r \in Runs, LoopEnds(r) \/ RunEndLost(r) \/ Report(r) PROVE DirsOK'
  BY <1>6 DEF LoopEnds, RunEndLost, Report, FinalStatus
<1>7. ASSUME NEW r \in Runs, WorkerWrites(r) PROVE DirsOK'
  <2>1. volume[r].tree \cup {r} \in SUBSET Work
    OBVIOUS
  <2>2. Holding(volume[r].tree \cup {r}) \in Dirs
    BY <2>1
  <2> QED
    BY <1>7, <2>2 DEF WorkerWrites

<1>8. ASSUME NEW r \in Runs, StopSandbox(r) PROVE DirsOK'
  BY <1>8, RemovedVolume DEF StopSandbox, VolumeKept
<1>9. ASSUME NEW r \in Runs, StashDone(r) \/ RenameFails(r) PROVE DirsOK'
  BY <1>9 DEF StashDone, RenameFails
<1>10. ASSUME NEW r \in Runs, StopWorker(r) PROVE DirsOK'
  <2>1. UNCHANGED <<worktree, volume>> /\ (stash' = stash \/ stash' = Set(stash, r, Pristine))
    BY <1>10 DEF StopWorker
  <2>2. Set(stash, r, Pristine) \in [Runs -> Dirs]
    OBVIOUS
  <2> QED
    BY <2>1, <2>2

<1>11. ASSUME NEW r \in Runs, StashEntry(r) PROVE DirsOK'
  <2>1. PICK e \in worktree.tree :
             /\ worktree' = [worktree EXCEPT !.tree = worktree.tree \ {e}]
             /\ stash' = Set(stash, r, Holding(stash[r].tree \cup {e}))
    BY <1>11, Zenon DEF StashEntry
  <2>2. stash[r].tree \cup {e} \in SUBSET Work
    BY <2>1
  <2>3. Holding(stash[r].tree \cup {e}) \in Dirs
    BY <2>2
  <2>4. worktree.tree \ {e} \in SUBSET Work
    OBVIOUS
  <2>5. worktree' \in Dirs
    BY <2>1, <2>4 DEF Dirs
  <2> QED
    BY <1>11, <2>1, <2>3, <2>5 DEF StashEntry

<1>12. ASSUME NEW r \in Runs, FinalizeOk(r) PROVE DirsOK'
  BY <1>12 DEF FinalizeOk
<1>13. ASSUME NEW r \in Runs, FinalizeFailed(r) PROVE DirsOK'
  BY <1>13 DEF FinalizeFailed, RestoreNow, Seeded, Dirs, Set
<1>14. ASSUME NEW r \in Runs, RestoreEntry(r) PROVE DirsOK'
  <2>1. PICK e \in stash[r].tree :
          /\ worktree' = [worktree EXCEPT !.tree = @ \cup {e}]
          /\ stash' = Set(stash, r, Holding(stash[r].tree \ {e}))
    BY <1>14 DEF RestoreEntry
  <2>2. stash[r].tree \in SUBSET Work
    OBVIOUS
  <2>3. stash' \in [Runs -> Dirs]
    BY <2>1, <2>2
  <2>4. worktree' \in Dirs
    BY <2>1, <2>2 DEF Dirs
  <2> QED
    BY <1>14, <2>3, <2>4 DEF RestoreEntry
<1>15. ASSUME NEW r \in Runs, RestoreDone(r) PROVE DirsOK'
  BY <1>15 DEF RestoreDone
<1>16. ASSUME NEW a \in Agents, ExportRefused(a) PROVE DirsOK'
  BY <1>16 DEF ExportRefused
<1>17. ASSUME NEW a \in Agents, ExportBegins(a) PROVE DirsOK'
  <2>1. volume[Target(a)] \in Dirs
    BY TargetIsRun
  <2>2. \A d \in Dirs : [d EXCEPT !.there = TRUE] \in Dirs
    BY DEF Dirs
  <2>3. [volume[Target(a)] EXCEPT !.there = TRUE] \in Dirs
    BY <2>1, <2>2
  <2> QED
    BY <1>17, <2>3, TargetIsRun DEF ExportBegins

<1>18. ASSUME NEW a \in Agents, ExtractEntry(a) PROVE DirsOK'
  BY <1>18 DEF ExtractEntry, Dirs, Set
<1>19. ASSUME NEW a \in Agents, ExtractFails(a) PROVE DirsOK'
  BY <1>19 DEF ExtractFails, Dirs, Set
<1>20. ASSUME NEW a \in Agents, ExtractDone(a) PROVE DirsOK'
  BY <1>20, RemovedVolume, TargetIsRun DEF ExtractDone, Target
<1>21. ASSUME NEW r \in Runs, Crash(r) \/ InterruptRun(r) PROVE DirsOK'
  BY <1>21 DEF Crash, InterruptRun
<1>22. ASSUME NEW r \in Runs, InterruptFinalize(r) PROVE DirsOK'
  BY <1>22 DEF InterruptFinalize, Seeded, Dirs, Set
<1>23. ASSUME NEW r \in Runs, ExportCommand(r) PROVE DirsOK'
  BY <1>23 DEF ExportCommand
<1>24. ASSUME NEW r \in Runs, RecoverStash(r) PROVE DirsOK'
  BY <1>24 DEF RecoverStash, Dirs, Set
<1>25. ASSUME NEW r \in Runs, NEW force \in BOOLEAN, CleanCommand(r, force)
       PROVE  DirsOK'
  BY <1>25 DEF CleanCommand
<1>26. ASSUME MergeExport \/ ExportCommandDies \/ CleanRefused PROVE DirsOK'
  BY <1>26 DEF MergeExport, ExportCommandDies, CleanRefused, MergedStatus, CommandEnds,
     NoCommand
<1>27. ASSUME CleanVolume PROVE DirsOK'
  <2>1. UNCHANGED <<worktree, stash>> /\ (volume' = volume \/ volume' = Set(volume, command.run, Gone))
    BY <1>27 DEF CleanVolume
  <2>2. command.run \in Runs
    BY DEF OpCommands
  <2>3. Set(volume, command.run, Gone) \in [Runs -> Dirs]
    BY <2>2
  <2> QED
    BY <2>1, <2>3

<1>28. ASSUME CleanShared PROVE DirsOK'
  BY <1>28 DEF CleanShared, CommandEnds, NoCommand, Discard, NoStashes
<1>29. ASSUME CleanWorktree PROVE DirsOK'
  BY <1>29 DEF CleanWorktree, CommandEnds, NoCommand, Discard, NoStashes
<1>30. CASE UNCHANGED vars
  BY <1>30 DEF vars
<1> QED
  BY <1>1, <1>2, <1>3, <1>4, <1>5, <1>6, <1>7, <1>8, <1>9, <1>10, <1>11, <1>12, <1>13,
     <1>14, <1>15, <1>16, <1>17, <1>18, <1>19, <1>20, <1>21, <1>22, <1>23, <1>24, <1>25,
     <1>26, <1>27, <1>28, <1>29, <1>30, AgentsAre DEF Next, RunStep, Start, Finalize,
     Export, CutShort, OpStep

(* The extractions' remainders and the seeds.                                *)
LEMMA SetsStep == DirsOK /\ SetsOK /\ CommandOK /\ [Next]_vars => SetsOK'
<1> SUFFICES ASSUME DirsOK, SetsOK, CommandOK, [Next]_vars PROVE SetsOK'
  OBVIOUS
<1> USE AgentsAre DEF DirsOK, SetsOK, CommandOK, Dirs, Goto, Set, Exit, process, files,
       flags, records, history
<1>1. ASSUME NEW r \in Runs, CreateVolume(r) \/ SeedVolume(r) \/ SetupFails(r)
      PROVE  SetsOK'
  BY <1>1 DEF CreateVolume, SeedVolume, SetupFails, Seeded
<1>2. ASSUME StartFresh PROVE SetsOK'
  BY <1>2 DEF StartFresh, MayStart
<1>3. ASSUME NEW r \in Runs, NEW p \in Runs, StartResume(r, p) PROVE SetsOK'
  BY <1>3 DEF StartResume
<1>4. ASSUME NEW r \in Runs, WorkerWrites(r) \/ LoopEnds(r) \/ RunEndLost(r) \/
             StopSandbox(r) \/ Report(r)
      PROVE  SetsOK'
  BY <1>4 DEF WorkerWrites, LoopEnds, RunEndLost, StopSandbox, Report, VolumeKept,
     FinalStatus
<1>5. ASSUME NEW r \in Runs, StopWorker(r) \/ StashEntry(r) \/ StashDone(r) \/
             RenameFails(r)
      PROVE  SetsOK'
  BY <1>5 DEF StopWorker, StashEntry, StashDone, RenameFails, Seeded
<1>6. ASSUME NEW r \in Runs, FinalizeOk(r) \/ FinalizeFailed(r) \/ RestoreEntry(r) \/
             RestoreDone(r)
      PROVE  SetsOK'
  BY <1>6 DEF FinalizeOk, FinalizeFailed, RestoreEntry, RestoreDone, RestoreNow, Seeded
<1>7. ASSUME NEW a \in Agents, ExportRefused(a) \/ ExtractEntry(a) \/ ExtractFails(a) \/
             ExtractDone(a)
      PROVE  SetsOK'
  BY <1>7 DEF ExportRefused, ExtractEntry, ExtractFails, ExtractDone, Target
<1>8. ASSUME NEW a \in Agents, ExportBegins(a) PROVE SetsOK'
  BY <1>8, TargetIsRun DEF ExportBegins, Target
<1>9. ASSUME NEW r \in Runs, Crash(r) \/ InterruptRun(r) \/ InterruptFinalize(r)
      PROVE  SetsOK'
  BY <1>9 DEF Crash, InterruptRun, InterruptFinalize, Seeded
<1>10. ASSUME NEW r \in Runs, ExportCommand(r) \/ RecoverStash(r) PROVE SetsOK'
  BY <1>10 DEF ExportCommand, RecoverStash
<1>11. ASSUME NEW r \in Runs, NEW force \in BOOLEAN, CleanCommand(r, force)
       PROVE  SetsOK'
  BY <1>11 DEF CleanCommand
<1>12. ASSUME MergeExport \/ ExportCommandDies \/ CleanVolume \/ CleanShared \/
              CleanRefused \/ CleanWorktree
       PROVE  SetsOK'
  BY <1>12 DEF MergeExport, ExportCommandDies, CleanVolume, CleanShared, CleanRefused,
     CleanWorktree, MergedStatus, CommandEnds, NoCommand, Discard, NoStashes
<1>13. CASE UNCHANGED vars
  BY <1>13 DEF vars
<1> QED
  BY <1>1, <1>2, <1>3, <1>4, <1>5, <1>6, <1>7, <1>8, <1>9, <1>10, <1>11, <1>12, <1>13,
     AgentsAre DEF Next, RunStep, Start, Finalize, Export, CutShort, OpStep

(* The operator's command.                                                   *)
LEMMA CommandStep == CommandOK /\ [Next]_vars => CommandOK'
<1> SUFFICES ASSUME CommandOK, [Next]_vars PROVE CommandOK'
  OBVIOUS
<1> USE AgentsAre, CommandsAre DEF CommandOK, Goto, Set, Exit, process, files, flags,
       records, history
<1>1. ASSUME NEW r \in Runs, CreateVolume(r) \/ SeedVolume(r) \/ SetupFails(r)
      PROVE  CommandOK'
  BY <1>1 DEF CreateVolume, SeedVolume, SetupFails, Seeded
<1>2. ASSUME StartFresh PROVE CommandOK'
  BY <1>2 DEF StartFresh, MayStart
<1>3. ASSUME NEW r \in Runs, NEW p \in Runs, StartResume(r, p) PROVE CommandOK'
  BY <1>3 DEF StartResume
<1>4. ASSUME NEW r \in Runs, WorkerWrites(r) \/ LoopEnds(r) \/ RunEndLost(r) \/
             StopSandbox(r) \/ Report(r)
      PROVE  CommandOK'
  BY <1>4 DEF WorkerWrites, LoopEnds, RunEndLost, StopSandbox, Report, VolumeKept,
     FinalStatus
<1>5. ASSUME NEW r \in Runs, StopWorker(r) \/ StashEntry(r) \/ StashDone(r) \/
             RenameFails(r)
      PROVE  CommandOK'
  BY <1>5 DEF StopWorker, StashEntry, StashDone, RenameFails, Seeded
<1>6. ASSUME NEW r \in Runs, FinalizeOk(r) \/ FinalizeFailed(r) \/ RestoreEntry(r) \/
             RestoreDone(r)
      PROVE  CommandOK'
  BY <1>6 DEF FinalizeOk, FinalizeFailed, RestoreEntry, RestoreDone, RestoreNow, Seeded
<1>7. ASSUME NEW a \in Agents, ExportBegins(a) \/ ExportRefused(a) \/ ExtractEntry(a) \/
             ExtractFails(a) \/ ExtractDone(a)
      PROVE  CommandOK'
  BY <1>7 DEF ExportBegins, ExportRefused, ExtractEntry, ExtractFails, ExtractDone,
     Target
<1>8. ASSUME NEW r \in Runs, Crash(r) \/ InterruptRun(r) \/ InterruptFinalize(r)
      PROVE  CommandOK'
  BY <1>8 DEF Crash, InterruptRun, InterruptFinalize, Seeded
<1>9. ASSUME NEW r \in Runs, ExportCommand(r) \/ RecoverStash(r) PROVE CommandOK'
  BY <1>9 DEF ExportCommand, RecoverStash
<1>10. ASSUME NEW r \in Runs, NEW force \in BOOLEAN, CleanCommand(r, force)
       PROVE  CommandOK'
  BY <1>10 DEF CleanCommand
<1>11. ASSUME MergeExport \/ ExportCommandDies \/ CleanVolume \/ CleanShared \/
              CleanRefused \/ CleanWorktree
       PROVE  CommandOK'
  BY <1>11 DEF MergeExport, ExportCommandDies, CleanVolume, CleanShared, CleanRefused,
     CleanWorktree, MergedStatus, CommandEnds, NoStashes
<1>12. CASE UNCHANGED vars
  BY <1>12 DEF vars
<1> QED
  BY <1>1, <1>2, <1>3, <1>4, <1>5, <1>6, <1>7, <1>8, <1>9, <1>10, <1>11, <1>12,
     AgentsAre DEF Next, RunStep, Start, Finalize, Export, CutShort, OpStep

LEMMA TypeStep == TypeInv /\ [Next]_vars => TypeInv'
  BY ControlStep, DirsStep, SetsStep, CommandStep DEF TypeInv

(* Every variable of the life of the runs stays in its set, for every       *)
(* number of runs and in every scenario.                                    *)
THEOREM TypeCorrect == Spec => []TypeInv
  BY TypeInit, TypeStep, PTL DEF Spec

-----------------------------------------------------------------------------
(* Between finalize() and run.json an undelivered run is remembered: in     *)
(* exported when all went well, else in _export_failed or in                *)
(* finalize_state["error"].  A process that is dying reports nothing.       *)
CompletedInv ==
  /\ \A a \in Agents : pc[a] = "exported" => Target(a) \in exported
  /\ \A r \in Runs :
       /\ pc[r] \in {"restoring", "stop", "report"} /\ mode[r] = "finish" /\ ended[r] = "completed"
            => r \in exported \cup finalizeError \cup exportFailed
       /\ mode[r] = "exit" => pc[r] \in {"restoring", "stop"}
  /\ CompletedIsExported

LEMMA CompletedInit == Init => CompletedInv
  BY AgentsAre DEF Init, CompletedInv, CompletedIsExported, Target

(* No step forgets an undelivered run.                                       *)
LEMMA CompletedStep == ControlOK /\ CommandOK /\ CompletedInv /\ [Next]_vars => CompletedInv'
<1> SUFFICES ASSUME ControlOK, CommandOK, CompletedInv, [Next]_vars PROVE CompletedInv'
  OBVIOUS
<1> USE AgentsAre DEF CompletedInv, CompletedIsExported, ControlOK, Target, Goto, Set,
       Exit, process, files, flags, records, history
<1>1. ASSUME NEW r \in Runs, CreateVolume(r) \/ SeedVolume(r) \/ SetupFails(r)
      PROVE  CompletedInv'
  BY <1>1 DEF CreateVolume, SeedVolume, SetupFails, Seeded
<1>2. ASSUME StartFresh PROVE CompletedInv'
  BY <1>2 DEF StartFresh, MayStart
<1>3. ASSUME NEW r \in Runs, NEW p \in Runs, StartResume(r, p) PROVE CompletedInv'
  BY <1>3 DEF StartResume
<1>4. ASSUME NEW r \in Runs, WorkerWrites(r) \/ LoopEnds(r) \/ RunEndLost(r) \/
             StopSandbox(r) \/ Report(r)
      PROVE  CompletedInv'
  BY <1>4 DEF WorkerWrites, LoopEnds, RunEndLost, StopSandbox, Report, VolumeKept,
     FinalStatus
<1>5. ASSUME NEW r \in Runs, StopWorker(r) \/ StashEntry(r) \/ StashDone(r) \/
             RenameFails(r)
      PROVE  CompletedInv'
  BY <1>5 DEF StopWorker, StashEntry, StashDone, RenameFails, Escape, Seeded
<1>6. ASSUME NEW r \in Runs, FinalizeOk(r) \/ FinalizeFailed(r) \/ RestoreEntry(r) \/
             RestoreDone(r)
      PROVE  CompletedInv'
  BY <1>6 DEF FinalizeOk, FinalizeFailed, RestoreEntry, RestoreDone, Escape, Seeded
<1>7. ASSUME NEW a \in Agents, ExportBegins(a) \/ ExportRefused(a) \/ ExtractEntry(a) \/
             ExtractFails(a) \/ ExtractDone(a)
      PROVE  CompletedInv'
  BY <1>7 DEF ExportBegins, ExportRefused, ExtractEntry, ExtractFails, ExtractDone,
     Target
<1>8. ASSUME NEW r \in Runs, Crash(r) \/ InterruptRun(r) \/ InterruptFinalize(r)
      PROVE  CompletedInv'
  BY <1>8 DEF Crash, InterruptRun, InterruptFinalize, Seeded
<1>9. ASSUME NEW r \in Runs, ExportCommand(r) \/ RecoverStash(r) PROVE CompletedInv'
  BY <1>9 DEF ExportCommand, RecoverStash
<1>10. ASSUME NEW r \in Runs, NEW force \in BOOLEAN, CleanCommand(r, force)
       PROVE  CompletedInv'
  BY <1>10 DEF CleanCommand
<1>11. ASSUME MergeExport \/ ExportCommandDies \/ CleanVolume \/ CleanShared \/
              CleanRefused \/ CleanWorktree
       PROVE  CompletedInv'
  BY <1>11, TargetIsRun DEF MergeExport, ExportCommandDies, CleanVolume, CleanShared,
     CleanRefused, CleanWorktree, MergedStatus, CommandEnds, NoStashes
<1>12. CASE UNCHANGED vars
  BY <1>12 DEF vars
<1> QED
  BY <1>1, <1>2, <1>3, <1>4, <1>5, <1>6, <1>7, <1>8, <1>9, <1>10, <1>11, <1>12,
     AgentsAre DEF Next, RunStep, Start, Finalize, Export, CutShort, OpStep

(* run.json calls a run completed only when its volume was extracted in     *)
(* full (_final_status, _export_status_update), in every scenario: docker   *)
(* refusing, renames failing, Ctrl-C, kills, a lost run_end and commands    *)
(* that overlap.                                                            *)
THEOREM CompletedRunsWereExported == Spec => []CompletedIsExported
<1>1. Init => TypeInv /\ CompletedInv
  BY TypeInit, CompletedInit
<1>2. TypeInv /\ CompletedInv /\ [Next]_vars => (TypeInv /\ CompletedInv)'
  BY TypeStep, CompletedStep DEF TypeInv
<1>3. TypeInv /\ CompletedInv => CompletedIsExported
  BY DEF CompletedInv
<1> QED
  BY <1>1, <1>2, <1>3, PTL DEF Spec

-----------------------------------------------------------------------------
(* The scenarios of WorkNotLost and FailedResumeRestores.                    *)
CrashOnly == scenario \subseteq {"crash"}

Active(a) == IF a = Op THEN pc[Op] # "idle" ELSE Alive(a)

(* Nothing overlaps: one process, or the operator's command, at a time.      *)
Exclusive == \A a, b \in Agents : Active(a) /\ Active(b) => a = b

(* A run that started has a record; before the first one there is nothing.   *)
RecordsInv ==
  /\ \A r \in Runs : pc[r] = "new" <=> status[r] = "absent"
  /\ \A r \in Runs : pc[r] = "new" => prior[r] = 0
  /\ pc[Op] # "idle" => status[command.run] # "absent"
  /\ pc[Fresh] = "new" => worktree.tree = {} /\ pc[Op] = "idle" /\ \A r \in Runs : pc[r] = "new"
  /\ pc[Op] \in {"clean_volume", "clean_worktree"} => command.force

(* What an extraction has not written yet is still to be written.            *)
Extracting(a) == volume[Target(a)].tree = todo[a] \cup worktree.tree

(* Where the work of run r is, label by label.                               *)
Phase(r) ==
  /\ ~Seeded(r) => stash[r].tree = {}
  /\ pc[r] \in {"new", "setup", "seeding"} => volume[r].tree = {}
  /\ pc[r] \in {"new", "setup", "seeding", "working", "stop_worker"} =>
        ~stash[r].there /\ stash[r].tree = {}
  /\ pc[r] \in {"setup", "seeding", "working", "stop_worker"} /\ ~Seeded(r) => worktree.tree = {}
  /\ pc[r] \in {"working", "stop_worker"} /\ Seeded(r) => worktree.tree = seed[r]
  /\ pc[r] \in {"stashing", "restoring"} => Seeded(r) /\ seed[r] = stash[r].tree \cup worktree.tree
  /\ pc[r] \in {"working", "stop_worker", "stashing", "export", "extracting"} /\ Seeded(r)
       => seed[r] \subseteq volume[r].tree
  /\ pc[r] \in {"export", "extracting", "export_failed"} /\ Seeded(r) => stash[r].tree = seed[r]
  /\ pc[r] \in {"export", "export_failed"} => worktree.tree = {}
  /\ pc[r] = "extracting" => Extracting(r)
  /\ pc[r] = "exported" =>
       /\ r \in exported
       /\ volume[r].tree \subseteq worktree.tree
       /\ Seeded(r) => stash[r].tree \subseteq worktree.tree
  /\ pc[r] = "restoring" => r \in exportFailed
  /\ pc[r] = "stop" => r \in exportFailed \/ volume[r].tree \subseteq worktree.tree
  /\ pc[r] \in {"stop", "report"} /\ Seeded(r) /\ r \notin exported => worktree.tree = seed[r]

OpPhase == pc[Op] = "extracting" => Extracting(Op)

(* An entry of some tree is somewhere, or was given up.                      *)
Held(e) ==
  \/ e \in worktree.tree \cup discarded
  \/ \E q \in Runs : e \in stash[q].tree \cup volume[q].tree

HeldInv == \A e \in written : Held(e)

CrashInv ==
  /\ Exclusive
  /\ RecordsInv
  /\ \A r \in Runs : Phase(r)
  /\ OpPhase
  /\ HeldInv

(* Held says of one entry what WorkNotLost says of all.                      *)
LEMMA HeldIsKept == \A e : Held(e) <=> e \in Kept \cup discarded
  BY DEF Held, Kept, StashedWork

(* Without overlap a command starts when nothing else is under way.          *)
LEMMA NothingRuns == CrashOnly /\ MayStart => pc[Op] = "idle" /\ \A a \in Agents : ~Active(a)
  BY AgentsAre DEF CrashOnly, MayStart, May, Busy, Active

(* While a run takes a step, no other run is alive and no command is open.   *)
LEMMA Alone ==
  ASSUME CrashOnly, Exclusive, NEW r \in Runs, RunStep(r) \/ CutShort(r)
  PROVE  \A a \in Agents \ {r} : ~Active(a)
<1>1. Alive(r) \/ MayStart
  BY DEF RunStep, CutShort, Start, Finalize, Export, Alive, StartFresh, StartResume,
     CreateVolume,
     SeedVolume, SetupFails, WorkerWrites, LoopEnds, StopWorker, StashEntry, StashDone, RenameFails,
     ExportBegins, ExportRefused, ExtractEntry, ExtractFails, ExtractDone, FinalizeOk,
     FinalizeFailed, RestoreEntry, RestoreDone, RunEndLost, StopSandbox, Report, Crash,
     InterruptRun, InterruptFinalize
<1> QED
  BY <1>1, NothingRuns, AgentsAre DEF Exclusive, Active

(* While the operator takes a step, no run is alive.                         *)
LEMMA OpAlone ==
  ASSUME CrashOnly, Exclusive, OpStep
  PROVE  \A q \in Runs : ~Alive(q)
<1>1. pc[Op] # "idle" \/ MayStart \/ ~Busy
  BY DEF OpStep, Export, ExportCommand, RecoverStash, CleanCommand, ExportBegins,
     ExportRefused,
     ExtractEntry, ExtractFails, ExtractDone, MergeExport, ExportCommandDies, CleanVolume,
     CleanShared, CleanRefused, CleanWorktree
<1> QED
  BY <1>1, NothingRuns, AgentsAre DEF Exclusive, Active, Busy

(* A run that is not alive keeps its Phase: nobody fills its stash.          *)
LEMMA Bystander ==
  ASSUME NEW q \in Runs, ~Alive(q), Phase(q), pc'[q] = pc[q], prior'[q] = prior[q],
         stash'[q].tree = {} \/ stash'[q] = stash[q],
         pc[q] = "new" => volume'[q] = volume[q] /\ stash'[q].tree = {} /\ ~stash'[q].there
  PROVE  Phase(q)'
  BY DEF Phase, Alive, Seeded, Extracting

(* A command starts only when nothing runs, and no step wakes another.       *)
LEMMA ExclusiveStep == ControlOK /\ CrashOnly /\ Exclusive /\ [Next]_vars => Exclusive'
<1> SUFFICES ASSUME ControlOK, CrashOnly, Exclusive, [Next]_vars PROVE Exclusive'
  OBVIOUS
<1> USE AgentsAre DEF CrashOnly, May, Exclusive, Active, Alive, ControlOK, Goto, Set,
       Exit, process, files, flags, records, history
<1>1. ASSUME NEW r \in Runs, CreateVolume(r) \/ SeedVolume(r) \/ SetupFails(r)
      PROVE  Exclusive'
  BY <1>1 DEF CreateVolume, SeedVolume, SetupFails, Seeded
<1>2. ASSUME StartFresh PROVE Exclusive'
  BY <1>2, NothingRuns DEF StartFresh
<1>3. ASSUME NEW r \in Runs, NEW p \in Runs, StartResume(r, p) PROVE Exclusive'
  BY <1>3, NothingRuns DEF StartResume
<1>4. ASSUME NEW r \in Runs, WorkerWrites(r) \/ LoopEnds(r) \/ RunEndLost(r) \/
             StopSandbox(r) \/ Report(r)
      PROVE  Exclusive'
  BY <1>4 DEF WorkerWrites, LoopEnds, RunEndLost, StopSandbox, Report
<1>5. ASSUME NEW r \in Runs, StopWorker(r) \/ StashEntry(r) \/ StashDone(r) \/
             RenameFails(r)
      PROVE  Exclusive'
  BY <1>5 DEF StopWorker, StashEntry, StashDone, RenameFails, Escape, Seeded
<1>6. ASSUME NEW r \in Runs, FinalizeOk(r) \/ FinalizeFailed(r) \/ RestoreEntry(r) \/
             RestoreDone(r)
      PROVE  Exclusive'
  BY <1>6 DEF FinalizeOk, FinalizeFailed, RestoreEntry, RestoreDone, Escape, Seeded
<1>7. ASSUME NEW a \in Agents, ExportBegins(a) \/ ExportRefused(a) \/ ExtractEntry(a) \/
             ExtractFails(a) \/ ExtractDone(a)
      PROVE  Exclusive'
  BY <1>7 DEF ExportBegins, ExportRefused, ExtractEntry, ExtractFails, ExtractDone,
     Target
<1>8. ASSUME NEW r \in Runs, Crash(r) \/ InterruptRun(r) \/ InterruptFinalize(r)
      PROVE  Exclusive'
  BY <1>8 DEF Crash, InterruptRun, InterruptFinalize, Seeded
<1>9. ASSUME NEW r \in Runs, ExportCommand(r) PROVE Exclusive'
  BY <1>9, NothingRuns DEF ExportCommand
<1>10. ASSUME NEW r \in Runs, RecoverStash(r) PROVE Exclusive'
  BY <1>10 DEF RecoverStash
<1>11. ASSUME NEW r \in Runs, NEW force \in BOOLEAN, CleanCommand(r, force)
       PROVE  Exclusive'
  BY <1>11, NothingRuns DEF CleanCommand
<1>12. ASSUME MergeExport \/ ExportCommandDies \/ CleanVolume \/ CleanShared \/
              CleanRefused \/ CleanWorktree
       PROVE  Exclusive'
  BY <1>12 DEF MergeExport, ExportCommandDies, CleanVolume, CleanShared, CleanRefused,
     CleanWorktree, MergedStatus, CommandEnds, NoStashes
<1>13. CASE UNCHANGED vars
  BY <1>13 DEF vars
<1> QED
  BY <1>1, <1>2, <1>3, <1>4, <1>5, <1>6, <1>7, <1>8, <1>9, <1>10, <1>11, <1>12, <1>13,
     AgentsAre DEF Next, RunStep, Start, Finalize, Export, CutShort, OpStep

(* The records.                                                              *)
LEMMA RecordsStep == TypeInv /\ CrashOnly /\ RecordsInv /\ (\A r \in Runs : Phase(r)) /\ [Next]_vars => RecordsInv'
<1> SUFFICES ASSUME TypeInv, CrashOnly, RecordsInv, (\A r \in Runs : Phase(r)), [Next]_vars PROVE RecordsInv'
  OBVIOUS
<1> USE AgentsAre, DirsAre DEF CrashOnly, May, RecordsInv, TypeInv, CommandOK,
       OpCommands, InProgress, Recorded, Resumable, Alive, ControlOK, Goto, Set, Exit,
       process, files, flags, records, history
<1>1. ASSUME NEW r \in Runs, CreateVolume(r) \/ SeedVolume(r) \/ SetupFails(r)
      PROVE  RecordsInv'
  BY <1>1 DEF CreateVolume, SeedVolume, SetupFails, Seeded
<1>2. ASSUME StartFresh PROVE RecordsInv'
  BY <1>2 DEF StartFresh, MayStart
<1>3. ASSUME NEW r \in Runs, NEW p \in Runs, StartResume(r, p) PROVE RecordsInv'
  BY <1>3 DEF StartResume
<1>4. ASSUME NEW r \in Runs, WorkerWrites(r) \/ LoopEnds(r) \/ RunEndLost(r) \/
             StopSandbox(r)
      PROVE  RecordsInv'
  BY <1>4 DEF WorkerWrites, LoopEnds, RunEndLost, StopSandbox
<1>5. ASSUME NEW r \in Runs, Report(r) PROVE RecordsInv'
  <2>1. FinalStatus(r) # "absent"
    BY DEF FinalStatus
  <2>2. \A q \in Runs : status'[q] = "absent" <=> status[q] = "absent"
    <3>1. status[r] # "absent"
      BY <1>5 DEF Report
    <3>2. status' = status \/ status' = [status EXCEPT ![r] = FinalStatus(r)]
      BY <1>5 DEF Report
    <3> QED
      BY <2>1, <3>1, <3>2
  <2> QED
    BY <1>5, <2>2 DEF Report

<1>6. ASSUME NEW r \in Runs, StopWorker(r) \/ StashEntry(r) \/ StashDone(r) \/
             RenameFails(r)
      PROVE  RecordsInv'
  BY <1>6 DEF StopWorker, StashEntry, StashDone, RenameFails, Escape, Seeded
<1>7. ASSUME NEW r \in Runs, FinalizeOk(r) \/ FinalizeFailed(r) \/ RestoreEntry(r) \/
             RestoreDone(r)
      PROVE  RecordsInv'
  BY <1>7 DEF FinalizeOk, FinalizeFailed, RestoreEntry, RestoreDone, Escape, Seeded
<1>8. ASSUME NEW a \in Agents, ExportBegins(a) \/ ExportRefused(a) \/ ExtractEntry(a) \/
             ExtractFails(a) \/ ExtractDone(a)
      PROVE  RecordsInv'
  BY <1>8 DEF ExportBegins, ExportRefused, ExtractEntry, ExtractFails, ExtractDone,
     Target
<1>9. ASSUME NEW r \in Runs, Crash(r) \/ InterruptRun(r) \/ InterruptFinalize(r)
      PROVE  RecordsInv'
  BY <1>9 DEF Crash, InterruptRun, InterruptFinalize, Seeded
<1>10. ASSUME NEW r \in Runs, ExportCommand(r) PROVE RecordsInv'
  BY <1>10 DEF ExportCommand
<1>11. ASSUME NEW r \in Runs, RecoverStash(r) PROVE RecordsInv'
  BY <1>11 DEF RecoverStash, Phase
<1>12. ASSUME NEW r \in Runs, NEW force \in BOOLEAN, CleanCommand(r, force)
       PROVE  RecordsInv'
  BY <1>12 DEF CleanCommand
<1>13. ASSUME MergeExport \/ ExportCommandDies \/ CleanVolume \/ CleanShared \/
              CleanRefused \/ CleanWorktree
       PROVE  RecordsInv'
  BY <1>13 DEF MergeExport, ExportCommandDies, CleanVolume, CleanShared, CleanRefused,
     CleanWorktree, MergedStatus, CommandEnds, NoCommand, NoStashes
<1>14. CASE UNCHANGED vars
  BY <1>14 DEF vars
<1> QED
  BY <1>1, <1>2, <1>3, <1>4, <1>5, <1>6, <1>7, <1>8, <1>9, <1>10, <1>11, <1>12, <1>13,
     <1>14, AgentsAre DEF Next, RunStep, Start, Finalize, Export, CutShort, OpStep

(* A run's own step leads from its Phase to its Phase.                       *)
LEMMA OwnPhase ==
  ASSUME TypeInv, TypeInv', CrashOnly, RecordsInv, NEW r \in Runs, Phase(r),
         RunStep(r) \/ CutShort(r)
  PROVE  Phase(r)'
<1> USE AgentsAre DEF TypeInv, ControlOK, DirsOK, SetsOK, Dirs, Gone, Holding, Pristine,
       Phase, RecordsInv, Seeded, Extracting, Target, CrashOnly, May, Goto, Set, Exit,
       process, files, flags, records, history
<1>1. CASE CreateVolume(r) \/ SeedVolume(r) \/ SetupFails(r)
  BY <1>1 DEF CreateVolume, SeedVolume, SetupFails, RemoveVolume
<1>2. CASE r = Fresh /\ StartFresh
  BY <1>2 DEF StartFresh, MayStart
<1>3. ASSUME NEW p \in Runs, StartResume(r, p) PROVE Phase(r)'
  BY <1>3 DEF StartResume
<1>4. CASE WorkerWrites(r) \/ LoopEnds(r) \/ StopSandbox(r) \/ Report(r)
  BY <1>4 DEF WorkerWrites, LoopEnds, StopSandbox, Report, RemoveVolume, VolumeKept,
     FinalStatus
<1>5. CASE StopWorker(r)
  BY <1>5 DEF StopWorker, Escape
<1>6. CASE StashEntry(r)
  BY <1>6 DEF StashEntry
<1>7. CASE StashDone(r)
  BY <1>7 DEF StashDone
<1>8. CASE FinalizeOk(r)
  BY <1>8 DEF FinalizeOk, Escape
<1>9. CASE FinalizeFailed(r)
  BY <1>9 DEF FinalizeFailed, RestoreNow
<1>10. CASE RestoreEntry(r)
  BY <1>10 DEF RestoreEntry
<1>11. CASE RestoreDone(r)
  BY <1>11 DEF RestoreDone
<1>12. CASE ExportBegins(r)
  BY <1>12 DEF ExportBegins
<1>13. CASE ExportRefused(r)
  BY <1>13 DEF ExportRefused
<1>14. CASE ExtractEntry(r)
  BY <1>14 DEF ExtractEntry
<1>15. CASE ExtractFails(r)
  BY <1>15 DEF ExtractFails
<1>16. CASE ExtractDone(r)
  BY <1>16 DEF ExtractDone, RemoveVolume
<1>17. CASE Crash(r)
  BY <1>17 DEF Crash
<1>18. CASE RenameFails(r) \/ RunEndLost(r) \/ InterruptRun(r) \/ InterruptFinalize(r)
  BY <1>18 DEF RenameFails, RunEndLost, InterruptRun, InterruptFinalize, Escape
<1> QED
  BY <1>1, <1>2, <1>3, <1>4, <1>5, <1>6, <1>7, <1>8, <1>9, <1>10, <1>11, <1>12, <1>13,
     <1>14, <1>15, <1>16, <1>17, <1>18 DEF RunStep, Start, Finalize, Export, CutShort

(* What run r can reach.                                                     *)
Mine(r) == worktree.tree \cup stash[r].tree \cup volume[r].tree

(* A run's own step loses nothing it can reach.                              *)
LEMMA OwnWork ==
  ASSUME TypeInv, TypeInv', CrashOnly, RecordsInv, NEW r \in Runs, Phase(r),
         RunStep(r) \/ CutShort(r)
  PROVE  Mine(r) \subseteq Mine(r)'
<1> USE AgentsAre DEF TypeInv, ControlOK, DirsOK, SetsOK, Dirs, Gone, Holding, Pristine,
       Mine, Phase, RecordsInv, Seeded, Extracting, Target, CrashOnly, May, Goto, Set,
       Exit, process, files, flags, records, history
<1>1. CASE CreateVolume(r) \/ SeedVolume(r) \/ SetupFails(r)
  BY <1>1 DEF CreateVolume, SeedVolume, SetupFails, RemoveVolume
<1>2. CASE r = Fresh /\ StartFresh
  BY <1>2 DEF StartFresh, MayStart
<1>3. ASSUME NEW p \in Runs, StartResume(r, p) PROVE Mine(r) \subseteq Mine(r)'
  BY <1>3 DEF StartResume
<1>4. CASE WorkerWrites(r) \/ LoopEnds(r) \/ StopSandbox(r) \/ Report(r)
  BY <1>4 DEF WorkerWrites, LoopEnds, StopSandbox, Report, RemoveVolume, VolumeKept,
     FinalStatus
<1>5. CASE StopWorker(r) \/ StashEntry(r) \/ StashDone(r)
  BY <1>5 DEF StopWorker, StashEntry, StashDone, Escape
<1>6. CASE FinalizeOk(r) \/ FinalizeFailed(r) \/ RestoreEntry(r) \/ RestoreDone(r)
  BY <1>6 DEF FinalizeOk, FinalizeFailed, RestoreEntry, RestoreDone, Escape, RestoreNow
<1>7. CASE ExportRefused(r)
  BY <1>7 DEF ExportRefused
<1>8. CASE ExportBegins(r)
  BY <1>8 DEF ExportBegins
<1>9. CASE ExtractEntry(r)
  BY <1>9 DEF ExtractEntry
<1>10. CASE ExtractFails(r)
  BY <1>10 DEF ExtractFails
<1>11. CASE ExtractDone(r)
  BY <1>11 DEF ExtractDone, RemoveVolume
<1>12. CASE Crash(r)
  BY <1>12 DEF Crash
<1>13. CASE RenameFails(r) \/ RunEndLost(r) \/ InterruptRun(r) \/ InterruptFinalize(r)
  BY <1>13 DEF RenameFails, RunEndLost, InterruptRun, InterruptFinalize, Escape
<1> QED
  BY <1>1, <1>2, <1>3, <1>4, <1>5, <1>6, <1>7, <1>8, <1>9, <1>10, <1>11, <1>12, <1>13
     DEF RunStep, Start, Finalize, Export, CutShort

(* A run's step touches no other run's volume and stash.                     *)
Frame(r) ==
  /\ \A q \in Runs \ {r} :
       pc'[q] = pc[q] /\ prior'[q] = prior[q] /\ volume'[q] = volume[q] /\ stash'[q] = stash[q]
  /\ pc'[Op] = pc[Op]
  /\ discarded' = discarded
  /\ written' = written \/ (written' = written \cup {r} /\ r \in volume'[r].tree)

(* No step of a run leaves its frame.                                        *)
LEMMA OwnFrame ==
  ASSUME TypeInv, TypeInv', CrashOnly, RecordsInv, NEW r \in Runs, Phase(r),
         RunStep(r) \/ CutShort(r)
  PROVE  Frame(r)
<1> USE AgentsAre DEF TypeInv, ControlOK, DirsOK, Frame, Target, Goto, Set, Exit,
       process, files, flags, records, history
<1>1. CASE CreateVolume(r) \/ SeedVolume(r) \/ SetupFails(r)
  BY <1>1 DEF CreateVolume, SeedVolume, SetupFails, RemoveVolume
<1>2. CASE r = Fresh /\ StartFresh
  BY <1>2 DEF StartFresh, MayStart
<1>3. ASSUME NEW p \in Runs, StartResume(r, p) PROVE Frame(r)
  BY <1>3 DEF StartResume
<1>4. CASE LoopEnds(r) \/ StopSandbox(r) \/ Report(r)
  BY <1>4 DEF LoopEnds, StopSandbox, Report, RemoveVolume
<1>5. CASE WorkerWrites(r)
  BY <1>5 DEF WorkerWrites, Dirs, Holding
<1>6. CASE StashEntry(r)
  <2>1. PICK e : stash' = Set(stash, r, Holding(stash[r].tree \cup {e}))
    BY <1>6 DEF StashEntry
  <2>2. \A q \in Runs \ {r} : stash'[q] = stash[q]
    BY <2>1
  <2> QED
    BY <1>6, <2>2 DEF StashEntry
<1>7. CASE StashDone(r)
  BY <1>7 DEF StashDone
<1>8. CASE StopWorker(r)
  BY <1>8 DEF StopWorker, Escape
<1>9. CASE FinalizeOk(r)
  BY <1>9 DEF FinalizeOk, Escape
<1>10. CASE FinalizeFailed(r)
  BY <1>10 DEF FinalizeFailed
<1>11. CASE RestoreEntry(r)
  BY <1>11 DEF RestoreEntry
<1>12. CASE RestoreDone(r)
  BY <1>12 DEF RestoreDone
<1>13. CASE ExportBegins(r) \/ ExportRefused(r) \/ ExtractEntry(r) \/ ExtractFails(r) \/
            ExtractDone(r)
  BY <1>13 DEF ExportBegins, ExportRefused, ExtractEntry, ExtractFails, ExtractDone,
     RemoveVolume
<1>14. CASE Crash(r)
  BY <1>14 DEF Crash
<1>15. CASE RenameFails(r)
  BY <1>15 DEF RenameFails, Escape
<1>16. CASE RunEndLost(r)
  BY <1>16 DEF RunEndLost
<1>17. CASE InterruptRun(r)
  BY <1>17 DEF InterruptRun
<1>18. CASE InterruptFinalize(r)
  BY <1>18 DEF InterruptFinalize
<1> QED
  BY <1>1, <1>2, <1>3, <1>4, <1>5, <1>6, <1>7, <1>8, <1>9, <1>10, <1>11, <1>12, <1>13, <1>14,
     <1>15, <1>16, <1>17, <1>18 DEF RunStep, Start, Finalize, Export, CutShort

(* Within its frame, a run that loses nothing of its own loses nothing.      *)
LEMMA StillHeld ==
  ASSUME NEW r \in Runs, Frame(r), Mine(r) \subseteq Mine(r)'
  PROVE  \A e : Held(e) => Held(e)'
<1> SUFFICES ASSUME NEW e, Held(e) PROVE Held(e)'
  OBVIOUS
<1>1. CASE e \in Mine(r)
  <2>1. e \in Mine(r)'
    BY <1>1
  <2> QED
    BY <2>1 DEF Mine, Held
<1>2. CASE e \in discarded
  BY <1>2 DEF Frame, Held
<1>3. CASE \E q \in Runs \ {r} : e \in stash[q].tree \cup volume[q].tree
  BY <1>3 DEF Frame, Held
<1> QED
  BY <1>1, <1>2, <1>3 DEF Held, Mine

(* What a step of the operator leaves as it was.                             *)
OpEffect ==
  /\ \A q \in Runs :
       /\ pc'[q] = pc[q] /\ prior'[q] = prior[q]
       /\ stash'[q].tree = {} \/ stash'[q] = stash[q]
       /\ pc[q] = "new" => volume'[q] = volume[q] /\ stash'[q].tree = {} /\ ~stash'[q].there
  /\ \A e : Held(e) => Held(e)'
  /\ OpPhase'
  /\ written' = written

(* The operator's steps keep what there is: `runs export` writes what it has
   read, and `runs clean --force` gives up what it removes. *)
LEMMA OperatorKeeps ==
  ASSUME TypeInv, CrashOnly, RecordsInv, Exclusive, \A r \in Runs : Phase(r), OpPhase,
         OpStep
  PROVE  OpEffect
<1> USE AgentsAre DEF TypeInv, ControlOK, DirsOK, SetsOK, CommandOK, Dirs, Gone,
       Pristine, Goto, Set, Exit, process, files, flags, records, history
<1>1. ASSUME NEW r \in Runs, ExportCommand(r) PROVE OpEffect
  BY <1>1 DEF ExportCommand, OpEffect, OpPhase, Held, Extracting, Phase
<1>2. ASSUME NEW r \in Runs, RecoverStash(r) PROVE OpEffect
  <2>1. /\ worktree'.tree = worktree.tree \cup stash[r].tree
        /\ stash'[r].tree = {} /\ ~stash'[r].there
        /\ \A q \in Runs \ {r} : stash'[q] = stash[q]
        /\ UNCHANGED <<pc, volume, prior, written, discarded, command, todo>>
    BY <1>2 DEF RecoverStash
  <2>2. pc[Op] = "idle"
    BY <1>2 DEF RecoverStash, Busy
  <2>3. \A e : Held(e) => Held(e)'
    <3> SUFFICES ASSUME NEW e, Held(e) PROVE Held(e)'
      OBVIOUS
    <3>1. CASE e \in stash[r].tree \cup worktree.tree \cup discarded
      BY <2>1, <3>1 DEF Held
    <3>2. CASE \E q \in Runs : e \in volume[q].tree
      BY <2>1, <3>2 DEF Held
    <3>3. CASE \E q \in Runs \ {r} : e \in stash[q].tree
      BY <2>1, <3>3 DEF Held
    <3> QED
      BY <3>1, <3>2, <3>3 DEF Held
  <2>4. \A q \in Runs : stash'[q].tree = {} \/ stash'[q] = stash[q]
    BY <2>1
  <2>5. \A q \in Runs : pc[q] = "new" => stash'[q].tree = {} /\ ~stash'[q].there
    BY <2>1 DEF Phase
  <2> QED
    BY <2>1, <2>2, <2>3, <2>4, <2>5 DEF OpEffect, OpPhase
<1>3. ASSUME NEW r \in Runs, NEW force \in BOOLEAN, CleanCommand(r, force)
      PROVE  OpEffect
  BY <1>3 DEF CleanCommand, OpEffect, OpPhase, Held, Extracting, Phase
<1>4. CASE ExportBegins(Op)
  <2>1. command.run \in Runs /\ pc[command.run] # "new"
    BY <1>4 DEF ExportBegins, OpCommands, RecordsInv
  <2>2. /\ volume'[command.run].tree = volume[command.run].tree
        /\ \A q \in Runs \ {command.run} : volume'[q] = volume[q]
        /\ UNCHANGED <<worktree, stash, prior, written, discarded, command>>
        /\ worktree.tree = {} /\ todo'[Op] = volume[command.run].tree
    BY <1>4, <2>1, DirsAre DEF ExportBegins, Target, Dirs
  <2>3. \A q \in Runs : pc'[q] = pc[q]
    BY <1>4 DEF ExportBegins
  <2>4. Extracting(Op)'
    BY <2>2 DEF Extracting, Target
  <2>5. \A e : Held(e) => Held(e)'
    <3>1. \A q \in Runs : volume'[q].tree = volume[q].tree
      BY <2>2
    <3> QED
      BY <2>2, <3>1 DEF Held
  <2>6. \A q \in Runs : pc[q] = "new" => stash'[q].tree = {} /\ ~stash'[q].there
    BY <2>2 DEF Phase
  <2> QED
    BY <2>1, <2>2, <2>3, <2>4, <2>5, <2>6 DEF OpEffect, OpPhase
<1>5. CASE ExportRefused(Op)
  BY <1>5 DEF ExportRefused, OpEffect, OpPhase, Held, Extracting, Phase
<1>6. CASE ExtractEntry(Op)
  BY <1>6 DEF ExtractEntry, OpEffect, OpPhase, Held, Extracting, Phase, Target
<1>7. CASE ExtractFails(Op)
  <2>1. /\ worktree.tree \subseteq volume[command.run].tree /\ command.run \in Runs
        /\ UNCHANGED <<volume, stash, prior, written, discarded>>
    BY <1>7 DEF ExtractFails, OpPhase, Extracting, Target, OpCommands
  <2>2. pc' = [pc EXCEPT ![Op] = "export_failed"]
    BY <1>7 DEF ExtractFails
  <2>3. \A e : Held(e) => Held(e)'
    BY <2>1 DEF Held
  <2>4. \A q \in Runs : pc[q] = "new" => stash[q].tree = {} /\ ~stash[q].there
    BY DEF Phase
  <2> QED
    BY <2>1, <2>2, <2>3, <2>4 DEF OpEffect, OpPhase
<1>8. CASE ExtractDone(Op)
  <2>1. command.run \in Runs /\ pc[command.run] # "new"
    BY <1>8 DEF ExtractDone, OpCommands, RecordsInv
  <2>2. /\ volume' = volume \/ volume' = [volume EXCEPT ![command.run] = Gone]
        /\ volume[command.run].tree = worktree.tree
        /\ UNCHANGED <<worktree, stash, prior, written, discarded, command>>
    BY <1>8, <2>1 DEF ExtractDone, Target, RemoveVolume, OpPhase, Extracting
  <2>3. pc' = [pc EXCEPT ![Op] = "exported"]
    BY <1>8 DEF ExtractDone
  <2>4. \A e : Held(e) => Held(e)'
    <3>1. \A q \in Runs : volume'[q].tree = volume[q].tree \/ volume[q].tree \subseteq worktree.tree
      BY <2>1, <2>2
    <3> QED
      BY <2>2, <3>1 DEF Held
  <2>5. \A q \in Runs : pc[q] = "new" => /\ volume'[q] = volume[q]
                                         /\ stash'[q].tree = {} /\ ~stash'[q].there
    BY <2>1, <2>2 DEF Phase
  <2> QED
    BY <2>2, <2>3, <2>4, <2>5 DEF OpEffect, OpPhase
<1>9. CASE MergeExport \/ ExportCommandDies
  BY <1>9 DEF MergeExport, ExportCommandDies, CommandEnds, OpEffect, OpPhase, Held,
     Extracting, Phase
<1>10. CASE CleanVolume
  <2>1. command.run \in Runs /\ pc[command.run] # "new"
    BY <1>10 DEF CleanVolume, OpCommands, RecordsInv
  <2>2. /\ \/ volume' = volume /\ discarded' = discarded
           \/ /\ volume' = [volume EXCEPT ![command.run] = Gone]
              /\ discarded' = discarded \cup volume[command.run].tree
        /\ UNCHANGED <<worktree, stash, prior, written>>
    BY <1>10 DEF CleanVolume, Discard, RecordsInv
  <2>3. pc' = [pc EXCEPT ![Op] = "idle"] \/ pc' = [pc EXCEPT ![Op] = "clean_worktree"]
    BY <1>10 DEF CleanVolume, CommandEnds
  <2>4. \A e : Held(e) => Held(e)'
    <3>1. \A q \in Runs : volume'[q].tree = volume[q].tree \/ volume[q].tree \subseteq discarded'
      BY <2>1, <2>2
    <3>2. discarded \subseteq discarded'
      BY <2>2
    <3> QED
      BY <2>2, <3>1, <3>2 DEF Held
  <2>5. \A q \in Runs : pc[q] = "new" => /\ volume'[q] = volume[q]
                                         /\ stash'[q].tree = {} /\ ~stash'[q].there
    BY <2>1, <2>2 DEF Phase
  <2> QED
    BY <2>2, <2>3, <2>4, <2>5 DEF OpEffect, OpPhase
<1>11. CASE CleanShared
  BY <1>11 DEF CleanShared, CommandEnds, Discard, NoStashes, OpEffect, OpPhase, Held,
     Extracting, Phase, RecordsInv, StashedWork
<1>12. CASE CleanRefused
  BY <1>12 DEF CleanRefused, CommandEnds, OpEffect, OpPhase, Held, Extracting, Phase
<1>13. CASE CleanWorktree
  BY <1>13 DEF CleanWorktree, CommandEnds, Discard, NoStashes, OpEffect, OpPhase, Held,
     Extracting, Phase, RecordsInv, StashedWork
<1> QED
  BY <1>1, <1>2, <1>3, <1>4, <1>5, <1>6, <1>7, <1>8, <1>9, <1>10, <1>11, <1>12, <1>13
     DEF OpStep, Export

-----------------------------------------------------------------------------
LEMMA CrashInit == Init => CrashInv
<1> SUFFICES ASSUME Init PROVE CrashInv
  OBVIOUS
<1>1. \A r \in Runs : Phase(r)
  BY AgentsAre DEF Init, Phase, Seeded, Gone
<1>2. Exclusive /\ RecordsInv /\ OpPhase /\ HeldInv
  BY AgentsAre DEF Init, Exclusive, Active, Alive, RecordsInv, OpPhase, HeldInv, Gone
<1> QED
  BY <1>1, <1>2 DEF CrashInv

(* Every step keeps the work where Phase says it is.                         *)
LEMMA CrashStep ==
  ASSUME TypeInv, TypeInv', CrashOnly, CrashInv, [Next]_vars
  PROVE  CrashInv'
<1> USE DEF CrashInv
<1>1. Exclusive' /\ RecordsInv'
  BY ExclusiveStep, RecordsStep DEF TypeInv
<1>2. ASSUME NEW r \in Runs, RunStep(r) \/ CutShort(r)
      PROVE  (\A q \in Runs : Phase(q)') /\ OpPhase' /\ HeldInv'
  <2>1. Phase(r)' /\ Frame(r) /\ Mine(r) \subseteq Mine(r)'
    BY <1>2, OwnPhase, OwnFrame, OwnWork
  <2>2. \A a \in Agents \ {r} : ~Active(a)
    BY <1>2, Alone
  <2>3. ASSUME NEW q \in Runs \ {r} PROVE Phase(q)'
    <3>1. ~Alive(q)
      BY <2>2, AgentsAre DEF Active
    <3>2. pc'[q] = pc[q] /\ prior'[q] = prior[q] /\ volume'[q] = volume[q] /\ stash'[q] = stash[q]
      BY <2>1 DEF Frame
    <3>3. pc[q] = "new" => stash[q].tree = {} /\ ~stash[q].there
      BY DEF Phase
    <3> QED
      BY <3>1, <3>2, <3>3, Bystander
  <2>4. OpPhase'
    BY <2>1, <2>2, AgentsAre DEF Frame, Active, OpPhase
  <2>5. HeldInv'
    <3>1. \A e : Held(e) => Held(e)'
      BY <2>1, StillHeld
    <3>2. r \in written' \ written => Held(r)'
      BY <2>1 DEF Frame, Held
    <3>3. written' \subseteq written \cup {r}
      BY <2>1 DEF Frame
    <3> QED
      BY <3>1, <3>2, <3>3 DEF HeldInv
  <2> QED
    BY <2>1, <2>3, <2>4, <2>5
<1>3. ASSUME OpStep
      PROVE  (\A q \in Runs : Phase(q)') /\ OpPhase' /\ HeldInv'
  <2>1. OpEffect
    BY <1>3, OperatorKeeps
  <2>2. \A q \in Runs : ~Alive(q)
    BY <1>3, OpAlone
  <2>3. \A q \in Runs : Phase(q)'
    BY <2>1, <2>2, Bystander DEF OpEffect
  <2>4. OpPhase' /\ HeldInv'
    BY <2>1 DEF OpEffect, HeldInv
  <2> QED
    BY <2>3, <2>4
<1>4. ASSUME UNCHANGED vars
      PROVE  (\A q \in Runs : Phase(q)') /\ OpPhase' /\ HeldInv'
  <2> USE <1>4 DEF vars, process, files, flags, records, history
  <2>1. ASSUME NEW q \in Runs PROVE Phase(q)'
    BY DEF Phase, Seeded, Extracting, Target
  <2>2. OpPhase'
    BY DEF OpPhase, Extracting, Target
  <2>3. HeldInv'
    BY DEF HeldInv, Held
  <2> QED
    BY <2>1, <2>2, <2>3
<1> QED
  BY <1>1, <1>2, <1>3, <1>4 DEF Next

(* The invariant of the behaviours in which runs are killed and docker       *)
(* refuses, but nothing else goes wrong.                                     *)
LEMMA CrashInvariant == Spec => [](TypeInv /\ (CrashOnly => CrashInv))
<1>1. Init => TypeInv /\ (CrashOnly => CrashInv)
  BY TypeInit, CrashInit
<1>2. TypeInv /\ (CrashOnly => CrashInv) /\ [Next]_vars
        => (TypeInv /\ (CrashOnly => CrashInv))'
  <2>1. [Next]_vars => scenario' = scenario
    BY DEF Next, vars
  <2> QED
    BY <2>1, TypeStep, CrashStep DEF CrashOnly
<1> QED
  BY <1>1, <1>2, PTL DEF Spec

(* What a worker has written is in the worktree, a stash or a volume, or was *)
(* given up by `runs clean --force`: wherever a run is killed and whatever   *)
(* docker refuses, over any number of resumes, retried exports and cleans.   *)
THEOREM WorkIsNotLost == Spec => []WorkNotLost
<1>1. (CrashOnly => CrashInv) => WorkNotLost
  BY HeldIsKept DEF WorkNotLost, CrashOnly, CrashInv, HeldInv
<1> QED
  BY <1>1, CrashInvariant, PTL

(* A resume whose export failed leaves the worktree exactly as it was, when  *)
(* nothing but docker fails and runs are killed (finalize,                   *)
(* _restore_prior_worktree).                                                 *)
THEOREM FailedResumeRestoresTheWorktree == Spec => []FailedResumeRestores
<1>1. (CrashOnly => CrashInv) => FailedResumeRestores
  BY DEF FailedResumeRestores, CrashOnly, CrashInv, Phase
<1> QED
  BY <1>1, CrashInvariant, PTL

-----------------------------------------------------------------------------
(* run.json itself (RunJson): the file that each of these commands changes, *)
(* for any set of commands at work on it at once.  It implements RunRecord: *)
(* the comparison under the lock makes what a command worked out from an    *)
(* earlier read a step of the record as it is now.                          *)

(* A merge of a record of run.json is one.                                  *)
LEMMA JsonAppliedType ==
  ASSUME NEW r \in Record!Requests, NEW f \in Record!Files
  PROVE  Record!Applied(r, f) \in Record!Files
<1>1. r.what \in {"end", "resume", "export", "start", "verdict", "label"}
  BY DEF Record!Requests, Record!Request
<1>2. CASE r.what = "end"
  <2>1. r.arg \in Record!Statuses
    BY <1>2 DEF Record!Requests, Record!Request
  <2> QED
    BY <1>2, <2>1 DEF Record!Applied, Record!Files
<1>3. CASE r.what = "resume"
  BY <1>3 DEF Record!Applied, Record!Files
<1>4. CASE r.what = "export"
  <2>1. r.arg \in Record!Statuses
    BY <1>4 DEF Record!Requests, Record!Request, Record!Statuses
  <2> QED
    BY <1>4, <2>1 DEF Record!Applied, Record!Exported, Record!Files
<1>5. CASE r.what = "start"
  BY <1>5 DEF Record!Applied, Record!Files
<1>6. CASE r.what = "verdict"
  <2>1. r.arg \in Record!Verdicts
    BY <1>6 DEF Record!Requests, Record!Request
  <2> QED
    BY <1>6, <2>1 DEF Record!Applied, Record!Files
<1>7. CASE r.what = "label"
  <2>1. r.arg \in Record!Labels
    BY <1>7 DEF Record!Requests, Record!Request
  <2> QED
    BY <1>7, <2>1 DEF Record!Applied, Record!Files
<1> QED
  BY <1>1, <1>2, <1>3, <1>4, <1>5, <1>6, <1>7

(* A run that is over stays over: what was allowed of a content stays so.   *)
LEMMA JsonAllowedStays ==
  ASSUME NEW r, NEW f, NEW isOver, Record!Allowed(r, f, isOver)
  PROVE  Record!Allowed(r, f, TRUE)
  BY DEF Record!Allowed, Record!Eligible

(* The lock, the counters and the files keep to their types.                *)
THEOREM JsonTypeCorrect == JsonSpec => []JsonTypeOK
<1> USE RunJsonAssumption DEF Steps, Locked, Finished, StepTo, Ends, record
<1>1. JsonInit => JsonTypeOK
  <2> SUFFICES ASSUME JsonInit PROVE JsonTypeOK
    OBVIOUS
  <2>1. file \in Record!Files
    BY DEF JsonInit, Record!Init, Record!Files, Record!Statuses, Record!Labels
  <2>2. seen \in [Commands -> Record!Files]
    BY <2>1 DEF JsonInit
  <2>3. /\ ask \in [Commands -> Record!Requests] /\ over \in BOOLEAN
        /\ outcome \in [Commands -> {"pending", "done", "failed"}]
    BY DEF JsonInit, Record!Init
  <2>4. /\ step \in [Commands -> Steps] /\ tries \in [Commands -> 0..MaxTries]
        /\ lock \in Commands \cup {Free} /\ rivals \in [Commands -> Nat]
    BY DEF JsonInit
  <2>5. \A c \in Commands : step[c] = "read" /\ tries[c] = 0 /\ lock # c
    BY DEF JsonInit
  <2>6. ASSUME NEW c \in Commands PROVE tries[c] < Tries(c)
    <3>1. 0 < MaxTries
      OBVIOUS
    <3>2. 0 < Tries(c)
      BY <3>1 DEF Tries
    <3> QED
      BY <2>5, <3>2
  <2>7. \A c \in Commands : step[c] \in Locked <=> lock = c
    BY <2>5
  <2> QED
    BY <2>1, <2>2, <2>3, <2>4, <2>6, <2>7 DEF JsonTypeOK
<1>2. JsonTypeOK /\ [JsonNext]_jsonVars => JsonTypeOK'
  <2> SUFFICES ASSUME JsonTypeOK, [JsonNext]_jsonVars PROVE JsonTypeOK'
    OBVIOUS
  <2> USE DEF JsonTypeOK, Tries
  <2>1. CASE RunEnds
    BY <2>1 DEF RunEnds, Record!RunEnds
  <2>2. ASSUME NEW c \in Commands, ReadFile(c) PROVE JsonTypeOK'
    BY <2>2 DEF ReadFile
  <2>3. ASSUME NEW c \in Commands, Transform(c) PROVE JsonTypeOK'
    BY <2>3 DEF Transform
  <2>4. ASSUME NEW c \in Commands, FoundSo(c) PROVE JsonTypeOK'
    BY <2>4 DEF FoundSo
  <2>5. ASSUME NEW c \in Commands, Refuse(c) PROVE JsonTypeOK'
    BY <2>5 DEF Refuse
  <2>6. ASSUME NEW c \in Commands, Acquire(c) PROVE JsonTypeOK'
    BY <2>6 DEF Acquire, LockIsFree
  <2>7. ASSUME NEW c \in Commands, LockBusy(c) PROVE JsonTypeOK'
    BY <2>7 DEF LockBusy
  <2>8. ASSUME NEW c \in Commands, Compare(c) PROVE JsonTypeOK'
    BY <2>8 DEF Compare
  <2>9. ASSUME NEW c \in Commands, Conflict(c) PROVE JsonTypeOK'
    BY <2>9 DEF Conflict, TriesOver, StartOver
  <2>10. ASSUME NEW c \in Commands, Replace(c) PROVE JsonTypeOK'
    <3>1. file' \in Record!Files
      BY <2>10, JsonAppliedType DEF Replace
    <3>2. rivals' \in [Commands -> Nat]
      BY <2>10 DEF Replace
    <3> QED
      BY <2>10, <3>1, <3>2 DEF Replace
  <2>11. ASSUME NEW c \in Commands, Release(c) PROVE JsonTypeOK'
    BY <2>11 DEF Release
  <2>12. ASSUME NEW c \in Commands, Stop(c) PROVE JsonTypeOK'
    BY <2>12 DEF Stop
  <2>13. CASE UNCHANGED jsonVars
    BY <2>13 DEF jsonVars
  <2> QED
    BY <2>1, <2>2, <2>3, <2>4, <2>5, <2>6, <2>7, <2>8, <2>9, <2>10, <2>11, <2>12, <2>13
       DEF JsonNext, Update, Terminated
<1> QED
  BY <1>1, <1>2, PTL DEF JsonSpec

\* A command on its way to the file was allowed what it works out, and past the
\* comparison it works from the file as it is.
JsonCheckedInv ==
  \A c \in Commands :
    /\ step[c] \notin Finished \cup {"release"} => outcome[c] = "pending"
    /\ step[c] \in {"acquire", "compare", "replace"} =>
         Record!Allowed(ask[c], seen[c], over)
    /\ step[c] = "replace" => seen[c] = file

(* Only the command that holds the lock changes the file, so what it        *)
(* compared stays equal until it replaces it.                               *)
LEMMA JsonCheckedCorrect == JsonSpec => []JsonCheckedInv
<1> USE RunJsonAssumption DEF JsonCheckedInv, Steps, Locked, Finished, StepTo,
            Ends, record
<1>1. JsonInit => JsonCheckedInv
  BY DEF JsonInit, Record!Init
<1>2. JsonTypeOK /\ JsonCheckedInv /\ [JsonNext]_jsonVars => JsonCheckedInv'
  <2> SUFFICES ASSUME JsonTypeOK, JsonCheckedInv, [JsonNext]_jsonVars PROVE JsonCheckedInv'
    OBVIOUS
  <2> USE DEF JsonTypeOK
  <2>1. CASE RunEnds
    BY <2>1, JsonAllowedStays DEF RunEnds, Record!RunEnds
  <2>2. ASSUME NEW c \in Commands, ReadFile(c) PROVE JsonCheckedInv'
    BY <2>2 DEF ReadFile
  <2>3. ASSUME NEW c \in Commands, Transform(c) PROVE JsonCheckedInv'
    BY <2>3 DEF Transform
  <2>4. ASSUME NEW c \in Commands, FoundSo(c) PROVE JsonCheckedInv'
    BY <2>4 DEF FoundSo
  <2>5. ASSUME NEW c \in Commands, Refuse(c) PROVE JsonCheckedInv'
    BY <2>5 DEF Refuse
  <2>6. ASSUME NEW c \in Commands, Acquire(c) PROVE JsonCheckedInv'
    BY <2>6 DEF Acquire
  <2>7. ASSUME NEW c \in Commands, LockBusy(c) PROVE JsonCheckedInv'
    BY <2>7 DEF LockBusy
  <2>8. ASSUME NEW c \in Commands, Compare(c) PROVE JsonCheckedInv'
    BY <2>8 DEF Compare, SameSignature
  <2>9. ASSUME NEW c \in Commands, Conflict(c) PROVE JsonCheckedInv'
    BY <2>9 DEF Conflict, StartOver
  <2>10. ASSUME NEW c \in Commands, Replace(c) PROVE JsonCheckedInv'
    BY <2>10 DEF Replace
  <2>11. ASSUME NEW c \in Commands, Release(c) PROVE JsonCheckedInv'
    BY <2>11 DEF Release
  <2>12. ASSUME NEW c \in Commands, Stop(c) PROVE JsonCheckedInv'
    BY <2>12 DEF Stop
  <2>13. CASE UNCHANGED jsonVars
    BY <2>13 DEF jsonVars
  <2> QED
    BY <2>1, <2>2, <2>3, <2>4, <2>5, <2>6, <2>7, <2>8, <2>9, <2>10, <2>11, <2>12, <2>13
       DEF JsonNext, Update, Terminated
<1> QED
  BY <1>1, <1>2, JsonTypeCorrect, PTL DEF JsonSpec

(* Each command takes effect in one step, on the record as it is then, or   *)
(* not at all: no command's change is lost to another's.                    *)
THEOREM UpdatesAreAtomic == JsonSpec => RecordSpec
<1> USE RunJsonAssumption DEF Finished, StepTo, Ends, record, Record!vars
<1>1. JsonInit => Record!Init
  BY DEF JsonInit
<1>2. JsonTypeOK /\ JsonCheckedInv /\ [JsonNext]_jsonVars
        => [Record!Next]_(Record!vars)
  <2> SUFFICES ASSUME JsonTypeOK, JsonCheckedInv, [JsonNext]_jsonVars
               PROVE  [Record!Next]_(Record!vars)
    OBVIOUS
  <2> USE DEF Record!Next
  <2>1. CASE RunEnds
    BY <2>1 DEF RunEnds
  <2>2. ASSUME NEW c \in Commands,
               ReadFile(c) \/ Transform(c) \/ Acquire(c)
               \/ Compare(c) \/ Release(c)
        PROVE  UNCHANGED Record!vars
    BY <2>2 DEF ReadFile, Transform, Acquire, Compare, Release
  <2>3. ASSUME NEW c \in Commands, FoundSo(c) PROVE Record!FoundSo(c)
    BY <2>3 DEF FoundSo, NothingToWrite, Record!FoundSo, JsonCheckedInv
  <2>4. ASSUME NEW c \in Commands, Refuse(c) \/ LockBusy(c) PROVE Record!Fail(c)
    BY <2>4 DEF Refuse, LockBusy, Record!Fail, JsonCheckedInv
  <2>5. ASSUME NEW c \in Commands, Conflict(c)
        PROVE  Record!Fail(c) \/ UNCHANGED Record!vars
    BY <2>5 DEF Conflict, Record!Fail, JsonCheckedInv
  <2>6. ASSUME NEW c \in Commands, Replace(c) PROVE Record!Perform(c)
    BY <2>6 DEF Replace, Record!Perform, JsonCheckedInv
  <2>7. ASSUME NEW c \in Commands, Stop(c)
        PROVE  Record!Fail(c) \/ UNCHANGED Record!vars
    BY <2>7 DEF Stop, Record!Fail, JsonCheckedInv
  <2>8. CASE UNCHANGED jsonVars
    BY <2>8 DEF jsonVars
  <2> QED
    BY <2>1, <2>2, <2>3, <2>4, <2>5, <2>6, <2>7, <2>8 DEF JsonNext, Update, Terminated
<1> QED
  BY <1>1, <1>2, JsonTypeCorrect, JsonCheckedCorrect, PTL
   DEF JsonSpec, RecordSpec, Record!Spec

\* Every conflict met, and the one that a changed file will be, is a rival's change.
JsonRivalInv ==
  \A c \in Commands :
    IF step[c] \in {"transform", "acquire", "compare"} /\ seen[c] # file
      THEN rivals[c] > tries[c] ELSE rivals[c] >= tries[c]

(* A command that gives up for conflicts was overtaken as often as it tried.*)
THEOREM ConflictsAreReal == JsonSpec => []ConflictMeansProgress
<1> USE RunJsonAssumption DEF Finished, StepTo, Ends, record, Tries
<1> DEFINE Inv == JsonRivalInv /\ ConflictMeansProgress
<1>1. JsonInit => Inv
  BY DEF JsonInit, JsonRivalInv, ConflictMeansProgress
<1>2. JsonTypeOK /\ Inv /\ [JsonNext]_jsonVars => Inv'
  <2> SUFFICES ASSUME JsonTypeOK, Inv, [JsonNext]_jsonVars PROVE Inv'
    OBVIOUS
  <2> USE DEF JsonTypeOK, JsonRivalInv, ConflictMeansProgress
  <2>1. CASE RunEnds
    BY <2>1 DEF RunEnds, Record!RunEnds
  <2>2. ASSUME NEW c \in Commands, ReadFile(c) PROVE Inv'
    BY <2>2 DEF ReadFile
  <2>3. ASSUME NEW c \in Commands, Transform(c) PROVE Inv'
    BY <2>3 DEF Transform
  <2>4. ASSUME NEW c \in Commands, FoundSo(c) PROVE Inv'
    BY <2>4 DEF FoundSo
  <2>5. ASSUME NEW c \in Commands, Refuse(c) PROVE Inv'
    BY <2>5 DEF Refuse
  <2>6. ASSUME NEW c \in Commands, Acquire(c) PROVE Inv'
    BY <2>6 DEF Acquire
  <2>7. ASSUME NEW c \in Commands, LockBusy(c) PROVE Inv'
    BY <2>7 DEF LockBusy
  <2>8. ASSUME NEW c \in Commands, Compare(c) PROVE Inv'
    BY <2>8 DEF Compare
  <2>9. ASSUME NEW c \in Commands, Conflict(c) PROVE Inv'
    BY <2>9 DEF Conflict, SameSignature, TriesOver, StartOver
  <2>10. ASSUME NEW c \in Commands, Replace(c) PROVE Inv'
    <3>1. /\ step' = [step EXCEPT ![c] = "release"]
          /\ UNCHANGED <<ask, tries, seen>>
      BY <2>10 DEF Replace
    <3>2. rivals'[c] = rivals[c] /\ rivals[c] >= tries[c]
      BY <2>10 DEF Replace
    <3>3. \A d \in Commands \ {c} :
            rivals'[d] = IF file' = file THEN rivals[d] ELSE rivals[d] + 1
      BY <2>10 DEF Replace
    <3>4. \A d \in Commands : /\ rivals'[d] \in Nat
                                 /\ rivals[d] \in Nat /\ tries[d] \in Nat
      BY <3>2, <3>3
    <3>5. JsonRivalInv'
      BY <3>1, <3>2, <3>3, <3>4
    <3>6. ConflictMeansProgress'
      <4> SUFFICES ASSUME NEW d \in Commands, step'[d] = "conflicted"
                   PROVE  rivals'[d] >= Tries(d)'
        OBVIOUS
      <4>1. d # c /\ step[d] = "conflicted" /\ rivals[d] >= Tries(d)
        BY <3>1
      <4>2. Tries(d)' = Tries(d) /\ Tries(d) \in Nat
        BY <3>1
      <4> QED
        BY <3>3, <3>4, <4>1, <4>2
    <3> QED
      BY <3>5, <3>6
  <2>11. ASSUME NEW c \in Commands, Release(c) PROVE Inv'
    BY <2>11 DEF Release
  <2>12. ASSUME NEW c \in Commands, Stop(c) PROVE Inv'
    BY <2>12 DEF Stop
  <2>13. CASE UNCHANGED jsonVars
    BY <2>13 DEF jsonVars
  <2> QED
    BY <2>1, <2>2, <2>3, <2>4, <2>5, <2>6, <2>7, <2>8, <2>9, <2>10, <2>11, <2>12, <2>13
       DEF JsonNext, Update, Terminated
<1> QED
  BY <1>1, <1>2, JsonTypeCorrect, PTL DEF JsonSpec
=============================================================================
