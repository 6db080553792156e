------------------------------ MODULE RunJson ------------------------------
(***************************************************************************)
(* How a command changes run.json (dirtywork/rundir.py): it reads the file *)
(* without a lock, works out the new content, takes the lock file, and     *)
(* replaces the file only if it still reads the same; else it starts over  *)
(* (update_run_json) or gives up (the dashboard).  Any command may fail,   *)
(* or be killed, between any two steps.                                    *)
(***************************************************************************)
EXTENDS Integers

CONSTANTS
  Commands,  \* processes, each of which runs one command
  MaxTries   \* range(20) in update_run_json

VARIABLES
  file,      \* run.json
  ask,       \* what each command asks for
  over,      \* the run is over, as its process and its transcript tell
  outcome,   \* "pending", "done" or "failed", for each command
  step,
  seen,      \* the content each command works from
  tries,     \* conflicts it has met
  lock,      \* .run.json.lock
  \* History variable, read by no action.
  rivals     \* changes others made since the command began

record == <<file, ask, over, outcome>>
jsonVars == <<record, step, seen, tries, lock, rivals>>

Free == "free"

\* What the commands promise, over the same file, requests and outcomes.
Record == INSTANCE RunRecord

ASSUME RunJsonAssumption ==
  /\ MaxTries \in Nat \ {0}
  /\ Free \notin Commands

Locked   == {"compare", "replace", "release"}
Finished == {"done", "failed", "conflicted"}
Steps    == {"read", "transform", "acquire"} \cup Locked \cup Finished

\* The dashboard replaces once, whatever the content it found.
Tries(c) == IF ask[c].from = "web" THEN 1 ELSE MaxTries

StepTo(c, label) == step' = [step EXCEPT ![c] = label]
Ends(c, how)     == outcome' = [outcome EXCEPT ![c] = how]

JsonInit ==
  /\ Record!Init
  /\ step = [c \in Commands |-> "read"]
  /\ seen = [c \in Commands |-> file]
  /\ tries = [c \in Commands |-> 0]
  /\ lock = Free
  /\ rivals = [c \in Commands |-> 0]

\* The worker writes run_end, or its process is gone.
RunEnds == Record!RunEnds /\ UNCHANGED <<step, seen, tries, lock, rivals>>

-----------------------------------------------------------------------------
(* read_run_json: os.replace() leaves a whole file at every moment.         *)
ReadFile(c) ==
  /\ step[c] = "read"
  /\ seen' = [seen EXCEPT ![c] = file]
  /\ StepTo(c, "transform")
  /\ UNCHANGED <<record, tries, lock, rivals>>

\* The pure merge; the dashboard writes only what differs.
NothingToWrite(c) == ask[c].from = "web" /\ Record!Applied(ask[c], seen[c]) = seen[c]

Transform(c) ==
  /\ step[c] = "transform"
  /\ Record!Allowed(ask[c], seen[c], over)
  /\ ~NothingToWrite(c)
  /\ StepTo(c, "acquire")
  /\ UNCHANGED <<record, seen, tries, lock, rivals>>

FoundSo(c) ==
  /\ step[c] = "transform"
  /\ Record!Allowed(ask[c], seen[c], over)
  /\ NothingToWrite(c)
  /\ Ends(c, "done") /\ StepTo(c, "done")
  /\ UNCHANGED <<file, ask, over, seen, tries, lock, rivals>>

Refuse(c) ==
  /\ step[c] = "transform"
  /\ ~Record!Allowed(ask[c], seen[c], over)
  /\ Ends(c, "failed") /\ StepTo(c, "failed")
  /\ UNCHANGED <<file, ask, over, seen, tries, lock, rivals>>

LockIsFree == lock = Free

Acquire(c) ==
  /\ step[c] = "acquire" /\ LockIsFree
  /\ lock' = c
  /\ StepTo(c, "compare")
  /\ UNCHANGED <<record, seen, tries, rivals>>

\* Five seconds are over and the lock is still taken.
LockBusy(c) ==
  /\ step[c] = "acquire" /\ lock # Free
  /\ Ends(c, "failed") /\ StepTo(c, "failed")
  /\ UNCHANGED <<file, ask, over, seen, tries, lock, rivals>>

\* Mutant: the signature leaves one field out.
SameStatus(c) == file.status = seen[c].status

\* run_json_signature: equal content, whoever wrote it.
SameSignature(c) == file = seen[c]

Compare(c) ==
  /\ step[c] = "compare"
  /\ SameSignature(c)
  /\ StepTo(c, "replace")
  /\ UNCHANGED <<record, seen, tries, lock, rivals>>

TriesOver(c) == tries[c] + 1 = Tries(c)

\* Mutant: the next try works from the content of the last one.
MergeAgain == "transform"

StartOver == "read"

Conflict(c) ==
  /\ step[c] = "compare"
  /\ ~SameSignature(c)
  /\ lock' = Free
  /\ tries' = [tries EXCEPT ![c] = @ + 1]
  /\ IF TriesOver(c) THEN Ends(c, "failed") /\ StepTo(c, "conflicted")
                     ELSE UNCHANGED outcome /\ StepTo(c, StartOver)
  /\ UNCHANGED <<file, ask, over, seen, rivals>>

\* The temporary file, written in full, takes run.json's name.
Replace(c) ==
  /\ step[c] = "replace"
  /\ file' = Record!Applied(ask[c], seen[c])
  /\ rivals' = IF file' = file THEN rivals
               ELSE [d \in Commands |-> IF d = c THEN rivals[d] ELSE rivals[d] + 1]
  /\ Ends(c, "done") /\ StepTo(c, "release")
  /\ UNCHANGED <<ask, over, seen, tries, lock>>

Release(c) ==
  /\ step[c] = "release"
  /\ lock' = Free
  /\ StepTo(c, "done")
  /\ UNCHANGED <<record, seen, tries, rivals>>

-----------------------------------------------------------------------------
(* An OSError, or a kill: the system unlocks what an ended process locked.  *)
Stop(c) ==
  /\ step[c] \notin Finished
  /\ outcome' = IF outcome[c] = "pending" THEN [outcome EXCEPT ![c] = "failed"] ELSE outcome
  /\ lock' = IF lock = c THEN Free ELSE lock
  /\ StepTo(c, "failed")
  /\ UNCHANGED <<file, ask, over, seen, tries, rivals>>

Update(c) == \/ ReadFile(c) \/ Transform(c) \/ FoundSo(c) \/ Refuse(c)
             \/ Acquire(c) \/ LockBusy(c) \/ Compare(c) \/ Conflict(c)
             \/ Replace(c) \/ Release(c)

Terminated == (\A c \in Commands : step[c] \in Finished) /\ UNCHANGED jsonVars

JsonNext == RunEnds \/ (\E c \in Commands : Update(c) \/ Stop(c)) \/ Terminated

JsonSpec == JsonInit /\ [][JsonNext]_jsonVars

-----------------------------------------------------------------------------
(* Every variable keeps to its type; the lock belongs to the command that   *)
(* is at work on the file, and no command tries more often than it may.     *)
JsonTypeOK ==
  /\ file \in Record!Files /\ over \in BOOLEAN
  /\ ask \in [Commands -> Record!Requests]
  /\ outcome \in [Commands -> {"pending", "done", "failed"}]
  /\ step \in [Commands -> Steps]
  /\ seen \in [Commands -> Record!Files]
  /\ tries \in [Commands -> 0..MaxTries]
  /\ \A c \in Commands : step[c] \notin Finished => tries[c] < Tries(c)
  /\ lock \in Commands \cup {Free}
  /\ \A c \in Commands : step[c] \in Locked <=> lock = c
  /\ rivals \in [Commands -> Nat]

(* A command that succeeds changes the file in one step, from what it is at *)
(* that moment and only if it is then still allowed, and one that fails     *)
(* leaves no trace: no update is lost, no second verdict given in the       *)
(* browser, no superseded run reviewed (update_run_json, review_action).    *)
RecordSpec == Record!Spec

(* A command gives up for a conflict only if others changed the file as     *)
(* often as it tried (RunJsonConflict, "run metadata kept changing").       *)
ConflictMeansProgress == \A c \in Commands : step[c] = "conflicted" => rivals[c] >= Tries(c)
=============================================================================
