--------------------------- MODULE DockerSandbox ---------------------------
(***************************************************************************)
(* The docker sandbox of one run (dirtywork/sandbox/docker.py) and its     *)
(* watchdog thread (dirtywork/sandbox/watchdog.py).                        *)
(*                                                                         *)
(* Two threads share a container: the main thread, which runs the worker's *)
(* tool calls, and the watchdog, which polls the host's free space and,    *)
(* while a bash call is in flight, the size of the worktree.  Either may   *)
(* kill the container (a breach) or reset it (kill, restart, re-init git). *)
(* Each label of pc is a point where the other thread can intervene: a     *)
(* docker command, a lock, or a read of shared state.                      *)
(*                                                                         *)
(* Every docker command may fail whatever the state of the container: the  *)
(* daemon may be slow or the CLI may time out.                             *)
(***************************************************************************)
EXTENDS Integers, FiniteSets

CONSTANTS
  MaxTurns,              \* tool calls the run may make (--max-turns)
  MaxDiskCheckFailures,  \* consecutive stat failures before failing closed
  SettleChecks           \* `docker top` re-checks after a stray kill

ASSUME SandboxAssumption ==
  /\ MaxTurns \in Nat
  /\ MaxDiskCheckFailures \in Nat \ {0}
  /\ SettleChecks \in Nat \ {0}

VARIABLES
  pc,             \* where each thread is
  caller,         \* who called reset(): "reap" or "measure", per thread
  reapLock,       \* DockerSandbox._reap_lock
  resetLock,      \* DockerSandbox._reset_lock
  container,      \* "up", "booting" (running, git not yet initialised), "dead", "removed"
  tetherKnown,    \* _tether_pid is not None
  execAlive,      \* the process of the bash call in flight is alive
  strays,         \* a process other than the tether and that exec is alive
  over,           \* /work exceeds max_worktree_mb or max_worktree_files
  resetThisCall,  \* _reset_this_call
  shuttingDown,   \* _shutting_down, and the watchdog's stop event
  violation,      \* Watchdog.violation, by its cause
  diskFailures,   \* Watchdog._disk_check_failures
  settle,         \* settle re-checks done by this _reap
  turns,          \* tool calls made
  outcome,        \* how the run ended before finalize; "none" while it goes on
  \* History variables: what happened, read by no action.
  recorded,       \* causes ever recorded as a violation
  surfaced,       \* causes raised to the runner or reported by finalize
  staleFlag,      \* resetThisCall was already set when the last bash call began
  killFailed,     \* a `docker kill` left the container running
  joinTimedOut    \* finalize went on while the watchdog was alive

locks   == <<reapLock, resetLock>>
worker  == <<execAlive, strays, over>>
history == <<recorded, surfaced, staleFlag, killFailed, joinTimedOut>>
vars == <<pc, caller, locks, container, tetherKnown, worker, resetThisCall,
          shuttingDown, violation, diskFailures, settle, turns, outcome, history>>

Main == "main"
Dog  == "watchdog"
Threads == {Main, Dog}
Free == "free"
None == "none"

Causes == {"disk", "unmeasurable", "size", "died"}

\* The status _raise_violation and _final_status give to a recorded cause:
\* only the watchdog's own death is of kind "sandbox_error".
StatusOf(cause) == IF cause = "died" THEN "sandbox_error" ELSE "budget_exceeded"

Statuses == {"completed", "interrupted", "sandbox_error", "budget_exceeded"}

ResetBody    == {"rs_kill", "rs_start", "rs_ready", "rs_init", "rs_done"}
HoldingReset == ResetBody \cup {"wkilling"}
ReapBody     == {"top", "kill_strays", "settle", "oom"}
MeasureBody  == {"measure", "remeasure"}
HoldingReap  == ReapBody \cup MeasureBody \cup ResetBody \cup {"reset", "abandon_kill"}
Breaches     == {"breach_size", "breach_disk", "breach_stat", "died"}
Recording    == Breaches \cup {"wkill", "wkilling"}

MainAfterBash == {"after", "reap", "reap_wait", "presample", "sample", "violated",
                  "clear", "breach_size", "wkill", "wkilling", "reset"}
                 \cup ReapBody \cup MeasureBody \cup ResetBody
MainLabels == MainAfterBash \cup {"idle", "bash", "abandoned", "abandon_kill",
                                  "finalize", "join", "rm", "take", "done"}
DogLabels  == {"loop", "disk", "look", "sample", "reset", "exited"}
              \cup Recording \cup MeasureBody \cup ResetBody

Running  == container \in {"up", "booting"}
InFlight == pc[Main] = "bash"     \* Watchdog._bash_in_flight

Goto(t, label) == pc' = [pc EXCEPT ![t] = label]

\* Where _sample_worktree and check_worktree_budget_once return to.
AfterSample(t) == IF t = Main THEN "violated" ELSE "loop"

-----------------------------------------------------------------------------
(* The state in which __main__ starts the watchdog thread: start() returned. *)
Init ==
  /\ pc = [t \in Threads |-> IF t = Main THEN "idle" ELSE "loop"]
  /\ caller = [t \in Threads |-> "measure"]
  /\ reapLock = Free /\ resetLock = Free
  /\ container = "up"
  /\ tetherKnown \in BOOLEAN
  /\ execAlive = FALSE /\ strays = FALSE
  /\ over = FALSE
  /\ resetThisCall = FALSE /\ shuttingDown = FALSE
  /\ violation = None
  /\ diskFailures = 0 /\ settle = 0 /\ turns = 0
  /\ outcome = None
  /\ recorded = {} /\ surfaced = {}
  /\ staleFlag = FALSE /\ killFailed = FALSE /\ joinTimedOut = FALSE

-----------------------------------------------------------------------------
(* `docker kill`: PID 1 dies and with it the whole process namespace.  It   *)
(* may also fail; the callers go on either way.                             *)
DockerKill ==
  \/ /\ container' = IF Running THEN "dead" ELSE container
     /\ execAlive' = FALSE /\ strays' = FALSE
     /\ UNCHANGED <<over, killFailed>>
  \/ /\ Running
     /\ killFailed' = TRUE
     /\ UNCHANGED <<container, worker>>

-----------------------------------------------------------------------------
(* reset(), run by either thread with _reap_lock held.                      *)

\* Mutant: the guard forgets the pending violation.
ResetAllowedBlind == ~shuttingDown

\* reset() does nothing when a violation is pending or the run is shutting down.
ResetAllowed == violation = None /\ ~shuttingDown

SkipReset(t) ==
  /\ pc[t] = "reset" /\ resetLock = Free
  /\ ~ResetAllowed
  /\ resetThisCall' = TRUE
  /\ reapLock' = Free
  /\ Goto(t, AfterSample(t))
  /\ UNCHANGED <<caller, resetLock, container, tetherKnown, worker, shuttingDown,
                 violation, diskFailures, settle, turns, outcome, history>>

BeginReset(t) ==
  /\ pc[t] = "reset" /\ resetLock = Free
  /\ ResetAllowed
  /\ resetLock' = t
  /\ resetThisCall' = TRUE
  /\ Goto(t, "rs_kill")
  /\ UNCHANGED <<caller, reapLock, container, tetherKnown, worker, shuttingDown,
                 violation, diskFailures, settle, turns, outcome, history>>

ResetKill(t) ==
  /\ pc[t] = "rs_kill"
  /\ DockerKill
  /\ Goto(t, "rs_start")
  /\ UNCHANGED <<caller, locks, tetherKnown, resetThisCall, shuttingDown, violation,
                 diskFailures, settle, turns, outcome, recorded, surfaced,
                 staleFlag, joinTimedOut>>

\* wait for the stop, close the old tether, start a new one.
ResetStart(t) ==
  /\ pc[t] = "rs_start"
  /\ container' = IF container = "dead" THEN "booting" ELSE container
  /\ Goto(t, "rs_ready")
  /\ UNCHANGED <<caller, locks, tetherKnown, worker, resetThisCall, shuttingDown,
                 violation, diskFailures, settle, turns, outcome, history>>

\* Mutant: the exception path keeps the outer lock.
ReleaseInnerOnly == resetLock' = Free /\ UNCHANGED reapLock

ReleaseBoth == resetLock' = Free /\ reapLock' = Free

\* An exception leaves reset(): both `with` blocks release their lock.
Escape(t) ==
  /\ ReleaseBoth
  /\ Goto(t, IF t = Main THEN "clear" ELSE "died")
  /\ outcome' = IF t = Main THEN "sandbox_error" ELSE outcome

ResetReady(t) ==
  /\ pc[t] = "rs_ready"
  /\ \/ /\ Running
        /\ Goto(t, "rs_init")
        /\ tetherKnown' \in BOOLEAN
        /\ UNCHANGED <<locks, outcome>>
     \/ /\ Escape(t)
        /\ UNCHANGED tetherKnown
  /\ UNCHANGED <<caller, container, worker, resetThisCall, shuttingDown, violation,
                 diskFailures, settle, turns, history>>

ResetInit(t) ==
  /\ pc[t] = "rs_init"
  /\ \/ /\ Running
        /\ container' = "up"
        /\ Goto(t, "rs_done")
        /\ UNCHANGED <<locks, outcome>>
     \/ /\ Escape(t)
        /\ UNCHANGED container
  /\ UNCHANGED <<caller, tetherKnown, worker, resetThisCall, shuttingDown, violation,
                 diskFailures, settle, turns, history>>

\* The event and the notice are written, and the caller goes on: _reap
\* returns, a sample measures again.
ResetDone(t) ==
  /\ pc[t] = "rs_done"
  /\ resetLock' = Free
  /\ IF caller[t] = "reap"
       THEN /\ reapLock' = Free
            /\ Goto(t, "violated")
       ELSE /\ Goto(t, "remeasure")
            /\ UNCHANGED reapLock
  /\ UNCHANGED <<caller, container, tetherKnown, worker, resetThisCall, shuttingDown,
                 violation, diskFailures, settle, turns, outcome, history>>

Reset(t) == \/ SkipReset(t)  \/ BeginReset(t) \/ ResetKill(t) \/ ResetStart(t)
            \/ ResetReady(t) \/ ResetInit(t)  \/ ResetDone(t)

CallReset(t, from) ==
  /\ Goto(t, "reset")
  /\ caller' = [caller EXCEPT ![t] = from]

-----------------------------------------------------------------------------
(* Watchdog.record_violation and its kill callback, run by either thread.   *)

CauseAt(label) == CASE label = "breach_size" -> "size"
                    [] label = "breach_disk" -> "disk"
                    [] label = "breach_stat" -> "unmeasurable"
                    [] OTHER                 -> "died"

\* Mutant: record_violation without its test.
LastWins == TRUE

\* The first violation wins; whoever loses issues no kill.
FirstWins == violation = None

RecordViolation(t) ==
  /\ pc[t] \in Breaches
  /\ IF FirstWins
       THEN /\ violation' = CauseAt(pc[t])
            /\ recorded' = recorded \cup {CauseAt(pc[t])}
            /\ Goto(t, "wkill")
       ELSE /\ Goto(t, IF t = Main THEN "violated" ELSE "exited")
            /\ UNCHANGED <<violation, recorded>>
  /\ UNCHANGED <<caller, locks, container, tetherKnown, worker, resetThisCall,
                 shuttingDown, diskFailures, settle, turns, outcome,
                 surfaced, staleFlag, killFailed, joinTimedOut>>

\* Mutant: _watchdog_kill kills without waiting for _reset_lock.
KillAtOnce == TRUE

KillMayStart == resetLock = Free

WatchdogKillEnter(t) ==
  /\ pc[t] = "wkill" /\ KillMayStart
  /\ resetLock' = t
  /\ resetThisCall' = TRUE
  /\ Goto(t, "wkilling")
  /\ UNCHANGED <<caller, reapLock, container, tetherKnown, worker, shuttingDown,
                 violation, diskFailures, settle, turns, outcome, history>>

WatchdogKill(t) ==
  /\ pc[t] = "wkilling"
  /\ DockerKill
  /\ resetLock' = Free
  /\ Goto(t, IF t = Main THEN "violated" ELSE "exited")
  /\ UNCHANGED <<caller, reapLock, tetherKnown, resetThisCall, shuttingDown, violation,
                 diskFailures, settle, turns, outcome, recorded, surfaced,
                 staleFlag, joinTimedOut>>

Breach(t) == RecordViolation(t) \/ WatchdogKillEnter(t) \/ WatchdogKill(t)

-----------------------------------------------------------------------------
(* _sample_worktree and check_worktree_budget_once: the main thread waits   *)
(* for _reap_lock, the watchdog gives up when it is busy.                   *)

SampleAcquire(t) ==
  /\ pc[t] = "sample" /\ reapLock = Free /\ ~shuttingDown
  /\ reapLock' = t
  /\ Goto(t, "measure")
  /\ UNCHANGED <<caller, resetLock, container, tetherKnown, worker, resetThisCall,
                 shuttingDown, violation, diskFailures, settle, turns, outcome, history>>

SampleGivesUp(t) ==
  /\ pc[t] = "sample"
  /\ shuttingDown \/ (t = Dog /\ reapLock # Free)
  /\ Goto(t, AfterSample(t))
  /\ UNCHANGED <<caller, locks, container, tetherKnown, worker, resetThisCall,
                 shuttingDown, violation, diskFailures, settle, turns, outcome, history>>

MeasureSucceeds(t) ==
  /\ pc[t] \in MeasureBody /\ Running
  /\ reapLock' = Free
  /\ Goto(t, IF over THEN "breach_size" ELSE AfterSample(t))
  /\ UNCHANGED <<caller, resetLock, container, tetherKnown, worker, resetThisCall,
                 shuttingDown, violation, diskFailures, settle, turns, outcome, history>>

\* A first failure in a call that was not reset yet resets once and measures again.
MeasureResets(t) ==
  /\ pc[t] = "measure" /\ violation = None /\ ~resetThisCall
  /\ CallReset(t, "measure")
  /\ UNCHANGED <<locks, container, tetherKnown, worker, resetThisCall, shuttingDown,
                 violation, diskFailures, settle, turns, outcome, history>>

\* Otherwise the sample is given up: quietly when a violation is pending or on
\* the watchdog's thread, with SandboxError on the main thread.
MeasureFails(t) ==
  /\ pc[t] \in MeasureBody
  /\ violation # None \/ resetThisCall \/ pc[t] = "remeasure"
  /\ reapLock' = Free
  /\ IF t = Main /\ violation = None
       THEN Goto(t, "clear") /\ outcome' = "sandbox_error"
       ELSE Goto(t, AfterSample(t)) /\ UNCHANGED outcome
  /\ UNCHANGED <<caller, resetLock, container, tetherKnown, worker, resetThisCall,
                 shuttingDown, violation, diskFailures, settle, turns, history>>

Sample(t) == \/ SampleAcquire(t) \/ SampleGivesUp(t)
             \/ MeasureSucceeds(t) \/ MeasureResets(t) \/ MeasureFails(t)

-----------------------------------------------------------------------------
(* bash() on the main thread.                                               *)

BashStart ==
  /\ pc[Main] = "idle" /\ turns < MaxTurns
  /\ turns' = turns + 1
  /\ execAlive' = Running
  /\ staleFlag' = resetThisCall
  /\ Goto(Main, "bash")
  /\ UNCHANGED <<caller, locks, container, tetherKnown, strays, over, resetThisCall,
                 shuttingDown, violation, diskFailures, settle, outcome,
                 recorded, surfaced, killFailed, joinTimedOut>>

\* The exec returned, timed out or failed.  One that was not killed may leave
\* processes behind: background jobs, or all of it after a timeout.
BashEnd ==
  /\ pc[Main] = "bash"
  /\ execAlive' = FALSE
  /\ \/ strays' = strays
     \/ execAlive /\ strays' = TRUE
  /\ Goto(Main, "after")
  /\ UNCHANGED <<caller, locks, container, tetherKnown, over, resetThisCall,
                 shuttingDown, violation, diskFailures, settle, turns, outcome, history>>

\* Mutant: the violation is cleared and the call returns as if nothing happened.
SwallowViolation ==
  /\ violation # None
  /\ violation' = None
  /\ Goto(Main, "clear")
  /\ UNCHANGED <<outcome, history>>

\* _raise_violation: take the violation and raise by its kind.
RaiseViolation ==
  /\ violation # None
  /\ violation' = None
  /\ surfaced' = surfaced \cup {violation}
  /\ outcome' = StatusOf(violation)
  /\ Goto(Main, "clear")
  /\ UNCHANGED <<recorded, staleFlag, killFailed, joinTimedOut>>

\* _after_bash looks for a violation before the reap and again at its end.
CheckViolation ==
  /\ pc[Main] \in {"after", "violated"}
  /\ \/ RaiseViolation
     \/ /\ violation = None
        /\ Goto(Main, IF pc[Main] = "after" THEN "reap" ELSE "clear")
        /\ UNCHANGED <<violation, outcome, history>>
  /\ UNCHANGED <<caller, locks, container, tetherKnown, worker, resetThisCall,
                 shuttingDown, diskFailures, settle, turns>>

\* `finally`: the flag is cleared whether the call returns or raises.
ClearFlag ==
  /\ pc[Main] = "clear" /\ resetLock = Free
  /\ resetThisCall' = FALSE
  /\ Goto(Main, IF outcome = None THEN "idle" ELSE "finalize")
  /\ UNCHANGED <<caller, locks, container, tetherKnown, worker, shuttingDown, violation,
                 diskFailures, settle, turns, outcome, history>>

-----------------------------------------------------------------------------
(* _reap, after every bash call.                                            *)

ReapGuard ==
  /\ pc[Main] = "reap"
  /\ Goto(Main, IF resetThisCall THEN "violated" ELSE "reap_wait")
  /\ UNCHANGED <<caller, locks, container, tetherKnown, worker, resetThisCall,
                 shuttingDown, violation, diskFailures, settle, turns, outcome, history>>

ReapAcquire ==
  /\ pc[Main] = "reap_wait" /\ reapLock = Free
  /\ reapLock' = Main
  /\ Goto(Main, "top")
  /\ UNCHANGED <<caller, resetLock, container, tetherKnown, worker, resetThisCall,
                 shuttingDown, violation, diskFailures, settle, turns, outcome, history>>

\* Any docker step of the reap that fails, finds the container gone, cannot
\* kill the strays or sees an OOM kill resets the container.
ReapResets ==
  /\ pc[Main] \in ReapBody
  /\ CallReset(Main, "reap")
  /\ UNCHANGED <<locks, container, tetherKnown, worker, resetThisCall, shuttingDown,
                 violation, diskFailures, settle, turns, outcome, history>>

ReapTop ==
  /\ pc[Main] = "top" /\ Running
  /\ Goto(Main, IF strays THEN "kill_strays" ELSE "oom")
  /\ UNCHANGED <<caller, locks, container, tetherKnown, worker, resetThisCall,
                 shuttingDown, violation, diskFailures, settle, turns, outcome, history>>

\* The kill script needs the tether's pid; a process may take a moment to die.
ReapKill ==
  /\ pc[Main] = "kill_strays" /\ tetherKnown /\ Running
  /\ settle' = 0
  /\ strays' \in {strays, FALSE}
  /\ Goto(Main, "settle")
  /\ UNCHANGED <<caller, locks, container, tetherKnown, execAlive, over, resetThisCall,
                 shuttingDown, violation, diskFailures, turns, outcome, history>>

\* Mutant: the last re-check is taken for a success.
SettledAnyway(alive) == ~alive \/ settle + 1 = SettleChecks

Settled(alive) == ~alive

\* After the last re-check that still sees a stray only ReapResets is left.
ReapSettle ==
  /\ pc[Main] = "settle" /\ Running /\ settle < SettleChecks
  /\ settle' = settle + 1
  /\ strays' \in {strays, FALSE}
  /\ Goto(Main, IF Settled(strays') THEN "oom" ELSE "settle")
  /\ UNCHANGED <<caller, locks, container, tetherKnown, execAlive, over, resetThisCall,
                 shuttingDown, violation, diskFailures, turns, outcome, history>>

\* Not OOM-killed, or the inspect failed: the reap is over, without a reset.
ReapDone ==
  /\ pc[Main] = "oom"
  /\ reapLock' = Free
  /\ Goto(Main, "presample")
  /\ UNCHANGED <<caller, resetLock, container, tetherKnown, worker, resetThisCall,
                 shuttingDown, violation, diskFailures, settle, turns, outcome, history>>

\* The sample is skipped in a call whose container was just rebuilt.
SkipSample == resetThisCall

PreSample ==
  /\ pc[Main] = "presample"
  /\ Goto(Main, IF SkipSample THEN "violated" ELSE "sample")
  /\ UNCHANGED <<caller, locks, container, tetherKnown, worker, resetThisCall,
                 shuttingDown, violation, diskFailures, settle, turns, outcome, history>>

-----------------------------------------------------------------------------
(* The other tools run without a lock and without a reap.  Only a grep that *)
(* timed out changes the sandbox: its process is killed in place, if it can.*)

GrepTimesOut ==
  /\ pc[Main] = "idle" /\ turns < MaxTurns /\ Running
  /\ turns' = turns + 1
  /\ strays' = TRUE
  /\ Goto(Main, IF tetherKnown THEN "abandoned" ELSE "idle")
  /\ UNCHANGED <<caller, locks, container, tetherKnown, execAlive, over, resetThisCall,
                 shuttingDown, violation, diskFailures, settle, outcome, history>>

\* write_file and the edit tools: the worktree may grow and is not sampled.  Nobody
\* catches the DockerError of an exec that times out and may go on: the run ends.
WriteTool ==
  /\ pc[Main] = "idle" /\ turns < MaxTurns /\ Running
  /\ turns' = turns + 1
  /\ over' \in BOOLEAN
  /\ \/ UNCHANGED <<pc, strays, outcome>>
     \/ strays' = TRUE /\ outcome' = "sandbox_error" /\ Goto(Main, "finalize")
  /\ UNCHANGED <<caller, locks, container, tetherKnown, execAlive, resetThisCall,
                 shuttingDown, violation, diskFailures, settle, history>>

AbandonAcquire ==
  /\ pc[Main] = "abandoned" /\ reapLock = Free
  /\ reapLock' = Main
  /\ Goto(Main, "abandon_kill")
  /\ UNCHANGED <<caller, resetLock, container, tetherKnown, worker, resetThisCall,
                 shuttingDown, violation, diskFailures, settle, turns, outcome, history>>

AbandonKill ==
  /\ pc[Main] = "abandon_kill"
  /\ strays' \in {strays, FALSE}
  /\ reapLock' = Free
  /\ Goto(Main, "idle")
  /\ UNCHANGED <<caller, resetLock, container, tetherKnown, execAlive, over,
                 resetThisCall, shuttingDown, violation, diskFailures, settle, turns,
                 outcome, history>>

\* The worker's processes change the size of the worktree at any time.
WorkerWrites ==
  /\ Running /\ (execAlive \/ strays)
  /\ over' = ~over
  /\ UNCHANGED <<pc, caller, locks, container, tetherKnown, execAlive, strays,
                 resetThisCall, shuttingDown, violation, diskFailures, settle, turns,
                 outcome, history>>

-----------------------------------------------------------------------------
(* The end of the run: the runner finishes, then finalize().                *)

Finish ==
  /\ pc[Main] = "idle"
  /\ outcome' = "completed"
  /\ Goto(Main, "finalize")
  /\ UNCHANGED <<caller, locks, container, tetherKnown, worker, resetThisCall,
                 shuttingDown, violation, diskFailures, settle, turns, history>>

\* Ctrl-C reaches the main thread anywhere before finalize.  `with` releases
\* its locks; inside _after_bash the `finally` still has to clear the flag.
Interrupt ==
  /\ pc[Main] \in MainAfterBash \cup {"idle", "bash", "abandoned", "abandon_kill"}
  /\ outcome # "interrupted"
  /\ outcome' = "interrupted"
  /\ reapLock' = IF reapLock = Main THEN Free ELSE reapLock
  /\ resetLock' = IF resetLock = Main THEN Free ELSE resetLock
  /\ Goto(Main, IF pc[Main] \in MainAfterBash \ {"clear"} THEN "clear" ELSE "finalize")
  /\ UNCHANGED <<caller, container, tetherKnown, worker, resetThisCall, shuttingDown,
                 violation, diskFailures, settle, turns, history>>

\* The sweep of stale temp files may fail; _stop_container then announces the
\* shutdown and tells the watchdog to stop.
Finalize ==
  /\ pc[Main] = "finalize"
  /\ shuttingDown' = TRUE
  /\ Goto(Main, "join")
  /\ UNCHANGED <<caller, locks, container, tetherKnown, worker, resetThisCall, violation,
                 diskFailures, settle, turns, outcome, history>>

\* join(timeout=T_LIFECYCLE) waits for the watchdog, but no longer than that: a
\* reset is several docker commands of up to T_LIFECYCLE each, and a stat of a
\* host path has no timeout at all.
MayOutlastJoin == ResetBody \cup {"wkilling", "disk"}

Join ==
  /\ pc[Main] = "join"
  /\ \/ pc[Dog] = "exited" /\ UNCHANGED joinTimedOut
     \/ pc[Dog] \in MayOutlastJoin /\ joinTimedOut' = TRUE
  /\ Goto(Main, "rm")
  /\ UNCHANGED <<caller, locks, container, tetherKnown, worker, resetThisCall,
                 shuttingDown, violation, diskFailures, settle, turns, outcome,
                 recorded, surfaced, staleFlag, killFailed>>

\* `docker rm -f`; when that fails, closing the tether still ends the container.
Remove ==
  /\ pc[Main] = "rm"
  /\ container' \in {"removed", "dead"}
  /\ execAlive' = FALSE /\ strays' = FALSE
  /\ Goto(Main, "take")
  /\ UNCHANGED <<caller, locks, tetherKnown, over, resetThisCall, shuttingDown, violation,
                 diskFailures, settle, turns, outcome, history>>

\* take_violation: what the run never raised goes into the artifacts.
TakeViolation ==
  /\ pc[Main] = "take"
  /\ violation' = None
  /\ surfaced' = surfaced \cup ({violation} \ {None})
  /\ outcome' = IF outcome = "completed" /\ violation # None
                THEN StatusOf(violation) ELSE outcome
  /\ Goto(Main, "done")
  /\ UNCHANGED <<caller, locks, container, tetherKnown, worker, resetThisCall,
                 shuttingDown, diskFailures, settle, turns,
                 recorded, staleFlag, killFailed, joinTimedOut>>

-----------------------------------------------------------------------------
(* Watchdog.run.                                                            *)

DogLoop ==
  /\ pc[Dog] = "loop"
  /\ Goto(Dog, IF shuttingDown THEN "exited" ELSE "disk")
  /\ UNCHANGED <<caller, locks, container, tetherKnown, worker, resetThisCall,
                 shuttingDown, violation, diskFailures, settle, turns, outcome, history>>

\* Mutant: off by one.
FailsClosedLate(n) == n > MaxDiskCheckFailures

FailsClosed(n) == n >= MaxDiskCheckFailures

\* _check_disk fails closed after MaxDiskCheckFailures stat failures in a row.
CheckDisk ==
  /\ pc[Dog] = "disk"
  /\ \/ /\ diskFailures' = diskFailures + 1
        /\ Goto(Dog, IF FailsClosed(diskFailures') THEN "breach_stat" ELSE "look")
     \/ /\ diskFailures' = 0
        /\ \E label \in {"breach_disk", "look"} : Goto(Dog, label)
  /\ UNCHANGED <<caller, locks, container, tetherKnown, worker, resetThisCall,
                 shuttingDown, violation, settle, turns, outcome, history>>

\* It samples when a bash call is in flight and the interval has elapsed.
Look ==
  /\ pc[Dog] = "look"
  /\ \/ InFlight /\ Goto(Dog, "sample")
     \/ Goto(Dog, "loop")
  /\ UNCHANGED <<caller, locks, container, tetherKnown, worker, resetThisCall,
                 shuttingDown, violation, diskFailures, settle, turns, outcome, history>>

-----------------------------------------------------------------------------
MainStep ==
  \/ BashStart \/ BashEnd \/ CheckViolation \/ ClearFlag
  \/ ReapGuard \/ ReapAcquire \/ ReapResets \/ ReapTop \/ ReapKill \/ ReapSettle
  \/ ReapDone \/ PreSample
  \/ GrepTimesOut \/ WriteTool \/ AbandonAcquire \/ AbandonKill
  \/ Finish \/ Finalize \/ Join \/ Remove \/ TakeViolation
  \/ Reset(Main) \/ Breach(Main) \/ Sample(Main)

DogStep == DogLoop \/ CheckDisk \/ Look \/ Reset(Dog) \/ Breach(Dog) \/ Sample(Dog)

\* The run is over and its watchdog gone: nothing is left to do.
Terminated ==
  /\ pc[Main] = "done" /\ pc[Dog] = "exited"
  /\ UNCHANGED vars

Next == MainStep \/ DogStep \/ WorkerWrites \/ Interrupt \/ Terminated

Spec == Init /\ [][Next]_vars

\* Every docker command has a timeout and neither thread waits for anything
\* but the two locks, so a thread that can step eventually does.
FairSpec == Spec /\ WF_vars(MainStep) /\ WF_vars(DogStep)

-----------------------------------------------------------------------------
(* Every variable keeps to its type, and the two threads to their labels:   *)
(* no thread is ever at a point of the code that only the other one reaches.*)
LabelsOK ==
  /\ pc \in [Threads -> MainLabels \cup DogLabels]
  /\ pc[Main] \in MainLabels /\ pc[Dog] \in DogLabels
  /\ caller \in [Threads -> {"reap", "measure"}] /\ caller[Dog] = "measure"
  /\ reapLock \in Threads \cup {Free} /\ resetLock \in Threads \cup {Free}

DataOK ==
  /\ container \in {"up", "booting", "dead", "removed"}
  /\ violation \in Causes \cup {None}
  /\ diskFailures \in 0..MaxDiskCheckFailures
  /\ settle \in 0..SettleChecks
  /\ turns \in 0..MaxTurns
  /\ outcome \in Statuses \cup {None}
  /\ recorded \subseteq Causes /\ surfaced \subseteq Causes

FlagsOK ==
  /\ tetherKnown \in BOOLEAN
  /\ execAlive \in BOOLEAN /\ strays \in BOOLEAN /\ over \in BOOLEAN
  /\ resetThisCall \in BOOLEAN /\ shuttingDown \in BOOLEAN
  /\ staleFlag \in BOOLEAN /\ killFailed \in BOOLEAN /\ joinTimedOut \in BOOLEAN

TypeOK == LabelsOK /\ DataOK /\ FlagsOK

(* The docker commands of a reset (kill, start, ready, init) and the        *)
(* watchdog's kill never interleave, and a reap or a sample in progress     *)
(* never sees the other thread's reset half done: one thread at a time is   *)
(* in the code each lock protects (docker.py, "Lock order", reset()).       *)
LockDiscipline ==
  \A t \in Threads :
    /\ pc[t] \in HoldingReset <=> resetLock = t
    /\ pc[t] \in HoldingReap  <=> reapLock = t

(* The container that a breach killed stays dead until the violation is     *)
(* consumed: no reset, by whichever thread, restarts it and so masks the    *)
(* violation (reset(), first branch).  A kill that docker itself failed, or *)
(* that Ctrl-C pre-empted, is out of the code's hands.                      *)
BreachKeepsContainerDead ==
  \/ violation = None
  \/ \E t \in Threads : pc[t] \in {"wkill", "wkilling"}
  \/ ~Running
  \/ killFailed \/ outcome = "interrupted"

(* A recorded violation is neither replaced by a later one nor cleared by   *)
(* anyone but the main thread (Watchdog.record_violation, take_violation).  *)
ViolationStands ==
  violation # None => \/ violation' = violation
                      \/ violation' = None /\ pc'[Main] \in {"clear", "done"}

FirstViolationStands == [][ViolationStands]_vars

(* When the run is over every violation ever recorded has been raised to    *)
(* the runner or reported in the artifacts, and a run that breached a bound *)
(* is not reported completed -- unless Ctrl-C replaced the exception, or    *)
(* the join of the watchdog timed out (_raise_violation, finalize).         *)
ViolationSurfaces ==
  pc[Main] = "done" => \/ /\ recorded \subseteq surfaced
                          /\ recorded # {} => outcome # "completed"
                       \/ outcome = "interrupted" \/ joinTimedOut

(* A bash call that returns leaves no process of the worker behind, and a   *)
(* worktree within its budget if the call was not reset: the reap, the      *)
(* settle loop and the sample see to it (_after_bash).  The two exceptions  *)
(* are a flag left set from before the call, and a `docker kill` that       *)
(* failed.                                                                  *)
BashReturned == pc[Main] = "clear" /\ pc'[Main] = "idle"

BashLeavesNothing ==
  [][BashReturned => \/ ~strays /\ (over => resetThisCall)
                     \/ staleFlag \/ killFailed]_vars

(* Every run ends, and with it every bash call, whatever docker and the     *)
(* watchdog do: no deadlock on the two locks, no loop of resets (the        *)
(* "max_turns" bound ends an endless conversation).                         *)
RunEnds == <>(pc[Main] = "done")

-----------------------------------------------------------------------------
(* Stated by the documentation, and not what the code does.                 *)

(* docs/operating.md:272: "A process cannot outlive the `bash` call that    *)
(* started it."  Checked where `docker kill` works.                         *)
NoProcessOutlivesItsCall ==
  [][BashReturned => ~strays \/ killFailed]_vars
=============================================================================
