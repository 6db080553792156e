------------------------------- MODULE Procs -------------------------------
(***************************************************************************)
(* One command run by run_capped (dirtywork/procs.py): a child process in  *)
(* a process group (POSIX) or a job (Windows) of its own, whatever it      *)
(* leaves in the background, a thread that drains its output, a thread     *)
(* that feeds its input, and the caller, who waits with a timeout, kills   *)
(* and collects.  tools.bash and docker_cli.run make an answer of it.      *)
(*                                                                         *)
(* Bytes are counted, not told apart.  A process that was killed may take  *)
(* a moment to die ("doomed"): it runs no more code and holds its pipes.   *)
(***************************************************************************)
EXTENDS Integers, FiniteSets

CONSTANTS
  PipeSize,   \* what a pipe holds
  ChunkSize,  \* what one read() of the drain thread waits for
  Cap,        \* run_capped's cap
  MaxOutput,  \* what the processes write at most
  MaxInput    \* the length of stdin at most

ASSUME ProcsAssumption ==
  /\ PipeSize \in Nat \ {0} /\ ChunkSize \in Nat \ {0}
  /\ Cap \in Nat /\ MaxOutput \in Nat /\ MaxInput \in Nat

Child == "child"
Kin   == "kin"                 \* a process the command leaves in the background
Processes == {Child, Kin}

VARIABLES
  pc,         \* the caller
  windows,    \* os.name == "nt"
  feed,       \* what is left of stdin
  timedOut, notes, result,
  proc,       \* each process: "none", "suspended", "running", "doomed", "dead"
  contained,  \* processes in the child's group, or in the job
  holders,    \* processes with the write end of the output pipe open
  ownEnd,     \* the child ended by itself
  assigned,   \* the child was put into the job
  pipe, input,        \* bytes in the output pipe, in the input pipe
  reader, chunk,      \* the drain thread; what its read() has so far
  captured, truncated,
  feeder,
  \* History variables.
  written,    \* what the processes wrote
  gaveUp      \* the drain thread was not waited for to the end

caller  == <<pc, timedOut, notes, result>>
system  == <<proc, contained, holders, ownEnd, assigned>>
drain   == <<reader, chunk, captured, truncated>>
history == <<written, gaveUp>>
vars == <<caller, windows, feed, system, pipe, input, drain, feeder, history>>

NoResult == [code |-> FALSE, size |-> 0, truncated |-> FALSE, timedOut |-> FALSE, spawned |-> FALSE]

Alive   == {p \in Processes : proc[p] \in {"suspended", "running", "doomed"}}
Running == {p \in Processes : proc[p] = "running"}

Init ==
  /\ windows \in BOOLEAN /\ feed \in 0 .. MaxInput
  /\ pc = IF windows THEN "job" ELSE "popen"
  /\ timedOut = FALSE /\ notes = {} /\ result = NoResult
  /\ proc = [p \in Processes |-> "none"]
  /\ contained = {} /\ holders = {} /\ ownEnd = FALSE /\ assigned = FALSE
  /\ pipe = 0 /\ input = 0
  /\ reader = "none" /\ chunk = 0 /\ captured = 0 /\ truncated = FALSE /\ feeder = "none"
  /\ written = 0 /\ gaveUp = FALSE

-----------------------------------------------------------------------------
(* _spawn                                                                  *)

\* SIGKILL, TerminateProcess or the end of a job, for the processes of a set.
Killed(victims) ==
  [p \in Processes |-> IF p \in victims \cap Alive THEN "doomed" ELSE proc[p]]

\* The child never ran, or not so that the caller could wait for it.
SpawnFails ==
  /\ pc \in {"job", "popen"}
  /\ pc' = "returned" /\ result' = NoResult
  /\ UNCHANGED <<timedOut, notes, windows, feed, system, pipe, input, drain, feeder, history>>

\* CreateJobObjectW, SetInformationJobObject: whoever dies with the job dies for good.
CreateJob ==
  /\ pc = "job" /\ pc' = "popen"
  /\ UNCHANGED <<timedOut, notes, result, windows, feed, system, pipe, input, drain,
                 feeder, history>>

Popen ==
  /\ pc = "popen"
  /\ pc' = IF windows THEN "assign" ELSE "threads"
  /\ proc' = [proc EXCEPT ![Child] = IF windows THEN "suspended" ELSE "running"]
  /\ contained' = IF windows THEN {} ELSE {Child}
  /\ holders' = {Child}
  /\ UNCHANGED <<timedOut, notes, result, windows, feed, ownEnd, assigned, pipe, input,
                 drain, feeder, history>>

\* OpenProcess, AssignProcessToJobObject.
Assign ==
  /\ pc = "assign"
  /\ pc' = "resume" /\ assigned' = TRUE /\ contained' = {Child}
  /\ UNCHANGED <<timedOut, notes, result, windows, feed, proc, holders, ownEnd, pipe,
                 input, drain, feeder, history>>

\* The one thread of the child is found and resumed.
Resume ==
  /\ pc = "resume"
  /\ pc' = "threads" /\ proc' = [proc EXCEPT ![Child] = "running"]
  /\ UNCHANGED <<timedOut, notes, result, windows, feed, contained, holders, ownEnd,
                 assigned, pipe, input, drain, feeder, history>>

\* A call of the two steps fails; ResumeThread may have resumed all the same.
SpawnBreaks ==
  /\ pc \in {"assign", "resume"}
  /\ pc' = "fail_kill"
  /\ \/ UNCHANGED proc
     \/ pc = "resume" /\ proc' = [proc EXCEPT ![Child] = "running"]
  /\ UNCHANGED <<timedOut, notes, result, windows, feed, contained, holders, ownEnd,
                 assigned, pipe, input, drain, feeder, history>>

\* What a call to the system kills, and what the output says of it when it fails.
Outcome(dead, said) == [dead |-> dead, said |-> said]
Both(a, b) == Outcome(a.dead \cup b.dead, a.said \cup b.said)
Nothing    == Outcome({}, {})

EndJob   == {Outcome(contained, {}), Outcome({}, {"TerminateJobObject failed"})}
EndChild == {Outcome({Child}, {}), Outcome({}, {"TerminateProcess failed"})}
\* CloseHandle(job): JOB_OBJECT_LIMIT_KILL_ON_JOB_CLOSE.
CloseJob == {Outcome(contained, {}), Outcome({}, {"CloseHandle failed"})}

\* _fail(): the job, if the child is in it, and the child.
FailKill ==
  /\ pc = "fail_kill"
  /\ pc' = "fail_wait"
  /\ \E a \in IF assigned THEN EndJob ELSE {Nothing}, b \in EndChild :
       /\ proc' = Killed(Both(a, b).dead)
       /\ notes' = notes \cup Both(a, b).said
  /\ UNCHANGED <<timedOut, result, windows, feed, contained, holders, ownEnd, assigned,
                 pipe, input, drain, feeder, history>>

\* A bounded wait for the child, then the handles.
FailWait ==
  /\ pc = "fail_wait"
  /\ pc' = "returned" /\ result' = NoResult
  /\ \E c \in CloseJob :
       /\ proc' = Killed(c.dead)
       /\ notes' = notes \cup c.said \cup (IF Child \in Alive THEN {"not confirmed dead"} ELSE {})
  /\ UNCHANGED <<timedOut, windows, feed, contained, holders, ownEnd, assigned,
                 pipe, input, drain, feeder, history>>

-----------------------------------------------------------------------------
(* The processes of the command, and the kernel                            *)

EndOf(p) == proc' = [proc EXCEPT ![p] = "dead"] /\ holders' = holders \ {p}

WriteOutput(p) ==
  /\ p \in Running \cap holders
  /\ pipe < PipeSize /\ written < MaxOutput
  /\ pipe' = pipe + 1 /\ written' = written + 1
  /\ UNCHANGED <<caller, windows, feed, system, input, drain, feeder, gaveUp>>

ReadInput ==
  /\ Child \in Running /\ input > 0
  /\ input' = input - 1
  /\ UNCHANGED <<caller, windows, feed, system, pipe, drain, feeder, history>>

\* A background process has the child's output and is where the child is.
Fork ==
  /\ Child \in Running /\ proc[Kin] = "none"
  /\ proc' = [proc EXCEPT ![Kin] = "running"]
  /\ contained' = IF Child \in contained THEN contained \cup {Kin} ELSE contained
  /\ holders' = IF Child \in holders THEN holders \cup {Kin} ELSE holders
  /\ UNCHANGED <<caller, windows, feed, ownEnd, assigned, pipe, input, drain, feeder, history>>

\* setsid(): out of the group.  There is no way out of the job.
LeaveGroup ==
  /\ ~windows /\ Kin \in Running \cap contained
  /\ contained' = contained \ {Kin}
  /\ UNCHANGED <<caller, windows, feed, proc, holders, ownEnd, assigned, pipe, input,
                 drain, feeder, history>>

CloseOutput(p) ==
  /\ p \in Running \cap holders
  /\ holders' = holders \ {p}
  /\ UNCHANGED <<caller, windows, feed, proc, contained, ownEnd, assigned, pipe, input,
                 drain, feeder, history>>

Exits(p) ==
  /\ p \in Running
  /\ EndOf(p)
  /\ ownEnd' = (ownEnd \/ p = Child)
  /\ UNCHANGED <<caller, windows, feed, contained, assigned, pipe, input, drain, feeder, history>>

Dies(p) ==
  /\ proc[p] = "doomed"
  /\ EndOf(p)
  /\ UNCHANGED <<caller, windows, feed, contained, ownEnd, assigned, pipe, input, drain,
                 feeder, history>>

-----------------------------------------------------------------------------
(* _drain and _feed                                                        *)

Small(a, b) == IF a < b THEN a ELSE b

\* proc.stdout.read(65536) returns with that much, or at the end of the output.
FillChunk ==
  /\ reader = "reading" /\ pipe > 0 /\ chunk < ChunkSize
  /\ pipe' = pipe - 1 /\ chunk' = chunk + 1
  /\ UNCHANGED <<caller, windows, feed, system, input, reader, captured, truncated, feeder,
                 history>>

\* Mutant: a chunk that goes past the cap is cut without a word.
CutSilently(room) == room <= 0

Cut(room) == chunk > room

\* A full chunk is stored as far as the cap allows; the rest is drained all the same.
StoreChunk ==
  /\ reader = "reading"
  /\ chunk = ChunkSize \/ (holders = {} /\ pipe = 0)
  /\ captured' = captured + Small(Cap - captured, chunk)
  /\ truncated' = (truncated \/ (chunk > 0 /\ Cut(Cap - captured)))
  /\ chunk' = 0
  /\ reader' = IF chunk = ChunkSize THEN "reading" ELSE "done"
  /\ UNCHANGED <<caller, windows, feed, system, pipe, input, feeder, history>>

FeedInput ==
  /\ feeder = "feeding" /\ feed > 0 /\ Alive # {} /\ input < PipeSize
  /\ feed' = feed - 1 /\ input' = input + 1
  /\ UNCHANGED <<caller, windows, system, pipe, drain, feeder, history>>

\* All of it is written, or nobody is left to read it (BrokenPipeError).
FeedEnds ==
  /\ feeder = "feeding"
  /\ feed = 0 \/ Alive = {}
  /\ feeder' = "done"
  /\ UNCHANGED <<caller, windows, feed, system, pipe, input, drain, history>>

-----------------------------------------------------------------------------
(* run_capped                                                              *)

\* Mutant: the caller feeds the child itself before anything reads its output.
FeedFirst ==
  /\ pc = "threads"
  /\ feed = 0 \/ Alive = {}
  /\ reader' = "reading" /\ pc' = "wait"
  /\ UNCHANGED feeder

StartThreads ==
  /\ pc = "threads"
  /\ pc' = "wait" /\ reader' = "reading"
  /\ feeder' = IF feed > 0 THEN "feeding" ELSE "none"

Threads ==
  /\ StartThreads
  /\ UNCHANGED <<timedOut, notes, result, windows, feed, system, pipe, input, chunk,
                 captured, truncated, history>>

\* proc.wait(timeout): the timeout may strike in the moment in which the child ends.
Wait ==
  /\ pc = "wait"
  /\ pc' = "kill"
  /\ timedOut' \in {t \in BOOLEAN : t \/ Child \notin Alive}
  /\ UNCHANGED <<notes, result, windows, feed, system, pipe, input, drain, feeder, history>>

\* killpg(), which is taken to reach the whole group, or the job.
KillAll == IF windows THEN EndJob ELSE {Outcome(contained, {})}

\* Mutant: only a command that timed out has its tree killed.
KillLate == IF timedOut THEN KillAll ELSE {Nothing}

\* The child alone when the job cannot be ended; its handle is closed in any case.
Kill ==
  IF ~windows THEN KillAll
  ELSE UNION {{Both(Both(a, b), c) : c \in CloseJob, b \in IF a.said = {} THEN {Nothing} ELSE EndChild}
                : a \in KillAll}

\* _kill_tree(): after a clean exit too.
KillTree ==
  /\ pc = "kill"
  /\ pc' = "reap"
  /\ \E k \in Kill :
       /\ proc' = Killed(k.dead)
       /\ notes' = notes \cup k.said
  /\ UNCHANGED <<timedOut, result, windows, feed, contained, holders, ownEnd, assigned,
                 pipe, input, drain, feeder, history>>

\* proc.wait(timeout=5)
Reap ==
  /\ pc = "reap"
  /\ pc' = "join"
  /\ notes' = IF windows /\ Child \in Alive THEN notes \cup {"not confirmed dead"} ELSE notes
  /\ UNCHANGED <<timedOut, result, windows, feed, system, pipe, input, drain, feeder, history>>

\* reader.join(timeout=5): five seconds are enough unless somebody holds the pipe.
JoinReader ==
  /\ pc = "join"
  /\ \/ reader = "done" /\ UNCHANGED gaveUp
     \/ reader # "done" /\ holders # {} /\ gaveUp' = TRUE
  /\ pc' = "join_feeder"
  /\ UNCHANGED <<timedOut, notes, result, windows, feed, system, pipe, input, drain, feeder,
                 written>>

\* writer.join(timeout=5), and the results
Collect ==
  /\ pc = "join_feeder"
  /\ feeder = "feeding" => Alive # {}
  /\ pc' = "returned"
  /\ result' = [code |-> ~timedOut, size |-> captured, truncated |-> truncated,
                timedOut |-> timedOut, spawned |-> TRUE]
  /\ UNCHANGED <<timedOut, notes, windows, feed, system, pipe, input, drain, feeder, history>>

\* Ctrl-C in the caller: nothing catches it, and the command is left as it is.
Interrupt ==
  /\ pc \notin {"returned", "raised"}
  /\ pc' = "raised"
  /\ UNCHANGED <<timedOut, notes, result, windows, feed, system, pipe, input, drain, feeder,
                 history>>

\* tools.bash; docker_cli.run raises a DockerError of its own for a timeout.
Answer ==
  IF result.timedOut THEN "timed out"
  ELSE IF ~result.code THEN "failed"
  ELSE "exit code"

-----------------------------------------------------------------------------
CallerStep == \/ SpawnFails \/ CreateJob \/ Popen \/ Assign \/ Resume \/ SpawnBreaks
              \/ FailKill \/ FailWait \/ Threads \/ Wait \/ KillTree \/ Reap
              \/ JoinReader \/ Collect
ReaderStep == FillChunk \/ StoreChunk
FeederStep == FeedInput \/ FeedEnds
SystemStep == \/ ReadInput \/ Fork \/ LeaveGroup
              \/ \E p \in Processes : WriteOutput(p) \/ CloseOutput(p) \/ Exits(p) \/ Dies(p)

Terminated == pc \in {"returned", "raised"} /\ UNCHANGED vars

Next == CallerStep \/ ReaderStep \/ FeederStep \/ SystemStep \/ Interrupt \/ Terminated

Spec == Init /\ [][Next]_vars

\* Each wait of the caller has a timeout, and threads are scheduled; nothing is
\* assumed of the command.
FairSpec == Spec /\ WF_vars(CallerStep) /\ WF_vars(ReaderStep) /\ WF_vars(FeederStep)

-----------------------------------------------------------------------------
(* Properties                                                              *)

\* _spawn_windows: "containment holds from the child's first instruction", whichever of
\* the calls fails: no process of the command ever runs outside of its job.
ContainedFromTheStart == windows => Running \subseteq contained

\* The docstring of run_capped: "so backgrounded children cannot outlive the call"; that
\* of _fail: "Nothing is ever left silently running".  Once the call has returned, what
\* still runs has left its process group, or the output run_capped returns names what failed.
NothingOutlivesTheCall ==
  /\ ContainedFromTheStart
  /\ pc = "returned" => \A p \in Running : notes # {} \/ (~windows /\ p \notin contained)

\* An answer that gives an exit code is of a command that ended by itself, and gives all
\* that was written until then, or says that it was cut at the cap -- unless something
\* that outlived the kill held on to the pipe.
AnswerIsTrue ==
  pc = "returned" /\ Answer = "exit code" =>
    /\ ownEnd
    /\ ~gaveUp => /\ result.size = Small(Cap, written)
                  /\ result.truncated <=> written > Cap

\* Whatever the command does with its input and its output, the call returns; and while
\* the caller waits, a command that fills its pipe is not left to wait: what goes past
\* the cap is drained too.
CallReturns ==
  /\ <>(pc \in {"returned", "raised"})
  /\ pc = "wait" /\ pipe = PipeSize ~> pipe < PipeSize
=============================================================================
