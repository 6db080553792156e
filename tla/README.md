# TLA+ models of dirtywork

dirtywork runs one coding task with a local language model: a tool loop inside a
git worktree, by default in a Docker container that has no network. This
directory holds TLA+ modules of the parts of it where a test reaches little: the
two threads of the docker sandbox, what happens to a worker's files from the
first run to the last resume, the loop of a run with the several ways it can end,
the transcript that two threads write and a third party reads, the two files-and-git
protocols beside which other processes act, the Firewall in front of every tool call,
and the child process under every command. TLC checks them on small instances, and
TLAPS proves the theorems for every value of the constants.

Every definition is translated from the Python under `dirtywork/`. Paths below
are relative to the repository; `PROJECT.json` maps each definition to its lines.

## 1. The system

| Component | State it keeps | Operations | Modelled in |
|---|---|---|---|
| Run loop `runner.py` | history, trackers, verify state, fingerprint, `finalize_state`, `run_end_written` | `one_turn`, `check_verify`, `finish` | `RunLoop` |
| Docker sandbox `sandbox/docker.py` | container, tether pid, `_reap_lock`, `_reset_lock`, `_reset_this_call` | `bash`, `grep`, write tools, `_reap`, `reset`, `finalize`, `stop` | `DockerSandbox`; its write scripts in `FileTools`, its notices in `Transcript` |
| Watchdog `sandbox/watchdog.py` | `violation`, stat failures, bash-in-flight flag | `run`, `sample`, `_breach`, `take_violation` | `DockerSandbox` |
| Lifecycle `__main__.py`, `sandbox/docker.py`, `sandbox/export.py`, `resume.py`, `runs.py` | worktree, volume, stash, run.json | `run`, `resume`, `runs export`, `runs clean` | `RunLifecycle` |
| Transcript `transcript.py` | lock, turn buffer, file | `write`, `turn`, `flush`, `close` | `TurnLog` (abstract), `Transcript` |
| run.json `rundir.py`, `review.py` | the file, `.run.json.lock` | `update_run_json` (compare and replace, 20 tries), the dashboard's single try | `RunRecord` (abstract), `RunJson` |
| File tools `tools.py`, `sandbox/docker.py` | staging temps | `write_file`, `edit_file` and its kin, `append_file` | `FileTools` |
| Host sandbox `sandbox/host.py`, `procs.py`, `budget.py` | temps, the child of a command | sweep, `bash` | `FileTools`, `Procs` |
| Docker CLI `sandbox/docker_cli.py` | none | `run`, with a timeout | `Procs`; its outcomes inside `DockerSandbox` |
| Firewall `firewall/`, `firewall_gate.py` | one batch: ids, outcomes, events | `decide_batch`, `recover_name`, strikes | `Firewall` |
| Tool registry `toolspec.py`, `builtin_tools.py` | none | `execute`, `recover_name`, coercion | its results inside `RunLoop`, its names in `Firewall` |
| Workspace, git `workspace.py` | worktrees, branches, an index | `snapshot_worktree`, `create_worktree`, `remove_worktree` | `Workspace` |
| Change guard `changes.py` | none | `take_fingerprint` | its result, inside `RunLoop` |
| LLM client, providers | none | `chat` | its results, inside `RunLoop` |
| Dashboard `dashboard_data.py` | a cache of transcripts | three updates of run.json, reading | `RunRecord`, `RunJson`, `Transcript` |
| Live change preview, bench, reports, CLI | none that another part reads | | not modelled |

How they interact:

- The **main thread** runs the loop. It calls the registry, the registry calls the
  sandbox, and the sandbox runs docker commands, each with a timeout. Errors come
  back as `BudgetExceeded` or `SandboxError`, which the runner turns into the
  status of the run.
- The **watchdog thread** polls the host's free space and, while a bash call is in
  flight, the size of `/work`. It shares with the main thread the container, two
  locks, `violation` and `_reset_this_call`, and it writes to the transcript.
- Every command, of the worker on the host or of docker, is a **child process** of
  `run_capped`, with a thread that drains it and one that feeds it; what it leaves in
  the background must not outlive the call.
- **Ctrl-C** can land between any two bytecodes of the main thread. Two nested
  handlers in `run_task` call `finish("interrupted")`.
- **Other processes** (`dirtywork resume`, `runs export`, `runs clean`, `runs review`,
  `runs verdict`, the dashboard) meet a run through the worktree, the docker volume,
  the stash directory and run.json only; a pid and a status in run.json are what
  tells a live run from a dead one. They write run.json by compare and replace under
  a lock file.
- **Processes in the worktree** (what an earlier command left behind, the operator's
  editor and git) change files and branches between any two system calls of a file tool
  or a snapshot.

What is hard here is therefore: two threads and two locks around a container that
can be killed under a command in flight; Ctrl-C inside the very code that cleans
up; a process killed between two steps that move the only copy of the work; one of
several renames or docker commands failing; several ways to end a run meeting in
one turn; paths and branches that someone else changes between a look and a step.
`PROJECT.json` lists each hazard at its line, with the properties that
are about it.

What makes each component correct:

- *Docker sandbox*: no process outlives the bash call that started it; a breach
  keeps the container down until it was reported; the first violation stands and
  is not lost; no thread waits for ever.
- *Lifecycle*: what a worker wrote is in the volume, the stash or the worktree
  until the operator discards it with `--force`; a failed resume gives the
  worktree back; `completed` means exported.
- *Run loop*: `completed` means verified; run_end says the truth about the worktree
  and about the `finish` call; one export, and one run_end but for one window of
  Ctrl-C; the history is one that every provider accepts; every run ends with
  `finalize` over.
- *Transcript*: lines are whole, in order, and none is lost while the file can be
  written; a reader never takes an old reading for a new file.
- *run.json*: no update is lost, and a reader sees a whole file.
- *File tools*: no half-written file under a name, nothing written through a link, no
  temp left behind.
- *Workspace*: a snapshot holds what was there and could be looked at, drops nobody's
  commit, and a new run starts or leaves nothing.
- *Firewall*: only what was allowed runs, whichever of its functions raises, and its view
  of names and paths is that of the code behind it.
- *Commands*: the call returns, its answer is true, and nothing survives it unsaid.

## 2. The modules

Each module keeps the names of the code. `pc` names the points where another
thread, another process or Ctrl-C can intervene; what lies between two labels is
one action, with every state change the code makes there.

**`DockerSandbox`** - the threads `main` and `watchdog`. The labels follow the
call paths: a bash call is `bash`, `after` (`_after_bash`), `reap`, `top`,
`kill_strays`, `settle`, `presample`, `sample`, `measure`, `violated`
(`_raise_violation`), `clear`; a reset, which either thread may run, is
`reset`, `rs_kill` ... `rs_done`; a breach is `breach_*` (record), `wkill`
(take `_reset_lock`), `wkilling` (`docker kill`). `finalize` stops the watchdog
(`join`, which is bounded), removes the container (`rm`) and reads the violation
(`take`). The container is `up`, `booting`, `dead` or `removed`; the processes in
it are the exec of the call in flight and, as one bit, anything else but the
tether. Every docker command may fail in any state of the container.

**`RunLifecycle`** - one chain of runs on one worktree, and the operator. A tree is
the set of the runs that contributed to it, so that "work is lost" is a statement
about sets; one element stands for one directory entry, the unit in which a stash
or an extraction moves files. `Scenarios` is a set of sets of events: a behaviour picks
one (`scenario`) at its start, and only those events may happen in it beside the
commands and a failing docker.

**`RunLoop`** - one run. Each return of `one_turn`, each tracker, the verify gate
with the change guard, the steps of `finish` and both Ctrl-C handlers are
actions; the write of run_end and its mark `run_end_written` are two. The model is an
adversary: any reply, any number of calls up to `MaxCalls` and of malformed entries up
to `MaxMalformed`, any result. `finishHeld`, `endsHeld`, `disk` and `runEnds` keep of the
transcript what the properties need: the result of the `finish` call and the lines of
run_end, in the open turn's buffer and on the disk.

**`RunRecord`** and **`RunJson`** - one run.json and the commands that update it.
`RunRecord` is what they promise: `Perform` changes the record in one step, from what
it is then and only if the request is then `Allowed`; `Fail` leaves no trace.
`RunJson` is the code: `ReadFile` without the lock, `Transform` or `Refuse`,
`Acquire` or `Busy` (the five-second deadline), `Compare` or `Conflict`, `Replace`,
`Release`, and `Stop` (an OSError or a kill) between any two. `update_run_json` starts
over after a conflict, the dashboard gives up. The record keeps the fields that some
command's decision depends on, and `task_type`, on which none does; times and notes are
left out, so two verdicts that agree are one content.

**`TurnLog`** and **`Transcript`** - what a transcript promises, and the code. In
`TurnLog` a record is taken in (`Accept`) and comes out in that order (`Publish`); only a
broken log may `Lose` some, and write one garbled line. `Transcript` has the lock, the
buffer of the open turn, what `_flush_locked` took out (`pending`), the line being
written, and what the file object still holds after a failed flush; the main thread is
the loop of turns with both Ctrl-C handlers, `finish`, `_fail_run` and `close`; the
watchdog's thread writes resets and queues notices; a dashboard reader takes a signature
and then reads. Three reductions: the reader steps only where the file is about to
change or will not any more (`Changing`), an entry whose signature can not come back is
dropped, and the resets of the two threads exclude each other, as `_reset_lock` makes
them in the code.

**`FileTools`** - one call after the other on one path, on either backend, each system
call a step; a rival swaps what the path names for another file, a link, a FIFO or
nothing between any two. A file is the sequence of the pieces it was made of, "torn"
while it is written.

**`Workspace`** - `snapshot_worktree` step by step (branch check, walk, the ignore rules
of the root and of `build/`, read of the head, hashing, the probe of the index,
`write-tree`, `update-ref`, refresh), by `runs snapshot` and by a new run from
`@<slug>`, which goes on through `create_worktree`; the operator commits, switches away
or deletes the branch, a process edits files, changes permissions or plants a link. `stat`
or `readlink` may fail for the files of any set in `StatFails`, and for `build/` when
these are all it has: `Take` leaves them out and goes on, as the code does, and `skipped`
holds what was left out.

**`Firewall`** - one turn of calls: `duplicate_positions`, the verdict of each call, the
internal-error paths (any function may raise once), and the loop that denies or runs.
A name is a sequence of tokens and a path a sequence of parts, so that
`recover_name` and `normalize_path` are the functions of the code; beside them stand the
registry's own `recover_name`, `resolve_in_worktree` and the container's `_rel`. The
worktree lies at `Below` behind one symlink anywhere on its way, `Link`, that leads to
`Target`: the operator names it `Given == Link \o Below`, and it resolves to
`Real == Target \o Below`; with `Link = Target` there is no symlink. Going over a path
part by part is one function, `Along`, of a step: `Keep` (normalising), `Collapse`
(`posixpath.normpath`) or `Walk` (`Path.resolve`).

**`Procs`** - one `run_capped` call: `_spawn_windows` (job, suspended child, assign,
resume, `_fail`), the child and a background process, the pipes, `_drain`, `_feed`, the
wait, `_kill_tree`, the joins and the answer of `bash`. Bytes are counted. A killed
process is `doomed` for a while: it runs no code and still holds its pipes.

**`MCDockerSandbox`**, **`MCRunLifecycle`**, **`MCRunLoop`**, **`MCRunJson`**,
**`MCTranscript`**, **`MCFileTools`**, **`MCWorkspace`**, **`MCFirewall`** and
**`MCProcs`** instantiate them for TLC, with one `.cfg` for each run.
Eight modules hold the theorems: **`DockerSandbox_proofs`**, **`RunLifecycle_proofs`**,
**`RunLoop_proofs`**, **`Transcript_proofs`**, **`FileTools_proofs`**,
**`Workspace_proofs`**, **`Procs_proofs`** and **`Firewall_proofs`**; the last section of
`RunLifecycle_proofs` is about `RunJson`, whose file that module's records are (it extends
both; this is why the specification of `RunJson` is called `JsonSpec`).

In these modules an operator whose comment starts with "Mutant" is used by no
action. Each is one plausible slip in the definition next to it, and `PROJECT.json`
says which property notices when it takes that definition's place.

## 3. What the runs check

### Docker sandbox

`docker_sandbox` explores two tool calls, the watchdog and Ctrl-C in every
interleaving.

- `LockDiscipline`: each lock is held exactly where the code relies on it, also
  after Ctrl-C and after a failed docker command.
- `BreachKeepsContainerDead`: from the moment a recorded violation has the container
  killed until it is raised, no reset brings the container back.
- `FirstViolationStands`, `ViolationSurfaces`: a recorded violation is replaced by no
  later one, and once the run is over each was raised or reported and the run is not
  called completed, except where Ctrl-C replaced the exception or the bounded join of
  `finalize` gave up on the watchdog.
- `BashLeavesNothing`: when a bash call returns, no process but the tether is
  alive, provided that the call did not start with `_reset_this_call` already set
  and no `docker kill` failed. The first exception is the first finding below.

- `RunEnds`: under fairness the run ends, so no call and no lock is waited for for ever.

`docker_stray` shows what the first exception of `BashLeavesNothing` is: a process
that outlives its call.

Not seen by this model: a process whose command is exactly `cat` looks like the
tether to `docker top` and is left alone by the code too.

### Lifecycle

`lifecycle` has two scenarios: up to two processes killed between any two steps, for
`WorkNotLost` and `FailedResumeRestores`; and at once everything that does not need two
commands at the same time (kills, Ctrl-C, host errors, an unwritable log, `runs clean`
without `--force`), for `CompletedIsExported`. The first two do not hold in the second
scenario: section 4 says which event breaks them. `lifecycle_interrupt` is one of these,
with a run of its own.

### Run loop

`loop_gate` has three turns of up to two calls, the verify gate, the change guard
and Ctrl-C everywhere: `CompletedIsVerified`, `ChangedIsTrue`, `FinishIsHonest`,
`FeedbackChangesSomething`, `ExportedOnce`, `RunEndOnce`, `HistoryIsComplete`.
`RunEndOnce` counts the lines of run_end, the buffered ones included: there is no more
than one, plus one for each Ctrl-C that came between a write of it and
`run_end_written = True` (section 4).

`loop_trackers` turns the trackers on, with limits of two and three and up to three
malformed entries in one reply: the loop goes on only while every counter is below its
limit (`BelowLimits` in `TypeOK`), which a counter passes only by what one reply adds,
since each of its malformed entries counts; `UserFollowsAssistant`; and under
fairness `RunReturns`: the run returns with `finalize` attempted and over, or was killed
by a Ctrl-C in the outer handler.

Not seen by these properties: two user messages in a row (`UserFollowsAssistant` allows a
user message after a user message), and a provisional `finish` result left by a Ctrl-C in
the outer handler or by an exception (`FinishIsHonest` excepts these handlers).

### run.json

`run_json` starts three commands with any requests: every pair and triple of a worker's
end, a resume, an export, a review, a verdict and a label, from the terminal and from
the browser. `RecordSpec` says that `RunJson` implements `RunRecord`: no update is lost,
the browser gives no second verdict and reviews no superseded run although it checked
on an earlier copy. `ConflictMeansProgress`: whoever gives up for conflicts was overtaken
that often. The commands are a symmetry set: `Init` gives them their requests in every
way, nothing else tells them apart, and the run checks no liveness.

### Transcript

`transcript`: two turns of one record, one reset by either thread, two faults (Ctrl-C or
a failed write, each anywhere) and a reader. `LogSpec` is the refinement of `TurnLog`:
records become whole lines in the order in which `write` took them in, and only after a
fault may any be missing. `KillLosesOnlyTheTurn`: what is not in the file belongs to the
open turn. `NoticeOnce`: a reset's notice is queued, taken out or recorded, and never
two of these; one that is queued after the last drain stays queued. `CacheIsFresh`: no old reading stands under the signature of a newer file.
`RunCloses`: under fairness the file is closed and a reader gets all of it.

### File tools

`file_tools`: two calls, a rival that acts twice, any failure, Ctrl-C and kills.
`WriteIsAtomic` (no name but a temp's shows a half-written file, except a file that has
two names or one in a directory that takes no temp, which the code writes in place; an
error means the target was not replaced), `NothingThroughALink`, `TempsAreRemoved`.

### Workspace

`workspace`: two snapshots, at once or one after the other, and one act of somebody else
anywhere, where a file, tracked or not, may be one that cannot be stat'ed.
`SnapshotIsTrue`, `NothingClobbered`, `CleanAfterwards`, `NewRunStartsOrLeavesNothing`.
The first and the third except what could not be stat'ed, and nothing else: it is left out
of the commit and `git status` names it afterwards (section 4).

### Firewall

`firewall` decides every path of four parts (`..`, `.`, `.git`, a directory, the
worktree's own name, the link on its way, absolute or not), every name of six tokens and
every turn of three calls of a few shapes and ids, with one exception anywhere. `FailsClosed`: what runs was
allowed on its own merits and under an id of its own, what was denied left a record, and
one call's failure changes no other's decision. `LayersAgree`: the lexical decision and
the backend's refusal are the same but for one case (section 4). `NamesAgree`: the
Firewall's linear name recovery is the registry's.

### Commands

`procs`: one call on POSIX or Windows, a command that writes three bytes into a pipe of
one, is fed two through a pipe of one, leaves a background process that may leave the
group, and may never end. `NothingOutlivesTheCall`, `AnswerIsTrue`, and under fairness
`CallReturns`: the call ends and meanwhile a full pipe is always emptied; a drain thread
that stopped would be noticed by this property only. `NothingOutlivesTheCall` is about
the output that `run_capped` returns, not about what its callers make of it (section 4).

### Bounds

| Constant | Value | Why it is enough |
|---|---|---|
| `DockerSandbox.MaxTurns` | 2 | what one call leaves behind (`_reset_this_call`, a reset container, a pending violation) is seen by the next; nothing is counted over more calls |
| `MaxDiskCheckFailures` | 2 | below the limit, at it, and reset in between |
| `SettleChecks` | 2 | the last re-check, and one that is not the last |
| `RunLifecycle.MaxRuns` | 2 | a run and its resume. Three runs with one crash (10.3 million states) were explored once without an error |
| `MaxDead` | 2 | the run and its resume both die |
| `RunLoop.MaxTurns` | 3 | a completion sent back, another, and the one that ends the run |
| `MaxCalls` | 2 | a call before and one after `finish` or a failing call |
| `MaxMalformed` | 1, 3 | in `loop_trackers`, one more than the limit for one kind, so that a counter passes it within one reply |
| trackers' limits | 1 to 3 | each limit is reached, one step below it the run goes on, and `MaxTotal` differs from `MaxConsecutive` |
| `VerifyRounds` | 1 | one round is given, the next is refused |
| `RunJson.Commands` | 3 | one command and two rivals, so that it can be overtaken in both its tries, by different ones |
| `MaxTries` | 2 | a conflict that is retried, and the last one; the code has 20, and the theorems cover any number |
| `Transcript.MaxTurns`, `MaxWrites`, `MaxResets` | 2, 1, 1 | a turn whose records are lost or kept and the next one; a record of a turn beside those of finish; one notice and the place it may be in twice |
| `Transcript.MaxFaults` | 2 | a fault, and one in the handler of the first |
| `FileTools.MaxCalls`, `MaxRivals` | 2, 2 | a temp of one call met by the next; a swap before the probe and one after it |
| `Workspace.MaxCalls`, `MaxRivals` | 2, 1 | two snapshots that race; any one act between any two steps |
| `Workspace.StatFails` | `{{keep}}` | the file that the first commit may hold: its own `stat` fails, or, when nothing else is there, that of `build/`; the theorems cover any sets |
| `Firewall.MaxParts`, `MaxTokens` | 4, 6 | out of the worktree, back in and one further; a marker, space, a name and a second marker |
| `Firewall.Link`, `Target`, `Below` | `/l`, `/a/a`, `wt` | a link before the worktree that leads to a longer path, so that `..` behind it differs from `..` in its name |
| `Firewall.BatchLimit` | 3 | a turn at the limit and one above it |
| `Procs.PipeSize`, `MaxInput`, `MaxOutput` | 1, 2, 3 | both pipes fill while something is left to write |
| `Procs.ChunkSize`, `Cap` | 2, 1 | a chunk that goes past the cap, one that is not full, one after the cap |

Each bound is a constant of its module: a limit of the code, or a number of processes,
faults, acts, calls, entries or bytes. One number is cut off in an action instead:
`streak.n` stops at `StuckRepeats`, because only the comparison with it is used.

### Deadlock

It is checked everywhere but in the lifecycle, where the system does stop: once every
run is over and the operator starts no other command, nothing is left to do. The
others have a `Terminated` step for the end and nothing else.

### Fairness

`DockerSandbox.FairSpec` is weakly fair to each thread: every docker command has a
timeout, so a label is left sooner or later, and a thread waits for nothing else but
the two locks. Weak fairness is enough because whoever wants a lock is the only
other thread. `RunLoop.FairSpec` is weakly fair to the run's steps: model requests
and commands have timeouts, and `MaxTurns` bounds the loop. `Transcript.FairSpec` is weakly fair to the main thread,
to the writing of a line and to the reader. `Procs.FairSpec` is weakly fair to the
caller, whose every wait has a timeout, and to its two threads. Nothing is assumed about
the model, Ctrl-C, docker's success, the operator, or a command: it may never end, read
or write.

## 4. Disagreements found

Each of these is a run with `expect: violation`; `PROJECT.json` quotes the line it
contradicts.

| Run | What the code does |
|---|---|
| `docker_stray` | a watchdog sample decided on in one call and run after it marks the next call as already reset: its reap is skipped |
| `lifecycle_interrupt` | Ctrl-C in `finalize` before the export: the volume is removed with the only copy |

Read in the code while it was modelled, and without a run of their own. The first four
are reachable in `RunLifecycle`: a run of `WorkNotLost` or `FailedResumeRestores` without
its condition on `scenario` shows them.

- A rename that fails while stashing leaves the worktree half moved
  (`docker.py:480`, against `docs/operating.md:311`).
- `runs export` of an earlier run of the chain works on a resume's worktree, and its
  failure empties it: the liveness check looks at one run only (`resume.py:174`,
  `docker.py:502`).
- An unwritable run_end has a seeded run finalize twice; the second export, of the
  removed volume, replaces the work by nothing (`__main__.py:716`, `docker.py:502`).
- `runs clean` removes the volume, then refuses the worktree (`runs.py:1206`, against
  `docs/operating.md:405`).

- Ctrl-C between `transcript.write("run_end")` and `run_end_written = True` has the next
  `finish` write a second run_end, with the status `interrupted` (`runner.py:823-827`,
  against `runner.py:757-759`, "keeps run_end to a single record", and
  `docs/transcript-schema.md:246`, "One per run"). `RunEndOnce` counts these in
  `unmarked`; without it `loop_gate` shows the second line.
- An entry whose `stat` fails, such as each file of a directory one may list and not
  search (mode 644), is left out of a snapshot without an error: tracked files are
  committed as deleted, and `runs snapshot` reports "non-regular entries skipped"
  (`workspace.py:420-424`, `runs.py:857-860`, against `docs/operating.md:421-422`, by which
  only what is neither a regular file nor a symlink is skipped). `SnapshotIsTrue` and
  `CleanAfterwards` except the paths in `skipped`; without that `workspace` shows it.
- A kill that failed on Windows is named in the output that `run_capped` returns, "so a
  Windows kill that did not happen is never silent" (`procs.py:155-157`); when the command
  timed out, `bash` and `docker_cli.run` drop that output (`tools.py:1080`,
  `docker_cli.py:55`), so the answer says nothing of a command that runs on.
- The resume of a killed docker run is seeded from the worktree, into which the killed
  run never exported; its work is in its volume (`docker.py:538`,
  `docs/operating.md:298-299`).
- A violation that the watchdog records after the bounded join of `finalize` surfaces
  nowhere (`docker.py:397`); `ViolationSurfaces` excepts it.
- `stuck_on` is reported with statuses other than `stuck` (`runner.py:799`,
  `docs/transcript-schema.md:269`), and a run ends `stuck` although the command passed
  later in the turn that latched the streak (`runner.py:1267`).
- `unchanged_finishes` is not reset by a completion in between that changed something
  (`runner.py:957`).
- Ctrl-C in the closing flush of the last turn loses run_end: `_flush_locked` takes the
  buffer out before it writes it, and `run_end_written` keeps it from being written again
  (`transcript.py:77`, `docs/transcript-schema.md:246`). And run_end is not always the
  last line, as that page says: when the bounded join of `finalize` gave up, the
  watchdog's `sandbox_reset` may follow it.
- `append_file` "refuses rather than pasting one file's bytes onto another inode"
  (`tools.py`, its docstring): it compares the inode it probed with the one it read, but
  `_write_atomic` probes again, and an inode swapped in after the read is replaced by the
  old one's bytes. On the host an append drops what the file gained between read and
  promotion, in the container it keeps it; the container's writer replaces a link, a FIFO
  or one of several names where the host's refuses or writes in place.
- The sweep of temps stops when the budget is exceeded, so a temp can be in the run's
  evidence after all (`host.py:111-113`).
- `_workspace_new` reads the base commit outside of its `try`: when that fails the new
  worktree and its branch stay (`__main__.py:383`); `leftover` excepts it.
- `snapshot_worktree` raises when `read-tree` fails after `update-ref` succeeded, and
  leaves a stale index; its branch check is a look, and a switch may follow it; with an
  empty index a file that is tracked and ignored is dropped.
- A host path that leaves the worktree on its way and comes back is denied by the Firewall
  and accepted by `resolve_in_worktree`; `LayersAgree` excepts it. So is an absolute path
  that comes to the worktree by neither of its two names and has by then no fewer parts
  than one of them.
- "backgrounded children cannot outlive the call" (`procs.py:187`): a process that calls
  `setsid()` does; when it keeps the output open, up to 64 KiB that the drain thread had
  read in part are missing from an answer with an exit code (`procs.py:201`, `242`).
  `NothingOutlivesTheCall` and `AnswerIsTrue` except it. And Ctrl-C in `run_capped` is
  caught nowhere: on the host the command, in a session of its own, runs on.

## 5. What is proved

Every theorem holds for all values of the constants that the named assumption of its
module allows; the assumptions only say which are naturals, which are not zero and which
sets they come from, and in `Firewall` what a marker and a resolved path are. Each property rests on an inductive invariant, stated part by part in
the proof module.

**`DockerSandbox_proofs`**, for any number of turns, stat failures and settle
checks (from `SandboxAssumption`, which says only that they are naturals, the last
two positive):

- `TypeCorrect`: `TypeOK`, in three parts that are each inductive with what precedes
  it: the labels, the data (with `PollOK`: the stat failures reach their limit only
  at the breach that ends the watchdog), the flags.
- `LocksRespected`: a lock's owner is exactly the thread at a label that holds it.
  Inductive as it stands once the labels are known.
- `BreachKeepsDead`: needs to know where a violation can be pending. The
  strengthening says that whoever records one goes on to kill the container under
  `_reset_lock`, that a reset past its guard holds that lock, and that Ctrl-C in the
  main thread leaves no reset half done.
- `FirstStands`: the action property, from `TypeOK`.
- `ViolationsSurface`: `SurfaceInv` says that what was recorded was raised or is still
  pending, that whoever raised one has decided the outcome, and that after a join in
  time nobody is left to record another before `take_violation` looks. `PhaseInv` says
  where the outcome is decided at all.
- `BashIsClean`: the longest argument here. `FlagInv` is what `_reset_this_call` means to
  a call that began without it (the container was killed, will be before `_reset_lock`
  is free, or a violation ends the call), and so why the reap may be skipped; `ReapInv`
  says that past the reap nothing is left running, on each of the ways to the end of the
  call, through a sample, a breach or a reset by either thread; `KilledInv` that the flag
  is set as long as a reset goes on, because it is cleared under the same lock.

**`RunLifecycle_proofs`**, for any number of runs (from `LifecycleAssumption`).
`CompletedRunsWereExported` holds in every scenario: `CompletedInv` says that a run which
was not delivered is remembered as such until its status is written. `WorkIsNotLost` and
`FailedResumeRestoresTheWorktree` are about the scenarios of crashes, in which runs and
commands are killed anywhere and docker refuses anything, but the operator neither
interrupts a finalize nor edits the files, which is where the properties say
something. They rest on `CrashInv`: one process at a time owns the worktree
(`Exclusive`), what run.json says fits what exists (`RecordsInv`), and for each label of a
run (`Phase`) and of an operator's command (`OpPhase`) it says which of worktree, stash
and volume hold the work while files move between them (`HeldInv`).

**`RunLoop_proofs`**, for any limits and any set of failure kinds, commands and
outputs.

- `TypeCorrect`: the loop goes on only below the limits because each reply or result that
  raises a counter is followed by the check that ends the run (`LimitInv`, `StreakOK`);
  beyond them a counter gets only by the malformed entries of that one reply.
- `CompletionIsVerified`, `ExportIsAttemptedOnce`, `RunEndIsRepeatedOnlyUnmarked` rest on
  `FinishInv`. Its heart is `UndecidedInv`: while the loop runs no status was decided,
  and while no status was decided neither run_end nor an export was attempted. So nothing
  that `finish` did can be followed by more of the loop, however often Ctrl-C enters it
  again; the other conjuncts then follow label by label. Beside the unmarked lines of
  run_end there is at most one, which is marked or about to be (`Known`). The last two
  theorems stop where the transcript can no longer be written: then `_fail_run` does both again.
- `HistoryIsAccepted`, `UserMessagesFollow`: `HistoryInv`. At each label the history is
  complete, or its only open calls are those of this turn which still get their result
  (`AnsweredInv`); a nudge is put in a tool result exactly when the history ends in one.
- `ChangedIsNotStale`, `FeedbackIsActedOn`: `MeasureInv`, what a measurement is worth
  after the calls that came since, and where it is thrown away.
- `FinishIsHonestAlways`: `RecordInv`, where the provisional result of `finish` is in the
  buffer, and that it is settled before the buffer is written.

`RunJson`, in the last section of `RunLifecycle_proofs`, for any number of commands and
tries (from `RunJsonAssumption`: there is at least one try, and the sign for a free lock is
no command): `JsonTypeCorrect`, `UpdatesAreAtomic` (`JsonSpec => RecordSpec`, the
refinement) and `ConflictsAreReal`. The refinement rests on `JsonCheckedInv`: past the
comparison a command's copy equals the file, because only the holder of the lock changes
it, and what was `Allowed` of a content stays allowed, because a run that is over stays
over (`JsonAllowedStays`). `ConflictsAreReal` needs `JsonRivalInv`: each conflict met, and
one more when the copy is already stale, was a rival's change.

**`Transcript_proofs`**, for any number of turns, writes, resets and faults (from
`TranscriptAssumption`).

- `TypeCorrect`: a record's number is bounded by what turns and resets can give
  (`BudgetInv`).
- `AKillLosesTheTurnAtMost`: where nothing broke, file, line, `pending` and turn buffer
  together hold what was taken in (`IntactInv`), and what waits belongs to the open turn
  (`TurnInv`), which needs to know where the main thread is (`WhereInv`, `NextTurnInv`) and
  who holds the lock (`LockInv`).
- `NoticesReachTheModelOnce`: notices are numbered, and the numbers rise from the records
  through the main thread's hands to the queue (`OrderInv`), so none is there twice; where
  nothing broke each is in one of them (`PresentInv`) unless it is still to be queued
  (`OwedInv`).
- `CacheIsAlwaysFresh`: `CacheInv`, an entry is never ahead of the file and equals it where
  their sizes meet, because the file only grows.
- `TranscriptImplementsTheLog`: the refinement (`LogSpec`). Every step is an `Accept`, a
  `Publish`, a `Lose` or leaves the log alone; a record's number is its place in the order
  of `write()` (`AgeInv`).

The first attempt at `NoticesReachTheModelOnce` failed, and TLC found the reason with two
resets: a reset by the main thread could begin inside one of the watchdog's, which
`_reset_lock` rules out. `TurnResets` has that guard now.

**`FileTools_proofs`**, for any number of calls and swaps: `WritesAreAtomic`,
`NothingIsWrittenThroughALink`, `TempsAreAlwaysRemoved`. `FileInv` says which file each
label's descriptor refers to (`AllocInv`, `TempInv`), that only a temp or a file written
in place is torn (`TornInv`), that a file with this call's bytes is a temp or one the path
has named (`NamedInv`), what an answer implies (`VerdictInv`) and what a sweep still has to
remove (`SweepInv`). What the path names is read again at each step: no part relies on it
between two.

**`Workspace_proofs`**, for any number of snapshots and rivals: `SnapshotsAreTrue`,
`NothingIsClobbered`, `SnapshotsLeaveItClean`, `NewRunsStartOrLeaveNothing`. The work is
in what a snapshot may still rely on while others act: what it looked at was there during
the call (`NowInv`, `LookedInv`), what it hashed was looked at (`CarriedInv`), a commit it
prepared has the head it read as its parent (`BelowInv`), so that `update-ref` with the
expected old value makes a child or fails. What the walk does not take in it has skipped,
and what is skipped stays so (`SkippedGrows`). `QuietInv` is the same without a rival:
past the filters a snapshot takes in what is there and not ignored, but what it skipped
(`TakesWanted`).
`StartedInv` and `CreateInv` follow a new run from its snapshot to its worktree or its
cleanup. `Ancestors` in the model is a least set closed under parents, not a recursion, so
that it can be reasoned about.

**`Procs_proofs`**, for pipes, chunks, caps, inputs and outputs of any size (from
`ProcsAssumption`: naturals, the pipe and the chunk not empty). `NothingSurvives` rests on
`Contained`: on Windows the child is suspended until it is in the job (`Spawning`),
whatever has run is where the kill reaches it (`InPlace`), and once the kill was tried
either a note says what failed or everything it reaches has stopped (`KilledOrSaid`).
`AnswersAreTrue` rests on `Answered`: what was written is in the pipe, in the chunk or
stored, and what is stored is the captured part or past the cap (`Counts`); the drain
thread ends only when nobody can write any more (`Drained`); and before the kill only the
child can have ended itself (`Ended`).

**`Firewall_proofs`**, for any turns, tool names, markers, paths and exceptions.

- `FirewallFailsClosed`: `BatchInv`. An outcome allows exactly when nothing was raised
  for its call and the call is `Fine` (no rejection, no denial, no earlier call of its id);
  `positions` are the duplicates from the first decision on; and each result fits its
  outcome, so that what ran was allowed and what was denied has its record.
- `FirewallNamesAgree` (from `NamesAssumption`: a tool's name is one token and no space, a
  marker is not empty and ends in no space). `FoundAre`: whatever the registry's search
  over every place of every marker finds ends in the last token that is no space, which is
  a tool's name, and its marker ends in the last such token before it. That is the one
  place where the Firewall looks, so both choose the longest marker there.
- `FirewallLayersAgree` (from `RootAssumption`: both names of the worktree are normalised,
  resolving leaves no link, and the worktree has none of its own). In the worktree,
  whatever the rest of a path is, the file system and `normpath` stay beside each other
  until the first `..` that leaves (`WalkBeside`, `Resolve`), so the same part decides for
  both (`Judged`). An absolute path has come to the worktree where one of its roots is a
  prefix of it (`RealReached`, `GivenReached`); when none is, it is outside at the place
  where it has the length of one (`NoRoot`), which is the exception the property makes.
  `HostAgrees` and `DockerAgrees` put these together for the two backends.

Both compare what two functions make of a sequence of any length. The induction this takes
is over sets of numbers: a set of naturals that holds 0, and with each number the next, is
all of them (`Induction`, `InductionTo`, from the least element of a set, which
`WellFoundedInduction` gives). So nothing is assumed of recursive functions that is not
proved here (`AlongIs`: `Along` is the one function that its step gives).

Only model-checked:

- liveness (`RunEnds`, `RunReturns`, `RunCloses`, `CallReturns`): it needs `ENABLED`,
  which the prover does not have;
- the two properties that the code violates (section 4).

## 6. What the models leave out

- `DockerSandbox`: an exec of a file tool that times out ends the run and may leave its
  process behind (`WriteTool`); the other tools that only read, whose time-out does the
  same, have no action of their own. Ctrl-C lands at the points where the main thread waits (docker
  commands, locks, sleeps), not between two assignments. The bytes that the lock sweep
  removes.
- `RunLifecycle`: host mode, `--keep-volume`, branches and snapshots, refused tar
  members, the live preview, a second chain of runs. run.json is one step, which
  `RunJson` justifies.
- `RunJson`: the Windows lock, a broken run.json, and the fields no decision reads. The
  deadline for the lock is a choice: whoever waits may give up.
- `RunLoop`: the wording of nudges, trimming the history, usage counting, tool-name
  recovery (in `Firewall`).
- `Transcript`: what a record says, beyond its kind, its notice and its turn.
- `FileTools`: what an edit computes, the tools that read only, the budget's counts.
- `Workspace`: symlinks and special entries (one that cannot be read is like one that
  cannot be stat'ed), file names git cannot carry, ignore rules
  that change during a call, a slug drawn twice, the context files of a repository. In
  `Init` a branch that was there before comes without an ignored `build/`, one
  combination less.
- `Firewall`: more than one link on the way to the worktree, and links in it (the
  backends' own look is what they are for); the fields of each kind of call (one refusal stands for them), the patterns
  of the shell rules (a command is what they find in it), the shape of the records. A turn
  without calls never reaches it.
- `Procs`: `killpg` reaches every process of the group (`_kill_group` ignores an
  `OSError`, which needs a command that changed its user); a child that stays suspended
  counts as not running; a thread that cannot be started; `kill_group=False`, which nothing in the
  product passes.
- Not modelled at all, with the reason, in `PROJECT.json`: bench, reports, the command
  line (views and formatting), the live preview (best effort, read by the dashboard
  only).

## 7. Plan

1. `DockerSandbox`, `RunLifecycle`, `RunLoop`, `RunJson`, `Transcript`, `FileTools`,
   `Workspace`, `Firewall`, `Procs`: done.
2. Proofs: done for every invariant, action property and refinement that a passing run
   checks.
3. Trimming the history and its conversion for a provider as functions over sequences,
   the export's member checks and nested roots, the host budget's counts.
