---------------------------- MODULE Procs_proofs ----------------------------
(***************************************************************************)
(* Proofs about Procs, for every size of the pipe, the chunk, the cap, the *)
(* input and the output: nothing of the command outlives the call unsaid,  *)
(* and an answer that gives an exit code is true.                          *)
(***************************************************************************)
EXTENDS Procs, TLAPS

Labels == {"job", "popen", "assign", "resume", "fail_kill", "fail_wait", "threads", "wait",
           "kill", "reap", "join", "join_feeder", "returned", "raised"}

\* Before the command can run.
Early == {"job", "popen", "assign", "resume", "fail_kill", "fail_wait", "threads"}

\* Once the kill has been tried.
Late == {"fail_wait", "reap", "join", "join_feeder", "returned"}

TypeOK ==
  /\ pc \in Labels /\ windows \in BOOLEAN /\ assigned \in BOOLEAN
  /\ proc \in [Processes -> {"none", "suspended", "running", "doomed", "dead"}]
  /\ contained \subseteq Processes /\ holders \subseteq Processes

-----------------------------------------------------------------------------
(* Containment                                                             *)

\* What was spawned before the label is as the label needs it.
Spawning ==
  /\ pc = "job" => windows
  /\ pc \in {"job", "popen"} =>
       contained = {} /\ ~assigned /\ \A p \in Processes : proc[p] = "none"
  /\ pc \in {"assign", "resume"} =>
       windows /\ proc[Child] = "suspended" /\ proc[Kin] = "none"
  /\ pc = "assign" => ~assigned
  /\ pc = "resume" => assigned
  /\ pc \in {"fail_kill", "fail_wait"} => windows

\* On Windows whatever has run is in the job; on POSIX the child is in its group.
InPlace ==
  /\ windows /\ ~assigned => contained = {}
  /\ windows /\ assigned => Child \in contained
  /\ pc \in {"threads", "wait", "kill", "reap", "join", "join_feeder"} /\ windows => assigned
  /\ windows => \A p \in Processes : proc[p] = "running" => p \in contained
  /\ ~windows /\ proc[Child] # "none" => Child \in contained

\* Once the kill has been tried, what still runs has left its group, or a note says what failed.
KilledOrSaid ==
  pc \in Late =>
    notes # {} \/ \A p \in Processes : proc[p] = "running" => ~windows /\ p \notin contained

Contained == TypeOK /\ Spawning /\ InPlace /\ KilledOrSaid

\* A call of which nothing is said has killed what it was to kill.
LEMMA CallsSay ==
  /\ \A a \in EndJob   : a.said = {} => a.dead = contained
  /\ \A a \in EndChild : a.said = {} => a.dead = {Child}
<1>1. \A S : Outcome(S, {}).dead = S
  BY DEF Outcome
<1>2. \A s : Outcome({}, {s}).said # {}
  BY DEF Outcome
<1> QED
  BY <1>1, <1>2 DEF EndJob, EndChild

\* A kill of which nothing is said has reached everything that was in the job or group.
LEMMA KillReaches == \A k \in Kill : k.said = {} => contained \subseteq k.dead
<1>1. CASE ~windows
  BY <1>1 DEF Kill, KillAll, Outcome
<1>2. ASSUME windows, NEW k \in Kill, k.said = {}
      PROVE  contained \subseteq k.dead
  <2> DEFINE Fallback(a) == IF a.said = {} THEN {Nothing} ELSE EndChild
             Kills(a) == {Both(Both(a, b), c) : c \in CloseJob, b \in Fallback(a)}
  <2>1. Kill = UNION {Kills(a) : a \in EndJob}
    BY <1>2 DEF Kill, KillAll
  <2>2. PICK a \in EndJob : k \in Kills(a)
    BY <1>2, <2>1
  <2>3. PICK b \in Fallback(a), c \in CloseJob : k = Both(Both(a, b), c)
    BY <2>2
  <2>4. a.said \subseteq k.said /\ a.dead \subseteq k.dead
    BY <2>3 DEF Both, Outcome
  <2> QED
    BY <1>2, <2>2, <2>4, CallsSay
<1> QED
  BY <1>1, <1>2

\* A process of the set no longer runs; the others are as they were.
LEMMA KilledStops ==
  ASSUME TypeOK, NEW S
  PROVE  /\ Killed(S) \in [Processes -> {"none", "suspended", "running", "doomed", "dead"}]
         /\ \A p \in Processes :
              /\ Killed(S)[p] = "running" => proc[p] = "running" /\ p \notin S
              /\ Killed(S)[p] = "none" <=> proc[p] = "none"
              /\ proc[p] = "dead" => Killed(S)[p] = "dead"
<1> DEFINE hit(p) == p \in S \cap Alive
<1>1. Killed(S) = [p \in Processes |-> IF hit(p) THEN "doomed" ELSE proc[p]]
  BY DEF Killed
<1>2. \A p \in Processes : hit(p) <=> p \in S /\ proc[p] \in {"suspended", "running", "doomed"}
  BY DEF Alive
<1>3. \A p \in Processes : proc[p] \in {"none", "suspended", "running", "doomed", "dead"}
  BY DEF TypeOK
<1> HIDE DEF hit
<1>4. Killed(S) \in [Processes -> {"none", "suspended", "running", "doomed", "dead"}]
  BY <1>1, <1>3
<1>5. \A p \in Processes : Killed(S)[p] = IF hit(p) THEN "doomed" ELSE proc[p]
  BY <1>1
<1>6. ASSUME NEW p \in Processes
      PROVE  /\ Killed(S)[p] = "running" => proc[p] = "running" /\ p \notin S
             /\ Killed(S)[p] = "none" <=> proc[p] = "none"
             /\ proc[p] = "dead" => Killed(S)[p] = "dead"
  <2>1. CASE hit(p)
    BY <1>2, <1>5, <2>1
  <2>2. CASE ~hit(p)
    BY <1>2, <1>5, <2>2
  <2> QED
    BY <2>1, <2>2
<1> QED
  BY <1>4, <1>6

LEMMA ContainedInit == Init => Contained
  BY DEF Init, Contained, TypeOK, Spawning, InPlace, KilledOrSaid, Labels, Late, Processes,
         Child, Kin

\* The steps of the spawn.
LEMMA ContainedSpawn ==
  ASSUME Contained,
         SpawnFails \/ CreateJob \/ Popen \/ Assign \/ Resume \/ SpawnBreaks \/ FailKill \/ FailWait
  PROVE  Contained'
<1> USE DEF Contained, TypeOK, Spawning, InPlace, KilledOrSaid, Labels, Late, Processes, Child, Kin,
            system, drain, history
<1>1. CASE SpawnFails
  BY <1>1 DEF SpawnFails
<1>2. CASE CreateJob
  BY <1>2 DEF CreateJob
<1>3. CASE Popen
  BY <1>3 DEF Popen
<1>4. CASE Assign
  BY <1>4 DEF Assign
<1>5. CASE Resume
  BY <1>5 DEF Resume
<1>6. CASE SpawnBreaks
  BY <1>6 DEF SpawnBreaks
<1>7. CASE FailKill
  <2>1. PICK a \in IF assigned THEN EndJob ELSE {Nothing}, b \in EndChild :
          proc' = Killed(Both(a, b).dead) /\ notes' = notes \cup Both(a, b).said
    BY <1>7 DEF FailKill
  <2>2. Both(a, b).said = {} => contained \cup {Child} \subseteq Both(a, b).dead
    <3>1. b.said = {} => Child \in b.dead
      BY <2>1, CallsSay
    <3>2. a.said = {} => contained \subseteq a.dead
      <4>1. CASE assigned
        BY <2>1, <4>1, CallsSay
      <4>2. CASE ~assigned
        BY <1>7, <4>2 DEF FailKill
      <4> QED
        BY <4>1, <4>2
    <3> QED
      BY <3>1, <3>2 DEF Both, Outcome
  <2>3. notes' = {} => \A p \in Processes : proc'[p] # "running"
    BY <1>7, <2>1, <2>2, KilledStops DEF FailKill
  <2> QED
    BY <1>7, <2>1, <2>3, KilledStops DEF FailKill
<1>8. CASE FailWait
  <2>1. PICK c \in CloseJob : /\ proc' = Killed(c.dead)
                             /\ notes \subseteq notes'
    BY <1>8 DEF FailWait
  <2> QED
    BY <1>8, <2>1, KilledStops DEF FailWait
<1> QED
  BY <1>1, <1>2, <1>3, <1>4, <1>5, <1>6, <1>7, <1>8

\* The steps of the caller once the child runs.
LEMMA ContainedCall ==
  ASSUME Contained, Threads \/ Wait \/ KillTree \/ Reap \/ JoinReader \/ Collect \/ Interrupt
  PROVE  Contained'
<1> USE DEF Contained, TypeOK, Spawning, InPlace, KilledOrSaid, Labels, Late, Processes, Child, Kin,
            system, drain, history
<1>1. CASE Threads
  BY <1>1 DEF Threads, StartThreads
<1>2. CASE Wait
  BY <1>2 DEF Wait
<1>3. CASE KillTree
  <2>1. PICK k \in Kill : proc' = Killed(k.dead) /\ notes' = notes \cup k.said
    BY <1>3 DEF KillTree
  <2>2. notes' = {} => \A p \in Processes : proc'[p] = "running" => ~windows /\ p \notin contained
    BY <1>3, <2>1, KillReaches, KilledStops DEF KillTree
  <2>3. /\ pc = "kill" /\ pc' = "reap"
        /\ UNCHANGED <<windows, contained, holders, assigned>>
    BY <1>3 DEF KillTree
  <2>4. TypeOK' /\ Spawning' /\ InPlace'
    BY <2>1, <2>3, KilledStops
  <2> QED
    BY <2>2, <2>3, <2>4
<1>4. CASE Reap
  BY <1>4 DEF Reap
<1>5. CASE JoinReader
  BY <1>5 DEF JoinReader
<1>6. CASE Collect
  BY <1>6 DEF Collect
<1>7. CASE Interrupt
  BY <1>7 DEF Interrupt
<1> QED
  BY <1>1, <1>2, <1>3, <1>4, <1>5, <1>6, <1>7

\* The two threads and the command itself.
LEMMA ContainedOthers ==
  ASSUME Contained, ReaderStep \/ FeederStep \/ SystemStep \/ UNCHANGED vars
  PROVE  Contained'
<1> USE DEF Contained, TypeOK, Spawning, InPlace, KilledOrSaid, Labels, Late, Processes, Child, Kin,
            caller, system, drain, history
<1>1. CASE \/ FillChunk \/ StoreChunk \/ FeedInput \/ FeedEnds \/ ReadInput \/ UNCHANGED vars
            \/ \E p \in Processes : WriteOutput(p)
  <2>1. UNCHANGED <<pc, windows, notes, proc, contained, holders, assigned>>
    BY <1>1 DEF FillChunk, StoreChunk, FeedInput, FeedEnds, ReadInput, WriteOutput, vars
  <2> QED
    BY <2>1
<1>2. ASSUME NEW p \in Processes, CloseOutput(p)
      PROVE  Contained'
  BY <1>2 DEF CloseOutput
<1>3. CASE Fork
  BY <1>3 DEF Fork, Running
<1>4. CASE LeaveGroup
  BY <1>4 DEF LeaveGroup, Running
<1>5. ASSUME NEW p \in Processes, Exits(p) \/ Dies(p)
      PROVE  Contained'
  <2>1. /\ proc' = [proc EXCEPT ![p] = "dead"] /\ proc[p] \in {"running", "doomed"}
        /\ UNCHANGED <<pc, windows, notes, contained, assigned>> /\ holders' \subseteq holders
    BY <1>5 DEF Exits, Dies, EndOf, Running
  <2> QED
    BY <2>1
<1> QED
  BY <1>1, <1>2, <1>3, <1>4, <1>5 DEF ReaderStep, FeederStep, SystemStep

THEOREM ContainedAlways == Spec => []Contained
<1>1. Contained /\ [Next]_vars => Contained'
  BY ContainedSpawn, ContainedCall, ContainedOthers DEF Next, CallerStep, Terminated
<1> QED
  BY <1>1, ContainedInit, PTL DEF Spec

\* Once the call has returned, what still runs has left its process group, or the output
\* names what failed; and on Windows nothing ever runs outside of the job.
THEOREM NothingSurvives == Spec => []NothingOutlivesTheCall
<1>1. Contained => NothingOutlivesTheCall
  BY DEF Contained, TypeOK, InPlace, KilledOrSaid, Late, NothingOutlivesTheCall,
         ContainedFromTheStart, Running
<1> QED
  BY <1>1, ContainedAlways, PTL

-----------------------------------------------------------------------------
(* The answer                                                              *)

\* What the drain thread has stored or dropped.
Stored == written - pipe - chunk

Counts ==
  /\ pipe \in Nat /\ chunk \in Nat /\ written \in Nat
  /\ truncated \in BOOLEAN /\ timedOut \in BOOLEAN
  /\ Stored \in Nat
  /\ captured = Small(Cap, Stored)
  /\ truncated <=> Stored > Cap

\* The drain thread ends when nobody can write any more, and nothing is left.
Drained ==
  /\ reader = "done" => holders = {} /\ pipe = 0 /\ chunk = 0
  /\ pc \in Early => reader = "none"
  /\ pc = "join_feeder" /\ ~gaveUp => reader = "done"

\* Until the kill only the child itself can have ended.
Ended ==
  /\ pc \in {"threads", "wait"} =>
       proc[Child] = "running" \/ (proc[Child] = "dead" /\ ownEnd)
  /\ pc \in {"kill", "reap", "join", "join_feeder"} /\ ~timedOut => ownEnd

Returned ==
  pc = "returned" /\ result.code =>
    /\ ownEnd
    /\ ~gaveUp => /\ reader = "done" /\ result.size = captured
                  /\ result.truncated <=> truncated

Answered == Counts /\ Drained /\ Ended /\ Returned

\* The steps that neither move a byte nor are steps of the drain thread.
Elsewhere == \/ CallerStep \/ FeederStep \/ ReadInput \/ Fork \/ LeaveGroup \/ Interrupt
             \/ \E p \in Processes : CloseOutput(p) \/ Exits(p) \/ Dies(p)
             \/ UNCHANGED vars

LEMMA Steps == [Next]_vars => \/ FillChunk \/ StoreChunk \/ Elsewhere
                              \/ \E p \in Processes : WriteOutput(p)
  BY DEF Next, ReaderStep, SystemStep, Terminated, Elsewhere

\* Only the drain thread and the command count bytes.
LEMMA CountsKept ==
  ASSUME Counts, Elsewhere
  PROVE  /\ UNCHANGED <<pipe, chunk, captured, truncated, written>>
         /\ timedOut' \in BOOLEAN
<1> USE DEF Counts, system, drain, history, caller
<1>1. CASE CallerStep
  <2>1. CASE SpawnFails \/ CreateJob \/ Popen \/ Assign \/ Resume \/ SpawnBreaks \/ FailKill \/ FailWait
    BY <2>1 DEF SpawnFails, CreateJob, Popen, Assign, Resume, SpawnBreaks, FailKill, FailWait
  <2>2. CASE Threads \/ KillTree \/ Reap \/ JoinReader \/ Collect
    BY <2>2 DEF Threads, KillTree, Reap, JoinReader, Collect
  <2>3. CASE Wait
    BY <2>3 DEF Wait
  <2> QED
    BY <1>1, <2>1, <2>2, <2>3 DEF CallerStep
<1>2. CASE FeederStep \/ ReadInput \/ Fork \/ LeaveGroup \/ Interrupt
  BY <1>2 DEF FeederStep, FeedInput, FeedEnds, ReadInput, Fork, LeaveGroup, Interrupt
<1>3. CASE \/ \E p \in Processes : CloseOutput(p) \/ Exits(p) \/ Dies(p)
           \/ UNCHANGED vars
  BY <1>3 DEF CloseOutput, Exits, Dies, vars
<1> QED
  BY <1>1, <1>2, <1>3 DEF Elsewhere

LEMMA CountsStep ==
  ASSUME Counts, [Next]_vars
  PROVE  Counts'
<1>1. CASE FillChunk
  BY <1>1 DEF FillChunk, Counts, Stored, Small, caller, history
<1>2. CASE StoreChunk
  <2>1. /\ pipe' = pipe /\ chunk' = 0 /\ written' = written /\ timedOut' = timedOut
        /\ Stored' = Stored + chunk
    BY <1>2 DEF StoreChunk, Counts, Stored, caller, history
  <2>2. captured' = Small(Cap, Stored + chunk)
    BY <1>2, ProcsAssumption DEF StoreChunk, Counts, Small
  <2>3. truncated' <=> Stored + chunk > Cap
    <3>1. truncated' = (truncated \/ (chunk > 0 /\ chunk > Cap - captured))
      BY <1>2 DEF StoreChunk, Cut
    <3>2. (Stored > Cap \/ (chunk > 0 /\ chunk > Cap - captured)) <=> Stored + chunk > Cap
      BY ProcsAssumption DEF Counts, Small
    <3> QED
      BY <3>1, <3>2 DEF Counts
  <2>4. truncated' \in BOOLEAN
    BY <1>2 DEF StoreChunk
  <2> QED
    BY <2>1, <2>2, <2>3, <2>4 DEF Counts
<1>3. ASSUME NEW p \in Processes, WriteOutput(p)
      PROVE  Counts'
  BY <1>3 DEF WriteOutput, Counts, Stored, Small, caller, drain
<1>4. CASE Elsewhere
  BY <1>4, CountsKept DEF Counts, Stored, Small
<1> QED
  BY <1>1, <1>2, <1>3, <1>4, Steps

LEMMA DrainedStep ==
  ASSUME Contained, Counts, Drained, [Next]_vars
  PROVE  Drained'
<1> USE DEF Contained, TypeOK, Drained, Early, Labels, system, drain, history, caller
<1>1. CASE FillChunk
  BY <1>1 DEF FillChunk, Counts
<1>2. CASE StoreChunk
  BY <1>2 DEF StoreChunk, Counts
<1>3. ASSUME NEW p \in Processes, WriteOutput(p)
      PROVE  Drained'
  BY <1>3 DEF WriteOutput, Counts
<1>4. CASE Elsewhere
  <2>0. UNCHANGED <<pipe, chunk>>
    BY <1>4, CountsKept
  <2>1. CASE SpawnFails \/ CreateJob \/ Popen \/ Assign \/ Resume \/ SpawnBreaks
    BY <2>1 DEF SpawnFails, CreateJob, Popen, Assign, Resume, SpawnBreaks
  <2>2. CASE FailKill \/ FailWait \/ KillTree \/ Reap \/ Wait \/ Collect \/ Interrupt
    BY <2>2 DEF FailKill, FailWait, KillTree, Reap, Wait, Collect, Interrupt
  <2>3. CASE Threads
    BY <2>3 DEF Threads, StartThreads
  <2>4. CASE JoinReader
    BY <2>4 DEF JoinReader
  <2>5. CASE FeederStep \/ ReadInput \/ LeaveGroup
    BY <2>5 DEF FeederStep, FeedInput, FeedEnds, ReadInput, LeaveGroup
  <2>6. CASE Fork
    BY <2>6 DEF Fork
  <2>7. ASSUME NEW p \in Processes, CloseOutput(p) \/ Exits(p) \/ Dies(p)
        PROVE  Drained'
    <3>1. UNCHANGED <<reader, pc, gaveUp>> /\ holders' \subseteq holders
      BY <2>7 DEF CloseOutput, Exits, Dies, EndOf
    <3> QED
      BY <2>0, <3>1
  <2>8. CASE UNCHANGED vars
    BY <2>8 DEF vars
  <2> QED
    BY <1>4, <2>1, <2>2, <2>3, <2>4, <2>5, <2>6, <2>7, <2>8 DEF Elsewhere, CallerStep
<1> QED
  BY <1>1, <1>2, <1>3, <1>4, Steps

LEMMA EndedStep ==
  ASSUME Contained, Ended, [Next]_vars
  PROVE  Ended'
<1> USE DEF Contained, TypeOK, Ended, Labels, Processes, Child, Kin, system, drain, history, caller
<1>1. CASE SpawnFails \/ CreateJob \/ Popen \/ Assign \/ SpawnBreaks
  BY <1>1 DEF SpawnFails, CreateJob, Popen, Assign, SpawnBreaks
<1>2. CASE Resume
  BY <1>2 DEF Resume
<1>3. CASE FailKill \/ FailWait \/ KillTree
  BY <1>3 DEF FailKill, FailWait, KillTree
<1>4. CASE Threads \/ Reap \/ JoinReader \/ Collect \/ Interrupt
  BY <1>4 DEF Threads, StartThreads, Reap, JoinReader, Collect, Interrupt
<1>5. CASE Wait
  BY <1>5 DEF Wait, Alive
<1>6. CASE \/ FillChunk \/ StoreChunk \/ FeedInput \/ FeedEnds \/ ReadInput \/ LeaveGroup
           \/ UNCHANGED vars \/ \E p \in Processes : WriteOutput(p) \/ CloseOutput(p)
  <2>1. UNCHANGED <<pc, proc, ownEnd, timedOut>>
    BY <1>6 DEF FillChunk, StoreChunk, FeedInput, FeedEnds, ReadInput, LeaveGroup, WriteOutput,
                CloseOutput, vars
  <2> QED
    BY <2>1
<1>7. CASE Fork
  BY <1>7 DEF Fork
<1>8. ASSUME NEW p \in Processes, Exits(p)
      PROVE  Ended'
  BY <1>8 DEF Exits, EndOf
<1>9. ASSUME NEW p \in Processes, Dies(p)
      PROVE  Ended'
  BY <1>9 DEF Dies, EndOf
<1> QED
  BY <1>1, <1>2, <1>3, <1>4, <1>5, <1>6, <1>7, <1>8, <1>9
     DEF Next, CallerStep, ReaderStep, FeederStep, SystemStep, Terminated

LEMMA ReturnedStep ==
  ASSUME Contained, Drained, Ended, Returned, [Next]_vars
  PROVE  Returned'
<1> USE DEF Returned, Labels, system, drain, history, caller
<1>1. CASE SpawnFails \/ FailWait
  <2>1. result' = NoResult
    BY <1>1 DEF SpawnFails, FailWait
  <2>2. NoResult.code = FALSE
    BY DEF NoResult
  <2> QED
    BY <2>1, <2>2
<1>2. CASE Collect
  BY <1>2 DEF Collect, Drained, Ended
<1>3. CASE \/ CreateJob \/ Popen \/ Assign \/ Resume \/ SpawnBreaks \/ FailKill
           \/ Threads \/ Wait \/ KillTree \/ Reap \/ JoinReader \/ Interrupt
  <2>1. pc' # "returned"
    BY <1>3 DEF CreateJob, Popen, Assign, Resume, SpawnBreaks, FailKill, Threads, StartThreads,
                Wait, KillTree, Reap, JoinReader, Interrupt
  <2> QED
    BY <2>1
<1>4. CASE FillChunk \/ StoreChunk
  <2>1. reader = "reading" /\ UNCHANGED <<pc, result, ownEnd, gaveUp>>
    BY <1>4 DEF FillChunk, StoreChunk
  <2> QED
    BY <2>1
<1>5. CASE \/ FeederStep \/ ReadInput \/ Fork \/ LeaveGroup \/ UNCHANGED vars
           \/ \E p \in Processes : WriteOutput(p) \/ CloseOutput(p) \/ Exits(p) \/ Dies(p)
  <2>1. UNCHANGED <<pc, result, gaveUp, reader, captured, truncated>> /\ (ownEnd => ownEnd')
    BY <1>5 DEF FeederStep, FeedInput, FeedEnds, ReadInput, Fork, LeaveGroup, vars, WriteOutput,
                CloseOutput, Exits, Dies
  <2> QED
    BY <2>1
<1> QED
  BY <1>1, <1>2, <1>3, <1>4, <1>5 DEF Next, CallerStep, ReaderStep, SystemStep, Terminated

LEMMA AnsweredInit == Init => Answered
<1> SUFFICES ASSUME Init PROVE Answered
  OBVIOUS
<1>1. pc \in {"job", "popen"} /\ reader = "none"
  BY DEF Init
<1>2. Drained /\ Ended /\ Returned
  BY <1>1 DEF Drained, Ended, Returned
<1>3. pipe = 0 /\ chunk = 0 /\ captured = 0 /\ written = 0
  BY DEF Init
<1>4. timedOut = FALSE /\ truncated = FALSE
  BY DEF Init
<1>5. Stored = 0 /\ Small(Cap, 0) = 0 /\ ~(0 > Cap)
  BY <1>3, ProcsAssumption DEF Stored, Small
<1>6. Counts
  BY <1>3, <1>4, <1>5 DEF Counts
<1> QED
  BY <1>2, <1>6 DEF Answered

\* An answer that gives an exit code is of a command that ended by itself, and gives all
\* that was written until then, or says that it was cut at the cap.
THEOREM AnswersAreTrue == Spec => []AnswerIsTrue
<1>1. Contained /\ Answered /\ [Next]_vars => Answered'
  BY CountsStep, DrainedStep, EndedStep, ReturnedStep DEF Answered
<1>2. Answered => AnswerIsTrue
  <2>1. Answer = "exit code" => result.code
    BY DEF Answer
  <2>2. reader = "done" /\ Answered => captured = Small(Cap, written) /\ (truncated <=> written > Cap)
    BY DEF Answered, Counts, Stored, Drained
  <2> QED
    BY <2>1, <2>2 DEF Answered, Returned, AnswerIsTrue
<1> QED
  BY <1>1, <1>2, AnsweredInit, ContainedAlways, PTL DEF Spec
=============================================================================
