------------------------ MODULE DockerSandbox_proofs ------------------------
(***************************************************************************)
(* Proofs about DockerSandbox for every value of its constants: types, the *)
(* lock discipline of the two threads, that no reset restarts the          *)
(* container a breach killed, that no violation is lost, and what a bash   *)
(* call that returns leaves behind.                                        *)
(***************************************************************************)
EXTENDS DockerSandbox, TLAPS

(* Each thread stays at its own labels.                                     *)
LEMMA LabelsCorrect == Spec => []LabelsOK
<1>. USE DEF LabelsOK, Threads, Main, Dog, Free, None, Goto, locks, worker, history,
           ResetBody, HoldingReset, ReapBody, MeasureBody, HoldingReap, Breaches, Recording,
           MainAfterBash, MainLabels, DogLabels
<1>1. Init => LabelsOK
  BY DEF Init
<1>2. ASSUME LabelsOK, [Next]_vars
      PROVE  LabelsOK'
  <2>1. ASSUME NEW t \in Threads, SkipReset(t) PROVE LabelsOK'
    BY <1>2, <2>1 DEF SkipReset, ResetAllowed, AfterSample
  <2>2. ASSUME NEW t \in Threads, BeginReset(t) PROVE LabelsOK'
    BY <1>2, <2>2 DEF BeginReset, ResetAllowed
  <2>3. ASSUME NEW t \in Threads, ResetKill(t) PROVE LabelsOK'
    BY <1>2, <2>3 DEF ResetKill, DockerKill, Running
  <2>4. ASSUME NEW t \in Threads, ResetStart(t) PROVE LabelsOK'
    BY <1>2, <2>4 DEF ResetStart
  <2>5. ASSUME NEW t \in Threads, ResetReady(t) PROVE LabelsOK'
    BY <1>2, <2>5 DEF ResetReady, Escape, ReleaseBoth, Running
  <2>6. ASSUME NEW t \in Threads, ResetInit(t) PROVE LabelsOK'
    BY <1>2, <2>6 DEF ResetInit, Escape, ReleaseBoth, Running
  <2>7. ASSUME NEW t \in Threads, ResetDone(t) PROVE LabelsOK'
    BY <1>2, <2>7 DEF ResetDone
  <2>8. ASSUME NEW t \in Threads, RecordViolation(t) PROVE LabelsOK'
    BY <1>2, <2>8 DEF RecordViolation, FirstWins, CauseAt
  <2>9. ASSUME NEW t \in Threads, WatchdogKillEnter(t) PROVE LabelsOK'
    BY <1>2, <2>9 DEF WatchdogKillEnter, KillMayStart
  <2>10. ASSUME NEW t \in Threads, WatchdogKill(t) PROVE LabelsOK'
    BY <1>2, <2>10 DEF WatchdogKill, DockerKill, Running
  <2>11. ASSUME NEW t \in Threads, SampleAcquire(t) PROVE LabelsOK'
    BY <1>2, <2>11 DEF SampleAcquire
  <2>12. ASSUME NEW t \in Threads, SampleGivesUp(t) PROVE LabelsOK'
    BY <1>2, <2>12 DEF SampleGivesUp, AfterSample
  <2>13. ASSUME NEW t \in Threads, MeasureSucceeds(t) PROVE LabelsOK'
    BY <1>2, <2>13 DEF MeasureSucceeds, AfterSample, Running
  <2>14. ASSUME NEW t \in Threads, MeasureResets(t) PROVE LabelsOK'
    BY <1>2, <2>14 DEF MeasureResets, CallReset
  <2>15. ASSUME NEW t \in Threads, MeasureFails(t) PROVE LabelsOK'
    BY <1>2, <2>15 DEF MeasureFails, AfterSample
  <2>16. CASE BashStart
    BY <1>2, <2>16 DEF BashStart, Running
  <2>17. CASE BashEnd
    BY <1>2, <2>17 DEF BashEnd
  <2>18. CASE CheckViolation
    BY <1>2, <2>18 DEF CheckViolation, RaiseViolation, StatusOf
  <2>19. CASE ClearFlag
    BY <1>2, <2>19 DEF ClearFlag
  <2>20. CASE ReapGuard
    BY <1>2, <2>20 DEF ReapGuard
  <2>21. CASE ReapAcquire
    BY <1>2, <2>21 DEF ReapAcquire
  <2>22. CASE ReapResets
    BY <1>2, <2>22 DEF ReapResets, CallReset
  <2>23. CASE ReapTop
    BY <1>2, <2>23 DEF ReapTop, Running
  <2>24. CASE ReapKill
    BY <1>2, <2>24 DEF ReapKill, Running
  <2>25. CASE ReapSettle
    BY <1>2, <2>25 DEF ReapSettle, Settled, Running
  <2>26. CASE ReapDone
    BY <1>2, <2>26 DEF ReapDone
  <2>27. CASE PreSample
    BY <1>2, <2>27 DEF PreSample, SkipSample
  <2>28. CASE GrepTimesOut
    BY <1>2, <2>28 DEF GrepTimesOut, Running
  <2>29. CASE WriteTool
    BY <1>2, <2>29 DEF WriteTool, Running, Goto
  <2>30. CASE AbandonAcquire
    BY <1>2, <2>30 DEF AbandonAcquire
  <2>31. CASE AbandonKill
    BY <1>2, <2>31 DEF AbandonKill
  <2>32. CASE Finish
    BY <1>2, <2>32 DEF Finish
  <2>33. CASE Finalize
    BY <1>2, <2>33 DEF Finalize
  <2>34. CASE Join
    BY <1>2, <2>34 DEF Join, MayOutlastJoin
  <2>35. CASE Remove
    BY <1>2, <2>35 DEF Remove
  <2>36. CASE TakeViolation
    BY <1>2, <2>36 DEF TakeViolation, StatusOf
  <2>37. CASE DogLoop
    BY <1>2, <2>37 DEF DogLoop
  <2>38. CASE CheckDisk
    BY <1>2, <2>38 DEF CheckDisk, FailsClosed
  <2>39. CASE Look
    BY <1>2, <2>39 DEF Look, InFlight
  <2>40. CASE WorkerWrites
    BY <1>2, <2>40 DEF WorkerWrites, Running
  <2>41. CASE Interrupt
    BY <1>2, <2>41 DEF Interrupt
  <2>42. CASE Terminated
    BY <1>2, <2>42 DEF Terminated, vars
  <2>43. CASE UNCHANGED vars
    BY <1>2, <2>43 DEF vars
  <2>44. QED
    BY <1>2, <2>1, <2>2, <2>3, <2>4, <2>5, <2>6, <2>7, <2>8, <2>9, <2>10, <2>11, <2>12, <2>13, <2>14, <2>15, <2>16, <2>17, <2>18, <2>19, <2>20, <2>21, <2>22, <2>23, <2>24, <2>25, <2>26, <2>27, <2>28, <2>29, <2>30, <2>31, <2>32, <2>33, <2>34, <2>35, <2>36, <2>37, <2>38, <2>39, <2>40, <2>41, <2>42, <2>43
       DEF Next, MainStep, DogStep, Reset, Breach, Sample, Threads, Main, Dog
<1>3. QED
  BY <1>1, <1>2, PTL DEF Spec

(* The watchdog dies with the stat failure that reaches the bound.          *)
PollOK ==
  /\ diskFailures \in 0..MaxDiskCheckFailures
  /\ diskFailures = MaxDiskCheckFailures
       => pc[Dog] \in {"breach_stat", "wkill", "wkilling", "exited"}

(* Causes, statuses and counters.                                           *)
LEMMA DataCorrect == Spec => [](DataOK /\ PollOK)
<1>. USE SandboxAssumption DEF DataOK, PollOK, Causes, Statuses, Goto, Threads, Main, Dog, Free, None, locks, worker, history,
           ResetBody, HoldingReset, ReapBody, MeasureBody, HoldingReap, Breaches, Recording,
           MainAfterBash, MainLabels, DogLabels
<1>1. Init => DataOK /\ PollOK
  BY DEF Init
<1>2. ASSUME LabelsOK, DataOK, PollOK, [Next]_vars
      PROVE  DataOK' /\ PollOK'
  <2>. USE DEF LabelsOK
  <2>1. ASSUME NEW t \in Threads, SkipReset(t) PROVE DataOK' /\ PollOK'
    BY <1>2, <2>1 DEF SkipReset, ResetAllowed, AfterSample
  <2>2. ASSUME NEW t \in Threads, BeginReset(t) PROVE DataOK' /\ PollOK'
    BY <1>2, <2>2 DEF BeginReset, ResetAllowed
  <2>3. ASSUME NEW t \in Threads, ResetKill(t) PROVE DataOK' /\ PollOK'
    BY <1>2, <2>3 DEF ResetKill, DockerKill, Running
  <2>4. ASSUME NEW t \in Threads, ResetStart(t) PROVE DataOK' /\ PollOK'
    BY <1>2, <2>4 DEF ResetStart
  <2>5. ASSUME NEW t \in Threads, ResetReady(t) PROVE DataOK' /\ PollOK'
    BY <1>2, <2>5 DEF ResetReady, Escape, ReleaseBoth, Running
  <2>6. ASSUME NEW t \in Threads, ResetInit(t) PROVE DataOK' /\ PollOK'
    BY <1>2, <2>6 DEF ResetInit, Escape, ReleaseBoth, Running
  <2>7. ASSUME NEW t \in Threads, ResetDone(t) PROVE DataOK' /\ PollOK'
    BY <1>2, <2>7 DEF ResetDone
  <2>8. ASSUME NEW t \in Threads, RecordViolation(t) PROVE DataOK' /\ PollOK'
    BY <1>2, <2>8 DEF RecordViolation, FirstWins, CauseAt
  <2>9. ASSUME NEW t \in Threads, WatchdogKillEnter(t) PROVE DataOK' /\ PollOK'
    BY <1>2, <2>9 DEF WatchdogKillEnter, KillMayStart
  <2>10. ASSUME NEW t \in Threads, WatchdogKill(t) PROVE DataOK' /\ PollOK'
    BY <1>2, <2>10 DEF WatchdogKill, DockerKill, Running
  <2>11. ASSUME NEW t \in Threads, SampleAcquire(t) PROVE DataOK' /\ PollOK'
    BY <1>2, <2>11 DEF SampleAcquire
  <2>12. ASSUME NEW t \in Threads, SampleGivesUp(t) PROVE DataOK' /\ PollOK'
    BY <1>2, <2>12 DEF SampleGivesUp, AfterSample
  <2>13. ASSUME NEW t \in Threads, MeasureSucceeds(t) PROVE DataOK' /\ PollOK'
    BY <1>2, <2>13 DEF MeasureSucceeds, AfterSample, Running
  <2>14. ASSUME NEW t \in Threads, MeasureResets(t) PROVE DataOK' /\ PollOK'
    BY <1>2, <2>14 DEF MeasureResets, CallReset
  <2>15. ASSUME NEW t \in Threads, MeasureFails(t) PROVE DataOK' /\ PollOK'
    BY <1>2, <2>15 DEF MeasureFails, AfterSample
  <2>16. CASE BashStart
    BY <1>2, <2>16 DEF BashStart, Running
  <2>17. CASE BashEnd
    BY <1>2, <2>17 DEF BashEnd
  <2>18. CASE CheckViolation
    BY <1>2, <2>18 DEF CheckViolation, RaiseViolation, StatusOf
  <2>19. CASE ClearFlag
    BY <1>2, <2>19 DEF ClearFlag
  <2>20. CASE ReapGuard
    BY <1>2, <2>20 DEF ReapGuard
  <2>21. CASE ReapAcquire
    BY <1>2, <2>21 DEF ReapAcquire
  <2>22. CASE ReapResets
    BY <1>2, <2>22 DEF ReapResets, CallReset
  <2>23. CASE ReapTop
    BY <1>2, <2>23 DEF ReapTop, Running
  <2>24. CASE ReapKill
    BY <1>2, <2>24 DEF ReapKill, Running
  <2>25. CASE ReapSettle
    BY <1>2, <2>25 DEF ReapSettle, Settled, Running
  <2>26. CASE ReapDone
    BY <1>2, <2>26 DEF ReapDone
  <2>27. CASE PreSample
    BY <1>2, <2>27 DEF PreSample, SkipSample
  <2>28. CASE GrepTimesOut
    BY <1>2, <2>28 DEF GrepTimesOut, Running
  <2>29. CASE WriteTool
    BY <1>2, <2>29 DEF WriteTool, Running, Goto
  <2>30. CASE AbandonAcquire
    BY <1>2, <2>30 DEF AbandonAcquire
  <2>31. CASE AbandonKill
    BY <1>2, <2>31 DEF AbandonKill
  <2>32. CASE Finish
    BY <1>2, <2>32 DEF Finish
  <2>33. CASE Finalize
    BY <1>2, <2>33 DEF Finalize
  <2>34. CASE Join
    BY <1>2, <2>34 DEF Join, MayOutlastJoin
  <2>35. CASE Remove
    BY <1>2, <2>35 DEF Remove
  <2>36. CASE TakeViolation
    BY <1>2, <2>36 DEF TakeViolation, StatusOf
  <2>37. CASE DogLoop
    BY <1>2, <2>37 DEF DogLoop
  <2>38. CASE CheckDisk
    BY <1>2, <2>38 DEF CheckDisk, FailsClosed
  <2>39. CASE Look
    BY <1>2, <2>39 DEF Look, InFlight
  <2>40. CASE WorkerWrites
    BY <1>2, <2>40 DEF WorkerWrites, Running
  <2>41. CASE Interrupt
    BY <1>2, <2>41 DEF Interrupt
  <2>42. CASE Terminated
    BY <1>2, <2>42 DEF Terminated, vars
  <2>43. CASE UNCHANGED vars
    BY <1>2, <2>43 DEF vars
  <2>44. QED
    BY <1>2, <2>1, <2>2, <2>3, <2>4, <2>5, <2>6, <2>7, <2>8, <2>9, <2>10, <2>11, <2>12, <2>13, <2>14, <2>15, <2>16, <2>17, <2>18, <2>19, <2>20, <2>21, <2>22, <2>23, <2>24, <2>25, <2>26, <2>27, <2>28, <2>29, <2>30, <2>31, <2>32, <2>33, <2>34, <2>35, <2>36, <2>37, <2>38, <2>39, <2>40, <2>41, <2>42, <2>43
       DEF Next, MainStep, DogStep, Reset, Breach, Sample, Threads, Main, Dog
<1>3. QED
  BY <1>1, <1>2, LabelsCorrect, PTL DEF Spec

(* The flags.                                                               *)
LEMMA FlagsCorrect == Spec => []FlagsOK
<1>. USE DEF FlagsOK, locks, worker, history
<1>1. Init => FlagsOK
  BY Zenon DEF Init
<1>2. Running \in BOOLEAN
  BY DEF Running
<1>3. ASSUME FlagsOK, [Next]_vars
      PROVE  FlagsOK'
  <2>1. ASSUME NEW t \in Threads, SkipReset(t) PROVE FlagsOK'
    BY <1>3, <2>1, Zenon DEF SkipReset, ResetAllowed, AfterSample
  <2>2. ASSUME NEW t \in Threads, BeginReset(t) PROVE FlagsOK'
    BY <1>3, <2>2, Zenon DEF BeginReset, ResetAllowed
  <2>3. ASSUME NEW t \in Threads, ResetKill(t) PROVE FlagsOK'
    BY <1>3, <2>3, Zenon DEF ResetKill, DockerKill, Running
  <2>4. ASSUME NEW t \in Threads, ResetStart(t) PROVE FlagsOK'
    BY <1>3, <2>4, Zenon DEF ResetStart
  <2>5. ASSUME NEW t \in Threads, ResetReady(t) PROVE FlagsOK'
    BY <1>3, <2>5, Zenon DEF ResetReady, Escape, ReleaseBoth, Running
  <2>6. ASSUME NEW t \in Threads, ResetInit(t) PROVE FlagsOK'
    BY <1>3, <2>6, Zenon DEF ResetInit, Escape, ReleaseBoth, Running
  <2>7. ASSUME NEW t \in Threads, ResetDone(t) PROVE FlagsOK'
    BY <1>3, <2>7, Zenon DEF ResetDone
  <2>8. ASSUME NEW t \in Threads, RecordViolation(t) PROVE FlagsOK'
    BY <1>3, <2>8, Zenon DEF RecordViolation, FirstWins, CauseAt
  <2>9. ASSUME NEW t \in Threads, WatchdogKillEnter(t) PROVE FlagsOK'
    BY <1>3, <2>9, Zenon DEF WatchdogKillEnter, KillMayStart
  <2>10. ASSUME NEW t \in Threads, WatchdogKill(t) PROVE FlagsOK'
    BY <1>3, <2>10, Zenon DEF WatchdogKill, DockerKill, Running
  <2>11. ASSUME NEW t \in Threads, SampleAcquire(t) PROVE FlagsOK'
    BY <1>3, <2>11, Zenon DEF SampleAcquire
  <2>12. ASSUME NEW t \in Threads, SampleGivesUp(t) PROVE FlagsOK'
    BY <1>3, <2>12, Zenon DEF SampleGivesUp, AfterSample
  <2>13. ASSUME NEW t \in Threads, MeasureSucceeds(t) PROVE FlagsOK'
    BY <1>3, <2>13, Zenon DEF MeasureSucceeds, AfterSample, Running
  <2>14. ASSUME NEW t \in Threads, MeasureResets(t) PROVE FlagsOK'
    BY <1>3, <2>14, Zenon DEF MeasureResets, CallReset
  <2>15. ASSUME NEW t \in Threads, MeasureFails(t) PROVE FlagsOK'
    BY <1>3, <2>15, Zenon DEF MeasureFails, AfterSample
  <2>16. CASE BashStart
    BY <1>2, <1>3, <2>16, Zenon DEF BashStart
  <2>17. CASE BashEnd
    BY <1>3, <2>17, Zenon DEF BashEnd
  <2>18. CASE CheckViolation
    BY <1>3, <2>18, Zenon DEF CheckViolation, RaiseViolation, StatusOf
  <2>19. CASE ClearFlag
    BY <1>3, <2>19, Zenon DEF ClearFlag
  <2>20. CASE ReapGuard
    BY <1>3, <2>20, Zenon DEF ReapGuard
  <2>21. CASE ReapAcquire
    BY <1>3, <2>21, Zenon DEF ReapAcquire
  <2>22. CASE ReapResets
    BY <1>3, <2>22, Zenon DEF ReapResets, CallReset
  <2>23. CASE ReapTop
    BY <1>3, <2>23, Zenon DEF ReapTop, Running
  <2>24. CASE ReapKill
    BY <1>3, <2>24, Zenon DEF ReapKill, Running
  <2>25. CASE ReapSettle
    BY <1>3, <2>25, Zenon DEF ReapSettle, Settled, Running
  <2>26. CASE ReapDone
    BY <1>3, <2>26, Zenon DEF ReapDone
  <2>27. CASE PreSample
    BY <1>3, <2>27, Zenon DEF PreSample, SkipSample
  <2>28. CASE GrepTimesOut
    BY <1>3, <2>28, Zenon DEF GrepTimesOut, Running
  <2>29. CASE WriteTool
    BY <1>3, <2>29, Zenon DEF WriteTool, Running, Goto
  <2>30. CASE AbandonAcquire
    BY <1>3, <2>30, Zenon DEF AbandonAcquire
  <2>31. CASE AbandonKill
    BY <1>3, <2>31, Zenon DEF AbandonKill
  <2>32. CASE Finish
    BY <1>3, <2>32, Zenon DEF Finish
  <2>33. CASE Finalize
    BY <1>3, <2>33, Zenon DEF Finalize
  <2>34. CASE Join
    BY <1>3, <2>34, Zenon DEF Join, MayOutlastJoin
  <2>35. CASE Remove
    BY <1>3, <2>35, Zenon DEF Remove
  <2>36. CASE TakeViolation
    BY <1>3, <2>36, Zenon DEF TakeViolation, StatusOf
  <2>37. CASE DogLoop
    BY <1>3, <2>37, Zenon DEF DogLoop
  <2>38. CASE CheckDisk
    BY <1>3, <2>38, Zenon DEF CheckDisk, FailsClosed
  <2>39. CASE Look
    BY <1>3, <2>39, Zenon DEF Look, InFlight
  <2>40. CASE WorkerWrites
    BY <1>3, <2>40, Zenon DEF WorkerWrites, Running
  <2>41. CASE Interrupt
    BY <1>3, <2>41, Zenon DEF Interrupt
  <2>42. CASE Terminated
    BY <1>3, <2>42, Zenon DEF Terminated, vars
  <2>43. CASE UNCHANGED vars
    BY <1>3, <2>43, Zenon DEF vars
  <2>44. QED
    BY <1>3, <2>1, <2>2, <2>3, <2>4, <2>5, <2>6, <2>7, <2>8, <2>9, <2>10, <2>11, <2>12, <2>13, <2>14, <2>15, <2>16, <2>17, <2>18, <2>19, <2>20, <2>21, <2>22, <2>23, <2>24, <2>25, <2>26, <2>27, <2>28, <2>29, <2>30, <2>31, <2>32, <2>33, <2>34, <2>35, <2>36, <2>37, <2>38, <2>39, <2>40, <2>41, <2>42, <2>43
       DEF Next, MainStep, DogStep, Reset, Breach, Sample, Threads, Main, Dog
<1>4. QED
  BY <1>1, <1>3, PTL DEF Spec

(* The variables keep their types: in particular the watchdog's count of    *)
(* failed stats and the settle loop of a reap stay within their bounds.     *)
THEOREM TypeCorrect == Spec => []TypeOK
  BY LabelsCorrect, DataCorrect, FlagsCorrect, PTL DEF TypeOK

(* One thread at a time is in the code that each lock protects.             *)
THEOREM LocksRespected == Spec => []LockDiscipline
<1>. USE DEF LockDiscipline, LabelsOK, Threads, Main, Dog, Free, None, Goto, locks, worker, history,
           ResetBody, HoldingReset, ReapBody, MeasureBody, HoldingReap, Breaches, Recording,
           MainAfterBash, MainLabels, DogLabels
<1>1. Init => LockDiscipline
  BY DEF Init
<1>2. ASSUME LabelsOK, LockDiscipline, [Next]_vars
      PROVE  LockDiscipline'
  <2>1. ASSUME NEW t \in Threads, SkipReset(t) PROVE LockDiscipline'
    BY <1>2, <2>1 DEF SkipReset, ResetAllowed, AfterSample
  <2>2. ASSUME NEW t \in Threads, BeginReset(t) PROVE LockDiscipline'
    BY <1>2, <2>2 DEF BeginReset, ResetAllowed
  <2>3. ASSUME NEW t \in Threads, ResetKill(t) PROVE LockDiscipline'
    BY <1>2, <2>3 DEF ResetKill, DockerKill, Running
  <2>4. ASSUME NEW t \in Threads, ResetStart(t) PROVE LockDiscipline'
    BY <1>2, <2>4 DEF ResetStart
  <2>5. ASSUME NEW t \in Threads, ResetReady(t) PROVE LockDiscipline'
    BY <1>2, <2>5 DEF ResetReady, Escape, ReleaseBoth, Running
  <2>6. ASSUME NEW t \in Threads, ResetInit(t) PROVE LockDiscipline'
    BY <1>2, <2>6 DEF ResetInit, Escape, ReleaseBoth, Running
  <2>7. ASSUME NEW t \in Threads, ResetDone(t) PROVE LockDiscipline'
    BY <1>2, <2>7 DEF ResetDone
  <2>8. ASSUME NEW t \in Threads, RecordViolation(t) PROVE LockDiscipline'
    BY <1>2, <2>8 DEF RecordViolation, FirstWins, CauseAt
  <2>9. ASSUME NEW t \in Threads, WatchdogKillEnter(t) PROVE LockDiscipline'
    BY <1>2, <2>9 DEF WatchdogKillEnter, KillMayStart
  <2>10. ASSUME NEW t \in Threads, WatchdogKill(t) PROVE LockDiscipline'
    BY <1>2, <2>10 DEF WatchdogKill, DockerKill, Running
  <2>11. ASSUME NEW t \in Threads, SampleAcquire(t) PROVE LockDiscipline'
    BY <1>2, <2>11 DEF SampleAcquire
  <2>12. ASSUME NEW t \in Threads, SampleGivesUp(t) PROVE LockDiscipline'
    BY <1>2, <2>12 DEF SampleGivesUp, AfterSample
  <2>13. ASSUME NEW t \in Threads, MeasureSucceeds(t) PROVE LockDiscipline'
    BY <1>2, <2>13 DEF MeasureSucceeds, AfterSample, Running
  <2>14. ASSUME NEW t \in Threads, MeasureResets(t) PROVE LockDiscipline'
    BY <1>2, <2>14 DEF MeasureResets, CallReset
  <2>15. ASSUME NEW t \in Threads, MeasureFails(t) PROVE LockDiscipline'
    BY <1>2, <2>15 DEF MeasureFails, AfterSample
  <2>16. CASE BashStart
    BY <1>2, <2>16 DEF BashStart, Running
  <2>17. CASE BashEnd
    BY <1>2, <2>17 DEF BashEnd
  <2>18. CASE CheckViolation
    BY <1>2, <2>18 DEF CheckViolation, RaiseViolation, StatusOf
  <2>19. CASE ClearFlag
    BY <1>2, <2>19 DEF ClearFlag
  <2>20. CASE ReapGuard
    BY <1>2, <2>20 DEF ReapGuard
  <2>21. CASE ReapAcquire
    BY <1>2, <2>21 DEF ReapAcquire
  <2>22. CASE ReapResets
    BY <1>2, <2>22 DEF ReapResets, CallReset
  <2>23. CASE ReapTop
    BY <1>2, <2>23 DEF ReapTop, Running
  <2>24. CASE ReapKill
    BY <1>2, <2>24 DEF ReapKill, Running
  <2>25. CASE ReapSettle
    BY <1>2, <2>25 DEF ReapSettle, Settled, Running
  <2>26. CASE ReapDone
    BY <1>2, <2>26 DEF ReapDone
  <2>27. CASE PreSample
    BY <1>2, <2>27 DEF PreSample, SkipSample
  <2>28. CASE GrepTimesOut
    BY <1>2, <2>28 DEF GrepTimesOut, Running
  <2>29. CASE WriteTool
    BY <1>2, <2>29 DEF WriteTool, Running, Goto
  <2>30. CASE AbandonAcquire
    BY <1>2, <2>30 DEF AbandonAcquire
  <2>31. CASE AbandonKill
    BY <1>2, <2>31 DEF AbandonKill
  <2>32. CASE Finish
    BY <1>2, <2>32 DEF Finish
  <2>33. CASE Finalize
    BY <1>2, <2>33 DEF Finalize
  <2>34. CASE Join
    BY <1>2, <2>34 DEF Join, MayOutlastJoin
  <2>35. CASE Remove
    BY <1>2, <2>35 DEF Remove
  <2>36. CASE TakeViolation
    BY <1>2, <2>36 DEF TakeViolation, StatusOf
  <2>37. CASE DogLoop
    BY <1>2, <2>37 DEF DogLoop
  <2>38. CASE CheckDisk
    BY <1>2, <2>38 DEF CheckDisk, FailsClosed
  <2>39. CASE Look
    BY <1>2, <2>39 DEF Look, InFlight
  <2>40. CASE WorkerWrites
    BY <1>2, <2>40 DEF WorkerWrites, Running
  <2>41. CASE Interrupt
    BY <1>2, <2>41 DEF Interrupt
  <2>42. CASE Terminated
    BY <1>2, <2>42 DEF Terminated, vars
  <2>43. CASE UNCHANGED vars
    BY <1>2, <2>43 DEF vars
  <2>44. QED
    BY <1>2, <2>1, <2>2, <2>3, <2>4, <2>5, <2>6, <2>7, <2>8, <2>9, <2>10, <2>11, <2>12, <2>13, <2>14, <2>15, <2>16, <2>17, <2>18, <2>19, <2>20, <2>21, <2>22, <2>23, <2>24, <2>25, <2>26, <2>27, <2>28, <2>29, <2>30, <2>31, <2>32, <2>33, <2>34, <2>35, <2>36, <2>37, <2>38, <2>39, <2>40, <2>41, <2>42, <2>43
       DEF Next, MainStep, DogStep, Reset, Breach, Sample, Threads, Main, Dog
<1>3. QED
  BY <1>1, <1>2, LabelsCorrect, PTL DEF Spec

-----------------------------------------------------------------------------
(* Once Ctrl-C has struck, the main thread runs no tool any more.           *)
InterruptEnds ==
  outcome = "interrupted"
    => pc[Main] \in {"clear", "finalize", "join", "rm", "take", "done"}

(* Why a breach keeps the container dead: while a violation is pending its  *)
(* kill is still to come, or it has come and no thread is inside a reset    *)
(* that it found half done.  A reset that passed its guard before the       *)
(* violation was recorded holds _reset_lock, and the kill waits for it.     *)
BreachInv ==
  \/ violation = None
  \/ \E t \in Threads : pc[t] \in {"wkill", "wkilling"}
  \/ ~Running /\ \A t \in Threads : pc[t] \notin ResetBody
  \/ killFailed \/ outcome = "interrupted"

(* A run that Ctrl-C ended is past its last tool call.                      *)
LEMMA InterruptCorrect == Spec => []InterruptEnds
<1>. USE DEF InterruptEnds, LabelsOK, Threads, Main, Dog, Free, None, Goto, locks, worker, history,
           ResetBody, HoldingReset, ReapBody, MeasureBody, HoldingReap, Breaches, Recording,
           MainAfterBash, MainLabels, DogLabels
<1>1. Init => InterruptEnds
  BY DEF Init
<1>2. ASSUME LabelsOK, InterruptEnds, [Next]_vars
      PROVE  InterruptEnds'
  <2>1. ASSUME NEW t \in Threads, SkipReset(t) PROVE InterruptEnds'
    BY <1>2, <2>1 DEF SkipReset, ResetAllowed, AfterSample
  <2>2. ASSUME NEW t \in Threads, BeginReset(t) PROVE InterruptEnds'
    BY <1>2, <2>2 DEF BeginReset, ResetAllowed
  <2>3. ASSUME NEW t \in Threads, ResetKill(t) PROVE InterruptEnds'
    BY <1>2, <2>3 DEF ResetKill, DockerKill, Running
  <2>4. ASSUME NEW t \in Threads, ResetStart(t) PROVE InterruptEnds'
    BY <1>2, <2>4 DEF ResetStart
  <2>5. ASSUME NEW t \in Threads, ResetReady(t) PROVE InterruptEnds'
    BY <1>2, <2>5 DEF ResetReady, Escape, ReleaseBoth, Running
  <2>6. ASSUME NEW t \in Threads, ResetInit(t) PROVE InterruptEnds'
    BY <1>2, <2>6 DEF ResetInit, Escape, ReleaseBoth, Running
  <2>7. ASSUME NEW t \in Threads, ResetDone(t) PROVE InterruptEnds'
    BY <1>2, <2>7 DEF ResetDone
  <2>8. ASSUME NEW t \in Threads, RecordViolation(t) PROVE InterruptEnds'
    BY <1>2, <2>8 DEF RecordViolation, FirstWins, CauseAt
  <2>9. ASSUME NEW t \in Threads, WatchdogKillEnter(t) PROVE InterruptEnds'
    BY <1>2, <2>9 DEF WatchdogKillEnter, KillMayStart
  <2>10. ASSUME NEW t \in Threads, WatchdogKill(t) PROVE InterruptEnds'
    BY <1>2, <2>10 DEF WatchdogKill, DockerKill, Running
  <2>11. ASSUME NEW t \in Threads, SampleAcquire(t) PROVE InterruptEnds'
    BY <1>2, <2>11 DEF SampleAcquire
  <2>12. ASSUME NEW t \in Threads, SampleGivesUp(t) PROVE InterruptEnds'
    BY <1>2, <2>12 DEF SampleGivesUp, AfterSample
  <2>13. ASSUME NEW t \in Threads, MeasureSucceeds(t) PROVE InterruptEnds'
    BY <1>2, <2>13 DEF MeasureSucceeds, AfterSample, Running
  <2>14. ASSUME NEW t \in Threads, MeasureResets(t) PROVE InterruptEnds'
    BY <1>2, <2>14 DEF MeasureResets, CallReset
  <2>15. ASSUME NEW t \in Threads, MeasureFails(t) PROVE InterruptEnds'
    BY <1>2, <2>15 DEF MeasureFails, AfterSample
  <2>16. CASE BashStart
    BY <1>2, <2>16 DEF BashStart, Running
  <2>17. CASE BashEnd
    BY <1>2, <2>17 DEF BashEnd
  <2>18. CASE CheckViolation
    BY <1>2, <2>18 DEF CheckViolation, RaiseViolation, StatusOf
  <2>19. CASE ClearFlag
    BY <1>2, <2>19 DEF ClearFlag
  <2>20. CASE ReapGuard
    BY <1>2, <2>20 DEF ReapGuard
  <2>21. CASE ReapAcquire
    BY <1>2, <2>21 DEF ReapAcquire
  <2>22. CASE ReapResets
    BY <1>2, <2>22 DEF ReapResets, CallReset
  <2>23. CASE ReapTop
    BY <1>2, <2>23 DEF ReapTop, Running
  <2>24. CASE ReapKill
    BY <1>2, <2>24 DEF ReapKill, Running
  <2>25. CASE ReapSettle
    BY <1>2, <2>25 DEF ReapSettle, Settled, Running
  <2>26. CASE ReapDone
    BY <1>2, <2>26 DEF ReapDone
  <2>27. CASE PreSample
    BY <1>2, <2>27 DEF PreSample, SkipSample
  <2>28. CASE GrepTimesOut
    BY <1>2, <2>28 DEF GrepTimesOut, Running
  <2>29. CASE WriteTool
    BY <1>2, <2>29 DEF WriteTool, Running, Goto
  <2>30. CASE AbandonAcquire
    BY <1>2, <2>30 DEF AbandonAcquire
  <2>31. CASE AbandonKill
    BY <1>2, <2>31 DEF AbandonKill
  <2>32. CASE Finish
    BY <1>2, <2>32 DEF Finish
  <2>33. CASE Finalize
    BY <1>2, <2>33 DEF Finalize
  <2>34. CASE Join
    BY <1>2, <2>34 DEF Join, MayOutlastJoin
  <2>35. CASE Remove
    BY <1>2, <2>35 DEF Remove
  <2>36. CASE TakeViolation
    BY <1>2, <2>36 DEF TakeViolation, StatusOf
  <2>37. CASE DogLoop
    BY <1>2, <2>37 DEF DogLoop
  <2>38. CASE CheckDisk
    BY <1>2, <2>38 DEF CheckDisk, FailsClosed
  <2>39. CASE Look
    BY <1>2, <2>39 DEF Look, InFlight
  <2>40. CASE WorkerWrites
    BY <1>2, <2>40 DEF WorkerWrites, Running
  <2>41. CASE Interrupt
    BY <1>2, <2>41 DEF Interrupt
  <2>42. CASE Terminated
    BY <1>2, <2>42 DEF Terminated, vars
  <2>43. CASE UNCHANGED vars
    BY <1>2, <2>43 DEF vars
  <2>44. QED
    BY <1>2, <2>1, <2>2, <2>3, <2>4, <2>5, <2>6, <2>7, <2>8, <2>9, <2>10, <2>11, <2>12, <2>13, <2>14, <2>15, <2>16, <2>17, <2>18, <2>19, <2>20, <2>21, <2>22, <2>23, <2>24, <2>25, <2>26, <2>27, <2>28, <2>29, <2>30, <2>31, <2>32, <2>33, <2>34, <2>35, <2>36, <2>37, <2>38, <2>39, <2>40, <2>41, <2>42, <2>43
       DEF Next, MainStep, DogStep, Reset, Breach, Sample, Threads, Main, Dog
<1>3. QED
  BY <1>1, <1>2, LabelsCorrect, PTL DEF Spec

(* No reset restarts the container that a breach killed.                    *)
THEOREM BreachKeepsDead == Spec => []BreachKeepsContainerDead
<1>. USE DEF BreachInv, Running, LabelsOK, LockDiscipline, InterruptEnds,
           Threads, Main, Dog, Free, None, Goto, locks, worker, history,
           ResetBody, HoldingReset, ReapBody, MeasureBody, HoldingReap, Breaches, Recording,
           MainAfterBash, MainLabels, DogLabels
<1>1. Init => BreachInv
  BY DEF Init
<1>2. ASSUME LabelsOK, LockDiscipline, InterruptEnds, BreachInv, [Next]_vars
      PROVE  BreachInv'
  <2>1. ASSUME NEW t \in Threads, SkipReset(t) PROVE BreachInv'
    BY <1>2, <2>1 DEF SkipReset, ResetAllowed, AfterSample
  <2>2. ASSUME NEW t \in Threads, BeginReset(t) PROVE BreachInv'
    BY <1>2, <2>2 DEF BeginReset, ResetAllowed
  <2>3. ASSUME NEW t \in Threads, ResetKill(t) PROVE BreachInv'
    BY <1>2, <2>3 DEF ResetKill, DockerKill, Running
  <2>4. ASSUME NEW t \in Threads, ResetStart(t) PROVE BreachInv'
    BY <1>2, <2>4 DEF ResetStart
  <2>5. ASSUME NEW t \in Threads, ResetReady(t) PROVE BreachInv'
    BY <1>2, <2>5 DEF ResetReady, Escape, ReleaseBoth, Running
  <2>6. ASSUME NEW t \in Threads, ResetInit(t) PROVE BreachInv'
    BY <1>2, <2>6 DEF ResetInit, Escape, ReleaseBoth, Running
  <2>7. ASSUME NEW t \in Threads, ResetDone(t) PROVE BreachInv'
    BY <1>2, <2>7 DEF ResetDone
  <2>8. ASSUME NEW t \in Threads, RecordViolation(t) PROVE BreachInv'
    BY <1>2, <2>8 DEF RecordViolation, FirstWins, CauseAt
  <2>9. ASSUME NEW t \in Threads, WatchdogKillEnter(t) PROVE BreachInv'
    BY <1>2, <2>9 DEF WatchdogKillEnter, KillMayStart
  <2>10. ASSUME NEW t \in Threads, WatchdogKill(t) PROVE BreachInv'
    BY <1>2, <2>10 DEF WatchdogKill, DockerKill, Running
  <2>11. ASSUME NEW t \in Threads, SampleAcquire(t) PROVE BreachInv'
    BY <1>2, <2>11 DEF SampleAcquire
  <2>12. ASSUME NEW t \in Threads, SampleGivesUp(t) PROVE BreachInv'
    BY <1>2, <2>12 DEF SampleGivesUp, AfterSample
  <2>13. ASSUME NEW t \in Threads, MeasureSucceeds(t) PROVE BreachInv'
    BY <1>2, <2>13 DEF MeasureSucceeds, AfterSample, Running
  <2>14. ASSUME NEW t \in Threads, MeasureResets(t) PROVE BreachInv'
    BY <1>2, <2>14 DEF MeasureResets, CallReset
  <2>15. ASSUME NEW t \in Threads, MeasureFails(t) PROVE BreachInv'
    BY <1>2, <2>15 DEF MeasureFails, AfterSample
  <2>16. CASE BashStart
    BY <1>2, <2>16 DEF BashStart, Running
  <2>17. CASE BashEnd
    BY <1>2, <2>17 DEF BashEnd
  <2>18. CASE CheckViolation
    BY <1>2, <2>18 DEF CheckViolation, RaiseViolation, StatusOf
  <2>19. CASE ClearFlag
    BY <1>2, <2>19 DEF ClearFlag
  <2>20. CASE ReapGuard
    BY <1>2, <2>20 DEF ReapGuard
  <2>21. CASE ReapAcquire
    BY <1>2, <2>21 DEF ReapAcquire
  <2>22. CASE ReapResets
    BY <1>2, <2>22 DEF ReapResets, CallReset
  <2>23. CASE ReapTop
    BY <1>2, <2>23 DEF ReapTop, Running
  <2>24. CASE ReapKill
    BY <1>2, <2>24 DEF ReapKill, Running
  <2>25. CASE ReapSettle
    BY <1>2, <2>25 DEF ReapSettle, Settled, Running
  <2>26. CASE ReapDone
    BY <1>2, <2>26 DEF ReapDone
  <2>27. CASE PreSample
    BY <1>2, <2>27 DEF PreSample, SkipSample
  <2>28. CASE GrepTimesOut
    BY <1>2, <2>28 DEF GrepTimesOut, Running
  <2>29. CASE WriteTool
    BY <1>2, <2>29 DEF WriteTool, Running, Goto
  <2>30. CASE AbandonAcquire
    BY <1>2, <2>30 DEF AbandonAcquire
  <2>31. CASE AbandonKill
    BY <1>2, <2>31 DEF AbandonKill
  <2>32. CASE Finish
    BY <1>2, <2>32 DEF Finish
  <2>33. CASE Finalize
    BY <1>2, <2>33 DEF Finalize
  <2>34. CASE Join
    BY <1>2, <2>34 DEF Join, MayOutlastJoin
  <2>35. CASE Remove
    BY <1>2, <2>35 DEF Remove
  <2>36. CASE TakeViolation
    BY <1>2, <2>36 DEF TakeViolation, StatusOf
  <2>37. CASE DogLoop
    BY <1>2, <2>37 DEF DogLoop
  <2>38. CASE CheckDisk
    BY <1>2, <2>38 DEF CheckDisk, FailsClosed
  <2>39. CASE Look
    BY <1>2, <2>39 DEF Look, InFlight
  <2>40. CASE WorkerWrites
    BY <1>2, <2>40 DEF WorkerWrites, Running
  <2>41. CASE Interrupt
    BY <1>2, <2>41 DEF Interrupt
  <2>42. CASE Terminated
    BY <1>2, <2>42 DEF Terminated, vars
  <2>43. CASE UNCHANGED vars
    BY <1>2, <2>43 DEF vars
  <2>44. QED
    BY <1>2, <2>1, <2>2, <2>3, <2>4, <2>5, <2>6, <2>7, <2>8, <2>9, <2>10, <2>11, <2>12, <2>13, <2>14, <2>15, <2>16, <2>17, <2>18, <2>19, <2>20, <2>21, <2>22, <2>23, <2>24, <2>25, <2>26, <2>27, <2>28, <2>29, <2>30, <2>31, <2>32, <2>33, <2>34, <2>35, <2>36, <2>37, <2>38, <2>39, <2>40, <2>41, <2>42, <2>43
       DEF Next, MainStep, DogStep, Reset, Breach, Sample, Threads, Main, Dog
<1>3. BreachInv => BreachKeepsContainerDead
  BY DEF BreachKeepsContainerDead
<1>4. QED
  BY <1>1, <1>2, <1>3, LabelsCorrect, LocksRespected, InterruptCorrect, PTL DEF Spec

(* The first violation stands until the main thread consumes it.            *)
THEOREM FirstStands == Spec => FirstViolationStands
<1>. USE DEF ViolationStands, LabelsOK, Threads, Main, Dog, Free, None, Goto, locks, worker, history,
           ResetBody, HoldingReset, ReapBody, MeasureBody, HoldingReap, Breaches, Recording,
           MainAfterBash, MainLabels, DogLabels
<1>1. ASSUME LabelsOK, [Next]_vars
      PROVE  [ViolationStands]_vars
  <2>1. ASSUME NEW t \in Threads, SkipReset(t) PROVE [ViolationStands]_vars
    BY <1>1, <2>1 DEF SkipReset, ResetAllowed, AfterSample
  <2>2. ASSUME NEW t \in Threads, BeginReset(t) PROVE [ViolationStands]_vars
    BY <1>1, <2>2 DEF BeginReset, ResetAllowed
  <2>3. ASSUME NEW t \in Threads, ResetKill(t) PROVE [ViolationStands]_vars
    BY <1>1, <2>3 DEF ResetKill, DockerKill, Running
  <2>4. ASSUME NEW t \in Threads, ResetStart(t) PROVE [ViolationStands]_vars
    BY <1>1, <2>4 DEF ResetStart
  <2>5. ASSUME NEW t \in Threads, ResetReady(t) PROVE [ViolationStands]_vars
    BY <1>1, <2>5 DEF ResetReady, Escape, ReleaseBoth, Running
  <2>6. ASSUME NEW t \in Threads, ResetInit(t) PROVE [ViolationStands]_vars
    BY <1>1, <2>6 DEF ResetInit, Escape, ReleaseBoth, Running
  <2>7. ASSUME NEW t \in Threads, ResetDone(t) PROVE [ViolationStands]_vars
    BY <1>1, <2>7 DEF ResetDone
  <2>8. ASSUME NEW t \in Threads, RecordViolation(t) PROVE [ViolationStands]_vars
    BY <1>1, <2>8 DEF RecordViolation, FirstWins, CauseAt
  <2>9. ASSUME NEW t \in Threads, WatchdogKillEnter(t) PROVE [ViolationStands]_vars
    BY <1>1, <2>9 DEF WatchdogKillEnter, KillMayStart
  <2>10. ASSUME NEW t \in Threads, WatchdogKill(t) PROVE [ViolationStands]_vars
    BY <1>1, <2>10 DEF WatchdogKill, DockerKill, Running
  <2>11. ASSUME NEW t \in Threads, SampleAcquire(t) PROVE [ViolationStands]_vars
    BY <1>1, <2>11 DEF SampleAcquire
  <2>12. ASSUME NEW t \in Threads, SampleGivesUp(t) PROVE [ViolationStands]_vars
    BY <1>1, <2>12 DEF SampleGivesUp, AfterSample
  <2>13. ASSUME NEW t \in Threads, MeasureSucceeds(t) PROVE [ViolationStands]_vars
    BY <1>1, <2>13 DEF MeasureSucceeds, AfterSample, Running
  <2>14. ASSUME NEW t \in Threads, MeasureResets(t) PROVE [ViolationStands]_vars
    BY <1>1, <2>14 DEF MeasureResets, CallReset
  <2>15. ASSUME NEW t \in Threads, MeasureFails(t) PROVE [ViolationStands]_vars
    BY <1>1, <2>15 DEF MeasureFails, AfterSample
  <2>16. CASE BashStart
    BY <1>1, <2>16 DEF BashStart, Running
  <2>17. CASE BashEnd
    BY <1>1, <2>17 DEF BashEnd
  <2>18. CASE CheckViolation
    BY <1>1, <2>18 DEF CheckViolation, RaiseViolation, StatusOf
  <2>19. CASE ClearFlag
    BY <1>1, <2>19 DEF ClearFlag
  <2>20. CASE ReapGuard
    BY <1>1, <2>20 DEF ReapGuard
  <2>21. CASE ReapAcquire
    BY <1>1, <2>21 DEF ReapAcquire
  <2>22. CASE ReapResets
    BY <1>1, <2>22 DEF ReapResets, CallReset
  <2>23. CASE ReapTop
    BY <1>1, <2>23 DEF ReapTop, Running
  <2>24. CASE ReapKill
    BY <1>1, <2>24 DEF ReapKill, Running
  <2>25. CASE ReapSettle
    BY <1>1, <2>25 DEF ReapSettle, Settled, Running
  <2>26. CASE ReapDone
    BY <1>1, <2>26 DEF ReapDone
  <2>27. CASE PreSample
    BY <1>1, <2>27 DEF PreSample, SkipSample
  <2>28. CASE GrepTimesOut
    BY <1>1, <2>28 DEF GrepTimesOut, Running
  <2>29. CASE WriteTool
    BY <1>1, <2>29 DEF WriteTool, Running, Goto
  <2>30. CASE AbandonAcquire
    BY <1>1, <2>30 DEF AbandonAcquire
  <2>31. CASE AbandonKill
    BY <1>1, <2>31 DEF AbandonKill
  <2>32. CASE Finish
    BY <1>1, <2>32 DEF Finish
  <2>33. CASE Finalize
    BY <1>1, <2>33 DEF Finalize
  <2>34. CASE Join
    BY <1>1, <2>34 DEF Join, MayOutlastJoin
  <2>35. CASE Remove
    BY <1>1, <2>35 DEF Remove
  <2>36. CASE TakeViolation
    BY <1>1, <2>36 DEF TakeViolation, StatusOf
  <2>37. CASE DogLoop
    BY <1>1, <2>37 DEF DogLoop
  <2>38. CASE CheckDisk
    BY <1>1, <2>38 DEF CheckDisk, FailsClosed
  <2>39. CASE Look
    BY <1>1, <2>39 DEF Look, InFlight
  <2>40. CASE WorkerWrites
    BY <1>1, <2>40 DEF WorkerWrites, Running
  <2>41. CASE Interrupt
    BY <1>1, <2>41 DEF Interrupt
  <2>42. CASE Terminated
    BY <1>1, <2>42 DEF Terminated, vars
  <2>43. CASE UNCHANGED vars
    BY <1>1, <2>43 DEF vars
  <2>44. QED
    BY <1>1, <2>1, <2>2, <2>3, <2>4, <2>5, <2>6, <2>7, <2>8, <2>9, <2>10, <2>11, <2>12, <2>13, <2>14, <2>15, <2>16, <2>17, <2>18, <2>19, <2>20, <2>21, <2>22, <2>23, <2>24, <2>25, <2>26, <2>27, <2>28, <2>29, <2>30, <2>31, <2>32, <2>33, <2>34, <2>35, <2>36, <2>37, <2>38, <2>39, <2>40, <2>41, <2>42, <2>43
       DEF Next, MainStep, DogStep, Reset, Breach, Sample, Threads, Main, Dog
<1>2. QED
  BY <1>1, LabelsCorrect, PTL DEF Spec, FirstViolationStands

-----------------------------------------------------------------------------
(* The main thread past its last tool call.                                 *)
EndLabels == {"finalize", "join", "rm", "take", "done"}

(* A run has an outcome once its main thread has left the tools, and not    *)
(* before; the shutdown is announced by finalize.                           *)
PhaseInv ==
  /\ pc[Main] \in EndLabels => outcome # None
  /\ pc[Main] \notin EndLabels \cup {"clear"} => outcome = None
  /\ shuttingDown <=> pc[Main] \in EndLabels \ {"finalize"}

(* ClearFlag sends a call that ended with an outcome to finalize, every     *)
(* other one back to the conversation.                                      *)
LEMMA PhaseCorrect == Spec => []PhaseInv
<1>. USE DEF PhaseInv, EndLabels, LabelsOK, Threads, Main, Dog, Free, None, Goto, locks, worker, history,
           ResetBody, HoldingReset, ReapBody, MeasureBody, HoldingReap, Breaches, Recording,
           MainAfterBash, MainLabels, DogLabels
<1>1. Init => PhaseInv
  BY DEF Init
<1>2. ASSUME LabelsOK, PhaseInv, [Next]_vars
      PROVE  PhaseInv'
  <2>1. ASSUME NEW t \in Threads, SkipReset(t) PROVE PhaseInv'
    BY <1>2, <2>1 DEF SkipReset, ResetAllowed, AfterSample
  <2>2. ASSUME NEW t \in Threads, BeginReset(t) PROVE PhaseInv'
    BY <1>2, <2>2 DEF BeginReset, ResetAllowed
  <2>3. ASSUME NEW t \in Threads, ResetKill(t) PROVE PhaseInv'
    BY <1>2, <2>3 DEF ResetKill, DockerKill, Running
  <2>4. ASSUME NEW t \in Threads, ResetStart(t) PROVE PhaseInv'
    BY <1>2, <2>4 DEF ResetStart
  <2>5. ASSUME NEW t \in Threads, ResetReady(t) PROVE PhaseInv'
    BY <1>2, <2>5 DEF ResetReady, Escape, ReleaseBoth, Running
  <2>6. ASSUME NEW t \in Threads, ResetInit(t) PROVE PhaseInv'
    BY <1>2, <2>6 DEF ResetInit, Escape, ReleaseBoth, Running
  <2>7. ASSUME NEW t \in Threads, ResetDone(t) PROVE PhaseInv'
    BY <1>2, <2>7 DEF ResetDone
  <2>8. ASSUME NEW t \in Threads, RecordViolation(t) PROVE PhaseInv'
    BY <1>2, <2>8 DEF RecordViolation, FirstWins, CauseAt
  <2>9. ASSUME NEW t \in Threads, WatchdogKillEnter(t) PROVE PhaseInv'
    BY <1>2, <2>9 DEF WatchdogKillEnter, KillMayStart
  <2>10. ASSUME NEW t \in Threads, WatchdogKill(t) PROVE PhaseInv'
    BY <1>2, <2>10 DEF WatchdogKill, DockerKill, Running
  <2>11. ASSUME NEW t \in Threads, SampleAcquire(t) PROVE PhaseInv'
    BY <1>2, <2>11 DEF SampleAcquire
  <2>12. ASSUME NEW t \in Threads, SampleGivesUp(t) PROVE PhaseInv'
    BY <1>2, <2>12 DEF SampleGivesUp, AfterSample
  <2>13. ASSUME NEW t \in Threads, MeasureSucceeds(t) PROVE PhaseInv'
    BY <1>2, <2>13 DEF MeasureSucceeds, AfterSample, Running
  <2>14. ASSUME NEW t \in Threads, MeasureResets(t) PROVE PhaseInv'
    BY <1>2, <2>14 DEF MeasureResets, CallReset
  <2>15. ASSUME NEW t \in Threads, MeasureFails(t) PROVE PhaseInv'
    BY <1>2, <2>15 DEF MeasureFails, AfterSample
  <2>16. CASE BashStart
    BY <1>2, <2>16 DEF BashStart, Running
  <2>17. CASE BashEnd
    BY <1>2, <2>17 DEF BashEnd
  <2>18. CASE CheckViolation
    BY <1>2, <2>18 DEF CheckViolation, RaiseViolation, StatusOf
  <2>19. CASE ClearFlag
    BY <1>2, <2>19 DEF ClearFlag
  <2>20. CASE ReapGuard
    BY <1>2, <2>20 DEF ReapGuard
  <2>21. CASE ReapAcquire
    BY <1>2, <2>21 DEF ReapAcquire
  <2>22. CASE ReapResets
    BY <1>2, <2>22 DEF ReapResets, CallReset
  <2>23. CASE ReapTop
    BY <1>2, <2>23 DEF ReapTop, Running
  <2>24. CASE ReapKill
    BY <1>2, <2>24 DEF ReapKill, Running
  <2>25. CASE ReapSettle
    BY <1>2, <2>25 DEF ReapSettle, Settled, Running
  <2>26. CASE ReapDone
    BY <1>2, <2>26 DEF ReapDone
  <2>27. CASE PreSample
    BY <1>2, <2>27 DEF PreSample, SkipSample
  <2>28. CASE GrepTimesOut
    BY <1>2, <2>28 DEF GrepTimesOut, Running
  <2>29. CASE WriteTool
    BY <1>2, <2>29 DEF WriteTool, Running, Goto
  <2>30. CASE AbandonAcquire
    BY <1>2, <2>30 DEF AbandonAcquire
  <2>31. CASE AbandonKill
    BY <1>2, <2>31 DEF AbandonKill
  <2>32. CASE Finish
    BY <1>2, <2>32 DEF Finish
  <2>33. CASE Finalize
    BY <1>2, <2>33 DEF Finalize
  <2>34. CASE Join
    BY <1>2, <2>34 DEF Join, MayOutlastJoin
  <2>35. CASE Remove
    BY <1>2, <2>35 DEF Remove
  <2>36. CASE TakeViolation
    BY <1>2, <2>36 DEF TakeViolation, StatusOf
  <2>37. CASE DogLoop
    BY <1>2, <2>37 DEF DogLoop
  <2>38. CASE CheckDisk
    BY <1>2, <2>38 DEF CheckDisk, FailsClosed
  <2>39. CASE Look
    BY <1>2, <2>39 DEF Look, InFlight
  <2>40. CASE WorkerWrites
    BY <1>2, <2>40 DEF WorkerWrites, Running
  <2>41. CASE Interrupt
    BY <1>2, <2>41 DEF Interrupt
  <2>42. CASE Terminated
    BY <1>2, <2>42 DEF Terminated, vars
  <2>43. CASE UNCHANGED vars
    BY <1>2, <2>43 DEF vars
  <2>44. QED
    BY <1>2, <2>1, <2>2, <2>3, <2>4, <2>5, <2>6, <2>7, <2>8, <2>9, <2>10, <2>11, <2>12, <2>13, <2>14, <2>15, <2>16, <2>17, <2>18, <2>19, <2>20, <2>21, <2>22, <2>23, <2>24, <2>25, <2>26, <2>27, <2>28, <2>29, <2>30, <2>31, <2>32, <2>33, <2>34, <2>35, <2>36, <2>37, <2>38, <2>39, <2>40, <2>41, <2>42, <2>43
       DEF Next, MainStep, DogStep, Reset, Breach, Sample, Threads, Main, Dog
<1>3. QED
  BY <1>1, <1>2, LabelsCorrect, PTL DEF Spec

(* Why no violation is lost: whatever was recorded was raised or is still   *)
(* pending, whoever raised one has decided the outcome, and once the        *)
(* watchdog was joined nobody is left to record another before              *)
(* take_violation has looked.                                               *)
SurfaceInv ==
  /\ recorded \subseteq surfaced \cup {violation}
  /\ surfaced # {} => outcome \notin {None, "completed"}
  /\ pc[Main] \in {"rm", "take", "done"} => pc[Dog] = "exited" \/ joinTimedOut
  /\ pc[Main] = "done" => violation = None \/ joinTimedOut

(* Only the main thread takes a violation, and it keeps what it took        *)
(* (RaiseViolation, TakeViolation).                                         *)
LEMMA SurfaceCorrect == Spec => []SurfaceInv
<1>. USE DEF SurfaceInv, PhaseInv, EndLabels, Statuses, Causes, LabelsOK, Threads, Main, Dog, Free, None, Goto, locks, worker, history,
           ResetBody, HoldingReset, ReapBody, MeasureBody, HoldingReap, Breaches, Recording,
           MainAfterBash, MainLabels, DogLabels
<1>1. Init => SurfaceInv
  BY DEF Init
<1>2. ASSUME LabelsOK, DataOK, PhaseInv, SurfaceInv, [Next]_vars
      PROVE  SurfaceInv'
  <2>1. ASSUME NEW t \in Threads, SkipReset(t) PROVE SurfaceInv'
    BY <1>2, <2>1 DEF SkipReset, ResetAllowed, AfterSample
  <2>2. ASSUME NEW t \in Threads, BeginReset(t) PROVE SurfaceInv'
    BY <1>2, <2>2 DEF BeginReset, ResetAllowed
  <2>3. ASSUME NEW t \in Threads, ResetKill(t) PROVE SurfaceInv'
    BY <1>2, <2>3 DEF ResetKill, DockerKill, Running
  <2>4. ASSUME NEW t \in Threads, ResetStart(t) PROVE SurfaceInv'
    BY <1>2, <2>4 DEF ResetStart
  <2>5. ASSUME NEW t \in Threads, ResetReady(t) PROVE SurfaceInv'
    BY <1>2, <2>5 DEF ResetReady, Escape, ReleaseBoth, Running
  <2>6. ASSUME NEW t \in Threads, ResetInit(t) PROVE SurfaceInv'
    BY <1>2, <2>6 DEF ResetInit, Escape, ReleaseBoth, Running
  <2>7. ASSUME NEW t \in Threads, ResetDone(t) PROVE SurfaceInv'
    BY <1>2, <2>7 DEF ResetDone
  <2>8. ASSUME NEW t \in Threads, RecordViolation(t) PROVE SurfaceInv'
    <3>. USE <1>2, <2>8 DEF RecordViolation, FirstWins
    <3>1. CASE violation = None
      <4>1. recorded \subseteq surfaced
        BY <3>1 DEF DataOK
      <4>2. recorded' \subseteq surfaced' \cup {violation'}
        BY <3>1, <4>1
      <4>3. t = Main => pc[Main] \notin EndLabels /\ pc'[Main] = "wkill"
        BY <3>1
      <4>4. t = Dog => pc[Dog] # "exited" /\ pc'[Main] = pc[Main]
        BY <3>1
      <4>5. joinTimedOut' = joinTimedOut /\ surfaced' = surfaced /\ outcome' = outcome
        BY <3>1
      <4>. QED
        BY <4>2, <4>3, <4>4, <4>5
    <3>2. CASE violation # None
      BY <3>2
    <3>. QED
      BY <3>1, <3>2
  <2>9. ASSUME NEW t \in Threads, WatchdogKillEnter(t) PROVE SurfaceInv'
    BY <1>2, <2>9 DEF WatchdogKillEnter, KillMayStart
  <2>10. ASSUME NEW t \in Threads, WatchdogKill(t) PROVE SurfaceInv'
    BY <1>2, <2>10 DEF WatchdogKill, DockerKill, Running
  <2>11. ASSUME NEW t \in Threads, SampleAcquire(t) PROVE SurfaceInv'
    BY <1>2, <2>11 DEF SampleAcquire
  <2>12. ASSUME NEW t \in Threads, SampleGivesUp(t) PROVE SurfaceInv'
    BY <1>2, <2>12 DEF SampleGivesUp, AfterSample
  <2>13. ASSUME NEW t \in Threads, MeasureSucceeds(t) PROVE SurfaceInv'
    BY <1>2, <2>13 DEF MeasureSucceeds, AfterSample, Running
  <2>14. ASSUME NEW t \in Threads, MeasureResets(t) PROVE SurfaceInv'
    BY <1>2, <2>14 DEF MeasureResets, CallReset
  <2>15. ASSUME NEW t \in Threads, MeasureFails(t) PROVE SurfaceInv'
    BY <1>2, <2>15 DEF MeasureFails, AfterSample
  <2>16. CASE BashStart
    BY <1>2, <2>16 DEF BashStart, Running
  <2>17. CASE BashEnd
    BY <1>2, <2>17 DEF BashEnd
  <2>18. CASE CheckViolation
    BY <1>2, <2>18 DEF CheckViolation, RaiseViolation, StatusOf
  <2>19. CASE ClearFlag
    BY <1>2, <2>19 DEF ClearFlag
  <2>20. CASE ReapGuard
    BY <1>2, <2>20 DEF ReapGuard
  <2>21. CASE ReapAcquire
    BY <1>2, <2>21 DEF ReapAcquire
  <2>22. CASE ReapResets
    BY <1>2, <2>22 DEF ReapResets, CallReset
  <2>23. CASE ReapTop
    BY <1>2, <2>23 DEF ReapTop, Running
  <2>24. CASE ReapKill
    BY <1>2, <2>24 DEF ReapKill, Running
  <2>25. CASE ReapSettle
    BY <1>2, <2>25 DEF ReapSettle, Settled, Running
  <2>26. CASE ReapDone
    BY <1>2, <2>26 DEF ReapDone
  <2>27. CASE PreSample
    BY <1>2, <2>27 DEF PreSample, SkipSample
  <2>28. CASE GrepTimesOut
    BY <1>2, <2>28 DEF GrepTimesOut, Running
  <2>29. CASE WriteTool
    BY <1>2, <2>29 DEF WriteTool, Running, Goto
  <2>30. CASE AbandonAcquire
    BY <1>2, <2>30 DEF AbandonAcquire
  <2>31. CASE AbandonKill
    BY <1>2, <2>31 DEF AbandonKill
  <2>32. CASE Finish
    BY <1>2, <2>32 DEF Finish
  <2>33. CASE Finalize
    BY <1>2, <2>33 DEF Finalize
  <2>34. CASE Join
    BY <1>2, <2>34 DEF Join, MayOutlastJoin
  <2>35. CASE Remove
    BY <1>2, <2>35 DEF Remove
  <2>36. CASE TakeViolation
    BY <1>2, <2>36 DEF TakeViolation, StatusOf
  <2>37. CASE DogLoop
    BY <1>2, <2>37 DEF DogLoop
  <2>38. CASE CheckDisk
    BY <1>2, <2>38 DEF CheckDisk, FailsClosed
  <2>39. CASE Look
    BY <1>2, <2>39 DEF Look, InFlight
  <2>40. CASE WorkerWrites
    BY <1>2, <2>40 DEF WorkerWrites, Running
  <2>41. CASE Interrupt
    BY <1>2, <2>41 DEF Interrupt
  <2>42. CASE Terminated
    BY <1>2, <2>42 DEF Terminated, vars
  <2>43. CASE UNCHANGED vars
    BY <1>2, <2>43 DEF vars
  <2>44. QED
    BY <1>2, <2>1, <2>2, <2>3, <2>4, <2>5, <2>6, <2>7, <2>8, <2>9, <2>10, <2>11, <2>12, <2>13, <2>14, <2>15, <2>16, <2>17, <2>18, <2>19, <2>20, <2>21, <2>22, <2>23, <2>24, <2>25, <2>26, <2>27, <2>28, <2>29, <2>30, <2>31, <2>32, <2>33, <2>34, <2>35, <2>36, <2>37, <2>38, <2>39, <2>40, <2>41, <2>42, <2>43
       DEF Next, MainStep, DogStep, Reset, Breach, Sample, Threads, Main, Dog
<1>3. QED
  BY <1>1, <1>2, LabelsCorrect, DataCorrect, PhaseCorrect, PTL DEF Spec

(* A violation is raised or reported, and its run not called completed,     *)
(* unless Ctrl-C or the timeout of the join intervened (_raise_violation,   *)
(* take_violation).                                                         *)
THEOREM ViolationsSurface == Spec => []ViolationSurfaces
<1>1. DataOK /\ SurfaceInv => ViolationSurfaces
  BY DEF SurfaceInv, ViolationSurfaces, DataOK, Causes, None
<1>2. QED
  BY <1>1, DataCorrect, SurfaceCorrect, PTL

-----------------------------------------------------------------------------
(* Who kills the container has a reason the main thread will see: a pending *)
(* violation or an outcome.  Whoever resets it has said so in               *)
(* _reset_this_call, which is cleared only under _reset_lock.  And the      *)
(* process of a bash call lives while the main thread waits for it, or      *)
(* until Ctrl-C.                                                            *)
KilledInv ==
  /\ \A t \in Threads : pc[t] \in {"wkill", "wkilling"} => violation # None \/ outcome # None
  /\ \A t \in Threads : pc[t] \in ResetBody => resetThisCall
  /\ execAlive => pc[Main] = "bash" \/ outcome # None

(* The lock is what keeps ClearFlag out of a reset in progress.             *)
LEMMA KilledCorrect == Spec => []KilledInv
<1>. USE DEF KilledInv, LockDiscipline, PhaseInv, EndLabels, LabelsOK, Threads, Main, Dog, Free, None, Goto, locks, worker, history,
           ResetBody, HoldingReset, ReapBody, MeasureBody, HoldingReap, Breaches, Recording,
           MainAfterBash, MainLabels, DogLabels
<1>1. Init => KilledInv
  BY DEF Init
<1>2. ASSUME LabelsOK, LockDiscipline, PhaseInv, KilledInv, [Next]_vars
      PROVE  KilledInv'
  <2>1. ASSUME NEW t \in Threads, SkipReset(t) PROVE KilledInv'
    BY <1>2, <2>1 DEF SkipReset, ResetAllowed, AfterSample
  <2>2. ASSUME NEW t \in Threads, BeginReset(t) PROVE KilledInv'
    BY <1>2, <2>2 DEF BeginReset, ResetAllowed
  <2>3. ASSUME NEW t \in Threads, ResetKill(t) PROVE KilledInv'
    BY <1>2, <2>3 DEF ResetKill, DockerKill, Running
  <2>4. ASSUME NEW t \in Threads, ResetStart(t) PROVE KilledInv'
    BY <1>2, <2>4 DEF ResetStart
  <2>5. ASSUME NEW t \in Threads, ResetReady(t) PROVE KilledInv'
    BY <1>2, <2>5 DEF ResetReady, Escape, ReleaseBoth, Running
  <2>6. ASSUME NEW t \in Threads, ResetInit(t) PROVE KilledInv'
    BY <1>2, <2>6 DEF ResetInit, Escape, ReleaseBoth, Running
  <2>7. ASSUME NEW t \in Threads, ResetDone(t) PROVE KilledInv'
    BY <1>2, <2>7 DEF ResetDone
  <2>8. ASSUME NEW t \in Threads, RecordViolation(t) PROVE KilledInv'
    BY <1>2, <2>8 DEF RecordViolation, FirstWins, CauseAt
  <2>9. ASSUME NEW t \in Threads, WatchdogKillEnter(t) PROVE KilledInv'
    BY <1>2, <2>9 DEF WatchdogKillEnter, KillMayStart
  <2>10. ASSUME NEW t \in Threads, WatchdogKill(t) PROVE KilledInv'
    BY <1>2, <2>10 DEF WatchdogKill, DockerKill, Running
  <2>11. ASSUME NEW t \in Threads, SampleAcquire(t) PROVE KilledInv'
    BY <1>2, <2>11 DEF SampleAcquire
  <2>12. ASSUME NEW t \in Threads, SampleGivesUp(t) PROVE KilledInv'
    BY <1>2, <2>12 DEF SampleGivesUp, AfterSample
  <2>13. ASSUME NEW t \in Threads, MeasureSucceeds(t) PROVE KilledInv'
    BY <1>2, <2>13 DEF MeasureSucceeds, AfterSample, Running
  <2>14. ASSUME NEW t \in Threads, MeasureResets(t) PROVE KilledInv'
    BY <1>2, <2>14 DEF MeasureResets, CallReset
  <2>15. ASSUME NEW t \in Threads, MeasureFails(t) PROVE KilledInv'
    BY <1>2, <2>15 DEF MeasureFails, AfterSample
  <2>16. CASE BashStart
    BY <1>2, <2>16 DEF BashStart, Running
  <2>17. CASE BashEnd
    BY <1>2, <2>17 DEF BashEnd
  <2>18. CASE CheckViolation
    BY <1>2, <2>18 DEF CheckViolation, RaiseViolation, StatusOf
  <2>19. CASE ClearFlag
    BY <1>2, <2>19 DEF ClearFlag
  <2>20. CASE ReapGuard
    BY <1>2, <2>20 DEF ReapGuard
  <2>21. CASE ReapAcquire
    BY <1>2, <2>21 DEF ReapAcquire
  <2>22. CASE ReapResets
    BY <1>2, <2>22 DEF ReapResets, CallReset
  <2>23. CASE ReapTop
    BY <1>2, <2>23 DEF ReapTop, Running
  <2>24. CASE ReapKill
    BY <1>2, <2>24 DEF ReapKill, Running
  <2>25. CASE ReapSettle
    BY <1>2, <2>25 DEF ReapSettle, Settled, Running
  <2>26. CASE ReapDone
    BY <1>2, <2>26 DEF ReapDone
  <2>27. CASE PreSample
    BY <1>2, <2>27 DEF PreSample, SkipSample
  <2>28. CASE GrepTimesOut
    BY <1>2, <2>28 DEF GrepTimesOut, Running
  <2>29. CASE WriteTool
    BY <1>2, <2>29 DEF WriteTool, Running, Goto
  <2>30. CASE AbandonAcquire
    BY <1>2, <2>30 DEF AbandonAcquire
  <2>31. CASE AbandonKill
    BY <1>2, <2>31 DEF AbandonKill
  <2>32. CASE Finish
    BY <1>2, <2>32 DEF Finish
  <2>33. CASE Finalize
    BY <1>2, <2>33 DEF Finalize
  <2>34. CASE Join
    BY <1>2, <2>34 DEF Join, MayOutlastJoin
  <2>35. CASE Remove
    BY <1>2, <2>35 DEF Remove
  <2>36. CASE TakeViolation
    BY <1>2, <2>36 DEF TakeViolation, StatusOf
  <2>37. CASE DogLoop
    BY <1>2, <2>37 DEF DogLoop
  <2>38. CASE CheckDisk
    BY <1>2, <2>38 DEF CheckDisk, FailsClosed
  <2>39. CASE Look
    BY <1>2, <2>39 DEF Look, InFlight
  <2>40. CASE WorkerWrites
    BY <1>2, <2>40 DEF WorkerWrites, Running
  <2>41. CASE Interrupt
    BY <1>2, <2>41 DEF Interrupt
  <2>42. CASE Terminated
    BY <1>2, <2>42 DEF Terminated, vars
  <2>43. CASE UNCHANGED vars
    BY <1>2, <2>43 DEF vars
  <2>44. QED
    BY <1>2, <2>1, <2>2, <2>3, <2>4, <2>5, <2>6, <2>7, <2>8, <2>9, <2>10, <2>11, <2>12, <2>13, <2>14, <2>15, <2>16, <2>17, <2>18, <2>19, <2>20, <2>21, <2>22, <2>23, <2>24, <2>25, <2>26, <2>27, <2>28, <2>29, <2>30, <2>31, <2>32, <2>33, <2>34, <2>35, <2>36, <2>37, <2>38, <2>39, <2>40, <2>41, <2>42, <2>43
       DEF Next, MainStep, DogStep, Reset, Breach, Sample, Threads, Main, Dog
<1>3. QED
  BY <1>1, <1>2, LabelsCorrect, LocksRespected, PhaseCorrect, PTL DEF Spec

(* A reset whose `docker kill` is still to come.                            *)
Killing == \E t \in Threads : pc[t] = "rs_kill"

(* What _reset_this_call says to a bash call that finds it set, and that    *)
(* began without it: the container was killed, will be before the lock is   *)
(* free, or a violation ends the call.                                      *)
FlagInv ==
  pc[Main] \in (MainAfterBash \ {"clear"}) \cup {"bash"} /\ resetThisCall
    => \/ staleFlag \/ killFailed \/ violation # None \/ Killing
       \/ ~execAlive /\ ~strays

(* This is why a reap may be skipped when the flag is set (_reap).          *)
LEMMA FlagCorrect == Spec => []FlagInv
<1>. USE DEF FlagInv, Killing, Running, KilledInv, PhaseInv, EndLabels, LabelsOK, Threads, Main, Dog, Free, None, Goto, locks, worker, history,
           ResetBody, HoldingReset, ReapBody, MeasureBody, HoldingReap, Breaches, Recording,
           MainAfterBash, MainLabels, DogLabels
<1>1. Init => FlagInv
  BY DEF Init
<1>2. ASSUME LabelsOK, PhaseInv, KilledInv, FlagInv, [Next]_vars
      PROVE  FlagInv'
  <2>1. ASSUME NEW t \in Threads, SkipReset(t) PROVE FlagInv'
    BY <1>2, <2>1 DEF SkipReset, ResetAllowed, AfterSample
  <2>2. ASSUME NEW t \in Threads, BeginReset(t) PROVE FlagInv'
    BY <1>2, <2>2 DEF BeginReset, ResetAllowed
  <2>3. ASSUME NEW t \in Threads, ResetKill(t) PROVE FlagInv'
    BY <1>2, <2>3 DEF ResetKill, DockerKill, Running
  <2>4. ASSUME NEW t \in Threads, ResetStart(t) PROVE FlagInv'
    BY <1>2, <2>4 DEF ResetStart
  <2>5. ASSUME NEW t \in Threads, ResetReady(t) PROVE FlagInv'
    BY <1>2, <2>5 DEF ResetReady, Escape, ReleaseBoth, Running
  <2>6. ASSUME NEW t \in Threads, ResetInit(t) PROVE FlagInv'
    BY <1>2, <2>6 DEF ResetInit, Escape, ReleaseBoth, Running
  <2>7. ASSUME NEW t \in Threads, ResetDone(t) PROVE FlagInv'
    BY <1>2, <2>7 DEF ResetDone
  <2>8. ASSUME NEW t \in Threads, RecordViolation(t) PROVE FlagInv'
    BY <1>2, <2>8 DEF RecordViolation, FirstWins, CauseAt
  <2>9. ASSUME NEW t \in Threads, WatchdogKillEnter(t) PROVE FlagInv'
    BY <1>2, <2>9 DEF WatchdogKillEnter, KillMayStart
  <2>10. ASSUME NEW t \in Threads, WatchdogKill(t) PROVE FlagInv'
    BY <1>2, <2>10 DEF WatchdogKill, DockerKill, Running
  <2>11. ASSUME NEW t \in Threads, SampleAcquire(t) PROVE FlagInv'
    BY <1>2, <2>11 DEF SampleAcquire
  <2>12. ASSUME NEW t \in Threads, SampleGivesUp(t) PROVE FlagInv'
    BY <1>2, <2>12 DEF SampleGivesUp, AfterSample
  <2>13. ASSUME NEW t \in Threads, MeasureSucceeds(t) PROVE FlagInv'
    BY <1>2, <2>13 DEF MeasureSucceeds, AfterSample, Running
  <2>14. ASSUME NEW t \in Threads, MeasureResets(t) PROVE FlagInv'
    BY <1>2, <2>14 DEF MeasureResets, CallReset
  <2>15. ASSUME NEW t \in Threads, MeasureFails(t) PROVE FlagInv'
    BY <1>2, <2>15 DEF MeasureFails, AfterSample
  <2>16. CASE BashStart
    BY <1>2, <2>16 DEF BashStart, Running
  <2>17. CASE BashEnd
    BY <1>2, <2>17 DEF BashEnd
  <2>18. CASE CheckViolation
    BY <1>2, <2>18 DEF CheckViolation, RaiseViolation, StatusOf
  <2>19. CASE ClearFlag
    BY <1>2, <2>19 DEF ClearFlag
  <2>20. CASE ReapGuard
    BY <1>2, <2>20 DEF ReapGuard
  <2>21. CASE ReapAcquire
    BY <1>2, <2>21 DEF ReapAcquire
  <2>22. CASE ReapResets
    BY <1>2, <2>22 DEF ReapResets, CallReset
  <2>23. CASE ReapTop
    BY <1>2, <2>23 DEF ReapTop, Running
  <2>24. CASE ReapKill
    BY <1>2, <2>24 DEF ReapKill, Running
  <2>25. CASE ReapSettle
    BY <1>2, <2>25 DEF ReapSettle, Settled, Running
  <2>26. CASE ReapDone
    BY <1>2, <2>26 DEF ReapDone
  <2>27. CASE PreSample
    BY <1>2, <2>27 DEF PreSample, SkipSample
  <2>28. CASE GrepTimesOut
    BY <1>2, <2>28 DEF GrepTimesOut, Running
  <2>29. CASE WriteTool
    BY <1>2, <2>29 DEF WriteTool, Running, Goto
  <2>30. CASE AbandonAcquire
    BY <1>2, <2>30 DEF AbandonAcquire
  <2>31. CASE AbandonKill
    BY <1>2, <2>31 DEF AbandonKill
  <2>32. CASE Finish
    BY <1>2, <2>32 DEF Finish
  <2>33. CASE Finalize
    BY <1>2, <2>33 DEF Finalize
  <2>34. CASE Join
    BY <1>2, <2>34 DEF Join, MayOutlastJoin
  <2>35. CASE Remove
    BY <1>2, <2>35 DEF Remove
  <2>36. CASE TakeViolation
    BY <1>2, <2>36 DEF TakeViolation, StatusOf
  <2>37. CASE DogLoop
    BY <1>2, <2>37 DEF DogLoop
  <2>38. CASE CheckDisk
    BY <1>2, <2>38 DEF CheckDisk, FailsClosed
  <2>39. CASE Look
    BY <1>2, <2>39 DEF Look, InFlight
  <2>40. CASE WorkerWrites
    BY <1>2, <2>40 DEF WorkerWrites, Running
  <2>41. CASE Interrupt
    BY <1>2, <2>41 DEF Interrupt
  <2>42. CASE Terminated
    BY <1>2, <2>42 DEF Terminated, vars
  <2>43. CASE UNCHANGED vars
    BY <1>2, <2>43 DEF vars
  <2>44. QED
    BY <1>2, <2>1, <2>2, <2>3, <2>4, <2>5, <2>6, <2>7, <2>8, <2>9, <2>10, <2>11, <2>12, <2>13, <2>14, <2>15, <2>16, <2>17, <2>18, <2>19, <2>20, <2>21, <2>22, <2>23, <2>24, <2>25, <2>26, <2>27, <2>28, <2>29, <2>30, <2>31, <2>32, <2>33, <2>34, <2>35, <2>36, <2>37, <2>38, <2>39, <2>40, <2>41, <2>42, <2>43
       DEF Next, MainStep, DogStep, Reset, Breach, Sample, Threads, Main, Dog
<1>3. QED
  BY <1>1, <1>2, LabelsCorrect, PhaseCorrect, KilledCorrect, PTL DEF Spec

(* What a bash call leaves behind where it returns.                         *)
Returned ==
  \/ outcome # None \/ staleFlag \/ killFailed \/ Killing
  \/ ~strays /\ (over => resetThisCall)

(* The labels past the part of a reap that removes the strays: its end, the *)
(* sample, a breach found by it, and a reset after its kill.                *)
Reaped == {"oom", "presample", "sample", "measure", "remeasure", "breach_size",
           "wkill", "wkilling", "rs_start", "rs_ready", "rs_init", "rs_done"}

(* Past a reap nothing is left running; where the call is about to return   *)
(* nothing is left, or a violation is pending and raised next.              *)
ReapInv ==
  /\ pc[Main] \in Reaped => killFailed \/ ~strays
  /\ pc[Main] = "violated" => violation # None \/ Returned
  /\ pc[Main] = "clear" => Returned

(* Each way to the end of a bash call leaves nothing behind.                *)
LEMMA ReapCorrect == Spec => []ReapInv
<1>1. Init => ReapInv
  BY DEF Init, ReapInv, FlagInv, Returned, Reaped, Killing, Running, KilledInv, PhaseInv, EndLabels, LockDiscipline, Threads, Main, Dog, Free, None, Goto, locks, worker, history,
           ResetBody, HoldingReset, ReapBody, MeasureBody, HoldingReap, Breaches, Recording,
           MainAfterBash, MainLabels, DogLabels
<1>2. ASSUME LabelsOK, LockDiscipline, PhaseInv, KilledInv, FlagInv, ReapInv, [Next]_vars
      PROVE  ReapInv'
  <2>. USE DEF ReapInv, FlagInv, Returned, Reaped, Killing, Running, KilledInv, PhaseInv, EndLabels, LockDiscipline, LabelsOK, Threads, Main, Dog, Free, None, Goto, locks, worker, history,
           ResetBody, HoldingReset, ReapBody, MeasureBody, HoldingReap, Breaches, Recording,
           MainAfterBash, MainLabels, DogLabels
  <2>1. ASSUME NEW t \in Threads, SkipReset(t) PROVE ReapInv'
    BY <1>2, <2>1 DEF SkipReset, ResetAllowed, AfterSample
  <2>2. ASSUME NEW t \in Threads, BeginReset(t) PROVE ReapInv'
    BY <1>2, <2>2 DEF BeginReset, ResetAllowed
  <2>3. ASSUME NEW t \in Threads, ResetKill(t) PROVE ReapInv'
    BY <1>2, <2>3 DEF ResetKill, DockerKill, Running
  <2>4. ASSUME NEW t \in Threads, ResetStart(t) PROVE ReapInv'
    BY <1>2, <2>4 DEF ResetStart
  <2>5. ASSUME NEW t \in Threads, ResetReady(t) PROVE ReapInv'
    BY <1>2, <2>5 DEF ResetReady, Escape, ReleaseBoth, Running
  <2>6. ASSUME NEW t \in Threads, ResetInit(t) PROVE ReapInv'
    BY <1>2, <2>6 DEF ResetInit, Escape, ReleaseBoth, Running
  <2>7. ASSUME NEW t \in Threads, ResetDone(t) PROVE ReapInv'
    BY <1>2, <2>7 DEF ResetDone
  <2>8. ASSUME NEW t \in Threads, RecordViolation(t) PROVE ReapInv'
    BY <1>2, <2>8 DEF RecordViolation, FirstWins, CauseAt
  <2>9. ASSUME NEW t \in Threads, WatchdogKillEnter(t) PROVE ReapInv'
    BY <1>2, <2>9 DEF WatchdogKillEnter, KillMayStart
  <2>10. ASSUME NEW t \in Threads, WatchdogKill(t) PROVE ReapInv'
    BY <1>2, <2>10 DEF WatchdogKill, DockerKill, Running
  <2>11. ASSUME NEW t \in Threads, SampleAcquire(t) PROVE ReapInv'
    BY <1>2, <2>11 DEF SampleAcquire
  <2>12. ASSUME NEW t \in Threads, SampleGivesUp(t) PROVE ReapInv'
    BY <1>2, <2>12 DEF SampleGivesUp, AfterSample
  <2>13. ASSUME NEW t \in Threads, MeasureSucceeds(t) PROVE ReapInv'
    BY <1>2, <2>13 DEF MeasureSucceeds, AfterSample, Running
  <2>14. ASSUME NEW t \in Threads, MeasureResets(t) PROVE ReapInv'
    BY <1>2, <2>14 DEF MeasureResets, CallReset
  <2>15. ASSUME NEW t \in Threads, MeasureFails(t) PROVE ReapInv'
    BY <1>2, <2>15 DEF MeasureFails, AfterSample
  <2>16. CASE BashStart
    BY <1>2, <2>16 DEF BashStart, Running
  <2>17. CASE BashEnd
    BY <1>2, <2>17 DEF BashEnd
  <2>18. CASE CheckViolation
    BY <1>2, <2>18 DEF CheckViolation, RaiseViolation, StatusOf
  <2>19. CASE ClearFlag
    BY <1>2, <2>19 DEF ClearFlag
  <2>20. CASE ReapGuard
    BY <1>2, <2>20 DEF ReapGuard
  <2>21. CASE ReapAcquire
    BY <1>2, <2>21 DEF ReapAcquire
  <2>22. CASE ReapResets
    BY <1>2, <2>22 DEF ReapResets, CallReset
  <2>23. CASE ReapTop
    BY <1>2, <2>23 DEF ReapTop, Running
  <2>24. CASE ReapKill
    BY <1>2, <2>24 DEF ReapKill, Running
  <2>25. CASE ReapSettle
    BY <1>2, <2>25 DEF ReapSettle, Settled, Running
  <2>26. CASE ReapDone
    BY <1>2, <2>26 DEF ReapDone
  <2>27. CASE PreSample
    BY <1>2, <2>27 DEF PreSample, SkipSample
  <2>28. CASE GrepTimesOut
    BY <1>2, <2>28 DEF GrepTimesOut, Running
  <2>29. CASE WriteTool
    BY <1>2, <2>29 DEF WriteTool, Running, Goto
  <2>30. CASE AbandonAcquire
    BY <1>2, <2>30 DEF AbandonAcquire
  <2>31. CASE AbandonKill
    BY <1>2, <2>31 DEF AbandonKill
  <2>32. CASE Finish
    BY <1>2, <2>32 DEF Finish
  <2>33. CASE Finalize
    BY <1>2, <2>33 DEF Finalize
  <2>34. CASE Join
    BY <1>2, <2>34 DEF Join, MayOutlastJoin
  <2>35. CASE Remove
    BY <1>2, <2>35 DEF Remove
  <2>36. CASE TakeViolation
    BY <1>2, <2>36 DEF TakeViolation, StatusOf
  <2>37. CASE DogLoop
    BY <1>2, <2>37 DEF DogLoop
  <2>38. CASE CheckDisk
    BY <1>2, <2>38 DEF CheckDisk, FailsClosed
  <2>39. CASE Look
    BY <1>2, <2>39 DEF Look, InFlight
  <2>40. CASE WorkerWrites
    BY <1>2, <2>40 DEF WorkerWrites, Running
  <2>41. CASE Interrupt
    BY <1>2, <2>41 DEF Interrupt
  <2>42. CASE Terminated
    BY <1>2, <2>42 DEF Terminated, vars
  <2>43. CASE UNCHANGED vars
    BY <1>2, <2>43 DEF vars
  <2>44. QED
    BY <1>2, <2>1, <2>2, <2>3, <2>4, <2>5, <2>6, <2>7, <2>8, <2>9, <2>10, <2>11, <2>12, <2>13, <2>14, <2>15, <2>16, <2>17, <2>18, <2>19, <2>20, <2>21, <2>22, <2>23, <2>24, <2>25, <2>26, <2>27, <2>28, <2>29, <2>30, <2>31, <2>32, <2>33, <2>34, <2>35, <2>36, <2>37, <2>38, <2>39, <2>40, <2>41, <2>42, <2>43
       DEF Next, MainStep, DogStep, Reset, Breach, Sample, Threads, Main, Dog
<1>3. QED
  BY <1>1, <1>2, LabelsCorrect, LocksRespected, PhaseCorrect, KilledCorrect, FlagCorrect, PTL DEF Spec

(* A bash call that returns leaves no process of the worker behind, and the *)
(* worktree within its budget if the call was not reset (_after_bash).      *)
THEOREM BashIsClean == Spec => BashLeavesNothing
<1>. DEFINE LeavesNothing ==
       BashReturned => \/ ~strays /\ (over => resetThisCall)
                       \/ staleFlag \/ killFailed
<1>. USE DEF BashReturned, LabelsOK, Threads, Main, Dog, Free, None, Goto, locks, worker, history,
           ResetBody, HoldingReset, ReapBody, MeasureBody, HoldingReap, Breaches, Recording,
           MainAfterBash, MainLabels, DogLabels
<1>1. ASSUME LabelsOK, LockDiscipline, ReapInv, [Next]_vars
      PROVE  [LeavesNothing]_vars
  <2>1. ASSUME NEW t \in Threads, SkipReset(t) PROVE [LeavesNothing]_vars
    BY <1>1, <2>1 DEF SkipReset, ResetAllowed, AfterSample
  <2>2. ASSUME NEW t \in Threads, BeginReset(t) PROVE [LeavesNothing]_vars
    BY <1>1, <2>2 DEF BeginReset, ResetAllowed
  <2>3. ASSUME NEW t \in Threads, ResetKill(t) PROVE [LeavesNothing]_vars
    BY <1>1, <2>3 DEF ResetKill, DockerKill, Running
  <2>4. ASSUME NEW t \in Threads, ResetStart(t) PROVE [LeavesNothing]_vars
    BY <1>1, <2>4 DEF ResetStart
  <2>5. ASSUME NEW t \in Threads, ResetReady(t) PROVE [LeavesNothing]_vars
    BY <1>1, <2>5 DEF ResetReady, Escape, ReleaseBoth, Running
  <2>6. ASSUME NEW t \in Threads, ResetInit(t) PROVE [LeavesNothing]_vars
    BY <1>1, <2>6 DEF ResetInit, Escape, ReleaseBoth, Running
  <2>7. ASSUME NEW t \in Threads, ResetDone(t) PROVE [LeavesNothing]_vars
    BY <1>1, <2>7 DEF ResetDone
  <2>8. ASSUME NEW t \in Threads, RecordViolation(t) PROVE [LeavesNothing]_vars
    BY <1>1, <2>8 DEF RecordViolation, FirstWins, CauseAt
  <2>9. ASSUME NEW t \in Threads, WatchdogKillEnter(t) PROVE [LeavesNothing]_vars
    BY <1>1, <2>9 DEF WatchdogKillEnter, KillMayStart
  <2>10. ASSUME NEW t \in Threads, WatchdogKill(t) PROVE [LeavesNothing]_vars
    BY <1>1, <2>10 DEF WatchdogKill, DockerKill, Running
  <2>11. ASSUME NEW t \in Threads, SampleAcquire(t) PROVE [LeavesNothing]_vars
    BY <1>1, <2>11 DEF SampleAcquire
  <2>12. ASSUME NEW t \in Threads, SampleGivesUp(t) PROVE [LeavesNothing]_vars
    BY <1>1, <2>12 DEF SampleGivesUp, AfterSample
  <2>13. ASSUME NEW t \in Threads, MeasureSucceeds(t) PROVE [LeavesNothing]_vars
    BY <1>1, <2>13 DEF MeasureSucceeds, AfterSample, Running
  <2>14. ASSUME NEW t \in Threads, MeasureResets(t) PROVE [LeavesNothing]_vars
    BY <1>1, <2>14 DEF MeasureResets, CallReset
  <2>15. ASSUME NEW t \in Threads, MeasureFails(t) PROVE [LeavesNothing]_vars
    BY <1>1, <2>15 DEF MeasureFails, AfterSample
  <2>16. CASE BashStart
    BY <1>1, <2>16 DEF BashStart, Running
  <2>17. CASE BashEnd
    BY <1>1, <2>17 DEF BashEnd
  <2>18. CASE CheckViolation
    BY <1>1, <2>18 DEF CheckViolation, RaiseViolation, StatusOf
  <2>19. CASE ClearFlag
    <3>1. ~Killing
      BY <1>1, <2>19 DEF ClearFlag, LockDiscipline, Killing
    <3>2. pc'[Main] = "idle" => outcome = None
      BY <1>1, <2>19 DEF ClearFlag
    <3>. QED
      BY <1>1, <2>19, <3>1, <3>2 DEF ClearFlag, ReapInv, Returned
  <2>20. CASE ReapGuard
    BY <1>1, <2>20 DEF ReapGuard
  <2>21. CASE ReapAcquire
    BY <1>1, <2>21 DEF ReapAcquire
  <2>22. CASE ReapResets
    BY <1>1, <2>22 DEF ReapResets, CallReset
  <2>23. CASE ReapTop
    BY <1>1, <2>23 DEF ReapTop, Running
  <2>24. CASE ReapKill
    BY <1>1, <2>24 DEF ReapKill, Running
  <2>25. CASE ReapSettle
    BY <1>1, <2>25 DEF ReapSettle, Settled, Running
  <2>26. CASE ReapDone
    BY <1>1, <2>26 DEF ReapDone
  <2>27. CASE PreSample
    BY <1>1, <2>27 DEF PreSample, SkipSample
  <2>28. CASE GrepTimesOut
    BY <1>1, <2>28 DEF GrepTimesOut, Running
  <2>29. CASE WriteTool
    BY <1>1, <2>29 DEF WriteTool, Running, Goto
  <2>30. CASE AbandonAcquire
    BY <1>1, <2>30 DEF AbandonAcquire
  <2>31. CASE AbandonKill
    BY <1>1, <2>31 DEF AbandonKill
  <2>32. CASE Finish
    BY <1>1, <2>32 DEF Finish
  <2>33. CASE Finalize
    BY <1>1, <2>33 DEF Finalize
  <2>34. CASE Join
    BY <1>1, <2>34 DEF Join, MayOutlastJoin
  <2>35. CASE Remove
    BY <1>1, <2>35 DEF Remove
  <2>36. CASE TakeViolation
    BY <1>1, <2>36 DEF TakeViolation, StatusOf
  <2>37. CASE DogLoop
    BY <1>1, <2>37 DEF DogLoop
  <2>38. CASE CheckDisk
    BY <1>1, <2>38 DEF CheckDisk, FailsClosed
  <2>39. CASE Look
    BY <1>1, <2>39 DEF Look, InFlight
  <2>40. CASE WorkerWrites
    BY <1>1, <2>40 DEF WorkerWrites, Running
  <2>41. CASE Interrupt
    BY <1>1, <2>41 DEF Interrupt
  <2>42. CASE Terminated
    BY <1>1, <2>42 DEF Terminated, vars
  <2>43. CASE UNCHANGED vars
    BY <1>1, <2>43 DEF vars
  <2>44. QED
    BY <1>1, <2>1, <2>2, <2>3, <2>4, <2>5, <2>6, <2>7, <2>8, <2>9, <2>10, <2>11, <2>12, <2>13, <2>14, <2>15, <2>16, <2>17, <2>18, <2>19, <2>20, <2>21, <2>22, <2>23, <2>24, <2>25, <2>26, <2>27, <2>28, <2>29, <2>30, <2>31, <2>32, <2>33, <2>34, <2>35, <2>36, <2>37, <2>38, <2>39, <2>40, <2>41, <2>42, <2>43
       DEF Next, MainStep, DogStep, Reset, Breach, Sample, Threads, Main, Dog
<1>2. QED
  BY <1>1, LabelsCorrect, LocksRespected, ReapCorrect, PTL DEF Spec, BashLeavesNothing
=============================================================================
