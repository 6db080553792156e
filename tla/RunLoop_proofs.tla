--------------------------- MODULE RunLoop_proofs ---------------------------
(***************************************************************************)
(* What the loop promises, for every limit of RunLoop.                     *)
(*                                                                         *)
(* finish(): a run is completed only after a verify that passed, the       *)
(* export is attempted once, and of two run_end lines each but one had its *)
(* mark prevented by Ctrl-C.  All three rest on the same fact: the loop    *)
(* runs only while no status was decided, and nothing leads from finish()  *)
(* back into the loop, whatever Ctrl-C interrupts (FinishInv).             *)
(*                                                                         *)
(* Types and limits: a counter is below its limit as long as the loop goes *)
(* on (LimitInv), so it outgrows it by no more than one reply adds.        *)
(*                                                                         *)
(* The turn: what the history ends in (HistoryInv), how old the newest     *)
(* fingerprint is (MeasureInv) and what became of a finish call            *)
(* (RecordInv), label by label.                                            *)
(***************************************************************************)
EXTENDS RunLoop, TLAPS

-----------------------------------------------------------------------------
(* finish().                                                                *)

\* Where no status has been decided yet.
Undecided == Loop \cup {"start"}

UndecidedInv ==
  /\ pc \in Undecided => ending = "none"
  /\ pc = "raised" => ending = "none" \/ handler = "lost"
  /\ handler \in {"fail", "lost"} => pc \in {"raised", "returned"}
  /\ pc = "raised" => handler \in {"fail", "lost"}
  /\ pc \in Closing => ending # "none"
  /\ ending = "none" => runEnd = "none" /\ finalize = "no"

GateInv ==
  \A status \in {ending, runEnd} :
    status = "completed" /\ Verify => verified = "passed" /\ ~writtenAfterVerify

\* Once the transcript could not be written, nothing is promised any more.
ExportInv ==
  handler # "lost" => exports \in {0, 1} /\ (finalize = "no" => exports = 0)

\* The run_end lines that were not forgotten: one once run_end_written says so,
\* between the write and its mark, and once _fail_run has written its own.
Known ==
  IF runEndWritten \/ pc = "written" \/ (handler = "fail" /\ pc = "returned") THEN 1 ELSE 0

RunEndInv ==
  /\ runEnds \in Nat /\ endsHeld \in Nat /\ unmarked \in Nat
  /\ handler # "lost" =>
       /\ runEnds + endsHeld <= Known + unmarked
       /\ runEnd = "none" => runEnds = 0 /\ endsHeld = 0
       /\ runEnd # "none" => ending \in {runEnd, "interrupted"}

FinishInv == UndecidedInv /\ GateInv /\ ExportInv /\ RunEndInv

(* No status is decided before the first turn.                               *)
LEMMA FinishInit == Init => FinishInv
  BY DEF Init, FinishInv, UndecidedInv, GateInv, ExportInv, RunEndInv, Known, Undecided, Loop,
     Closing

(* Every step keeps it: the loop's steps while nothing is decided, those of  *)
(* finish() one after the other, and Ctrl-C from wherever it strikes.        *)
LEMMA FinishStep == FinishInv /\ [Next]_vars => FinishInv'
<1> SUFFICES ASSUME FinishInv, [Next]_vars PROVE FinishInv'
  OBVIOUS
<1> USE DEF FinishInv, UndecidedInv, GateInv, ExportInv, RunEndInv, Known, Undecided, Loop, Closing,
           Goto, GoOn, Finish, control, wire, trackers, gate, guard, lines, log, ended, closing,
           RaisedStatuses
<1>1. CASE TakeStart
  BY <1>1 DEF TakeStart
<1>2. CASE BeginTurn
  BY <1>2 DEF BeginTurn
<1>3. CASE ChatTimesOut
  BY <1>3 DEF ChatTimesOut
<1>4. CASE ChatUnreadable
  BY <1>4 DEF ChatUnreadable
<1>5. CASE ChatAnswer
  BY <1>5 DEF ChatAnswer
<1>6. CASE ChatTruncated
  BY <1>6 DEF ChatTruncated
<1>7. CASE ChatEmpty
  BY <1>7 DEF ChatEmpty
<1>8. CASE ChatCalls
  BY <1>8 DEF ChatCalls
<1>9. CASE ExecuteCall
  BY <1>9 DEF ExecuteCall
<1>10. CASE RefuseCall
  BY <1>10 DEF RefuseCall
<1>11. CASE CutCall
  BY <1>11 DEF CutCall
<1>12. CASE FinishCall
  BY <1>12 DEF FinishCall
<1>13. CASE CallRaises
  BY <1>13 DEF CallRaises
<1>14. CASE CallsDone
  BY <1>14 DEF CallsDone
<1>15. CASE CheckProgress
  BY <1>15 DEF CheckProgress
<1>16. CASE CheckNoChange
  BY <1>16 DEF CheckNoChange, Measured, Unmeasured
<1>17. CASE UnguardedCompletion
  BY <1>17 DEF UnguardedCompletion
<1>18. CASE CompletionCheckRaises
  BY <1>18 DEF CompletionCheckRaises, Unmeasured
<1>19. CASE UnchangedCompletion
  BY <1>19 DEF UnchangedCompletion, Measured, SendBack
<1>20. CASE ChangedCompletion
  BY <1>20 DEF ChangedCompletion, Measured, Unmeasured
<1>21. CASE NoGate
  BY <1>21 DEF NoGate
<1>22. CASE VerifyRaises
  BY <1>22 DEF VerifyRaises
<1>23. CASE RunVerify
  BY <1>23 DEF RunVerify, Accepted, SendBack
<1>24. CASE FinalMeasure
  BY <1>24 DEF FinalMeasure, Measured, Unmeasured
<1>25. CASE FinalResolve
  BY <1>25 DEF FinalResolve
<1>26. CASE FlushTurn
  BY <1>26 DEF FlushTurn, Written
<1>27. CASE BeginFinalize
  BY <1>27 DEF BeginFinalize, Attempted
<1>28. CASE EndFinalize
  BY <1>28 DEF EndFinalize
<1>29. CASE WriteRunEnd
  BY <1>29 DEF WriteRunEnd, RunEndDue, FinishReturns
<1>30. CASE LeaveTurn
  BY <1>30 DEF LeaveTurn, Written
<1>31. CASE InterruptTurn
  BY <1>31 DEF InterruptTurn, CutFlush, ForgetRunEnd
<1>32. CASE InterruptLeaving
  BY <1>32 DEF InterruptLeaving, CutFlush, Written, ForgetRunEnd
<1>33. CASE InterruptOutside
  BY <1>33 DEF InterruptOutside, ForgetRunEnd
<1>34. CASE Raise
  BY <1>34 DEF Raise, Written
<1>35. CASE FailRun
  BY <1>35 DEF FailRun
<1>36. CASE LogFails
  BY <1>36 DEF LogFails, CutFlush, RunEndDue
<1>37. CASE MarkRunEnd
  BY <1>37 DEF MarkRunEnd, FinishReturns
<1>38. CASE UNCHANGED vars
  BY <1>38 DEF vars
<1> QED
  BY <1>1, <1>2, <1>3, <1>4, <1>5, <1>6, <1>7, <1>8, <1>9, <1>10, <1>11, <1>12, <1>13, <1>14, <1>15,
       <1>16, <1>17, <1>18, <1>19, <1>20, <1>21, <1>22, <1>23, <1>24, <1>25, <1>26, <1>27, <1>28,
       <1>29, <1>30, <1>31, <1>32, <1>33, <1>34, <1>35, <1>36, <1>37, <1>38
     DEF Next, Step, Chat, Calls, CheckVerify, Close, Interrupt, Terminated

(* So it always holds.                                                       *)
LEMMA FinishInvariant == Spec => []FinishInv
  BY FinishInit, FinishStep, PTL DEF Spec

(* A run is completed only by a verify command that passed on the worktree  *)
(* as the worker left it.                                                   *)
THEOREM CompletionIsVerified == Spec => []CompletedIsVerified
<1>1. FinishInv => CompletedIsVerified
  BY DEF FinishInv, GateInv, CompletedIsVerified
<1> QED
  BY <1>1, FinishInvariant, PTL

(* The export is attempted at most once, however often Ctrl-C makes the     *)
(* runner finish again, and by the runner or by _fail_run, never by both,   *)
(* as long as the transcript can be written.                                *)
THEOREM ExportIsAttemptedOnce == Spec => []ExportedOnce
<1>1. FinishInv => ExportedOnce
  BY DEF FinishInv, ExportInv, ExportedOnce
<1> QED
  BY <1>1, FinishInvariant, PTL

(* However often finish() is entered, it repeats run_end only after a       *)
(* Ctrl-C between a write and run_end_written = True, once for each, and    *)
(* with the status the run returns unless Ctrl-C came after it, as long as  *)
(* the transcript can be written.                                           *)
THEOREM RunEndIsRepeatedOnlyUnmarked == Spec => []RunEndOnce
<1>1. FinishInv => RunEndOnce
  BY DEF FinishInv, RunEndInv, Known, RunEndOnce
<1> QED
  BY <1>1, FinishInvariant, PTL

-----------------------------------------------------------------------------
(* Types and limits.  One part for each kind of value, since the provers    *)
(* take them one at a time.                                                 *)

KindsOK ==
  /\ pc \in Labels /\ handler \in {"turn", "inner", "outer", "fail", "lost"}
  /\ ending \in Statuses \cup {"none"} /\ runEnd \in Statuses \cup {"none"}
  /\ last \in {"user", "assistant", "tool"}
  /\ finishRecord \in {"none", "provisional", "done", "not_finished", "feedback"}
  /\ verified \in {"none", "passed", "failed"}
  /\ tree \in Trees /\ fpStart \in Trees \cup {Off}
  /\ changed \in {"null", "yes", "no"}
  /\ finalize \in {"no", "running", "ok", "error"}

FlagsOK ==
  /\ inTurn \in BOOLEAN /\ toolMsgs \in BOOLEAN /\ progressed \in BOOLEAN
  /\ stuck \in BOOLEAN /\ counted \in BOOLEAN
  /\ finishHeld \in BOOLEAN /\ runEndWritten \in BOOLEAN
  /\ verifyWrote \in BOOLEAN /\ writtenAfterVerify \in BOOLEAN

CountersOK ==
  /\ turns \in 0..MaxTurns /\ fpTurn \in -1..MaxTurns
  /\ failures \in [FailureKinds -> 0..(MaxConsecutive - 1 + MaxMalformed)]
  /\ total \in 0..(MaxTotal - 1 + MaxMalformed)
  /\ idle \in 0..StallTurns
  /\ truncations \in 0..MaxTruncated
  /\ rounds \in 0..(VerifyRounds + 1)
  /\ refusals \in 0..1
  /\ endsHeld \in Nat /\ runEnds \in Nat /\ exports \in Nat /\ unmarked \in Nat

\* The loop goes on only below every limit.
LimitInv ==
  /\ ending = "none" => BelowLimits /\ rounds <= VerifyRounds
  /\ pc = "chat" => turns < MaxTurns

ReplyOK  == reply \in [left : 0..MaxCalls, cut : BOOLEAN]
Streaks  == [of : {<<>>} \cup Failing, n : 0..StuckRepeats]
StreakOK == streak \in Streaks

\* Lines are buffered only while a turn is open, and a finish call's line only
\* with its result.
BufferInv ==
  /\ pc \in (Loop \ {"turn"}) \cup {"leave"} => inTurn
  /\ pc \in {"start", "turn", "raised"} => ~inTurn
  /\ finishHeld => inTurn /\ finishRecord # "none"
  /\ endsHeld # 0 => inTurn

LogOK == disk \subseteq {"provisional", "done", "not_finished", "feedback"}

TypeInv ==
  /\ KindsOK /\ FlagsOK /\ CountersOK /\ ReplyOK /\ StreakOK /\ LogOK
  /\ LimitInv /\ BufferInv

(* The parts are TypeOK.                                                     *)
LEMMA TypeParts == TypeInv => TypeOK
  BY DEF TypeInv, TypeOK, KindsOK, FlagsOK, CountersOK, ReplyOK, Streaks, StreakOK, LogOK, LimitInv

(* A run starts with every counter at zero.                                  *)
LEMMA TypeInit == Init => TypeInv
<1> SUFFICES ASSUME Init PROVE TypeInv
  OBVIOUS
<1> USE LoopAssumption DEF Init, LoopAssumption
<1>1. KindsOK
  BY DEF KindsOK, Labels, Loop, Closing, Statuses, Trees, Off
<1>2. FlagsOK
  BY Zenon DEF FlagsOK
<1>3. CountersOK /\ LimitInv
  BY DEF CountersOK, LimitInv, BelowLimits
<1>4. ReplyOK
  BY DEF ReplyOK
<1>5. StreakOK
  BY DEF StreakOK, Streaks, NoStreak
<1>6. LogOK /\ BufferInv
  BY DEF LogOK, BufferInv, Loop
<1> QED
  BY <1>1, <1>2, <1>3, <1>4, <1>5, <1>6 DEF TypeInv

(* Every status, label and result is one of those the code knows.            *)
LEMMA KindsStep == KindsOK /\ [Next]_vars => KindsOK'
<1> SUFFICES ASSUME KindsOK, [Next]_vars PROVE KindsOK'
  OBVIOUS
<1> USE DEF KindsOK, Labels, Loop, Closing, Statuses, Trees, Off, RaisedStatuses, Goto, GoOn,
     Finish, control, wire, trackers, gate, guard, lines, log, ended, closing
<1>1. CASE TakeStart \/ BeginTurn
  BY <1>1 DEF TakeStart, BeginTurn
<1>2. CASE Chat
  BY <1>2 DEF Chat, ChatTimesOut, ChatUnreadable, ChatAnswer, ChatTruncated, ChatEmpty, ChatCalls,
       CountTurn, Strikes, Aborts
<1>3. CASE Calls
  BY <1>3 DEF Calls, ExecuteCall, RefuseCall, CutCall, FinishCall, CallRaises, CallsDone, Repeats,
       CallAnswered, NextCall, Strikes, Aborts, CallsOver
<1>4. CASE CheckProgress \/ CheckNoChange
  BY <1>4 DEF CheckProgress, CheckNoChange, Measured, Unmeasured, Deliver
<1>5. CASE CheckVerify
  BY <1>5 DEF CheckVerify, UnguardedCompletion, CompletionCheckRaises, UnchangedCompletion,
       ChangedCompletion, NoGate, VerifyRaises, RunVerify, Unmeasured, Resolve, Measured,
       SendBack, Deliver, RefusedBefore, Accepted, RoundsLeft
<1>6. CASE Close \/ LeaveTurn \/ FailRun
  BY <1>6 DEF Close, FinalMeasure, FinalResolve, FlushTurn, BeginFinalize, EndFinalize,
       WriteRunEnd, MarkRunEnd, FinishReturns, LeaveTurn, FailRun, Measured, Unmeasured, Written
<1>7. CASE Interrupt \/ Raise \/ LogFails
  BY <1>7 DEF Interrupt, InterruptTurn, InterruptLeaving, InterruptOutside, Raise, LogFails,
       ForgetRunEnd,
       CutFlush, Written
<1>8. CASE UNCHANGED vars
  BY <1>8 DEF vars
<1> QED
  BY <1>1, <1>2, <1>3, <1>4, <1>5, <1>6, <1>7, <1>8 DEF Next, Step, Terminated

(* Flags stay flags.                                                         *)
LEMMA FlagsStep == FlagsOK /\ [Next]_vars => FlagsOK'
<1> SUFFICES ASSUME FlagsOK, [Next]_vars PROVE FlagsOK'
  OBVIOUS
<1> USE DEF FlagsOK, Goto, GoOn, Finish, control, wire, trackers, gate, guard, lines, log, ended,
     closing
<1>1. CASE TakeStart \/ BeginTurn
  BY <1>1 DEF TakeStart, BeginTurn
<1>2. CASE Chat
  <2>1. CASE ChatTimesOut
    BY <2>1 DEF ChatTimesOut
  <2>2. CASE ChatUnreadable
    BY <2>2 DEF ChatUnreadable, CountTurn
  <2>3. CASE ChatAnswer
    BY <2>3 DEF ChatAnswer, CountTurn
  <2>4. CASE ChatTruncated
    BY <2>4 DEF ChatTruncated, CountTurn
  <2>5. CASE ChatEmpty
    BY <2>5 DEF ChatEmpty, CountTurn, Strikes, Aborts
  <2>6. CASE ChatCalls
    BY <2>6 DEF ChatCalls, CountTurn, Strikes, Aborts
  <2> QED
    BY <1>2, <2>1, <2>2, <2>3, <2>4, <2>5, <2>6 DEF Chat
<1>3. CASE Calls
  <2>1. CASE ExecuteCall
    BY <2>1 DEF ExecuteCall, Repeats, CallAnswered, NextCall
  <2>2. CASE RefuseCall
    BY <2>2 DEF RefuseCall, Repeats, CallAnswered, NextCall, Strikes, Aborts
  <2>3. CASE CutCall
    BY <2>3 DEF CutCall, Repeats, CallAnswered, NextCall
  <2>4. CASE FinishCall
    BY <2>4 DEF FinishCall, CallAnswered, NextCall
  <2>5. CASE CallRaises
    BY <2>5 DEF CallRaises
  <2>6. CASE CallsDone
    BY <2>6 DEF CallsDone, CallsOver
  <2> QED
    BY <1>3, <2>1, <2>2, <2>3, <2>4, <2>5, <2>6 DEF Calls
<1>4. CASE CheckProgress \/ CheckNoChange
  BY <1>4 DEF CheckProgress, CheckNoChange, Measured, Unmeasured, Deliver
<1>5. CASE CheckVerify
  <2>1. CASE UnguardedCompletion
    BY <2>1 DEF UnguardedCompletion
  <2>2. CASE CompletionCheckRaises
    BY <2>2 DEF CompletionCheckRaises, Unmeasured, Resolve
  <2>3. CASE UnchangedCompletion
    BY <2>3 DEF UnchangedCompletion, Measured, SendBack, Deliver, Resolve
  <2>4. CASE ChangedCompletion
    BY <2>4 DEF ChangedCompletion, Measured, Unmeasured
  <2>5. CASE NoGate
    BY <2>5 DEF NoGate, Resolve
  <2>6. CASE VerifyRaises
    BY <2>6 DEF VerifyRaises, Resolve
  <2>7. CASE RunVerify
    BY <2>7 DEF RunVerify, Accepted, RoundsLeft, SendBack, Deliver, Resolve
  <2> QED
    BY <1>5, <2>1, <2>2, <2>3, <2>4, <2>5, <2>6, <2>7 DEF CheckVerify
<1>6. CASE Close \/ LeaveTurn \/ FailRun
  <2>1. CASE FinalMeasure
    BY <2>1 DEF FinalMeasure, Measured, Unmeasured
  <2>2. CASE FinalResolve
    BY <2>2 DEF FinalResolve
  <2>3. CASE FlushTurn
    BY <2>3 DEF FlushTurn, Written
  <2>4. CASE BeginFinalize
    BY <2>4 DEF BeginFinalize
  <2>5. CASE EndFinalize
    BY <2>5 DEF EndFinalize
  <2>6. CASE WriteRunEnd
    BY <2>6 DEF WriteRunEnd, FinishReturns
  <2>7. CASE MarkRunEnd
    BY <2>7 DEF MarkRunEnd, FinishReturns
  <2>8. CASE LeaveTurn
    BY <2>8 DEF LeaveTurn, Written
  <2>9. CASE FailRun
    BY <2>9 DEF FailRun
  <2> QED
    BY <1>6, <2>1, <2>2, <2>3, <2>4, <2>5, <2>6, <2>7, <2>8, <2>9 DEF Close
<1>7. CASE Interrupt \/ Raise \/ LogFails
  <2>1. CASE InterruptTurn
    BY <2>1 DEF InterruptTurn, CutFlush, ForgetRunEnd
  <2>2. CASE InterruptLeaving
    BY <2>2 DEF InterruptLeaving, CutFlush, Written, ForgetRunEnd
  <2>3. CASE InterruptOutside
    BY <2>3 DEF InterruptOutside, ForgetRunEnd
  <2>4. CASE Raise
    BY <2>4 DEF Raise, Written
  <2>5. CASE LogFails
    BY <2>5 DEF LogFails, CutFlush
  <2> QED
    BY <1>7, <2>1, <2>2, <2>3, <2>4, <2>5 DEF Interrupt
<1>8. CASE UNCHANGED vars
  BY <1>8 DEF vars
<1> QED
  BY <1>1, <1>2, <1>3, <1>4, <1>5, <1>6, <1>7, <1>8 DEF Next, Step, Terminated

(* A counter is raised only in the loop, where it is below its limit, and    *)
(* reaching the limit leaves the loop (FailureTracker, ProgressTracker,      *)
(* MAX_TRUNCATED_REPLIES, --verify-rounds); one reply may take it past it.   *)
LEMMA CountersStep == LoopAssumption /\ FinishInv /\ CountersOK /\ LimitInv /\ [Next]_vars
  => (CountersOK /\ LimitInv)'
<1> SUFFICES ASSUME LoopAssumption, FinishInv, CountersOK, LimitInv, [Next]_vars
             PROVE  (CountersOK /\ LimitInv)'
  OBVIOUS
<1> USE DEF LoopAssumption, CountersOK, LimitInv, BelowLimits, FinishInv, UndecidedInv, Undecided,
     Loop,
     RaisedStatuses, Goto, GoOn, Finish, control, wire, trackers, gate, guard, lines, log, ended,
     closing
<1>1. CASE TakeStart \/ BeginTurn
  BY <1>1 DEF TakeStart, BeginTurn
<1>2. CASE Chat
  BY <1>2 DEF Chat, ChatTimesOut, ChatUnreadable, ChatAnswer, ChatTruncated, ChatEmpty, ChatCalls,
       CountTurn, Strikes, Aborts
<1>3. CASE Calls
  <2>1. CASE ExecuteCall
    BY <2>1 DEF ExecuteCall
  <2>2. CASE RefuseCall
    BY <2>2 DEF RefuseCall, Strikes, Aborts
  <2>3. CASE CutCall
    BY <2>3 DEF CutCall
  <2>4. CASE FinishCall
    BY <2>4 DEF FinishCall
  <2>5. CASE CallRaises
    BY <2>5 DEF CallRaises
  <2>6. CASE CallsDone
    BY <2>6 DEF CallsDone, CallsOver
  <2> QED
    BY <1>3, <2>1, <2>2, <2>3, <2>4, <2>5, <2>6 DEF Calls
<1>4. CASE CheckProgress \/ CheckNoChange
  BY <1>4 DEF CheckProgress, CheckNoChange, Measured, Unmeasured, Deliver
<1>5. CASE CheckVerify
  BY <1>5 DEF CheckVerify, UnguardedCompletion, CompletionCheckRaises, UnchangedCompletion,
       ChangedCompletion, NoGate, VerifyRaises, RunVerify, Unmeasured, Resolve, Measured,
       SendBack, Deliver, RefusedBefore, Accepted, RoundsLeft
<1>6. CASE Close \/ LeaveTurn \/ FailRun
  BY <1>6 DEF Close, FinalMeasure, FinalResolve, FlushTurn, BeginFinalize, EndFinalize,
       WriteRunEnd, MarkRunEnd, FinishReturns, LeaveTurn, FailRun, Measured, Unmeasured, Written
<1>7. CASE Interrupt \/ Raise \/ LogFails
  BY <1>7 DEF Interrupt, InterruptTurn, InterruptLeaving, InterruptOutside, Raise, LogFails,
       ForgetRunEnd,
       CutFlush, Written
<1>8. CASE UNCHANGED vars
  BY <1>8 DEF vars
<1> QED
  BY <1>1, <1>2, <1>3, <1>4, <1>5, <1>6, <1>7, <1>8 DEF Next, Step, Terminated

(* A reply has as many calls left as were not answered yet.                  *)
LEMMA ReplyStep == LoopAssumption /\ ReplyOK /\ [Next]_vars => ReplyOK'
<1> SUFFICES ASSUME LoopAssumption, ReplyOK, [Next]_vars PROVE ReplyOK'
  OBVIOUS
<1> USE DEF LoopAssumption, ReplyOK, Goto, GoOn, Finish, control, wire, trackers, gate, guard,
     lines, log, ended, closing
<1>1. CASE TakeStart \/ BeginTurn
  BY <1>1 DEF TakeStart, BeginTurn
<1>2. CASE Chat
  BY <1>2 DEF Chat, ChatTimesOut, ChatUnreadable, ChatAnswer, ChatTruncated, ChatEmpty, ChatCalls,
       CountTurn, Aborts
<1>3. CASE Calls
  <2>1. CASE ExecuteCall
    BY <2>1 DEF ExecuteCall, CallAnswered, NextCall
  <2>2. CASE RefuseCall
    BY <2>2 DEF RefuseCall, CallAnswered, NextCall, Aborts
  <2>3. CASE CutCall
    BY <2>3 DEF CutCall, CallAnswered, NextCall
  <2>4. CASE FinishCall
    BY <2>4 DEF FinishCall, CallAnswered, NextCall
  <2>5. CASE CallRaises
    BY <2>5 DEF CallRaises
  <2>6. CASE CallsDone
    BY <2>6 DEF CallsDone, CallsOver
  <2> QED
    BY <1>3, <2>1, <2>2, <2>3, <2>4, <2>5, <2>6 DEF Calls
<1>4. CASE CheckProgress \/ CheckNoChange
  BY <1>4 DEF CheckProgress, CheckNoChange, Measured, Unmeasured, Deliver
<1>5. CASE CheckVerify
  BY <1>5 DEF CheckVerify, UnguardedCompletion, CompletionCheckRaises, UnchangedCompletion,
       ChangedCompletion, NoGate, VerifyRaises, RunVerify, Unmeasured, Resolve, Measured,
       SendBack, Deliver, RefusedBefore, Accepted, RoundsLeft
<1>6. CASE Close \/ LeaveTurn \/ FailRun
  BY <1>6 DEF Close, FinalMeasure, FinalResolve, FlushTurn, BeginFinalize, EndFinalize,
       WriteRunEnd, MarkRunEnd, FinishReturns, LeaveTurn, FailRun, Measured, Unmeasured, Written
<1>7. CASE Interrupt \/ Raise \/ LogFails
  BY <1>7 DEF Interrupt, InterruptTurn, InterruptLeaving, InterruptOutside, Raise, LogFails,
       ForgetRunEnd,
       CutFlush, Written
<1>8. CASE UNCHANGED vars
  BY <1>8 DEF vars
<1> QED
  BY <1>1, <1>2, <1>3, <1>4, <1>5, <1>6, <1>7, <1>8 DEF Next, Step, Terminated

(* The open turn's lines are written when it closes, or lost with it.        *)
LEMMA BufferStep == BufferInv /\ [Next]_vars => BufferInv'
<1> SUFFICES ASSUME BufferInv, [Next]_vars PROVE BufferInv'
  OBVIOUS
<1> USE DEF BufferInv, Loop, Closing, Goto, GoOn, Finish, control, wire, trackers, gate, guard,
     lines, log, ended, closing
<1>1. CASE TakeStart \/ BeginTurn
  BY <1>1 DEF TakeStart, BeginTurn
<1>2. CASE Chat
  BY <1>2 DEF Chat, ChatTimesOut, ChatUnreadable, ChatAnswer, ChatTruncated, ChatEmpty, ChatCalls
<1>3. CASE Calls
  <2>1. CASE ExecuteCall
    BY <2>1 DEF ExecuteCall, CallAnswered
  <2>2. CASE RefuseCall
    <3>1. pc' \in {"calls", "measure"} /\ UNCHANGED <<inTurn, finishHeld, endsHeld, finishRecord>>
      BY <2>2 DEF RefuseCall, Aborts
    <3> QED
      BY <2>2, <3>1 DEF RefuseCall
  <2>3. CASE CutCall
    BY <2>3 DEF CutCall, CallAnswered
  <2>4. CASE FinishCall
    BY <2>4 DEF FinishCall, CallAnswered
  <2>5. CASE CallRaises
    BY <2>5 DEF CallRaises
  <2>6. CASE CallsDone
    BY <2>6 DEF CallsDone, CallsOver
  <2> QED
    BY <1>3, <2>1, <2>2, <2>3, <2>4, <2>5, <2>6 DEF Calls
<1>4. CASE CheckProgress \/ CheckNoChange
  BY <1>4 DEF CheckProgress, CheckNoChange, Measured, Unmeasured
<1>5. CASE CheckVerify
  BY <1>5 DEF CheckVerify, UnguardedCompletion, CompletionCheckRaises, UnchangedCompletion,
       ChangedCompletion, NoGate, VerifyRaises, RunVerify, Unmeasured, Resolve, Measured,
       SendBack, RefusedBefore, Accepted, RoundsLeft
<1>6. CASE Close \/ LeaveTurn \/ FailRun
  BY <1>6 DEF Close, FinalMeasure, FinalResolve, FlushTurn, BeginFinalize, EndFinalize,
       WriteRunEnd, MarkRunEnd, FinishReturns, LeaveTurn, FailRun, Measured, Unmeasured, Written
<1>7. CASE Interrupt \/ Raise \/ LogFails
  BY <1>7 DEF Interrupt, InterruptTurn, InterruptLeaving, InterruptOutside, Raise, LogFails,
       ForgetRunEnd,
       CutFlush, Written
<1>8. CASE UNCHANGED vars
  BY <1>8 DEF vars
<1> QED
  BY <1>1, <1>2, <1>3, <1>4, <1>5, <1>6, <1>7, <1>8 DEF Next, Step, Terminated

(* What reaches the disk was buffered, with the result it has by then.       *)
LEMMA LogStep == KindsOK /\ BufferInv /\ LogOK /\ [Next]_vars => LogOK'
<1> SUFFICES ASSUME KindsOK, BufferInv, LogOK, [Next]_vars PROVE LogOK'
  OBVIOUS
<1> USE DEF KindsOK, BufferInv, LogOK, Goto, GoOn, Finish, control, wire, trackers, gate, guard,
     lines, log, ended, closing
<1>1. CASE TakeStart \/ BeginTurn
  BY <1>1 DEF TakeStart, BeginTurn
<1>2. CASE Chat
  BY <1>2 DEF Chat, ChatTimesOut, ChatUnreadable, ChatAnswer, ChatTruncated, ChatEmpty, ChatCalls,
       CountTurn, Strikes, Aborts
<1>3. CASE Calls
  BY <1>3 DEF Calls, ExecuteCall, RefuseCall, CutCall, FinishCall, CallRaises, CallsDone, Repeats,
       CallAnswered, NextCall, Strikes, Aborts, CallsOver
<1>4. CASE CheckProgress \/ CheckNoChange
  BY <1>4 DEF CheckProgress, CheckNoChange, Measured, Unmeasured, Deliver
<1>5. CASE CheckVerify
  BY <1>5 DEF CheckVerify, UnguardedCompletion, CompletionCheckRaises, UnchangedCompletion,
       ChangedCompletion, NoGate, VerifyRaises, RunVerify, Unmeasured, Resolve, Measured,
       SendBack, Deliver, RefusedBefore, Accepted, RoundsLeft
<1>6. CASE Close \/ LeaveTurn \/ FailRun
  BY <1>6 DEF Close, FinalMeasure, FinalResolve, FlushTurn, BeginFinalize, EndFinalize,
       WriteRunEnd, MarkRunEnd, FinishReturns, LeaveTurn, FailRun, Measured, Unmeasured, Written
<1>7. CASE Interrupt \/ Raise \/ LogFails
  BY <1>7 DEF Interrupt, InterruptTurn, InterruptLeaving, InterruptOutside, Raise, LogFails,
       ForgetRunEnd,
       CutFlush, Written
<1>8. CASE UNCHANGED vars
  BY <1>8 DEF vars
<1> QED
  BY <1>1, <1>2, <1>3, <1>4, <1>5, <1>6, <1>7, <1>8 DEF Next, Step, Terminated

(* The streak of no call.                                                    *)
LEMMA NoStreakType == LoopAssumption => NoStreak \in Streaks
  BY DEF LoopAssumption, NoStreak, Streaks

(* note_bash: a streak counts up to --stuck-repeats and no further.          *)
LEMMA NotedType ==
  ASSUME LoopAssumption, StreakOK, NEW bash \in {NoBash} \cup Failing \cup Commands \X {"pass"}
  PROVE  Noted(bash) \in Streaks
<1>1. streak \in Streaks /\ StuckRepeats \in Nat
  BY DEF StreakOK, LoopAssumption
<1>2. NoStreak \in Streaks
  BY NoStreakType
<1>3. CASE bash = NoBash \/ StuckRepeats = 0
  BY <1>1, <1>3 DEF Noted, NoteBash
<1>4. CASE bash # NoBash /\ StuckRepeats # 0 /\ bash[2] = "pass"
  BY <1>1, <1>2, <1>4 DEF Noted, NoteBash
<1>5. CASE bash # NoBash /\ StuckRepeats # 0 /\ bash[2] # "pass"
  <2>1. bash \in Failing
    BY <1>5
  <2>2. <<bash[1], bash[2]>> \in Failing
    BY <2>1 DEF Failing
  <2> QED
    BY <1>1, <1>5, <2>2 DEF Noted, NoteBash, Streaks
<1> QED
  BY <1>3, <1>4, <1>5


(* Only bash results and a refused completion touch the streak.              *)
LEMMA StreakStep == LoopAssumption /\ StreakOK /\ [Next]_vars => StreakOK'
<1> SUFFICES ASSUME LoopAssumption, StreakOK, [Next]_vars PROVE StreakOK'
  OBVIOUS
<1>1. ASSUME NEW bash \in {NoBash} \cup Failing \cup Commands \X {"pass"}, Repeats(bash)
      PROVE  StreakOK'
  BY <1>1, NotedType DEF Repeats, StreakOK
<1>2. CASE ExecuteCall \/ RefuseCall \/ CutCall
  <2>1. PICK bash \in {NoBash} \cup Failing \cup Commands \X {"pass"} : Repeats(bash)
    BY <1>2 DEF ExecuteCall, RefuseCall, CutCall
  <2> QED
    BY <1>1, <2>1
<1>3. CASE UnchangedCompletion \/ RunVerify
  <2>1. streak' = streak \/ streak' = NoStreak
    BY <1>3 DEF UnchangedCompletion, RunVerify, SendBack
  <2> QED
    BY <2>1, NoStreakType DEF StreakOK
<1>4. CASE \/ TakeStart \/ BeginTurn \/ Chat \/ FinishCall \/ CallRaises \/ CallsDone \/ CheckProgress
           \/ CheckNoChange \/ UnguardedCompletion \/ CompletionCheckRaises \/ ChangedCompletion
           \/ NoGate \/ VerifyRaises \/ Close \/ LeaveTurn \/ FailRun \/ Interrupt \/ Raise \/ LogFails
           \/ UNCHANGED vars
  <2>1. UNCHANGED streak
    BY <1>4 DEF vars, trackers, TakeStart, BeginTurn, Chat, ChatTimesOut, ChatUnreadable,
         ChatAnswer, ChatTruncated,
         ChatEmpty, ChatCalls, FinishCall, CallRaises, CallsDone, CheckProgress, CheckNoChange,
         UnguardedCompletion,
         CompletionCheckRaises, ChangedCompletion, NoGate, VerifyRaises, Close, FinalMeasure,
         FinalResolve,
         FlushTurn, BeginFinalize, EndFinalize, WriteRunEnd, MarkRunEnd, FinishReturns, LeaveTurn,
         FailRun, Interrupt, InterruptTurn,
         InterruptLeaving, InterruptOutside, Raise, LogFails, ForgetRunEnd
  <2> QED
    BY <2>1 DEF StreakOK
<1> QED
  BY <1>2, <1>3, <1>4 DEF Next, Step, Calls, CheckVerify, Terminated

(* Together.                                                                 *)
LEMMA TypeStep == FinishInv /\ TypeInv /\ [Next]_vars => TypeInv'
  BY LoopAssumption, KindsStep, FlagsStep, CountersStep, ReplyStep, StreakStep, LogStep, BufferStep
     DEF TypeInv

(* So every variable always has its type.                                    *)
LEMMA TypeInvariant == Spec => []TypeInv
  BY TypeInit, TypeStep, FinishInvariant, PTL DEF Spec

(* The loop goes on only below every limit, and no counter outgrows its own  *)
(* by more than the malformed entries of one reply: every tracker ends the   *)
(* run when it is reached, whatever the model answers and whatever Ctrl-C    *)
(* interrupts.                                                               *)
THEOREM TypeCorrect == Spec => []TypeOK
  BY TypeInvariant, TypeParts, PTL

-----------------------------------------------------------------------------
(* The history sent to the model.                                           *)

\* deliver() appends a user message only where the turn has no tool result,
\* and then the history ends in the model's own message.
HistoryInv ==
  /\ pc \in {"start", "turn", "chat"} => last \in {"user", "tool"}
  /\ pc = "leave" /\ ending = "none" => last \in {"user", "tool"}
  /\ pc = "chat" => ~toolMsgs
  /\ pc \in {"calls", "complete", "verify", "progress", "no_change"} =>
       last = IF toolMsgs THEN "tool" ELSE "assistant"

\* The calls of a reply are all answered before anything else is done.
AnsweredInv ==
  /\ pc \in {"start", "turn", "chat", "complete", "verify", "progress", "no_change"} =>
       reply.left = 0
  /\ pc = "leave" /\ ending = "none" => reply.left = 0

(* The history starts with the task, a user message.                        *)
LEMMA HistoryInit == Init => HistoryInv /\ AnsweredInv
  BY DEF Init, HistoryInv, AnsweredInv

(* Every turn that goes on ends in a tool result or in a delivered message.  *)
LEMMA HistoryStep == KindsOK /\ FinishInv /\ HistoryInv /\ [Next]_vars => HistoryInv'
<1> SUFFICES ASSUME KindsOK, FinishInv, HistoryInv, [Next]_vars PROVE HistoryInv'
  OBVIOUS
<1> USE DEF HistoryInv, KindsOK, FinishInv, UndecidedInv, Undecided, Loop, Closing,
     RaisedStatuses, Goto, GoOn, Finish, control, wire, trackers, gate, guard, lines, log, ended,
     closing
<1>1. CASE TakeStart \/ BeginTurn
  BY <1>1 DEF TakeStart, BeginTurn
<1>2. CASE Chat
  BY <1>2 DEF Chat, ChatTimesOut, ChatUnreadable, ChatAnswer, ChatTruncated, ChatEmpty, ChatCalls,
       CountTurn, Aborts
<1>3. CASE Calls
  <2>1. CASE ExecuteCall
    BY <2>1 DEF ExecuteCall, CallAnswered, NextCall
  <2>2. CASE RefuseCall
    BY <2>2 DEF RefuseCall, CallAnswered, NextCall, Aborts
  <2>3. CASE CutCall
    BY <2>3 DEF CutCall, CallAnswered, NextCall
  <2>4. CASE FinishCall
    BY <2>4 DEF FinishCall, CallAnswered, NextCall
  <2>5. CASE CallRaises
    BY <2>5 DEF CallRaises
  <2>6. CASE CallsDone
    BY <2>6 DEF CallsDone, CallsOver
  <2> QED
    BY <1>3, <2>1, <2>2, <2>3, <2>4, <2>5, <2>6 DEF Calls
<1>4. CASE CheckProgress \/ CheckNoChange
  BY <1>4 DEF CheckProgress, CheckNoChange, Measured, Unmeasured, Deliver, NeedsUser
<1>5. CASE CheckVerify
  BY <1>5 DEF CheckVerify, UnguardedCompletion, CompletionCheckRaises, UnchangedCompletion,
       ChangedCompletion, NoGate, VerifyRaises, RunVerify, Unmeasured, Resolve, Measured,
       SendBack, Deliver, RefusedBefore, NeedsUser, Accepted, RoundsLeft
<1>6. CASE Close \/ LeaveTurn \/ FailRun
  BY <1>6 DEF Close, FinalMeasure, FinalResolve, FlushTurn, BeginFinalize, EndFinalize,
       WriteRunEnd, MarkRunEnd, FinishReturns, LeaveTurn, FailRun, Measured, Unmeasured, Written
<1>7. CASE Interrupt \/ Raise \/ LogFails
  BY <1>7 DEF Interrupt, InterruptTurn, InterruptLeaving, InterruptOutside, Raise, LogFails,
       ForgetRunEnd,
       CutFlush, Written
<1>8. CASE UNCHANGED vars
  BY <1>8 DEF vars
<1> QED
  BY <1>1, <1>2, <1>3, <1>4, <1>5, <1>6, <1>7, <1>8 DEF Next, Step, Terminated

(* A turn leaves its calls only when none is left.                           *)
LEMMA AnsweredStep == ReplyOK /\ FinishInv /\ AnsweredInv /\ [Next]_vars => AnsweredInv'
<1> SUFFICES ASSUME ReplyOK, FinishInv, AnsweredInv, [Next]_vars PROVE AnsweredInv'
  OBVIOUS
<1> USE DEF ReplyOK, AnsweredInv, FinishInv, UndecidedInv, Undecided, Loop, Closing,
     RaisedStatuses, Goto, GoOn, Finish, control, wire, trackers, gate, guard, lines, log, ended,
     closing
<1>1. CASE TakeStart \/ BeginTurn
  BY <1>1 DEF TakeStart, BeginTurn
<1>2. CASE Chat
  BY <1>2 DEF Chat, ChatTimesOut, ChatUnreadable, ChatAnswer, ChatTruncated, ChatEmpty, ChatCalls,
       CountTurn, Aborts
<1>3. CASE Calls
  BY <1>3 DEF Calls, ExecuteCall, RefuseCall, CutCall, FinishCall, CallRaises, CallsDone,
       CallAnswered, NextCall, Aborts, CallsOver
<1>4. CASE CheckProgress \/ CheckNoChange
  BY <1>4 DEF CheckProgress, CheckNoChange, Measured, Unmeasured, Deliver
<1>5. CASE CheckVerify
  BY <1>5 DEF CheckVerify, UnguardedCompletion, CompletionCheckRaises, UnchangedCompletion,
       ChangedCompletion, NoGate, VerifyRaises, RunVerify, Unmeasured, Resolve, Measured,
       SendBack, Deliver, RefusedBefore, Accepted, RoundsLeft
<1>6. CASE Close \/ LeaveTurn \/ FailRun
  BY <1>6 DEF Close, FinalMeasure, FinalResolve, FlushTurn, BeginFinalize, EndFinalize,
       WriteRunEnd, MarkRunEnd, FinishReturns, LeaveTurn, FailRun, Measured, Unmeasured, Written
<1>7. CASE Interrupt \/ Raise \/ LogFails
  BY <1>7 DEF Interrupt, InterruptTurn, InterruptLeaving, InterruptOutside, Raise, LogFails,
       ForgetRunEnd,
       CutFlush, Written
<1>8. CASE UNCHANGED vars
  BY <1>8 DEF vars
<1> QED
  BY <1>1, <1>2, <1>3, <1>4, <1>5, <1>6, <1>7, <1>8 DEF Next, Step, Terminated

(* So it always holds.                                                       *)
LEMMA HistoryInvariant == Spec => [](HistoryInv /\ AnsweredInv)
<1>1. FinishInv /\ TypeInv /\ (HistoryInv /\ AnsweredInv) /\ [Next]_vars
        => (HistoryInv /\ AnsweredInv)'
  BY HistoryStep, AnsweredStep DEF TypeInv
<1> QED
  BY <1>1, HistoryInit, FinishInvariant, TypeInvariant, PTL DEF Spec

(* The model is asked only with a history every provider accepts: it ends in *)
(* a user message or a tool result, with a result for every call (deliver,   *)
(* append_assistant).                                                        *)
THEOREM HistoryIsAccepted == Spec => []HistoryIsComplete
<1>1. HistoryInv /\ AnsweredInv => HistoryIsComplete
  BY DEF HistoryInv, AnsweredInv, HistoryIsComplete
<1> QED
  BY <1>1, HistoryInvariant, PTL

(* Only deliver() appends a user message.                                    *)
LEMMA UserStep ==
  FinishInv /\ HistoryInv /\ [Next]_vars => [last' = "user" => last \in {"assistant", "user"}]_vars
<1> SUFFICES ASSUME FinishInv, HistoryInv, [Next]_vars
             PROVE  [last' = "user" => last \in {"assistant", "user"}]_vars
  OBVIOUS
<1> USE DEF HistoryInv, Goto, GoOn, Finish, control, wire, trackers, gate, guard, lines, log, ended,
     closing
<1>1. CASE TakeStart \/ BeginTurn
  BY <1>1 DEF TakeStart, BeginTurn
<1>2. CASE Chat
  BY <1>2 DEF Chat, ChatTimesOut, ChatUnreadable, ChatAnswer, ChatTruncated, ChatEmpty, ChatCalls
<1>3. CASE Calls
  BY <1>3 DEF Calls, ExecuteCall, RefuseCall, CutCall, FinishCall, CallRaises, CallsDone,
       CallAnswered, CallsOver
<1>4. CASE CheckProgress \/ CheckNoChange
  BY <1>4 DEF CheckProgress, CheckNoChange, Measured, Unmeasured, Deliver, NeedsUser
<1>5. CASE CheckVerify
  BY <1>5 DEF CheckVerify, UnguardedCompletion, CompletionCheckRaises, UnchangedCompletion,
       ChangedCompletion, NoGate, VerifyRaises, RunVerify, Unmeasured, Measured, SendBack,
       Deliver, RefusedBefore, NeedsUser, Accepted, RoundsLeft
<1>6. CASE Close \/ LeaveTurn \/ FailRun
  BY <1>6 DEF Close, FinalMeasure, FinalResolve, FlushTurn, BeginFinalize, EndFinalize,
       WriteRunEnd, MarkRunEnd, FinishReturns, LeaveTurn, FailRun, Measured, Unmeasured, Written
<1>7. CASE Interrupt \/ Raise \/ LogFails
  BY <1>7 DEF Interrupt, InterruptTurn, InterruptLeaving, InterruptOutside, Raise, LogFails,
       ForgetRunEnd,
       CutFlush, Written
<1>8. CASE UNCHANGED vars
  BY <1>8 DEF vars
<1> QED
  BY <1>1, <1>2, <1>3, <1>4, <1>5, <1>6, <1>7, <1>8 DEF Next, Step, Terminated

(* A user message follows only an assistant's or another user's, never a     *)
(* tool result: what the harness says after one is appended to it (deliver). *)
THEOREM UserMessagesFollow == Spec => UserFollowsAssistant
  BY UserStep, FinishInvariant, HistoryInvariant, PTL DEF Spec, UserFollowsAssistant

-----------------------------------------------------------------------------
(* The change guard.                                                        *)

Truth == verifyWrote \/ (changed = "yes" <=> tree # fpStart)

\* finish() has measured, or did not have to.
Settled == {"resolve", "flush", "finalize", "exporting", "run_end", "written"}

\* A fingerprint of this turn was taken after the turn's calls, so only the
\* verify command can have written since.
MeasureInv ==
  /\ pc = "start" => changed = "null"
  /\ changed # "null" => fpStart # Off
  /\ fpTurn <= turns
  /\ pc \in {"calls", "complete", "progress", "no_change"} => fpTurn < turns
  /\ fpTurn = turns /\ changed # "null" => Truth
  /\ pc \in Settled /\ ending \notin Unmeasurable /\ changed # "null" => Truth
  /\ runEnd \notin Unmeasurable /\ handler \notin {"fail", "lost"} /\ changed # "null" => Truth
  /\ pc = "verify" /\ RequireChanges /\ fpStart # Off /\ fpTurn = turns => changed = "yes"

(* Nothing was measured before the first turn.                               *)
LEMMA MeasureInit == Init => MeasureInv
  BY DEF Init, MeasureInv, Truth, Settled, Unmeasurable

(* The worktree is written only by a call, which leaves the fingerprint a     *)
(* turn behind, or by the verify command.                                     *)
LEMMA MeasureStep == CountersOK /\ FinishInv /\ MeasureInv /\ [Next]_vars => MeasureInv'
<1> SUFFICES ASSUME CountersOK, FinishInv, MeasureInv, [Next]_vars PROVE MeasureInv'
  OBVIOUS
<1> USE DEF MeasureInv, Settled, Unmeasurable, Truth, FinishInv, UndecidedInv, Undecided, Loop,
     Closing, RaisedStatuses, CountersOK, CountTurn, Goto, GoOn, Finish, control, wire, trackers,
     gate, guard, lines, log, ended, closing
<1>1. CASE TakeStart \/ BeginTurn
  BY <1>1 DEF TakeStart, BeginTurn
<1>2. CASE Chat
  <2>1. CASE ChatTimesOut
    BY <2>1 DEF ChatTimesOut
  <2>2. CASE ChatUnreadable
    BY <2>2 DEF ChatUnreadable
  <2>3. CASE ChatAnswer
    BY <2>3 DEF ChatAnswer
  <2>4. CASE ChatTruncated
    BY <2>4 DEF ChatTruncated
  <2>5. CASE ChatEmpty
    BY <2>5 DEF ChatEmpty
  <2>6. CASE ChatCalls
    BY <2>6 DEF ChatCalls
  <2> QED
    BY <1>2, <2>1, <2>2, <2>3, <2>4, <2>5, <2>6 DEF Chat
<1>3. CASE Calls
  <2>1. CASE ExecuteCall
    BY <2>1 DEF ExecuteCall, CallAnswered, NextCall
  <2>2. CASE RefuseCall
    BY <2>2 DEF RefuseCall, CallAnswered, NextCall
  <2>3. CASE CutCall
    BY <2>3 DEF CutCall, CallAnswered, NextCall
  <2>4. CASE FinishCall
    BY <2>4 DEF FinishCall, CallAnswered, NextCall
  <2>5. CASE CallRaises
    BY <2>5 DEF CallRaises
  <2>6. CASE CallsDone
    BY <2>6 DEF CallsDone, CallsOver
  <2> QED
    BY <1>3, <2>1, <2>2, <2>3, <2>4, <2>5, <2>6 DEF Calls
<1>4. CASE CheckProgress \/ CheckNoChange
  BY <1>4 DEF CheckProgress, CheckNoChange, Measured, Unmeasured, CheckDue
<1>5. CASE CheckVerify
  <2>1. CASE UnguardedCompletion
    BY <2>1 DEF UnguardedCompletion
  <2>2. CASE CompletionCheckRaises
    BY <2>2 DEF CompletionCheckRaises, Unmeasured, Resolve
  <2>3. CASE UnchangedCompletion
    BY <2>3 DEF UnchangedCompletion, Measured, SendBack, Resolve, RefusedBefore, ChangesRequired
  <2>4. CASE ChangedCompletion
    BY <2>4 DEF ChangedCompletion, Measured, Unmeasured
  <2>5. CASE NoGate
    BY <2>5 DEF NoGate, Resolve
  <2>6. CASE VerifyRaises
    BY <2>6 DEF VerifyRaises, Resolve
  <2>7. CASE RunVerify
    BY <2>7 DEF RunVerify, Accepted, RoundsLeft, SendBack, Resolve
  <2> QED
    BY <1>5, <2>1, <2>2, <2>3, <2>4, <2>5, <2>6, <2>7 DEF CheckVerify
<1>6. CASE Close \/ LeaveTurn \/ FailRun
  <2>1. CASE FinalMeasure
    BY <2>1 DEF FinalMeasure, Measured, Unmeasured, MeasureAgain
  <2>2. CASE FinalResolve
    BY <2>2 DEF FinalResolve
  <2>3. CASE FlushTurn
    BY <2>3 DEF FlushTurn, Written
  <2>4. CASE BeginFinalize
    BY <2>4 DEF BeginFinalize
  <2>5. CASE EndFinalize
    BY <2>5 DEF EndFinalize
  <2>6. CASE WriteRunEnd
    BY <2>6 DEF WriteRunEnd, FinishReturns
  <2>7. CASE LeaveTurn
    BY <2>7 DEF LeaveTurn, Written
  <2>8. CASE FailRun
    BY <2>8 DEF FailRun
  <2>9. CASE MarkRunEnd
    BY <2>9 DEF MarkRunEnd, FinishReturns
  <2> QED
    BY <1>6, <2>1, <2>2, <2>3, <2>4, <2>5, <2>6, <2>7, <2>8, <2>9 DEF Close
<1>7. CASE Interrupt \/ Raise \/ LogFails
  <2>1. CASE InterruptTurn
    BY <2>1 DEF InterruptTurn, CutFlush, ForgetRunEnd
  <2>2. CASE InterruptLeaving
    BY <2>2 DEF InterruptLeaving, CutFlush, Written, ForgetRunEnd
  <2>3. CASE InterruptOutside
    BY <2>3 DEF InterruptOutside, ForgetRunEnd
  <2>4. CASE Raise
    BY <2>4 DEF Raise, Written
  <2>5. CASE LogFails
    BY <2>5 DEF LogFails, CutFlush
  <2> QED
    BY <1>7, <2>1, <2>2, <2>3, <2>4, <2>5 DEF Interrupt
<1>8. CASE UNCHANGED vars
  BY <1>8 DEF vars
<1> QED
  BY <1>1, <1>2, <1>3, <1>4, <1>5, <1>6, <1>7, <1>8 DEF Next, Step, Terminated

(* So it always holds.                                                       *)
LEMMA MeasureInvariant == Spec => []MeasureInv
<1>1. FinishInv /\ TypeInv /\ MeasureInv /\ [Next]_vars => MeasureInv'
  BY MeasureStep DEF TypeInv
<1> QED
  BY <1>1, MeasureInit, FinishInvariant, TypeInvariant, PTL DEF Spec

(* What run_end says of the worktree is true of the worktree the run leaves, *)
(* however many calls, sendbacks and interrupts came after a measurement.    *)
THEOREM ChangedIsNotStale == Spec => []ChangedIsTrue
<1>1. MeasureInv => ChangedIsTrue
  BY DEF MeasureInv, ChangedIsTrue, Truth
<1> QED
  BY <1>1, MeasureInvariant, PTL

(* Only check_verify completes a run, and past the change guard.             *)
LEMMA CompletesStep ==
  FinishInv /\ MeasureInv /\ [Next]_vars
    => [Completes /\ RequireChanges /\ fpStart # Off /\ fpTurn = turns => changed = "yes"]_vars
<1> SUFFICES ASSUME FinishInv, MeasureInv, Next, Completes
             PROVE  RequireChanges /\ fpStart # Off /\ fpTurn = turns => changed = "yes"
  OBVIOUS
<1>1. pc = "verify"
  <2> USE DEF Completes, RaisedStatuses, Goto, GoOn, Finish, control, wire, trackers, gate, guard,
       lines, log, ended, closing
  <2>1. CASE TakeStart \/ BeginTurn
    BY <2>1 DEF TakeStart, BeginTurn
  <2>2. CASE Chat
    BY <2>2 DEF Chat, ChatTimesOut, ChatUnreadable, ChatAnswer, ChatTruncated, ChatEmpty, ChatCalls
  <2>3. CASE Calls
    BY <2>3 DEF Calls, ExecuteCall, RefuseCall, CutCall, FinishCall, CallRaises, CallsDone,
         CallsOver
  <2>4. CASE CheckProgress \/ CheckNoChange
    BY <2>4 DEF CheckProgress, CheckNoChange
  <2>5. CASE CheckVerify
    BY <2>5 DEF CheckVerify, UnguardedCompletion, CompletionCheckRaises, UnchangedCompletion,
         ChangedCompletion, NoGate, VerifyRaises, RunVerify, SendBack, RefusedBefore, Accepted
  <2>6. CASE Close \/ LeaveTurn \/ FailRun
    BY <2>6 DEF Close, FinalMeasure, FinalResolve, FlushTurn, BeginFinalize, EndFinalize,
         WriteRunEnd, MarkRunEnd, FinishReturns, LeaveTurn, FailRun
  <2>7. CASE Interrupt \/ Raise \/ LogFails
    BY <2>7 DEF Interrupt, InterruptTurn, InterruptLeaving, InterruptOutside, Raise, LogFails,
         ForgetRunEnd
  <2>8. CASE UNCHANGED vars
    BY <2>8 DEF vars
  <2> QED
    BY <2>1, <2>2, <2>3, <2>4, <2>5, <2>6, <2>7, <2>8 DEF Next, Step, Terminated
<1> QED
  BY <1>1 DEF MeasureInv

(* A resume with feedback is never completed on a worktree measured at that  *)
(* completion to be the one it started from.                                 *)
THEOREM FeedbackIsActedOn == Spec => FeedbackChangesSomething
  BY CompletesStep, FinishInvariant, MeasureInvariant, PTL DEF Spec, FeedbackChangesSomething

-----------------------------------------------------------------------------
(* The result of a finish call.                                             *)

RecordInv ==
  /\ pc \in {"chat", "progress", "no_change"} => finishRecord = "none"
  /\ pc \in {"leave", "flush", "finalize", "exporting", "run_end", "written"}
       => finishRecord # "provisional"
  /\ finishRecord = "done" => ending \in {"completed", "interrupted"} \/ handler = "lost"
  /\ FinishIsHonest

(* No finish call was made yet.                                              *)
LEMMA RecordInit == Init => RecordInv
  BY DEF Init, RecordInv, FinishIsHonest

(* finish() resolves the result before it writes the turn, and only a second *)
(* Ctrl-C or an unconverted exception writes it unresolved.                   *)
LEMMA RecordStep == FinishInv /\ BufferInv /\ RecordInv /\ [Next]_vars => RecordInv'
<1> SUFFICES ASSUME FinishInv, BufferInv, RecordInv, [Next]_vars PROVE RecordInv'
  OBVIOUS
<1> USE DEF RecordInv, FinishIsHonest, BufferInv, FinishInv, UndecidedInv, Undecided, Loop,
     Closing, RaisedStatuses, Goto, GoOn, Finish, control, wire, trackers, gate, guard, lines, log,
     ended, closing
<1>1. CASE TakeStart \/ BeginTurn
  BY <1>1 DEF TakeStart, BeginTurn
<1>2. CASE Chat
  BY <1>2 DEF Chat, ChatTimesOut, ChatUnreadable, ChatAnswer, ChatTruncated, ChatEmpty, ChatCalls,
       CountTurn
<1>3. CASE Calls
  <2>1. CASE ExecuteCall
    BY <2>1 DEF ExecuteCall, CallAnswered, NextCall
  <2>2. CASE RefuseCall
    BY <2>2 DEF RefuseCall, CallAnswered, NextCall
  <2>3. CASE CutCall
    BY <2>3 DEF CutCall, CallAnswered, NextCall
  <2>4. CASE FinishCall
    BY <2>4 DEF FinishCall, CallAnswered, NextCall
  <2>5. CASE CallRaises
    BY <2>5 DEF CallRaises
  <2>6. CASE CallsDone
    BY <2>6 DEF CallsDone, CallsOver
  <2> QED
    BY <1>3, <2>1, <2>2, <2>3, <2>4, <2>5, <2>6 DEF Calls
<1>4. CASE CheckProgress \/ CheckNoChange
  BY <1>4 DEF CheckProgress, CheckNoChange, Measured, Unmeasured
<1>5. CASE CheckVerify
  BY <1>5 DEF CheckVerify, UnguardedCompletion, CompletionCheckRaises, UnchangedCompletion,
       ChangedCompletion, NoGate, VerifyRaises, RunVerify, Unmeasured, Resolve, Measured,
       SendBack, RefusedBefore, Accepted, RoundsLeft
<1>6. CASE Close \/ LeaveTurn \/ FailRun
  BY <1>6 DEF Close, FinalMeasure, FinalResolve, FlushTurn, BeginFinalize, EndFinalize,
       WriteRunEnd, MarkRunEnd, FinishReturns, LeaveTurn, FailRun, Measured, Unmeasured,
       StillProvisional, Written
<1>7. CASE Interrupt \/ Raise \/ LogFails
  BY <1>7 DEF Interrupt, InterruptTurn, InterruptLeaving, InterruptOutside, Raise, LogFails,
       ForgetRunEnd,
       CutFlush, Written
<1>8. CASE UNCHANGED vars
  BY <1>8 DEF vars
<1> QED
  BY <1>1, <1>2, <1>3, <1>4, <1>5, <1>6, <1>7, <1>8 DEF Next, Step, Terminated

(* The transcript never claims a finish that the run's status denies.        *)
THEOREM FinishIsHonestAlways == Spec => []FinishIsHonest
<1>1. FinishInv /\ TypeInv /\ RecordInv /\ [Next]_vars => RecordInv'
  BY RecordStep DEF TypeInv
<1>2. RecordInv => FinishIsHonest
  BY DEF RecordInv
<1> QED
  BY <1>1, <1>2, RecordInit, FinishInvariant, TypeInvariant, PTL DEF Spec
=============================================================================
