------------------------------ MODULE RunLoop ------------------------------
(***************************************************************************)
(* The loop of one run (dirtywork/runner.py): the turns, the trackers that *)
(* end a run early, the change guard and the verify gate on the way to     *)
(* "completed", and finish(), which may be interrupted and entered again.  *)
(*                                                                         *)
(* Each label of pc is a point where Ctrl-C can land: a model request, a   *)
(* tool call, a sandbox command, a write.  Of the history sent to the      *)
(* model only the role of its last entry is kept; of the transcript only   *)
(* the result of the turn's finish calls and run_end.                      *)
(***************************************************************************)
EXTENDS Integers, FiniteSets

CONSTANTS
  MaxTurns,        \* --max-turns
  MaxCalls,        \* tool calls in one reply
  MaxMalformed,    \* malformed entries in one reply
  FailureKinds,    \* FAILURE_KINDS
  MaxConsecutive,  \* MAX_CONSECUTIVE_FAILURES, of one kind
  MaxTotal,        \* MAX_TOTAL_CONSECUTIVE_FAILURES
  MaxTruncated,    \* MAX_TRUNCATED_REPLIES
  StallTurns,      \* --stall-turns; 0 disables it
  StuckRepeats,    \* --stuck-repeats; 0 disables it
  Commands,        \* bash commands
  Outputs,         \* failing results of one, volatile tokens stripped
  Verify,          \* --verify is given
  VerifyRounds,    \* --verify-rounds
  Guarded,         \* the sandbox can run the fingerprint
  NoChangeTurns,   \* the change check's period; 0 disables it
  RequireChanges   \* a resume with --feedback

ASSUME LoopAssumption ==
  /\ MaxTurns \in Nat /\ MaxCalls \in Nat \ {0} /\ MaxMalformed \in Nat \ {0}
  /\ {"malformed_entry", "empty_reply"} \subseteq FailureKinds
  /\ MaxConsecutive \in Nat \ {0} /\ MaxTotal \in Nat \ {0} /\ MaxTruncated \in Nat \ {0}
  /\ StallTurns \in Nat /\ StuckRepeats \in Nat
  /\ Verify \in BOOLEAN /\ VerifyRounds \in Nat
  /\ Guarded \in BOOLEAN /\ NoChangeTurns \in Nat /\ RequireChanges \in BOOLEAN

VARIABLES
  pc,
  handler,      \* "turn": one_turn(); "inner", "outer": the Ctrl-C handlers; "fail": _fail_run;
                \* "lost": _fail_run, because the transcript could not be written
  inTurn,       \* transcript.turn() is open: writes are buffered
  ending,       \* the status finish() was last called with
  turns,
  reply,        \* of the current reply: calls left, and whether it was cut off
  last,         \* the role of the last message of the history
  toolMsgs,     \* turn_tool_msgs is not empty
  finishRecord, \* the result of the turn's finish calls
  failures,     \* FailureTracker.counts
  total,        \* FailureTracker.total
  idle,         \* ProgressTracker.idle_turns
  progressed,   \* ProgressTracker._progressed
  streak,       \* RepeatTracker: the failing call and how often it ran
  stuck,        \* stuck_on was latched
  truncations,
  counted,      \* this turn's truncation was counted
  verified,     \* verify_state: "none", "passed" or "failed"
  rounds,       \* verify_rounds_used
  tree,         \* the worktree
  fpStart,      \* the fingerprint at the start; Off when the guard is off
  fpTurn,       \* the turn of the newest fingerprint
  changed,      \* run_end.changed
  refusals,     \* unchanged_finishes
  finalize,     \* finalize_state
  runEnd,       \* the status in the newest run_end; "none" until there is one
  runEndWritten,
  finishHeld,   \* the open turn still holds the finish call's line
  endsHeld,     \* and so many run_end lines
  \* History variables, read by no action.
  disk,         \* results of finish calls on disk
  runEnds,      \* run_end lines on disk
  exports,      \* calls of the finalize callback
  unmarked,     \* run_end lines that Ctrl-C kept from being marked as written
  verifyWrote,  \* the verify command wrote after the newest fingerprint
  writtenAfterVerify  \* the worktree changed after the last verify command

wire     == <<last, toolMsgs>>
trackers == <<failures, total, idle, progressed, streak, stuck, truncations, counted>>
gate     == <<verified, rounds, writtenAfterVerify>>
guard    == <<fpStart, fpTurn, changed, refusals>>
lines    == <<finishHeld, endsHeld, disk, runEnds>>
log      == <<finishRecord, lines>>
ended    == <<runEnd, runEndWritten, unmarked>>
closing  == <<finalize, ended, exports>>
control  == <<handler, inTurn, ending>>
vars == <<pc, control, turns, reply, wire, trackers, gate, tree, guard, verifyWrote,
          log, closing>>

Off   == "off"
Trees == {"base", "edited"}

NoStreak == [of |-> <<>>, n |-> 0]
Failing  == Commands \X Outputs

Statuses == {"completed", "max_turns", "timeout", "context_exhausted", "model_error",
             "interrupted", "stalled", "stuck", "verify_failed", "unchanged",
             "budget_exceeded", "sandbox_error"}

Loop    == {"turn", "chat", "calls", "decide", "complete", "verify", "progress", "no_change"}
Closing == {"measure", "resolve", "flush", "finalize", "exporting", "run_end", "written"}
Labels  == Loop \cup Closing \cup {"start", "leave", "raised", "returned", "killed"}

Goto(label) == pc' = label

\* Every path that ends the run calls finish(status).
Finish(status) ==
  /\ ending' = status
  /\ Goto("measure")
  /\ UNCHANGED <<handler, inTurn>>

GoOn(label) == Goto(label) /\ UNCHANGED control

Init ==
  /\ pc = "start" /\ handler = "turn" /\ inTurn = FALSE /\ ending = "none"
  /\ turns = 0
  /\ reply = [left |-> 0, cut |-> FALSE]
  /\ last = "user" /\ toolMsgs = FALSE
  /\ finishRecord = "none"
  /\ failures = [k \in FailureKinds |-> 0] /\ total = 0
  /\ idle = 0 /\ progressed = FALSE
  /\ streak = NoStreak /\ stuck = FALSE
  /\ truncations = 0 /\ counted = FALSE
  /\ verified = "none" /\ rounds = 0
  /\ tree = "base" /\ fpStart = Off /\ fpTurn = -1 /\ changed = "null" /\ refusals = 0
  /\ finalize = "no" /\ runEnd = "none" /\ runEndWritten = FALSE
  /\ finishHeld = FALSE /\ endsHeld = 0 /\ disk = {} /\ runEnds = 0
  /\ exports = 0 /\ unmarked = 0 /\ verifyWrote = FALSE /\ writtenAfterVerify = FALSE

-----------------------------------------------------------------------------
(* take_fingerprint: it may work, fail, or raise BudgetExceeded or          *)
(* SandboxError.                                                            *)

RaisedStatuses == {"budget_exceeded", "sandbox_error"}

Measured ==
  /\ Guarded
  /\ fpTurn' = turns
  /\ changed' = IF tree = fpStart THEN "no" ELSE "yes"
  /\ verifyWrote' = FALSE
  /\ UNCHANGED fpStart

Unmeasured ==
  /\ changed' = "null"
  /\ UNCHANGED <<fpStart, fpTurn, verifyWrote>>

\* The start fingerprint decides whether the guard is on at all.
TakeStart ==
  /\ pc = "start"
  /\ \/ /\ Guarded
        /\ fpStart' = tree /\ fpTurn' = turns
        /\ GoOn("turn")
     \/ UNCHANGED <<fpStart, fpTurn>> /\ GoOn("turn")
     \/ UNCHANGED <<fpStart, fpTurn>> /\ \E s \in RaisedStatuses : Finish(s)
  /\ UNCHANGED <<turns, reply, wire, trackers, gate, tree, changed, refusals, verifyWrote,
                 log, closing>>

-----------------------------------------------------------------------------
(* The model's turn.                                                        *)

\* transcript.turn() opens; one_turn() checks the limits and trims the history.
BeginTurn ==
  /\ pc = "turn"
  /\ inTurn' = TRUE
  /\ toolMsgs' = FALSE /\ finishRecord' = "none"
  /\ counted' = FALSE
  /\ IF turns >= MaxTurns
       THEN ending' = "max_turns" /\ Goto("measure")
       ELSE \/ ending' \in {"timeout", "context_exhausted"} /\ Goto("measure")
            \/ UNCHANGED ending /\ Goto("chat")
  /\ UNCHANGED <<handler, turns, reply, last, failures, total, idle, progressed, streak,
                 stuck, truncations, gate, tree, guard, verifyWrote, lines, closing>>

\* Mutant: an answered request is not counted.
FreeTurn == turns

CountTurn == turns + 1

\* LLMTimeout: near the deadline it is the run's own timeout.
ChatTimesOut ==
  /\ pc = "chat"
  /\ \E s \in {"timeout", "model_error"} : Finish(s)
  /\ UNCHANGED <<turns, reply, wire, trackers, gate, tree, guard, verifyWrote, log, closing>>

\* MalformedResponse: the request was answered, so it counts as a turn.
ChatUnreadable ==
  /\ pc = "chat"
  /\ turns' = CountTurn
  /\ Finish("model_error")
  /\ UNCHANGED <<reply, wire, trackers, gate, tree, guard, verifyWrote, log, closing>>

Strikes(kind, n) == [failures EXCEPT ![kind] = @ + n]

\* Mutant: one strike too many.
AbortsLate(kind, n) == failures[kind] + n > MaxConsecutive \/ total + n > MaxTotal

\* FailureTracker.record, n times: the streak of the kind or of all of them is over.
Aborts(kind, n) == failures[kind] + n >= MaxConsecutive \/ total + n >= MaxTotal

\* A plain answer is a completion.
ChatAnswer ==
  /\ pc = "chat"
  /\ turns' = CountTurn
  /\ last' = "assistant"
  /\ GoOn("complete")
  /\ UNCHANGED <<reply, toolMsgs, trackers, gate, tree, guard, verifyWrote, log,
                 closing>>

\* A reply cut off at the output cap is counted for the whole run.
ChatTruncated ==
  /\ pc = "chat"
  /\ turns' = CountTurn
  /\ last' = "assistant"
  /\ truncations' = truncations + 1 /\ counted' = TRUE
  /\ IF truncations' >= MaxTruncated THEN Finish("model_error") ELSE GoOn("progress")
  /\ UNCHANGED <<reply, toolMsgs, failures, total, idle, progressed, streak, stuck,
                 gate, tree, guard, verifyWrote, log, closing>>

\* Nothing at all, or a tool call written as prose.
ChatEmpty ==
  /\ pc = "chat"
  /\ turns' = CountTurn
  /\ last' = "assistant"
  /\ failures' = Strikes("empty_reply", 1) /\ total' = total + 1
  /\ IF Aborts("empty_reply", 1) THEN Finish("model_error") ELSE GoOn("progress")
  /\ UNCHANGED <<reply, toolMsgs, idle, progressed, streak, stuck, truncations,
                 counted, gate, tree, guard, verifyWrote, log, closing>>

\* Tool calls, and entries no result could be addressed to: each of these is
\* recorded before the run is given up, so their count may pass its limit.
ChatCalls ==
  /\ pc = "chat"
  /\ turns' = CountTurn
  /\ last' = "assistant"
  /\ \E calls \in 0..MaxCalls, bad \in 0..MaxMalformed, cut \in BOOLEAN :
       /\ calls + bad > 0
       /\ reply' = [left |-> calls, cut |-> cut]
       /\ failures' = Strikes("malformed_entry", bad) /\ total' = total + bad
       /\ IF bad > 0 /\ Aborts("malformed_entry", bad) THEN Finish("model_error")
                                                       ELSE GoOn("calls")
  /\ UNCHANGED <<toolMsgs, idle, progressed, streak, stuck, truncations, counted, gate, tree,
                 guard, verifyWrote, log, closing>>

Chat == ChatTimesOut \/ ChatUnreadable \/ ChatAnswer \/ ChatTruncated \/ ChatEmpty \/ ChatCalls

-----------------------------------------------------------------------------
(* The calls of a turn, one after the other.                                *)

NoBash == <<>>

\* RepeatTracker.note_bash; beyond the limit the count no longer matters.
NoteBash(command, result) ==
  IF StuckRepeats = 0 THEN streak
  ELSE IF result = "pass"
       THEN IF streak.n > 0 /\ streak.of[1] = command THEN NoStreak ELSE streak
       ELSE IF streak.of = <<command, result>>
            THEN [streak EXCEPT !.n = IF @ < StuckRepeats THEN @ + 1 ELSE @]
            ELSE [of |-> <<command, result>>, n |-> 1]

Noted(bash) == IF bash = NoBash THEN streak ELSE NoteBash(bash[1], bash[2])

IsStuck(s) == StuckRepeats > 0 /\ s.n >= StuckRepeats

\* note_bash says "stuck" of the call it was just given, never of a passing one.
Repeats(bash) ==
  /\ streak' = Noted(bash)
  /\ stuck' = (stuck \/ (bash # NoBash /\ bash[2] # "pass" /\ IsStuck(streak')))

CallAnswered == last' = "tool" /\ toolMsgs' = TRUE
NextCall     == reply' = [reply EXCEPT !.left = @ - 1]

\* The tool ran, or the Firewall denied it for want of authority: both clear
\* the failure counters, and both may be new ground.
ExecuteCall ==
  /\ pc = "calls" /\ reply.left > 0
  /\ \E bash \in {NoBash} \cup Failing \cup Commands \X {"pass"} : Repeats(bash)
  /\ failures' = [k \in FailureKinds |-> 0] /\ total' = 0
  /\ progressed' \in {progressed, TRUE}
  /\ tree' \in Trees
  /\ writtenAfterVerify' = (writtenAfterVerify \/ tree' # tree)
  /\ CallAnswered /\ NextCall
  /\ UNCHANGED <<pc, control, turns, idle, truncations, counted, verified, rounds,
                 guard, verifyWrote, log, closing>>

\* Denied as malformed, or refused by the registry: a strike of some kind, or
\* (an internal error of the Firewall) none.
RefuseCall ==
  /\ pc = "calls" /\ reply.left > 0
  /\ \E bash \in {NoBash} \cup Failing : Repeats(bash)
  /\ \/ \E kind \in FailureKinds \ {"malformed_entry", "empty_reply"} :
          /\ failures' = Strikes(kind, 1) /\ total' = total + 1
          /\ IF Aborts(kind, 1) THEN Finish("model_error") ELSE GoOn("calls")
     \/ UNCHANGED <<failures, total>> /\ GoOn("calls")
  /\ CallAnswered /\ NextCall
  /\ UNCHANGED <<turns, idle, progressed, truncations, counted, gate, tree, guard,
                 verifyWrote, log, closing>>

\* A call that the output cap cut off: counted once per turn, never run.
CutCall ==
  /\ pc = "calls" /\ reply.left > 0 /\ reply.cut
  /\ \E bash \in {NoBash} \cup Failing : Repeats(bash)
  /\ truncations' = truncations + (IF counted THEN 0 ELSE 1) /\ counted' = TRUE
  /\ IF truncations' >= MaxTruncated THEN Finish("model_error") ELSE GoOn("calls")
  /\ CallAnswered /\ NextCall
  /\ UNCHANGED <<turns, failures, total, idle, progressed, gate, tree, guard,
                 verifyWrote, log, closing>>

\* finish(summary): its result stays provisional until the turn decides.
FinishCall ==
  /\ pc = "calls" /\ reply.left > 0
  /\ finishRecord' = "provisional"
  /\ finishHeld' = TRUE
  /\ progressed' \in {progressed, TRUE}
  /\ CallAnswered /\ NextCall
  /\ UNCHANGED <<pc, control, turns, failures, total, idle, streak, stuck,
                 truncations, counted, gate, tree, guard, verifyWrote, endsHeld, disk,
                 runEnds, closing>>

\* BudgetExceeded or SandboxError out of the tool; it may have written before.
CallRaises ==
  /\ pc = "calls" /\ reply.left > 0
  /\ tree' \in Trees
  /\ writtenAfterVerify' = (writtenAfterVerify \/ tree' # tree)
  /\ \E s \in RaisedStatuses : Finish(s)
  /\ UNCHANGED <<turns, reply, wire, trackers, verified, rounds, guard, verifyWrote, log, closing>>

\* Mutant: what follows a finish call in its turn is not looked at.
CallsOverEarly == reply.left = 0 \/ finishRecord # "none"

CallsOver == reply.left = 0

\* finish wins over stuck, and stuck over the stall detector.
CallsDone ==
  /\ pc = "calls" /\ CallsOver
  /\ IF finishRecord # "none" THEN GoOn("complete")
     ELSE IF stuck THEN Finish("stuck") ELSE GoOn("progress")
  /\ UNCHANGED <<turns, reply, wire, trackers, gate, tree, guard, verifyWrote, log, closing>>

Calls == ExecuteCall \/ RefuseCall \/ CutCall \/ FinishCall \/ CallRaises \/ CallsDone

-----------------------------------------------------------------------------
(* The end of a turn that goes on.                                          *)

\* Mutant: harness text is always a user message.
UserCarrier == TRUE

\* deliver(): on the last tool result, or as the next user message.
NeedsUser == ~toolMsgs

Deliver == last' = IF NeedsUser THEN "user" ELSE last

CheckProgress ==
  /\ pc = "progress"
  /\ progressed' = FALSE
  /\ idle' = IF StallTurns = 0 \/ progressed THEN (IF StallTurns = 0 THEN idle ELSE 0)
             ELSE idle + 1
  /\ IF StallTurns > 0 /\ idle' >= StallTurns THEN Finish("stalled") ELSE GoOn("no_change")
  /\ UNCHANGED <<turns, reply, wire, failures, total, streak, stuck, truncations, counted,
                 gate, tree, guard, verifyWrote, log, closing>>

CheckDue == fpStart # Off /\ NoChangeTurns > 0 /\ turns % NoChangeTurns = 0

\* check_no_change, then the turn's nudges are delivered.
CheckNoChange ==
  /\ pc = "no_change"
  /\ \/ /\ ~CheckDue
        /\ UNCHANGED <<fpStart, fpTurn, changed, verifyWrote>>
        /\ Deliver /\ GoOn("leave")
     \/ /\ CheckDue
        /\ Measured \/ Unmeasured
        /\ Deliver /\ GoOn("leave")
     \/ /\ CheckDue
        /\ Unmeasured
        /\ UNCHANGED last /\ \E s \in RaisedStatuses : Finish(s)
  /\ UNCHANGED <<turns, reply, toolMsgs, trackers, gate, tree, refusals, log,
                 closing>>

-----------------------------------------------------------------------------
(* check_verify: a completion is measured, then verified.                   *)

\* resolve_finish rewrites the turn's finish results; a plain answer has none.
Resolve(text) == finishRecord' = IF finishRecord = "none" THEN "none" ELSE text

\* A refused completion is a fresh episode for the stuck detector.
SendBack ==
  /\ stuck' = FALSE /\ streak' = NoStreak
  /\ Resolve("feedback")
  /\ Deliver
  /\ GoOn("leave")

UnguardedCompletion ==
  /\ pc = "complete" /\ fpStart = Off
  /\ GoOn("verify")
  /\ UNCHANGED <<turns, reply, wire, trackers, gate, tree, guard, verifyWrote, log, closing>>

CompletionCheckRaises ==
  /\ pc = "complete" /\ fpStart # Off
  /\ Unmeasured
  /\ Resolve("not_finished")
  /\ \E s \in RaisedStatuses : Finish(s)
  /\ UNCHANGED <<turns, reply, wire, trackers, gate, tree, refusals, lines,
                 closing>>

RefusedBefore == refusals > 0

\* Mutant: nothing requires a change.
NeverRequired == FALSE

ChangesRequired == RequireChanges

\* The worktree as it was at the start: refused once; then "unchanged" where
\* changes are required, and accepted elsewhere.
UnchangedCompletion ==
  /\ pc = "complete" /\ fpStart # Off
  /\ Measured /\ tree = fpStart
  /\ \/ ~RefusedBefore /\ refusals' = refusals + 1 /\ SendBack
     \/ /\ RefusedBefore /\ UNCHANGED <<refusals, stuck, streak, last>>
        /\ IF ChangesRequired THEN Resolve("not_finished") /\ Finish("unchanged")
                             ELSE UNCHANGED finishRecord /\ GoOn("verify")
  /\ UNCHANGED <<turns, reply, toolMsgs, failures, total, idle, progressed,
                 truncations, counted, gate, tree, lines, closing>>

ChangedCompletion ==
  /\ pc = "complete" /\ fpStart # Off
  /\ \/ Measured /\ tree # fpStart
     \/ Unmeasured
  /\ GoOn("verify")
  /\ UNCHANGED <<turns, reply, wire, trackers, gate, tree, refusals, log, closing>>

NoGate ==
  /\ pc = "verify" /\ ~Verify
  /\ Resolve("done") /\ Finish("completed")
  /\ UNCHANGED <<turns, reply, wire, trackers, gate, tree, guard, verifyWrote, lines, closing>>

VerifyRaises ==
  /\ pc = "verify" /\ Verify
  /\ rounds' = rounds + 1
  /\ Resolve("not_finished")
  /\ \E s \in RaisedStatuses : Finish(s)
  /\ UNCHANGED <<turns, reply, wire, trackers, verified, writtenAfterVerify, tree, guard,
                 verifyWrote, lines, closing>>

\* Mutant: the last round is accepted whatever the command said.
AcceptedAnyway(passed) == passed \/ rounds' > VerifyRounds

Accepted(passed) == passed

RoundsLeft == rounds' <= VerifyRounds

\* The verify command may write too.
RunVerify ==
  /\ pc = "verify" /\ Verify
  /\ rounds' = rounds + 1
  /\ tree' \in Trees /\ verifyWrote' = (verifyWrote \/ tree' # tree)
  /\ writtenAfterVerify' = FALSE
  /\ \E passed \in BOOLEAN :
       /\ verified' = IF passed THEN "passed" ELSE "failed"
       /\ \/ /\ Accepted(passed)
             /\ Resolve("done") /\ Finish("completed") /\ UNCHANGED <<stuck, streak, last>>
          \/ /\ ~Accepted(passed) /\ RoundsLeft
             /\ SendBack
          \/ /\ ~Accepted(passed) /\ ~RoundsLeft
             /\ Resolve("not_finished") /\ Finish("verify_failed")
             /\ UNCHANGED <<stuck, streak, last>>
  /\ UNCHANGED <<turns, reply, toolMsgs, failures, total, idle, progressed,
                 truncations, counted, guard, lines, closing>>

CheckVerify == \/ UnguardedCompletion \/ CompletionCheckRaises \/ UnchangedCompletion
               \/ ChangedCompletion \/ NoGate \/ VerifyRaises \/ RunVerify

-----------------------------------------------------------------------------
(* finish().                                                                *)

\* Mutant: the newest fingerprint is good enough.
MeasureAgainBlind == changed = "null" /\ fpStart # Off

MeasureAgain ==
  /\ ending \notin {"interrupted", "timeout", "budget_exceeded", "sandbox_error"}
  /\ fpStart # Off /\ fpTurn # turns

FinalMeasure ==
  /\ pc = "measure"
  /\ IF MeasureAgain THEN Measured \/ Unmeasured
                     ELSE UNCHANGED <<fpStart, fpTurn, changed, verifyWrote>>
  /\ GoOn("resolve")
  /\ UNCHANGED <<turns, reply, wire, trackers, gate, tree, refusals, log, closing>>

\* Mutant: Ctrl-C leaves the result as it is.
LeftProvisional == finishRecord = "provisional" /\ ending # "interrupted"

StillProvisional == finishRecord = "provisional"

FinalResolve ==
  /\ pc = "resolve"
  /\ finishRecord' = IF StillProvisional
                     THEN IF ending = "completed" THEN "done" ELSE "not_finished"
                     ELSE finishRecord
  /\ GoOn("flush")
  /\ UNCHANGED <<turns, reply, wire, trackers, gate, tree, guard, verifyWrote, lines, closing>>

\* Everything buffered is on disk, as it reads now.
Written ==
  /\ disk' = IF finishHeld THEN disk \cup {finishRecord} ELSE disk
  /\ runEnds' = runEnds + endsHeld
  /\ finishHeld' = FALSE /\ endsHeld' = 0

FlushTurn ==
  /\ pc = "flush"
  /\ Written
  /\ GoOn("finalize")
  /\ UNCHANGED <<turns, reply, wire, trackers, gate, tree, guard, verifyWrote, finishRecord,
                 closing>>

\* Mutant: the second finish() exports again.
AttemptedBlind == FALSE

Attempted == finalize # "no"

\* run_finalize: attempted once; a second call only notes the interrupt.
BeginFinalize ==
  /\ pc = "finalize"
  /\ IF Attempted
       THEN /\ finalize' = IF finalize = "running" THEN "error" ELSE finalize
            /\ UNCHANGED exports
            /\ GoOn("run_end")
       ELSE /\ finalize' = "running"
            /\ exports' = exports + 1
            /\ GoOn("exporting")
  /\ UNCHANGED <<turns, reply, wire, trackers, gate, tree, guard, verifyWrote, log, ended>>

EndFinalize ==
  /\ pc = "exporting"
  /\ finalize' \in {"ok", "error"}
  /\ GoOn("run_end")
  /\ UNCHANGED <<turns, reply, wire, trackers, gate, tree, guard, verifyWrote, log, ended,
                 exports>>

\* Mutant: every finish() writes its run_end.
RunEndDueAlways == TRUE

RunEndDue == ~runEndWritten

FinishReturns == GoOn(IF inTurn THEN "leave" ELSE "returned")

\* transcript.write("run_end"): into the open turn's buffer, or onto the disk.
WriteRunEnd ==
  /\ pc = "run_end"
  /\ IF RunEndDue
       THEN /\ runEnd' = ending
            /\ endsHeld' = IF inTurn THEN endsHeld + 1 ELSE endsHeld
            /\ runEnds' = IF inTurn THEN runEnds ELSE runEnds + 1
            /\ GoOn("written")
       ELSE UNCHANGED <<runEnd, endsHeld, runEnds>> /\ FinishReturns
  /\ UNCHANGED <<turns, reply, wire, trackers, gate, tree, guard, verifyWrote, finishRecord,
                 finishHeld, disk, finalize, runEndWritten, unmarked, exports>>

\* run_end_written = True: a statement of its own.
MarkRunEnd ==
  /\ pc = "written"
  /\ runEndWritten' = TRUE
  /\ FinishReturns
  /\ UNCHANGED <<turns, reply, wire, trackers, gate, tree, guard, verifyWrote, log, finalize,
                 runEnd, unmarked, exports>>

\* transcript.turn() closes: the buffer goes to disk, and the run goes on or returns.
LeaveTurn ==
  /\ pc = "leave"
  /\ Written
  /\ inTurn' = FALSE
  /\ Goto(IF ending = "none" THEN "turn" ELSE "returned")
  /\ UNCHANGED <<handler, ending, turns, reply, wire, trackers, gate, tree, guard, verifyWrote,
                 finishRecord, closing>>

-----------------------------------------------------------------------------
(* Ctrl-C, and exceptions that the runner does not convert.                 *)

\* What a flush that was cut short had written: a prefix of the buffer, in
\* which the finish record comes first.
CutFlush ==
  \E finish \in {f \in BOOLEAN : f => finishHeld}, ends \in 0..endsHeld :
    /\ ends > 0 /\ finishHeld => finish
    /\ disk' = IF finish THEN disk \cup {finishRecord} ELSE disk
    /\ runEnds' = runEnds + ends
    /\ finishHeld' = FALSE /\ endsHeld' = 0

\* Ctrl-C between the write of run_end and its mark: nobody knows of the line.
ForgetRunEnd ==
  /\ unmarked' = IF pc = "written" THEN unmarked + 1 ELSE unmarked
  /\ UNCHANGED <<runEnd, runEndWritten>>

\* Inside one_turn: the inner handler calls finish() with the turn still open.
InterruptTurn ==
  /\ inTurn /\ handler = "turn" /\ pc \in Loop \cup Closing
  /\ handler' = "inner" /\ ending' = "interrupted" /\ Goto("measure")
  /\ IF pc = "flush" THEN CutFlush ELSE UNCHANGED lines
  /\ ForgetRunEnd
  /\ UNCHANGED <<inTurn, turns, reply, wire, trackers, gate, tree, guard, verifyWrote,
                 finishRecord, finalize, exports>>

\* Inside the inner handler, or while the turn closes: the turn is left, and
\* the outer handler calls finish().
InterruptLeaving ==
  /\ \/ inTurn /\ handler = "inner" /\ pc \in Closing
     \/ pc = "leave"
  /\ handler' = "outer" /\ inTurn' = FALSE
  /\ ending' = "interrupted" /\ Goto("measure")
  /\ IF pc \in {"flush", "leave"} THEN CutFlush ELSE Written
  /\ ForgetRunEnd
  /\ UNCHANGED <<turns, reply, wire, trackers, gate, tree, guard, verifyWrote, finishRecord,
                 finalize, exports>>

\* Outside a turn: the outer handler, and in the outer handler the process dies.
InterruptOutside ==
  /\ ~inTurn /\ pc \in {"start", "turn"} \cup Closing
  /\ IF handler = "outer"
       THEN Goto("killed") /\ UNCHANGED <<handler, ending>>
       ELSE handler' = "outer" /\ ending' = "interrupted" /\ Goto("measure")
  /\ ForgetRunEnd
  /\ UNCHANGED <<inTurn, turns, reply, wire, trackers, gate, tree, guard, verifyWrote, log,
                 finalize, exports>>

Interrupt == InterruptTurn \/ InterruptLeaving \/ InterruptOutside

\* LLMError, or something unexpected out of a tool: the turn closes on the way out.
Raise ==
  /\ inTurn /\ pc \in {"chat", "calls", "verify"}
  /\ pc = "calls" => reply.left > 0
  /\ pc = "verify" => Verify
  /\ Written
  /\ inTurn' = FALSE /\ handler' = "fail"
  /\ Goto("raised")
  /\ UNCHANGED <<ending, turns, reply, wire, trackers, gate, tree, guard, verifyWrote,
                 finishRecord, closing>>

\* A line cannot be written: of the open turn, or run_end outside of one.  What
\* the file object could not flush may still reach the disk with a later line.
LogFails ==
  /\ \/ inTurn /\ pc \in {"flush", "leave"} /\ CutFlush
     \/ /\ ~inTurn /\ pc = "run_end" /\ RunEndDue
        /\ runEnds' \in {runEnds, runEnds + 1}
        /\ UNCHANGED <<finishHeld, endsHeld, disk>>
  /\ inTurn' = FALSE /\ handler' = "lost"
  /\ Goto("raised")
  /\ UNCHANGED <<ending, turns, reply, wire, trackers, gate, tree, guard, verifyWrote,
                 finishRecord, closing>>

\* _fail_run salvages the work, again if need be, and writes its own run_end.
FailRun ==
  /\ pc = "raised"
  /\ ending' \in {"model_error", "sandbox_error"}
  /\ runEnd' = ending'
  /\ runEnds' = runEnds + 1 \/ (handler = "lost" /\ UNCHANGED runEnds)
  /\ exports' = exports + 1
  /\ finalize' \in {"ok", "error"}
  /\ Goto("returned")
  /\ UNCHANGED <<handler, inTurn, turns, reply, wire, trackers, gate, tree, guard, verifyWrote,
                 finishRecord, finishHeld, endsHeld, disk, runEndWritten, unmarked>>

-----------------------------------------------------------------------------
Close == \/ FinalMeasure \/ FinalResolve \/ FlushTurn \/ BeginFinalize \/ EndFinalize
         \/ WriteRunEnd \/ MarkRunEnd

Step == \/ TakeStart \/ BeginTurn \/ Chat \/ Calls \/ CheckProgress \/ CheckNoChange
        \/ CheckVerify \/ Close \/ LeaveTurn \/ FailRun

Terminated == pc \in {"returned", "killed"} /\ UNCHANGED vars

Next == Step \/ Interrupt \/ Raise \/ LogFails \/ Terminated

Spec == Init /\ [][Next]_vars

\* Model requests and sandbox commands all have timeouts, so a run that can
\* step eventually does.
FairSpec == Spec /\ WF_vars(Step)

-----------------------------------------------------------------------------
(* The loop goes on only while every counter is below its limit, and every  *)
(* variable keeps to its type: a counter passes its limit only by what one  *)
(* reply still adds (record() is called for each of its malformed entries). *)
BelowLimits ==
  /\ \A k \in FailureKinds : failures[k] < MaxConsecutive
  /\ total < MaxTotal /\ truncations < MaxTruncated
  /\ idle < StallTurns \/ idle = 0

TypeOK ==
  /\ ending = "none" => BelowLimits
  /\ pc \in Labels /\ handler \in {"turn", "inner", "outer", "fail", "lost"} /\ inTurn \in BOOLEAN
  /\ ending \in Statuses \cup {"none"} /\ runEnd \in Statuses \cup {"none"}
  /\ turns \in 0..MaxTurns /\ fpTurn \in -1..MaxTurns
  /\ reply \in [left : 0..MaxCalls, cut : BOOLEAN]
  /\ last \in {"user", "assistant", "tool"} /\ toolMsgs \in BOOLEAN
  /\ finishRecord \in {"none", "provisional", "done", "not_finished", "feedback"}
  /\ failures \in [FailureKinds -> 0..(MaxConsecutive - 1 + MaxMalformed)]
  /\ total \in 0..(MaxTotal - 1 + MaxMalformed)
  /\ idle \in 0..StallTurns /\ progressed \in BOOLEAN
  /\ streak \in [of : {<<>>} \cup Failing, n : 0..StuckRepeats] /\ stuck \in BOOLEAN
  /\ truncations \in 0..MaxTruncated /\ counted \in BOOLEAN
  /\ verified \in {"none", "passed", "failed"} /\ rounds \in 0..(VerifyRounds + 1)
  /\ tree \in Trees /\ fpStart \in Trees \cup {Off}
  /\ changed \in {"null", "yes", "no"} /\ refusals \in 0..1
  /\ finalize \in {"no", "running", "ok", "error"}
  /\ finishHeld \in BOOLEAN /\ runEndWritten \in BOOLEAN
  /\ disk \subseteq {"provisional", "done", "not_finished", "feedback"}
  /\ endsHeld \in Nat /\ runEnds \in Nat /\ exports \in Nat /\ unmarked \in Nat
  /\ verifyWrote \in BOOLEAN /\ writtenAfterVerify \in BOOLEAN

(* The model is asked only with a history every provider accepts: it ends   *)
(* in a user message or a tool result, every call of the last reply has its *)
(* result, and a user message only ever follows an assistant's (R1 and R2:  *)
(* deliver, append_assistant).                                              *)
HistoryIsComplete == pc = "chat" => last \in {"user", "tool"} /\ reply.left = 0

UserFollowsAssistant == [][last' = "user" => last \in {"assistant", "user"}]_vars

(* A run is completed only by a verify command that passed on the worktree  *)
(* as the worker left it: whatever the model called in the same turn, and   *)
(* however often it was sent back (check_verify).                           *)
CompletedIsVerified ==
  runEnd = "completed" /\ Verify => verified = "passed" /\ ~writtenAfterVerify

(* A resume with feedback never ends completed when its last fingerprint,   *)
(* taken at that completion, was the one it started from (the change guard  *)
(* of check_verify).                                                        *)
Completes == ending # "completed" /\ ending' = "completed"

FeedbackChangesSomething ==
  [][Completes /\ RequireChanges /\ fpStart # Off /\ fpTurn = turns
       => changed = "yes"]_vars

(* What run_end says of the worktree is true of the worktree at the end,    *)
(* not of an earlier turn -- unless the verify command itself wrote, or the *)
(* status is one that finish() does not measure for.                        *)
Unmeasurable == {"none", "interrupted", "timeout"} \cup RaisedStatuses

ChangedIsTrue ==
  runEnd \notin Unmeasurable /\ handler \notin {"fail", "lost"} /\ changed # "null"
    => verifyWrote \/ (changed = "yes" <=> tree # fpStart)

(* The result of a finish call is never left provisional on disk, and says  *)
(* "run finished" only of a run that ended completed or was interrupted     *)
(* after that (resolve_finish, the flush in finish()).  A second Ctrl-C, or *)
(* an exception the runner does not convert, closes the turn without        *)
(* resolving it; a run_end that cannot be written makes it another status.  *)
FinishIsHonest ==
  /\ "provisional" \in disk => handler \in {"outer", "fail", "lost"}
  /\ "done" \in disk => ending \in {"completed", "interrupted"} \/ handler = "lost"

(* The export is attempted once, however often finish() is entered          *)
(* (finalize_state) -- unless the transcript cannot be written: then         *)
(* _fail_run does it once more.                                             *)
ExportedOnce == handler # "lost" => exports <= 1

(* However often finish() is entered, it writes run_end a second time only  *)
(* for a Ctrl-C that came between a write of it and run_end_written = True, *)
(* once for each such Ctrl-C; and its status differs from the run's only    *)
(* when Ctrl-C came after it.  Lines that the open turn still holds count;  *)
(* a transcript that cannot be written is excepted as above.                *)
RunEndOnce ==
  handler # "lost" =>
    /\ runEnds + endsHeld <= 1 + unmarked
    /\ runEnd # "none" => ending \in {runEnd, "interrupted"}

(* Every run returns, and then finalize() was attempted and is over, with a *)
(* result or an error, by finish() or by _fail_run -- or Ctrl-C came while  *)
(* the outer handler was at work, and the process died there: MaxTurns      *)
(* bounds the loop whatever the model answers.                              *)
RunReturns == <>(pc = "killed" \/ (pc = "returned" /\ finalize \in {"ok", "error"}))
=============================================================================
