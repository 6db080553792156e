---------------------------- MODULE Transcript ----------------------------
(***************************************************************************)
(* The transcript of a run (dirtywork/transcript.py): one file, one lock,  *)
(* a buffer while a turn is open, and two threads that write.  The main    *)
(* thread is the runner followed by the failure paths of __main__.py; the  *)
(* watchdog's thread records that it reset the sandbox, and queues a       *)
(* notice that the main thread turns into a record of its own.  A reader   *)
(* (dashboard_data.py) follows the growing file.                           *)
(*                                                                         *)
(* Each label of the main thread names the call it makes next.  Ctrl-C can *)
(* land at each of them, waiting for the lock included, and inside the     *)
(* writing of a line; so can an OSError inside the writing.                *)
(***************************************************************************)
EXTENDS Integers, Sequences, FiniteSets

CONSTANTS
  MaxTurns,   \* turns of the runner's loop
  MaxWrites,  \* records a turn may hold before the model ends it
  MaxResets,  \* sandbox resets, of both threads together
  MaxFaults   \* interrupts and failed writes

ASSUME TranscriptAssumption ==
  MaxTurns \in Nat \ {0} /\ MaxWrites \in Nat /\ MaxResets \in Nat /\ MaxFaults \in Nat

VARIABLES
  \* class Transcript
  lock,      \* _lock: "free", "main" or "watchdog"
  open,      \* _buffer is not None
  buffer,    \* _buffer
  pending,   \* the list _flush_locked took out and still has to write
  line,      \* the record _write_line is writing, in a sequence of at most one
  held,      \* lines in the file object's own buffer, after a flush that failed
  torn,      \* "no", "part" (the file ends within the first held line), "junk"
  lines,     \* the file's whole lines
  closed,
  \* the main thread
  pc, after, \* its label; where it goes on when the file is written
  where,     \* the part of the program that decides what an exception does
  ending,    \* finish() was entered
  raising,   \* the exception that leaves the turn: "no", "interrupt", "error"
  runEnd,    \* run_end_written
  turns,
  drained,   \* notices taken from the queue and not yet recorded
  \* the sandbox
  wpc, resets, notices,
  \* the reader
  rpc, rsig, cache,
  \* History variables: the records taken in, in order; what went wrong so far.
  accepted, faults

file   == <<lock, open, buffer, pending, line, held, torn, lines, closed>>
main   == <<pc, after, where, ending, raising, runEnd, turns, drained>>
box    == <<wpc, resets, notices>>
reader == <<rpc, rsig, cache>>
vars   == <<file, main, box, reader, accepted, faults>>

Kinds   == {"run_start", "event", "nudge", "reset", "run_end"}
\* run_start, run_end (which _fail_run may repeat), the turns' events, a reset and its nudge.
MaxRecords == 3 + MaxTurns * MaxWrites + 2 * MaxResets
Records == [kind : Kinds, about : 0 .. MaxResets, turn : 0 .. MaxTurns, n : 1 .. MaxRecords]
Garbled == [kind |-> "garbled", n |-> 0]

Members(s) == {s[i] : i \in DOMAIN s}

\* The record of the next write; a turn of 0 says that it was written outside of one.
Record(kind, about) ==
  [kind |-> kind, about |-> about, turn |-> IF open THEN turns ELSE 0,
   n |-> Len(accepted) + 1]

NoCache == [sig |-> -1, lines |-> <<>>]

Init ==
  /\ lock = "free" /\ open = FALSE /\ closed = FALSE /\ torn = "no"
  /\ buffer = <<>> /\ pending = <<>> /\ line = <<>> /\ held = <<>> /\ lines = <<>>
  /\ pc = "start" /\ after = "none" /\ where = "before"
  /\ ending = FALSE /\ raising = "no" /\ runEnd = FALSE /\ turns = 0 /\ drained = <<>>
  /\ wpc = "poll" /\ resets = 0 /\ notices = <<>>
  /\ rpc = "idle" /\ rsig = 0 /\ cache = NoCache
  /\ accepted = <<>> /\ faults = 0

\* st_size, which tells two states of an append-only file apart.
Size == 2 * Len(lines) + (IF torn = "no" THEN 0 ELSE 1)

\* The reader's entry is served under its own signature only: it is gone when the file grows.
Expire ==
  /\ cache' = IF cache.sig = Size' THEN cache ELSE NoCache
  /\ UNCHANGED <<rpc, rsig>>

-----------------------------------------------------------------------------
(* Transcript                                                              *)

\* Mutant: only the main thread's records wait for the turn to end.
WriteAround(who, r) ==
  /\ lock = "free" /\ ~closed
  /\ accepted' = Append(accepted, r)
  /\ IF open /\ who = "main"
       THEN buffer' = Append(buffer, r) /\ UNCHANGED <<lock, line>>
       ELSE lock' = who /\ line' = <<r>> /\ UNCHANGED buffer
  /\ UNCHANGED <<open, pending, held, torn, lines, closed, faults>>

\* write(): in a turn the buffer takes the record, else the file does.
Write(who, r) ==
  /\ lock = "free" /\ ~closed
  /\ accepted' = Append(accepted, r)
  /\ IF open
       THEN buffer' = Append(buffer, r) /\ UNCHANGED <<lock, line>>
       ELSE lock' = who /\ line' = <<r>> /\ UNCHANGED buffer
  /\ UNCHANGED <<open, pending, held, torn, lines, closed, faults>>

\* Mutant: the buffer is taken out and the turn stays open.
TakeOutStaysOpen(closing) ==
  /\ lock = "free"
  /\ UNCHANGED open
  /\ buffer' = <<>>
  /\ IF buffer = <<>>
       THEN UNCHANGED <<lock, line, pending>>
       ELSE /\ lock' = "main"
            /\ line' = <<Head(buffer)>>
            /\ pending' = Tail(buffer)
  /\ UNCHANGED <<held, torn, lines, closed, accepted, faults>>

\* _flush_locked(): the buffer is taken out first, then written line by line.
TakeOut(closing) ==
  /\ lock = "free"
  /\ open' = (open /\ ~closing)
  /\ buffer' = <<>>
  /\ IF buffer = <<>>
       THEN UNCHANGED <<lock, line, pending>>
       ELSE /\ lock' = "main"
            /\ line' = <<Head(buffer)>>
            /\ pending' = Tail(buffer)
  /\ UNCHANGED <<held, torn, lines, closed, accepted, faults>>

\* What the file shows of s when s is written behind a torn line.
Shown(s) == IF torn = "junk" /\ s # <<>> THEN <<Garbled>> \o Tail(s) ELSE s

\* _write_line(): write and flush; what an earlier flush left behind goes first.
PutLine ==
  /\ line # <<>>
  /\ lines' = lines \o Shown(held \o line)
  /\ held' = <<>>
  /\ torn' = "no"
  /\ line' = IF pending = <<>> THEN <<>> ELSE <<Head(pending)>>
  /\ pending' = IF pending = <<>> THEN <<>> ELSE Tail(pending)
  /\ UNCHANGED <<open, buffer, closed, accepted, faults>>

\* Mutant: the lock is released only where nothing is raised.
PutBreaksLocked(osError) ==
  /\ line # <<>> /\ faults < MaxFaults
  /\ faults' = faults + 1
  /\ \E keep \in BOOLEAN, n \in 0 .. IF osError THEN Len(held) ELSE 0, end \in {"no", "torn"} :
       /\ lines' = lines \o Shown(SubSeq(held, 1, n))
       /\ held' = SubSeq(held, n + 1, Len(held)) \o (IF keep THEN line ELSE <<>>)
       /\ end = "torn" => osError /\ (n = Len(held) \/ torn = "no")
       /\ torn' = IF end = "torn"
                    THEN IF n = 0 /\ torn = "junk" THEN "junk"
                         ELSE IF held' # <<>> THEN "part" ELSE "junk"
                    ELSE IF n = 0 THEN torn ELSE "no"
  /\ line' = <<>> /\ pending' = <<>>
  /\ UNCHANGED <<lock, open, buffer, closed, accepted>>

\* An OSError or Ctrl-C in _write_line.  The file object may hold the line for its
\* next flush, or not; part of it may be in the file; what was taken out is gone.
PutBreaks(osError) ==
  /\ line # <<>> /\ faults < MaxFaults
  /\ faults' = faults + 1
  /\ \E keep \in BOOLEAN, n \in 0 .. IF osError THEN Len(held) ELSE 0, end \in {"no", "torn"} :
       /\ lines' = lines \o Shown(SubSeq(held, 1, n))
       /\ held' = SubSeq(held, n + 1, Len(held)) \o (IF keep THEN line ELSE <<>>)
       /\ end = "torn" => osError /\ (n = Len(held) \/ torn = "no")
       /\ torn' = IF end = "torn"
                    THEN IF n = 0 /\ torn = "junk" THEN "junk"
                         ELSE IF held' # <<>> THEN "part" ELSE "junk"
                    ELSE IF n = 0 THEN torn ELSE "no"
  /\ line' = <<>> /\ pending' = <<>> /\ lock' = "free"
  /\ UNCHANGED <<open, buffer, closed, accepted>>

-----------------------------------------------------------------------------
(* The main thread                                                         *)

\* The part of the program a label belongs to.
PartOf(label) ==
  IF label = "enter" THEN "between"
  ELSE IF label = "body" /\ where = "between" THEN "turn"
  ELSE IF label = "exit" THEN "exit"
  ELSE IF label = "drain" /\ where = "exit" THEN "outer"
  ELSE IF label \in {"fail", "close", "exiting"} THEN "after"
  ELSE where

Goto(label) == pc' = label /\ where' = PartOf(label)

\* transcript.write() from the main thread, which then goes on at label next.
MainWrites(r, next) ==
  /\ Write("main", r)
  /\ IF open THEN Goto(next) /\ UNCHANGED after
             ELSE Goto("put") /\ after' = next

RunStart ==
  /\ pc = "start"
  /\ MainWrites(Record("run_start", 0), "enter")
  /\ UNCHANGED <<ending, raising, runEnd, turns, drained, box, reader>>

\* with self.transcript.turn(), which raises if a turn is open.
EnterTurn ==
  /\ pc = "enter" /\ lock = "free"
  /\ IF open THEN Goto("fail") /\ UNCHANGED <<open, turns>>
             ELSE Goto("body") /\ open' = TRUE /\ turns' = turns + 1
  /\ UNCHANGED <<lock, buffer, pending, line, held, torn, lines, closed>>
  /\ UNCHANGED <<after, ending, raising, runEnd, drained, box, reader, accepted, faults>>

\* one_turn() records an assistant message, a tool result, a nudge.
TurnWrites ==
  /\ pc = "body" /\ Len(buffer) < MaxWrites
  /\ MainWrites(Record("event", 0), "body")
  /\ UNCHANGED <<ending, raising, runEnd, turns, drained, box, reader>>

\* A tool call of the turn resets the sandbox, records it and queues the notice, all of it
\* under _reset_lock, which the watchdog's thread does not let go of before its own notice.
TurnResets ==
  /\ pc = "body" /\ wpc = "poll" /\ resets < MaxResets
  /\ resets' = resets + 1
  /\ MainWrites(Record("reset", resets + 1), "notify")
  /\ UNCHANGED <<ending, raising, runEnd, turns, drained, wpc, notices, reader>>

Notify ==
  /\ pc = "notify"
  /\ notices' = Append(notices, resets)
  /\ Goto("body")
  /\ UNCHANGED <<file, after, ending, raising, runEnd, turns, drained,
                 wpc, resets, reader, accepted, faults>>

\* Mutant: the notices are read without being cleared.
DrainWithoutClear ==
  /\ pc = "drain" \/ (pc = "body" /\ notices # <<>>)
  /\ drained' = notices
  /\ Goto("nudge")
  /\ UNCHANGED <<file, after, ending, raising, runEnd, turns, box, reader, accepted, faults>>

\* drain_sandbox(): in a turn at several places, and first thing in finish().
Drain ==
  /\ pc = "drain" \/ (pc = "body" /\ notices # <<>>)
  /\ drained' = notices
  /\ notices' = <<>>
  /\ Goto("nudge")
  /\ UNCHANGED <<file, after, ending, raising, runEnd, turns,
                 wpc, resets, reader, accepted, faults>>

Nudge ==
  /\ pc = "nudge" /\ drained # <<>>
  /\ drained' = Tail(drained)
  /\ MainWrites(Record("nudge", Head(drained)), "nudge")
  /\ UNCHANGED <<ending, raising, runEnd, turns, box, reader>>

NudgesDone ==
  /\ pc = "nudge" /\ drained = <<>>
  /\ Goto(IF ending THEN "flush" ELSE "body")
  /\ UNCHANGED <<file, after, ending, raising, runEnd, turns, drained,
                 box, reader, accepted, faults>>

\* one_turn() returns; in the last turn, and at will before, through finish().
TurnEnds ==
  /\ pc = "body"
  /\ \/ turns < MaxTurns /\ Goto("exit") /\ UNCHANGED ending
     \/ Goto("drain") /\ ending' = TRUE
  /\ UNCHANGED <<file, after, raising, runEnd, turns, drained, box, reader, accepted, faults>>

\* Writes the buffer, then goes on at label next.
FlushThen(closing, next) ==
  /\ TakeOut(closing)
  /\ IF buffer = <<>> THEN Goto(next) /\ UNCHANGED after
                      ELSE Goto("put") /\ after' = next

\* finish(): self.transcript.flush(), before the export.
Flush ==
  /\ pc = "flush"
  /\ FlushThen(FALSE, "run_end")
  /\ UNCHANGED <<ending, raising, runEnd, turns, drained, box, reader>>

\* The export, then run_end; finish() returns, out of the turn or to the caller.
RunEnd ==
  /\ pc = "run_end"
  /\ runEnd' = TRUE
  /\ LET next == IF where = "outer" THEN "close" ELSE "exit"
     IN  IF runEnd THEN Goto(next) /\ UNCHANGED <<file, after, accepted, faults>>
                   ELSE MainWrites(Record("run_end", 0), next)
  /\ UNCHANGED <<ending, raising, turns, drained, box, reader>>

\* The turn's finally: the closing flush, and then what the turn was left with.
ExitTurn ==
  /\ pc = "exit"
  /\ FlushThen(TRUE, IF raising = "interrupt" THEN "drain"
                     ELSE IF raising = "error" THEN "fail"
                     ELSE IF ending THEN "close" ELSE "enter")
  /\ UNCHANGED <<ending, raising, runEnd, turns, drained, box, reader>>

\* _fail_run() of __main__.py, where every other exception of the run ends up.
FailRun ==
  /\ pc = "fail"
  /\ MainWrites(Record("run_end", 0), "close")
  /\ UNCHANGED <<ending, raising, runEnd, turns, drained, box, reader>>

\* close(): the last flush and the closing of the file are one critical section.
Close ==
  /\ pc = "close" /\ lock = "free"
  /\ lock' = "main" /\ open' = FALSE /\ buffer' = <<>>
  /\ IF buffer = <<>>
       THEN Goto("closing") /\ UNCHANGED <<after, line, pending>>
       ELSE Goto("put") /\ after' = "closing" /\ line' = <<Head(buffer)>> /\ pending' = Tail(buffer)
  /\ UNCHANGED <<held, torn, lines, closed, ending, raising, runEnd, turns, drained,
                 box, reader, accepted, faults>>

\* The file object writes what it still holds; with the process, the rest is gone.
CloseFile ==
  /\ pc \in {"closing", "exiting"}
  /\ lines' = lines \o Shown(held)
  /\ torn' = IF held = <<>> THEN torn ELSE "no"
  /\ held' = <<>> /\ line' = <<>> /\ buffer' = <<>> /\ pending' = <<>>
  /\ open' = FALSE /\ closed' = TRUE /\ lock' = "free"
  /\ Goto("closed")
  /\ wpc' = IF line = <<>> THEN wpc ELSE "poll"
  /\ UNCHANGED <<after, ending, raising, runEnd, turns, drained,
                 resets, notices, accepted, faults>>
  /\ Expire

-----------------------------------------------------------------------------
(* The writing of a line, by either thread, and what breaks it             *)

LastLine == pending = <<>>

PutAndReturn ==
  /\ PutLine
  /\ IF LastLine /\ lock = "main"
       THEN /\ Goto(after) /\ after' = "none" /\ UNCHANGED wpc
            /\ lock' = IF after = "closing" THEN lock ELSE "free"
       ELSE IF LastLine
              THEN wpc' = "notify" /\ lock' = "free" /\ UNCHANGED <<pc, after, where>>
              ELSE UNCHANGED <<lock, pc, after, where, wpc>>
  /\ UNCHANGED <<ending, raising, runEnd, turns, drained, resets, notices>>
  /\ Expire

\* The watchdog's thread swallows the error.  So do _fail_run and the caller of close().
PutFails ==
  /\ PutBreaks(TRUE)
  /\ IF lock = "watchdog" THEN wpc' = "notify" /\ UNCHANGED <<pc, after, where, raising>>
     ELSE /\ after' = "none" /\ UNCHANGED wpc
          /\ IF where \in {"turn", "handler"} THEN Goto("exit") /\ raising' = "error"
             ELSE /\ UNCHANGED raising
                  /\ Goto(IF where # "after" THEN "fail"
                          ELSE IF after = "close" THEN "close" ELSE "exiting")
  /\ UNCHANGED <<ending, runEnd, turns, drained, resets, notices>>
  /\ Expire

\* Ctrl-C, where the main thread is.  Within a turn its first handler calls finish(),
\* outside of one the second does; there is no third.
Interrupt ==
  /\ pc \notin {"closing", "exiting", "closed"} /\ faults < MaxFaults
  /\ IF pc = "put" THEN PutBreaks(FALSE)
                   ELSE faults' = faults + 1 /\ UNCHANGED <<file, accepted>>
  /\ drained' = <<>>
  /\ \/ /\ where = "turn"
        /\ pc' = "drain" /\ where' = "handler" /\ ending' = TRUE /\ UNCHANGED raising
     \/ /\ where = "handler"
        /\ Goto("exit") /\ raising' = "interrupt" /\ UNCHANGED ending
     \/ /\ where \in {"between", "exit"}
        /\ pc' = "drain" /\ where' = "outer" /\ ending' = TRUE /\ raising' = "no"
     \/ /\ where \in {"before", "outer", "after"}
        /\ Goto(IF pc = "close" \/ (pc = "put" /\ after \in {"closing", "exiting"})
                  THEN "exiting" ELSE "close")
        /\ UNCHANGED <<ending, raising>>
  /\ after' = "none"
  /\ UNCHANGED <<runEnd, turns, box>>
  /\ Expire

-----------------------------------------------------------------------------
(* The watchdog's thread                                                   *)

WatchdogResets ==
  /\ wpc = "poll" /\ pc # "notify" /\ resets < MaxResets
  /\ resets' = resets + 1
  /\ Write("watchdog", Record("reset", resets + 1))
  /\ wpc' = IF open THEN "notify" ELSE "put"
  /\ UNCHANGED <<main, notices, reader>>

WatchdogNotifies ==
  /\ wpc = "notify"
  /\ notices' = Append(notices, resets)
  /\ wpc' = "poll"
  /\ UNCHANGED <<file, main, resets, reader, accepted, faults>>

-----------------------------------------------------------------------------
(* A reader of the growing file: DashboardData._transcript                 *)

\* A reader sees the file only, so it is enough to let it take its steps where the file is
\* about to change, and once it no longer does.
Changing == line # <<>> \/ pc \in {"closing", "exiting", "closed"}

\* Another signature than the entry's: the entry is replaced.
ReaderStats ==
  /\ rpc = "idle" /\ cache.sig # Size /\ Changing
  /\ rsig' = Size /\ rpc' = "read" /\ cache' = NoCache
  /\ UNCHANGED <<file, main, box, accepted, faults>>

\* Mutant: a last line without its end is taken for a line.
ReaderReadsPart ==
  /\ rpc = "read" /\ Changing
  /\ cache' = [sig |-> rsig, lines |-> lines \o (IF torn = "no" THEN <<>> ELSE <<Garbled>>)]
  /\ rpc' = "idle" /\ rsig' = 0
  /\ UNCHANGED <<file, main, box, accepted, faults>>

\* Up to the first line that does not end, under the signature taken before.
ReaderReads ==
  /\ rpc = "read" /\ Changing
  /\ cache' = [sig |-> rsig, lines |-> lines]
  /\ rpc' = "idle" /\ rsig' = 0
  /\ UNCHANGED <<file, main, box, accepted, faults>>

-----------------------------------------------------------------------------
MainStep ==
  \/ RunStart \/ EnterTurn \/ TurnWrites \/ TurnResets \/ Notify \/ Drain \/ Nudge
  \/ NudgesDone \/ TurnEnds \/ Flush \/ RunEnd \/ ExitTurn \/ FailRun \/ Close \/ CloseFile

WatchdogStep == WatchdogResets \/ WatchdogNotifies
ReaderStep   == ReaderStats \/ ReaderReads

Terminated == pc = "closed" /\ UNCHANGED vars

Next == MainStep \/ PutAndReturn \/ PutFails \/ Interrupt \/ WatchdogStep \/ ReaderStep \/ Terminated

Spec == Init /\ [][Next]_vars

FairSpec == Spec /\ WF_vars(MainStep) /\ WF_vars(PutAndReturn) /\ WF_vars(ReaderStep)

-----------------------------------------------------------------------------
(* Properties                                                              *)

\* The transcript implements the log of TurnLog.tla: what _flush_locked took out, what
\* _write_line is writing, what the file object holds and the buffer are together one
\* queue, from which lines come out in the order in which write() took them in,
\* whichever thread wrote them; only an interrupt or a failed write loses any.
Ids(s) == [i \in DOMAIN s |-> s[i].n]

Log == INSTANCE TurnLog WITH
         lines   <- Ids(lines),
         queue   <- Ids(held \o line \o pending \o buffer),
         broken  <- faults > 0,
         Records <- 1 .. MaxRecords,
         Garbled <- Garbled.n

LogSpec == Log!Spec

\* The docstring of Transcript: "a hard kill loses at most the current turn's events".
\* At every moment what is not in the file is of the open turn or is being written; and
\* nothing is missing once the transcript was closed.  (Nothing broke before.)
KillLosesOnlyTheTurn ==
  faults = 0 =>
    /\ \A r \in Members(held \o pending \o buffer) : r.turn = turns
    /\ pc \in {"enter", "fail", "closed"} => buffer = <<>> /\ ~open
    /\ Len(lines) + Len(held \o line \o pending \o buffer) = Len(accepted)

\* A notice of the watchdog's thread reaches the model once: it is queued, or taken out,
\* or recorded as a nudge, never two of these, whichever thread queued it and whatever
\* interrupts the main thread while it takes it out.
NoticeOnce ==
  LET nudged == {i \in DOMAIN accepted : accepted[i].kind = "nudge"}
      Places(k) == Cardinality({i \in DOMAIN notices : notices[i] = k})
                     + Cardinality({i \in DOMAIN drained : drained[i] = k})
                     + Cardinality({i \in nudged : accepted[i].about = k})
  IN  \A k \in 1 .. resets :
        /\ Places(k) <= 1
        /\ faults = 0 /\ ~(k = resets /\ (pc = "notify" \/ wpc # "poll")) => Places(k) = 1

\* The dashboard never keeps an old reading under the signature of a newer file.
CacheIsFresh == cache.sig = Size => cache.lines = lines

\* Whatever breaks, the transcript is closed in the end, and a reader has all of it.
RunCloses == <>[](pc = "closed" /\ cache = [sig |-> Size, lines |-> lines])
=============================================================================
