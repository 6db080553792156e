------------------------- MODULE Transcript_proofs -------------------------
(***************************************************************************)
(* Theorems about the transcript of a run, for any number of turns,        *)
(* writes, resets and faults: the types, the three invariants that         *)
(* MCTranscript.cfg checks, and that Transcript.tla implements TurnLog.tla. *)
(***************************************************************************)
EXTENDS Transcript, SequenceTheorems, FiniteSetTheorems, TLAPS

-----------------------------------------------------------------------------
(* The invariants                                                          *)

Labels == {"start", "enter", "body", "notify", "drain", "nudge", "flush", "run_end", "exit",
           "fail", "close", "closing", "exiting", "closed", "put"}
Parts  == {"before", "between", "turn", "handler", "exit", "outer", "after"}

Lines == Records \cup {Garbled}

FileOK    == /\ lines \in Seq(Lines) /\ held \in Seq(Records) /\ line \in Seq(Records)
             /\ pending \in Seq(Records) /\ buffer \in Seq(Records)
             /\ accepted \in Seq(Records)
             /\ torn \in {"no", "part", "junk"}
LabelsOK  == /\ pc \in Labels /\ after \in Labels \cup {"none"} /\ where \in Parts
             /\ lock \in {"free", "main", "watchdog"} /\ wpc \in {"poll", "put", "notify"}
             /\ raising \in {"no", "interrupt", "error"}
FlagsOK   == open \in BOOLEAN /\ closed \in BOOLEAN /\ ending \in BOOLEAN /\ runEnd \in BOOLEAN
CountsOK  == resets \in 0 .. MaxResets /\ turns \in 0 .. MaxTurns /\ faults \in 0 .. MaxFaults
NoticesOK == notices \in Seq(1 .. MaxResets) /\ drained \in Seq(1 .. MaxResets)
ReaderOK  == rpc \in {"idle", "read"} /\ rsig \in Nat /\ cache \in [sig : Int, lines : Seq(Lines)]

TypeInv == FileOK /\ LabelsOK /\ FlagsOK /\ CountsOK /\ NoticesOK /\ ReaderOK

(* The reader's entry is never ahead of the file, and equals it where they meet.  *)
CacheInv ==
  /\ cache.sig <= Size
  /\ cache.sig = Size => cache.lines = lines
  /\ rpc = "read" => rsig <= Size

(* Who holds the lock, and what is on the way into the file meanwhile.      *)
HeldInv ==
  /\ lock = "main" <=> pc \in {"put", "closing"}
  /\ lock = "watchdog" <=> wpc = "put"
  /\ pc = "put" <=> after # "none"

FlowInv ==
  /\ pc = "put" \/ wpc = "put" => line # <<>>
  /\ wpc = "put" => pending = <<>>
  /\ lock = "free" \/ pc = "closing" => line = <<>>
  /\ line = <<>> => pending = <<>>
  /\ ~open => buffer = <<>>

LockInv == HeldInv /\ FlowInv

(* Where the main thread is, and whether its turn is open there.            *)
WhereInv ==
  /\ where = "before" => pc \in {"start", "put"} /\ after \in {"none", "enter"} /\ ~open /\ ~ending
                         /\ raising = "no"
  /\ where = "between" => pc = "enter" /\ ~open /\ ~ending /\ raising = "no"
  /\ where = "turn" => /\ pc \in {"body", "notify", "drain", "nudge", "flush", "run_end", "put"}
                       /\ after \in {"none", "run_end"} /\ open /\ raising = "no"
                       /\ pc \in {"body", "notify"} => ~ending
                       /\ pc \in {"drain", "flush", "run_end", "put"} => ending
  /\ where = "handler" => /\ pc \in {"drain", "nudge", "flush", "run_end", "put"}
                          /\ after \in {"none", "run_end"} /\ open /\ ending
  /\ where = "exit" => /\ pc \in {"exit", "put"} /\ (pc = "exit" <=> open)
                       /\ after \in {"none", "enter", "drain", "fail", "close"}
                       /\ after = "drain" => raising = "interrupt"
                       /\ after = "fail" => raising = "error"
                       /\ after = "enter" => ~ending /\ raising = "no"
  /\ where = "outer" => /\ pc \in {"drain", "nudge", "flush", "run_end", "put"}
                        /\ after \in {"none", "nudge", "run_end", "close"} /\ ending
  /\ where = "after" => /\ pc \in {"fail", "close", "closing", "exiting", "closed", "put"}
                        /\ after \in {"none", "close", "closing"}
                        /\ pc \in {"closing", "closed"} \/ after = "closing" => ~open
  /\ closed <=> pc = "closed"
  /\ where \in {"exit", "outer"} /\ raising = "interrupt" => ending

(* A turn follows where one is left.                                        *)
NextTurnInv ==
  ~ending /\ (pc \in {"start", "enter"} \/ after = "enter" \/ (pc = "exit" /\ raising # "error"))
    => turns < MaxTurns

(* Until something breaks, every record taken in is in the file, or waits for it.         *)
CalmInv ==
  faults = 0 => /\ where \notin {"handler", "outer"} /\ raising = "no"
                /\ pc \notin {"fail", "exiting"}

IntactInv ==
  faults = 0 =>
    /\ held = <<>> /\ torn = "no"
    /\ Len(lines) + Len(line) + Len(pending) + Len(buffer) = Len(accepted)

(* What waits for the turn to end was written in it.                        *)
Current == {r \in Records : r.turn = turns}
TurnInv == pending \in Seq(Current) /\ buffer \in Seq(Current)

(* A record's number is its place in the order in which write() took them in.  *)
Aged == {r \in Records : r.n <= Len(accepted)}
AgeInv ==
  /\ lines \in Seq(Aged \cup {Garbled})
  /\ held \in Seq(Aged) /\ line \in Seq(Aged) /\ pending \in Seq(Aged) /\ buffer \in Seq(Aged)

Rising(s) == \A i, j \in DOMAIN s : i < j => s[i] < s[j]

Nudged == {i \in DOMAIN accepted : accepted[i].kind = "nudge"}

Owed == pc = "notify" \/ wpc # "poll"

OwedInv ==
  /\ Owed => resets > 0
  /\ pc = "notify" => wpc = "poll"
  /\ drained # <<>> => pc = "nudge" \/ after = "nudge" \/ where = "after"

OrderInv ==
  /\ Rising(notices) /\ Rising(drained)
  /\ \A i, j \in Nudged : i < j => accepted[i].about < accepted[j].about
  /\ \A i \in Nudged, j \in DOMAIN drained : accepted[i].about < drained[j]
  /\ \A i \in Nudged, j \in DOMAIN notices : accepted[i].about < notices[j]
  /\ \A i \in DOMAIN drained, j \in DOMAIN notices : drained[i] < notices[j]
  /\ \A i \in Nudged : accepted[i].about <= resets /\ (Owed => accepted[i].about < resets)
  /\ \A i \in DOMAIN drained : drained[i] <= resets /\ (Owed => drained[i] < resets)
  /\ \A i \in DOMAIN notices : notices[i] <= resets /\ (Owed => notices[i] < resets)

Placed(k) ==
  \/ \E i \in DOMAIN notices : notices[i] = k
  \/ \E i \in DOMAIN drained : drained[i] = k
  \/ \E i \in Nudged : accepted[i].about = k

PresentInv == faults = 0 => \A k \in 1 .. resets : Placed(k) \/ (k = resets /\ Owed)

(* What may still be written: the start, the events of this turn and of the turns to come,   *)
(* the ends, and what the resets and the notices of the run may still make of themselves.    *)
Room == IF where = "turn" /\ ~ending /\ Len(buffer) < MaxWrites THEN MaxWrites - Len(buffer) ELSE 0

FirstEnd  == IF where = "after" \/ runEnd THEN 0 ELSE 1
SecondEnd == IF where = "after" /\ pc # "fail" THEN 0 ELSE 1
Start     == IF pc = "start" THEN 1 ELSE 0
Due       == IF Owed THEN 1 ELSE 0

TurnsLeft == Room + (MaxTurns - turns) * MaxWrites

Left == Start + FirstEnd + SecondEnd + TurnsLeft
Debt == 2 * (MaxResets - resets) + Len(notices) + Len(drained) + Due

BudgetInv == Len(accepted) + Left + Debt <= MaxRecords

-----------------------------------------------------------------------------
(* Records, sequences, and what a torn line does to what follows it        *)

LEMMA BoundsAre ==
  /\ MaxTurns \in Nat /\ MaxWrites \in Nat /\ MaxResets \in Nat /\ MaxFaults \in Nat
  /\ MaxTurns * MaxWrites \in Nat /\ MaxRecords \in Nat
BY TranscriptAssumption DEF MaxRecords

LEMMA SeqTypes ==
  ASSUME TypeInv
  PROVE  /\ lines \in Seq(Lines) /\ held \in Seq(Lines) /\ line \in Seq(Lines)
         /\ pending \in Seq(Lines) /\ buffer \in Seq(Lines)
         /\ held \in Seq(Records) /\ line \in Seq(Records)
         /\ pending \in Seq(Records) /\ buffer \in Seq(Records) /\ accepted \in Seq(Records)
         /\ Len(lines) \in Nat /\ Len(held) \in Nat /\ Len(line) \in Nat
         /\ Len(pending) \in Nat /\ Len(buffer) \in Nat /\ Len(accepted) \in Nat
BY SeqMonotonic, LenProperties DEF TypeInv, FileOK, Lines

LEMMA RecordIs ==
  ASSUME TypeInv, NEW kind \in Kinds, NEW about \in 0 .. MaxResets,
         Len(accepted) < MaxRecords
  PROVE  /\ Record(kind, about) \in Records
         /\ Record(kind, about).kind = kind /\ Record(kind, about).about = about
         /\ Record(kind, about).n = Len(accepted) + 1
         /\ open => Record(kind, about).turn = turns
<1>1. Len(accepted) + 1 \in 1 .. MaxRecords
  BY SeqTypes, BoundsAre
<1>2. (IF open THEN turns ELSE 0) \in 0 .. MaxTurns
  BY BoundsAre DEF TypeInv, CountsOK
<1> QED
  BY <1>1, <1>2 DEF Record, Records

LEMMA RecordFields ==
  ASSUME NEW r \in Records
  PROVE  /\ r.kind \in Kinds /\ r.about \in 0 .. MaxResets
         /\ r.turn \in 0 .. MaxTurns /\ r.n \in 1 .. MaxRecords
BY DEF Records

LEMMA GarbledIs == Garbled.n = 0 /\ Garbled \in Lines
BY DEF Garbled, Lines

LEMMA SingleIs ==
  ASSUME NEW S, NEW r \in S
  PROVE  <<r>> \in Seq(S) /\ Len(<<r>>) = 1 /\ <<r>>[1] = r /\ <<r>> # <<>>
OBVIOUS

(* What follows a torn line is garbled in its first line, and no line gets lost.  *)
LEMMA ShownIs ==
  ASSUME NEW S, NEW s \in Seq(S)
  PROVE  /\ Shown(s) \in Seq(S \cup {Garbled}) /\ Len(Shown(s)) = Len(s)
         /\ torn # "junk" \/ s = <<>> => Shown(s) = s
         /\ \A i \in 1 .. Len(s) : Shown(s)[i] = s[i] \/ Shown(s)[i] = Garbled
<1>1. s \in Seq(S \cup {Garbled}) /\ Len(s) \in Nat
  BY SeqMonotonic, LenProperties
<1>2. CASE torn = "junk" /\ s # <<>>
  <2>1. /\ Tail(s) \in Seq(S \cup {Garbled}) /\ Len(Tail(s)) = Len(s) - 1
        /\ \A i \in 1 .. Len(Tail(s)) : Tail(s)[i] = s[i + 1]
    BY <1>1, <1>2, HeadTailProperties
  <2>2. <<Garbled>> \in Seq(S \cup {Garbled}) /\ Len(<<Garbled>>) = 1 /\ <<Garbled>>[1] = Garbled
    BY SingleIs
  <2>3. Shown(s) = <<Garbled>> \o Tail(s)
    BY <1>2 DEF Shown
  <2>4. /\ Shown(s) \in Seq(S \cup {Garbled}) /\ Len(Shown(s)) = 1 + Len(Tail(s))
        /\ \A i \in 1 .. 1 + Len(Tail(s)) :
             Shown(s)[i] = IF i <= 1 THEN <<Garbled>>[i] ELSE Tail(s)[i - 1]
    BY <2>1, <2>2, <2>3, ConcatProperties
  <2>5. ASSUME NEW i \in 1 .. Len(s) PROVE Shown(s)[i] = s[i] \/ Shown(s)[i] = Garbled
    <3>1. CASE i = 1
      BY <3>1, <2>1, <2>2, <2>4, <1>1
    <3>2. CASE i # 1
      <4>1. i - 1 \in 1 .. Len(Tail(s)) /\ i \in 1 .. 1 + Len(Tail(s)) /\ ~(i <= 1) /\ (i - 1) + 1 = i
        BY <3>2, <2>1, <1>1
      <4> QED
        BY <4>1, <2>1, <2>4
    <3> QED
      BY <3>1, <3>2
  <2> QED
    BY <1>1, <1>2, <2>1, <2>4, <2>5
<1>3. CASE ~(torn = "junk" /\ s # <<>>)
  BY <1>1, <1>3 DEF Shown
<1> QED
  BY <1>2, <1>3

-----------------------------------------------------------------------------
(* The steps of the file                                                   *)

(* What a step does to the file and to what waits for it: a record is taken in, the       *)
(* buffer is taken out, a line is written or breaks, the file is closed, or nothing.     *)
TakesIn(r) ==
  /\ lock = "free" /\ r.n = Len(accepted) + 1 /\ accepted' = Append(accepted, r)
  /\ \/ open /\ r.turn = turns /\ buffer' = Append(buffer, r) /\ line' = line
     \/ ~open /\ buffer' = buffer /\ line' = <<r>>
  /\ UNCHANGED <<pending, held, torn, lines, turns, faults>>

TakesOut ==
  /\ lock = "free" /\ buffer # <<>>
  /\ line' = <<Head(buffer)>> /\ pending' = Tail(buffer) /\ buffer' = <<>>
  /\ UNCHANGED <<held, torn, lines, accepted, turns, faults>>

Puts   == PutLine /\ UNCHANGED turns
Breaks == (PutBreaks(TRUE) \/ PutBreaks(FALSE)) /\ UNCHANGED turns

Stays ==
  /\ UNCHANGED <<lines, held, torn, line, pending, buffer, accepted>>
  /\ \/ turns' = turns /\ faults' = faults
     \/ turns' = turns /\ faults' > 0
     \/ lock = "free" /\ ~open /\ faults' = faults

FileStep ==
  (\E r \in Records : TakesIn(r)) \/ TakesOut \/ Puts \/ Breaks \/ CloseFile \/ Stays

(* Where a record is taken in there is room for it.                                       *)
LEMMA HasRoom ==
  ASSUME TypeInv, WhereInv, BudgetInv,
         \/ pc = "start" \/ pc = "fail" \/ (pc = "run_end" /\ ~runEnd)
         \/ resets < MaxResets \/ drained # <<>>
         \/ pc = "body" /\ Len(buffer) < MaxWrites
  PROVE  Len(accepted) < MaxRecords
<1>1. /\ Len(accepted) \in Nat /\ MaxRecords \in Nat /\ Len(buffer) \in Nat
      /\ Len(notices) \in Nat /\ Len(drained) \in Nat /\ (drained # <<>> => Len(drained) > 0)
  BY SeqTypes, BoundsAre, LenProperties, EmptySeq DEF TypeInv, NoticesOK
<1>2. MaxTurns - turns \in Nat /\ MaxResets - resets \in Nat /\ (MaxTurns - turns) * MaxWrites \in Nat
  BY BoundsAre DEF TypeInv, CountsOK
<1>3. Room \in Nat /\ FirstEnd \in Nat /\ SecondEnd \in Nat /\ Start \in Nat /\ Due \in Nat
  BY <1>1, BoundsAre DEF Room, FirstEnd, SecondEnd, Start, Due
<1>4. \/ Start > 0 \/ FirstEnd > 0 \/ SecondEnd > 0 \/ Room > 0
      \/ MaxResets - resets > 0 \/ Len(drained) > 0
  <2>1. pc = "start" => Start > 0
    BY DEF Start
  <2>2. pc = "fail" => SecondEnd > 0
    BY DEF SecondEnd
  <2>3. pc = "run_end" /\ ~runEnd => FirstEnd > 0
    BY DEF FirstEnd, WhereInv, TypeInv, LabelsOK, Parts
  <2>4. pc = "body" => where = "turn" /\ ~ending
    BY DEF WhereInv, TypeInv, LabelsOK, Parts
  <2>5. pc = "body" /\ Len(buffer) < MaxWrites => Room > 0
    BY <1>1, <2>4, BoundsAre DEF Room
  <2> QED
    BY <1>1, <1>2, <2>1, <2>2, <2>3, <2>5, BoundsAre DEF TypeInv, CountsOK
<1> DEFINE w == (MaxTurns - turns) * MaxWrites
           u == MaxResets - resets
           x == Len(accepted)
           n == Len(notices)
           d == Len(drained)
<1>5. x + (Start + FirstEnd + SecondEnd + (Room + w)) + (2 * u + n + d + Due) <= MaxRecords
  BY DEF BudgetInv, Left, TurnsLeft, Debt
<1>6. /\ w \in Nat /\ u \in Nat /\ x \in Nat /\ n \in Nat /\ d \in Nat /\ MaxRecords \in Nat
      /\ Start > 0 \/ FirstEnd > 0 \/ SecondEnd > 0 \/ Room > 0 \/ u > 0 \/ d > 0
  BY <1>1, <1>2, <1>4
<1> HIDE DEF w, u, x, n, d
<1>7. x < MaxRecords
  BY <1>3, <1>5, <1>6
<1> QED
  BY <1>7 DEF x

LEMMA OneIs == \A x : <<x>> # <<>> /\ Len(<<x>>) = 1
OBVIOUS

-----------------------------------------------------------------------------
(* The writing of a line                                                   *)

(* A line is in the file: its writer goes on, or the next line of the buffer is under way.  *)
LEMMA PutReturns ==
  ASSUME PutAndReturn
  PROVE  /\ line # <<>> /\ Puts
         /\ UNCHANGED <<open, buffer, closed, accepted, faults, ending, raising, runEnd, turns,
                        drained, resets, notices>>
         /\ \/ /\ pending = <<>> /\ lock = "main" /\ line' = <<>> /\ pending' = <<>>
               /\ pc' = after /\ where' = PartOf(after) /\ after' = "none" /\ wpc' = wpc
               /\ lock' = IF after = "closing" THEN lock ELSE "free"
            \/ /\ pending = <<>> /\ lock # "main" /\ line' = <<>> /\ pending' = <<>>
               /\ wpc' = "notify" /\ lock' = "free" /\ UNCHANGED <<pc, after, where>>
            \/ /\ pending # <<>> /\ line' # <<>> /\ UNCHANGED <<lock, pc, after, where, wpc>>
<1>1. line # <<>> /\ Puts
  BY DEF PutAndReturn, Puts, PutLine
<1>2. UNCHANGED <<open, buffer, closed, accepted, faults, ending, raising, runEnd, turns,
                  drained, resets, notices>>
  BY DEF PutAndReturn, PutLine
<1>3. CASE pending = <<>> /\ lock = "main"
  <2>1. line' = <<>> /\ pending' = <<>>
    BY <1>3 DEF PutAndReturn, PutLine
  <2> QED
    BY <1>1, <1>2, <1>3, <2>1 DEF PutAndReturn, LastLine, Goto
<1>4. CASE pending = <<>> /\ lock # "main"
  <2>1. line' = <<>> /\ pending' = <<>>
    BY <1>4 DEF PutAndReturn, PutLine
  <2> QED
    BY <1>1, <1>2, <1>4, <2>1 DEF PutAndReturn, LastLine
<1>5. CASE pending # <<>>
  <2>1. line' # <<>>
    BY <1>5, OneIs DEF PutAndReturn, PutLine
  <2> QED
    BY <1>1, <1>2, <1>5, <2>1 DEF PutAndReturn, LastLine
<1> QED
  BY <1>3, <1>4, <1>5

(* The watchdog's thread goes on after a failed write; the main thread leaves its turn, or    *)
(* the run.                                                                                 *)
LEMMA PutFailsThen ==
  ASSUME PutFails
  PROVE  /\ line # <<>> /\ Breaks /\ faults < MaxFaults /\ faults' = faults + 1
         /\ line' = <<>> /\ pending' = <<>> /\ lock' = "free"
         /\ UNCHANGED <<open, buffer, closed, accepted, ending, runEnd, turns, drained, resets, notices>>
         /\ \/ lock = "watchdog" /\ wpc' = "notify" /\ UNCHANGED <<pc, after, where, raising>>
            \/ /\ lock # "watchdog" /\ after' = "none" /\ wpc' = wpc
               /\ \/ where \in {"turn", "handler"} /\ pc' = "exit" /\ where' = "exit" /\ raising' = "error"
                  \/ /\ where \notin {"turn", "handler"} /\ raising' = raising
                     /\ \/ where # "after" /\ pc' = "fail"
                        \/ where = "after" /\ after = "close" /\ pc' = "close"
                        \/ where = "after" /\ after # "close" /\ pc' = "exiting"
                     /\ where' = "after"
<1>1. /\ line # <<>> /\ Breaks /\ faults < MaxFaults /\ faults' = faults + 1
      /\ line' = <<>> /\ pending' = <<>> /\ lock' = "free"
  BY DEF PutFails, PutBreaks, Breaks
<1>2. UNCHANGED <<open, buffer, closed, accepted, ending, runEnd, turns, drained, resets, notices>>
  BY DEF PutFails, PutBreaks
<1>3. CASE lock = "watchdog"
  BY <1>1, <1>2, <1>3 DEF PutFails
<1>4. CASE lock # "watchdog"
  BY <1>1, <1>2, <1>4 DEF PutFails, Goto, PartOf
<1> QED
  BY <1>3, <1>4

(* Ctrl-C gives up what the main thread was about to do.                                    *)
LEMMA InterruptThen ==
  ASSUME Interrupt
  PROVE  /\ pc \notin {"closing", "exiting", "closed"} /\ faults < MaxFaults /\ faults' = faults + 1
         /\ \/ pc = "put" /\ Breaks /\ lock' = "free" /\ line' = <<>> /\ pending' = <<>>
            \/ pc # "put" /\ UNCHANGED <<lock, line, pending, held, torn, lines>>
         /\ after' = "none" /\ drained' = <<>>
         /\ UNCHANGED <<open, buffer, closed, accepted, runEnd, turns, wpc, resets, notices>>
         /\ \/ /\ where = "turn" /\ pc' = "drain" /\ where' = "handler"
               /\ ending' = TRUE /\ raising' = raising
            \/ /\ where = "handler" /\ pc' = "exit" /\ where' = "exit"
               /\ ending' = ending /\ raising' = "interrupt"
            \/ /\ where \in {"between", "exit"} /\ pc' = "drain" /\ where' = "outer"
               /\ ending' = TRUE /\ raising' = "no"
            \/ /\ where \in {"before", "outer", "after"} /\ pc' \in {"exiting", "close"} /\ where' = "after"
               /\ ending' = ending /\ raising' = raising
<1>1. /\ pc \notin {"closing", "exiting", "closed"} /\ faults < MaxFaults /\ faults' = faults + 1
      /\ after' = "none" /\ drained' = <<>>
      /\ UNCHANGED <<open, buffer, closed, accepted, runEnd, turns, wpc, resets, notices>>
  BY DEF Interrupt, PutBreaks, file, box
<1>2. \/ pc = "put" /\ Breaks /\ lock' = "free" /\ line' = <<>> /\ pending' = <<>>
      \/ pc # "put" /\ UNCHANGED <<lock, line, pending, held, torn, lines>>
  BY DEF Interrupt, PutBreaks, file, Breaks
<1>3. \/ /\ where = "turn" /\ pc' = "drain" /\ where' = "handler"
         /\ ending' = TRUE /\ raising' = raising
      \/ /\ where = "handler" /\ pc' = "exit" /\ where' = "exit"
         /\ ending' = ending /\ raising' = "interrupt"
      \/ /\ where \in {"between", "exit"} /\ pc' = "drain" /\ where' = "outer"
         /\ ending' = TRUE /\ raising' = "no"
      \/ /\ where \in {"before", "outer", "after"} /\ pc' \in {"exiting", "close"} /\ where' = "after"
         /\ ending' = ending /\ raising' = raising
  BY DEF Interrupt, Goto, PartOf
<1> QED
  BY <1>1, <1>2, <1>3

LEMMA FileSteps ==
  ASSUME TypeInv, LockInv, WhereInv, BudgetInv, [Next]_vars
  PROVE  FileStep
<1> USE DEF FileStep
<1>1. CASE RunStart
  <2>1. 0 \in 0 .. MaxResets
    BY <1>1, BoundsAre DEF TypeInv, CountsOK, NoticesOK
  <2>2. Len(accepted) < MaxRecords
    BY <1>1, HasRoom DEF RunStart
  <2> DEFINE r == Record("run_start", 0)
  <2>3. r \in Records /\ r.n = Len(accepted) + 1 /\ (open => r.turn = turns)
    BY <2>1, <2>2, RecordIs DEF Kinds
  <2>4. TakesIn(r)
    BY <1>1, <2>3 DEF RunStart, MainWrites, Write, TakesIn
  <2> QED
    BY <2>3, <2>4
<1>2. CASE EnterTurn
  BY <1>2 DEF EnterTurn, Goto, Stays, file, box, main, reader
<1>3. CASE TurnWrites
  <2>1. 0 \in 0 .. MaxResets
    BY <1>3, BoundsAre DEF TypeInv, CountsOK, NoticesOK
  <2>2. Len(accepted) < MaxRecords
    BY <1>3, HasRoom DEF TurnWrites
  <2> DEFINE r == Record("event", 0)
  <2>3. r \in Records /\ r.n = Len(accepted) + 1 /\ (open => r.turn = turns)
    BY <2>1, <2>2, RecordIs DEF Kinds
  <2>4. TakesIn(r)
    BY <1>3, <2>3 DEF TurnWrites, MainWrites, Write, TakesIn
  <2> QED
    BY <2>3, <2>4
<1>4. CASE TurnResets
  <2>1. resets + 1 \in 0 .. MaxResets
    BY <1>4, BoundsAre DEF TypeInv, CountsOK, NoticesOK, TurnResets
  <2>2. Len(accepted) < MaxRecords
    BY <1>4, HasRoom DEF TurnResets
  <2> DEFINE r == Record("reset", resets + 1)
  <2>3. r \in Records /\ r.n = Len(accepted) + 1 /\ (open => r.turn = turns)
    BY <2>1, <2>2, RecordIs DEF Kinds
  <2>4. TakesIn(r)
    BY <1>4, <2>3 DEF TurnResets, MainWrites, Write, TakesIn
  <2> QED
    BY <2>3, <2>4
<1>5. CASE Notify \/ Drain \/ NudgesDone
  BY <1>5 DEF Notify, Drain, NudgesDone, Goto, Stays, file, box, main, reader
<1>6. CASE Nudge
  <2>1. Head(drained) \in 0 .. MaxResets
    BY <1>6, HeadTailProperties, BoundsAre DEF TypeInv, NoticesOK, Nudge
  <2>2. Len(accepted) < MaxRecords
    BY <1>6, HasRoom DEF Nudge
  <2> DEFINE r == Record("nudge", Head(drained))
  <2>3. r \in Records /\ r.n = Len(accepted) + 1 /\ (open => r.turn = turns)
    BY <2>1, <2>2, RecordIs DEF Kinds
  <2>4. TakesIn(r)
    BY <1>6, <2>3 DEF Nudge, MainWrites, Write, TakesIn
  <2> QED
    BY <2>3, <2>4
<1>7. CASE TurnEnds
  BY <1>7 DEF TurnEnds, Goto, Stays, file, box, main, reader
<1>8. CASE Flush
  <2>1. CASE buffer = <<>>
    BY <1>8, <2>1 DEF Flush, FlushThen, TakeOut, Stays
  <2>2. CASE buffer # <<>>
    BY <1>8, <2>2 DEF Flush, FlushThen, TakeOut, TakesOut
  <2> QED
    BY <2>1, <2>2
<1>9. CASE RunEnd
  <2>1. CASE runEnd
    BY <1>9, <2>1 DEF RunEnd, Stays, file
  <2>2. CASE ~runEnd
    <3>1. Len(accepted) < MaxRecords
      BY <1>9, <2>2, HasRoom DEF RunEnd
    <3> DEFINE r == Record("run_end", 0)
    <3>2. r \in Records /\ r.n = Len(accepted) + 1 /\ (open => r.turn = turns)
      BY <3>1, RecordIs, BoundsAre DEF Kinds
    <3>3. TakesIn(r)
      BY <1>9, <2>2, <3>2 DEF RunEnd, MainWrites, Write, TakesIn
    <3> QED
      BY <3>2, <3>3
  <2> QED
    BY <2>1, <2>2
<1>10. CASE ExitTurn
  <2>1. CASE buffer = <<>>
    BY <1>10, <2>1 DEF ExitTurn, FlushThen, TakeOut, Stays
  <2>2. CASE buffer # <<>>
    BY <1>10, <2>2 DEF ExitTurn, FlushThen, TakeOut, TakesOut
  <2> QED
    BY <2>1, <2>2
<1>11. CASE FailRun
  <2>1. 0 \in 0 .. MaxResets
    BY <1>11, BoundsAre DEF TypeInv, CountsOK, NoticesOK
  <2>2. Len(accepted) < MaxRecords
    BY <1>11, HasRoom DEF FailRun
  <2> DEFINE r == Record("run_end", 0)
  <2>3. r \in Records /\ r.n = Len(accepted) + 1 /\ (open => r.turn = turns)
    BY <2>1, <2>2, RecordIs DEF Kinds
  <2>4. TakesIn(r)
    BY <1>11, <2>3 DEF FailRun, MainWrites, Write, TakesIn
  <2> QED
    BY <2>3, <2>4
<1>12. CASE Close
  <2>1. CASE buffer = <<>>
    BY <1>12, <2>1 DEF Close, Stays, LockInv
  <2>2. CASE buffer # <<>>
    BY <1>12, <2>2 DEF Close, TakesOut
  <2> QED
    BY <2>1, <2>2
<1>13. CASE CloseFile
  BY <1>13 
<1>14. CASE PutAndReturn
  BY <1>14, PutReturns DEF Puts
<1>15. CASE PutFails
  BY <1>15, PutFailsThen DEF Breaks
<1>16. CASE Interrupt
  <2>1. CASE pc = "put"
    BY <1>16, <2>1 DEF Interrupt, Breaks
  <2>2. CASE pc # "put"
    BY <1>16, <2>2 DEF Interrupt, Stays, file, TypeInv, CountsOK
  <2> QED
    BY <2>1, <2>2
<1>17. CASE WatchdogNotifies
  BY <1>17 DEF WatchdogNotifies, Stays, file, box, main, reader
<1>18. CASE WatchdogResets
  <2>1. resets + 1 \in 0 .. MaxResets
    BY <1>18, BoundsAre DEF TypeInv, CountsOK, NoticesOK, WatchdogResets
  <2>2. Len(accepted) < MaxRecords
    BY <1>18, HasRoom DEF WatchdogResets
  <2> DEFINE r == Record("reset", resets + 1)
  <2>3. r \in Records /\ r.n = Len(accepted) + 1 /\ (open => r.turn = turns)
    BY <2>1, <2>2, RecordIs DEF Kinds
  <2>4. TakesIn(r)
    BY <1>18, <2>3 DEF WatchdogResets, main, Write, TakesIn
  <2> QED
    BY <2>3, <2>4
<1>19. CASE ReaderStats \/ ReaderReads
  BY <1>19 DEF ReaderStats, ReaderReads, Stays, file, box, main, reader
<1>20. CASE UNCHANGED vars
  BY <1>20 DEF vars, file, main, box, reader, Stays
<1> QED
  BY <1>1, <1>2, <1>3, <1>4, <1>5, <1>6, <1>7, <1>8, <1>9, <1>10, <1>11, <1>12, <1>13,
     <1>14, <1>15, <1>16, <1>17, <1>18, <1>19, <1>20 DEF Next, MainStep, WatchdogStep,
     ReaderStep, Terminated

(* Where the main thread goes on when what it wrote is in the file.                         *)
LEMMA AfterPut ==
  ASSUME LabelsOK, LockInv, WhereInv, PutAndReturn, pending = <<>>, lock = "main"
  PROVE  /\ pc = "put" /\ after # "none" /\ pc' = after /\ after' = "none" /\ wpc' = wpc
         /\ UNCHANGED <<open, closed, ending, raising, runEnd, turns>>
         /\ \/ where = "before" /\ after = "enter" /\ where' = "between"
            \/ where \in {"turn", "handler", "outer"} /\ after = "run_end" /\ where' = where
            \/ where = "outer" /\ after = "nudge" /\ where' = where
            \/ where = "exit" /\ after = "enter" /\ where' = "between"
            \/ where = "exit" /\ after = "drain" /\ where' = "outer"
            \/ where = "exit" /\ after \in {"fail", "close"} /\ where' = "after"
            \/ where = "outer" /\ after = "close" /\ where' = "after"
            \/ where = "after" /\ after \in {"close", "closing"} /\ where' = "after"
<1>1. /\ pc' = after /\ where' = PartOf(after) /\ after' = "none" /\ wpc' = wpc
      /\ UNCHANGED <<open, closed, ending, raising, runEnd, turns>>
  BY PutReturns
<1>2. pc = "put" /\ after # "none"
  BY PutReturns DEF LockInv, HeldInv, FlowInv
<1>3. \/ where = "before" /\ after = "enter"
      \/ where \in {"turn", "handler"} /\ after = "run_end"
      \/ where = "exit" /\ after \in {"enter", "drain", "fail", "close"}
      \/ where = "outer" /\ after \in {"nudge", "run_end", "close"}
      \/ where = "after" /\ after \in {"close", "closing"}
  BY <1>2 DEF WhereInv, LabelsOK, Parts
<1> QED
  BY <1>1, <1>2, <1>3 DEF PartOf

(* A write that breaks leaves the first n held lines in the file; the line itself may be    *)
(* held as well; the rest is gone.                                                         *)
LEMMA BreaksHow ==
  ASSUME TypeInv, Breaks
  PROVE  \E n \in 0 .. Len(held), kept \in {line, <<>>} :
           /\ lines' = lines \o Shown(SubSeq(held, 1, n))
           /\ held' = SubSeq(held, n + 1, Len(held)) \o kept
           /\ torn' \in {"no", "part", "junk"} /\ (n = 0 /\ torn # "no" => torn' # "no")
           /\ line' = <<>> /\ pending' = <<>> /\ faults' = faults + 1
           /\ UNCHANGED <<buffer, accepted, turns>>
<1>1. Len(held) \in Nat
  BY SeqTypes
<1>2. ASSUME NEW osError \in BOOLEAN, PutBreaks(osError)
      PROVE  \E n \in 0 .. Len(held), kept \in {line, <<>>} :
               /\ lines' = lines \o Shown(SubSeq(held, 1, n))
               /\ held' = SubSeq(held, n + 1, Len(held)) \o kept
               /\ torn' \in {"no", "part", "junk"} /\ (n = 0 /\ torn # "no" => torn' # "no")
  <2>1. PICK keep \in BOOLEAN, n \in 0 .. IF osError THEN Len(held) ELSE 0, end \in {"no", "torn"} :
          /\ lines' = lines \o Shown(SubSeq(held, 1, n))
          /\ held' = SubSeq(held, n + 1, Len(held)) \o (IF keep THEN line ELSE <<>>)
          /\ torn' = IF end = "torn"
                       THEN IF n = 0 /\ torn = "junk" THEN "junk"
                            ELSE IF held' # <<>> THEN "part" ELSE "junk"
                       ELSE IF n = 0 THEN torn ELSE "no"
    BY <1>2 DEF PutBreaks
  <2>2. n \in 0 .. Len(held)
    BY <1>1
  <2>3. torn' \in {"no", "part", "junk"} /\ (n = 0 /\ torn # "no" => torn' # "no")
    BY <2>1 DEF TypeInv, FileOK
  <2>4. (IF keep THEN line ELSE <<>>) \in {line, <<>>}
    OBVIOUS
  <2> QED
    BY <2>1, <2>2, <2>3, <2>4
<1>3. /\ line' = <<>> /\ pending' = <<>> /\ faults' = faults + 1
      /\ UNCHANGED <<buffer, accepted, turns>>
  BY DEF Breaks, PutBreaks
<1> QED
  BY <1>2, <1>3 DEF Breaks

(* The pieces of a sequence of records, and of two put together.                            *)
LEMMA PartIs ==
  ASSUME NEW S, NEW s \in Seq(S), NEW n \in 0 .. Len(s)
  PROVE  /\ SubSeq(s, 1, n) \in Seq(S) /\ Len(SubSeq(s, 1, n)) = n
         /\ \A i \in 1 .. n : SubSeq(s, 1, n)[i] = s[i]
         /\ SubSeq(s, n + 1, Len(s)) \in Seq(S) /\ Len(SubSeq(s, n + 1, Len(s))) = Len(s) - n
         /\ \A i \in 1 .. Len(s) - n : SubSeq(s, n + 1, Len(s))[i] = s[n + i]
<1>1. Len(s) \in Nat /\ \A i \in 1 .. Len(s) : s[i] \in S
  BY LenProperties, ElementOfSeq
<1>2. \A i \in 1 .. n : s[i] \in S
  BY <1>1
<1>3. \A i \in n + 1 .. Len(s) : s[i] \in S
  BY <1>1
<1>4. /\ SubSeq(s, 1, n) \in Seq(S) /\ Len(SubSeq(s, 1, n)) = n
      /\ \A i \in 1 .. n : SubSeq(s, 1, n)[i] = s[i]
  <2>1. 1 \in Int /\ n \in Int
    OBVIOUS
  <2>2. /\ SubSeq(s, 1, n) \in Seq(S)
        /\ Len(SubSeq(s, 1, n)) = IF 1 <= n THEN n - 1 + 1 ELSE 0
        /\ \A i \in 1 .. n - 1 + 1 : SubSeq(s, 1, n)[i] = s[1 + i - 1]
    BY <1>2, <2>1, SubSeqProperties
  <2> QED
    BY <2>2
<1>5. /\ SubSeq(s, n + 1, Len(s)) \in Seq(S) /\ Len(SubSeq(s, n + 1, Len(s))) = Len(s) - n
      /\ \A i \in 1 .. Len(s) - n : SubSeq(s, n + 1, Len(s))[i] = s[n + i]
  <2>1. n + 1 \in Int /\ Len(s) \in Int
    BY <1>1
  <2>2. /\ SubSeq(s, n + 1, Len(s)) \in Seq(S)
        /\ Len(SubSeq(s, n + 1, Len(s))) = IF n + 1 <= Len(s) THEN Len(s) - (n + 1) + 1 ELSE 0
        /\ \A i \in 1 .. Len(s) - (n + 1) + 1 : SubSeq(s, n + 1, Len(s))[i] = s[n + 1 + i - 1]
    BY <1>3, <2>1, SubSeqProperties
  <2> QED
    BY <1>1, <2>2
<1> QED
  BY <1>4, <1>5

-----------------------------------------------------------------------------
(* What keeps the file's invariants                                        *)

(* What a step leaves in the file and on the way into it was there before, or is the record  *)
(* it took in, or is a garbled line.                                                        *)
LEMMA FlowOf ==
  ASSUME TypeInv, FlowInv, FileStep, NEW S,
         lines \in Seq(S \cup {Garbled}), held \in Seq(S), line \in Seq(S),
         pending \in Seq(S), buffer \in Seq(S),
         \A r \in Records : TakesIn(r) => r \in S
  PROVE  /\ lines' \in Seq(S \cup {Garbled}) /\ held' \in Seq(S) /\ line' \in Seq(S)
         /\ pending' \in Seq(S) /\ buffer' \in Seq(S)
<1>1. <<>> \in Seq(S)
  BY EmptySeq
<1>2. ASSUME NEW r \in Records, TakesIn(r)
      PROVE  /\ lines' \in Seq(S \cup {Garbled}) /\ held' \in Seq(S) /\ line' \in Seq(S)
             /\ pending' \in Seq(S) /\ buffer' \in Seq(S)
  <2>1. r \in S
    BY <1>2
  <2>2. <<r>> \in Seq(S) /\ Append(buffer, r) \in Seq(S)
    BY <2>1, SingleIs, AppendProperties
  <2> QED
    BY <1>2, <2>2 DEF TakesIn
<1>3. CASE TakesOut
  <2>1. Head(buffer) \in S /\ Tail(buffer) \in Seq(S)
    BY <1>3, HeadTailProperties DEF TakesOut
  <2>2. <<Head(buffer)>> \in Seq(S)
    BY <2>1, SingleIs
  <2> QED
    BY <1>1, <1>3, <2>1, <2>2 DEF TakesOut
<1>4. CASE Puts
  <2>1. held \o line \in Seq(S)
    BY ConcatProperties
  <2>2. Shown(held \o line) \in Seq(S \cup {Garbled})
    BY <2>1, ShownIs
  <2>3. lines' \in Seq(S \cup {Garbled})
    BY <1>4, <2>2, ConcatProperties DEF Puts, PutLine
  <2>4. CASE pending = <<>>
    BY <1>1, <1>4, <2>3, <2>4 DEF Puts, PutLine
  <2>5. CASE pending # <<>>
    <3>1. Head(pending) \in S /\ Tail(pending) \in Seq(S)
      BY <2>5, HeadTailProperties
    <3>2. <<Head(pending)>> \in Seq(S)
      BY <3>1, SingleIs
    <3>3. line' = <<Head(pending)>> /\ pending' = Tail(pending)
      BY <1>4, <2>5 DEF Puts, PutLine
    <3> QED
      BY <1>1, <1>4, <2>3, <3>1, <3>2, <3>3 DEF Puts, PutLine
  <2> QED
    BY <2>4, <2>5
<1>5. CASE Breaks
  <2>1. PICK n \in 0 .. Len(held), kept \in {line, <<>>} :
          /\ lines' = lines \o Shown(SubSeq(held, 1, n))
          /\ held' = SubSeq(held, n + 1, Len(held)) \o kept
          /\ line' = <<>> /\ pending' = <<>> /\ buffer' = buffer
    BY <1>5, BreaksHow
  <2>2. SubSeq(held, 1, n) \in Seq(S) /\ SubSeq(held, n + 1, Len(held)) \in Seq(S) /\ kept \in Seq(S)
    BY <1>1, PartIs
  <2>3. Shown(SubSeq(held, 1, n)) \in Seq(S \cup {Garbled})
    BY <2>2, ShownIs
  <2> QED
    BY <1>1, <2>1, <2>2, <2>3, ConcatProperties
<1>6. CASE CloseFile
  <2>1. Shown(held) \in Seq(S \cup {Garbled})
    BY ShownIs
  <2>2. lines \o Shown(held) \in Seq(S \cup {Garbled})
    BY <2>1, ConcatProperties
  <2> QED
    BY <1>1, <1>6, <2>2 DEF CloseFile
<1>7. CASE Stays
  BY <1>7 DEF Stays
<1> QED
  BY <1>2, <1>3, <1>4, <1>5, <1>6, <1>7 DEF FileStep

(* The records taken in only become more.                                                   *)
LEMMA AcceptedGrows ==
  ASSUME TypeInv, FileStep
  PROVE  /\ accepted' \in Seq(Records) /\ Len(accepted') \in Nat
         /\ \/ accepted' = accepted
            \/ \E r \in Records : accepted' = Append(accepted, r) /\ TakesIn(r)
         /\ Len(accepted) <= Len(accepted')
<1>1. accepted \in Seq(Records) /\ Len(accepted) \in Nat
  BY SeqTypes
<1>2. ASSUME NEW r \in Records, TakesIn(r)
      PROVE  accepted' \in Seq(Records) /\ Len(accepted') = Len(accepted) + 1 /\ accepted' = Append(accepted, r)
  BY <1>1, <1>2, AppendProperties DEF TakesIn
<1>3. CASE TakesOut \/ Puts \/ Breaks \/ CloseFile \/ Stays
  <2>1. accepted' = accepted
    BY <1>3 DEF TakesOut, Puts, PutLine, Breaks, PutBreaks, CloseFile, Stays
  <2> QED
    BY <1>1, <2>1
<1>4. CASE \E r \in Records : TakesIn(r)
  <2>1. PICK r \in Records : TakesIn(r)
    BY <1>4
  <2>2. accepted' \in Seq(Records) /\ Len(accepted') = Len(accepted) + 1 /\ accepted' = Append(accepted, r)
    BY <1>2, <2>1
  <2> QED
    BY <1>1, <2>1, <2>2
<1> QED
  BY <1>3, <1>4 DEF FileStep

LEMMA FileStepOK ==
  ASSUME TypeInv, FlowInv, FileStep
  PROVE  FileOK'
<1>1. /\ lines' \in Seq(Records \cup {Garbled}) /\ held' \in Seq(Records) /\ line' \in Seq(Records)
      /\ pending' \in Seq(Records) /\ buffer' \in Seq(Records)
  BY FlowOf DEF TypeInv, FileOK, Lines
<1>2. accepted' \in Seq(Records)
  BY AcceptedGrows
<1>3. torn' \in {"no", "part", "junk"}
  <2>1. CASE Breaks
    BY <2>1, BreaksHow
  <2>2. CASE ~Breaks
    BY <2>2 DEF FileStep, TakesIn, TakesOut, Puts, PutLine, CloseFile, Stays, TypeInv,
       FileOK
  <2> QED
    BY <2>1, <2>2
<1> QED
  BY <1>1, <1>2, <1>3 DEF FileOK, Lines

LEMMA AgeStep ==
  ASSUME TypeInv, FlowInv, AgeInv, FileStep
  PROVE  AgeInv'
<1> DEFINE S == {r \in Records : r.n <= Len(accepted')}
<1>1. Len(accepted) \in Nat /\ Len(accepted') \in Nat /\ Len(accepted) <= Len(accepted')
  BY SeqTypes, AcceptedGrows
<1>2. Aged \subseteq S
  <2>1. ASSUME NEW r \in Records, r.n <= Len(accepted) PROVE r.n <= Len(accepted')
    BY <1>1, <2>1, RecordFields, BoundsAre
  <2> QED
    BY <2>1 DEF Aged
<1>3. Aged \cup {Garbled} \subseteq S \cup {Garbled}
  BY <1>2
<1>4. /\ lines \in Seq(S \cup {Garbled}) /\ held \in Seq(S) /\ line \in Seq(S)
      /\ pending \in Seq(S) /\ buffer \in Seq(S)
  BY <1>2, <1>3, SeqMonotonic DEF AgeInv
<1>5. ASSUME NEW r \in Records, TakesIn(r) PROVE r \in S
  <2>1. r.n = Len(accepted) + 1 /\ Len(accepted') = Len(accepted) + 1
    BY <1>5, SeqTypes, AppendProperties DEF TakesIn
  <2> QED
    BY <1>1, <2>1
<1>6. /\ lines' \in Seq(S \cup {Garbled}) /\ held' \in Seq(S) /\ line' \in Seq(S)
      /\ pending' \in Seq(S) /\ buffer' \in Seq(S)
  <2> HIDE DEF S
  <2> QED
    BY <1>4, <1>5, FlowOf
<1> QED
  BY <1>6 DEF AgeInv, Aged

LEMMA TurnStep ==
  ASSUME TypeInv, LockInv, TurnInv, FileStep
  PROVE  TurnInv'
<1>1. <<>> \in Seq(Current) /\ <<>> \in Seq(Current')
  BY EmptySeq
<1>2. CASE turns' = turns
  <2>1. Current' = Current
    BY <1>2 DEF Current
  <2>2. ASSUME NEW r \in Records, TakesIn(r) PROVE TurnInv'
    <3>1. open => r \in Current
      BY <2>2 DEF TakesIn, Current
    <3>2. open => Append(buffer, r) \in Seq(Current)
      BY <3>1, AppendProperties DEF TurnInv
    <3> QED
      BY <2>1, <2>2, <3>2 DEF TakesIn, TurnInv
  <2>3. CASE TakesOut
    <3>1. Tail(buffer) \in Seq(Current)
      BY <2>3, HeadTailProperties DEF TakesOut, TurnInv
    <3> QED
      BY <1>1, <2>1, <2>3, <3>1 DEF TakesOut, TurnInv
  <2>4. CASE Puts
    <3>1. pending # <<>> => Tail(pending) \in Seq(Current)
      BY HeadTailProperties DEF TurnInv
    <3>2. pending' = IF pending = <<>> THEN <<>> ELSE Tail(pending)
      BY <2>4 DEF Puts, PutLine
    <3>3. pending' \in Seq(Current) /\ buffer' = buffer
      BY <1>1, <2>4, <3>1, <3>2 DEF Puts, PutLine
    <3> QED
      BY <2>1, <3>3 DEF TurnInv
  <2>5. CASE Breaks
    BY <1>1, <2>1, <2>5, BreaksHow DEF TurnInv
  <2>6. CASE CloseFile
    BY <1>1, <2>1, <2>6 DEF CloseFile, TurnInv
  <2>7. CASE Stays
    BY <2>1, <2>7 DEF Stays, TurnInv
  <2> QED
    BY <2>2, <2>3, <2>4, <2>5, <2>6, <2>7 DEF FileStep
<1>3. CASE turns' # turns
  <2>1. Stays /\ lock = "free" /\ ~open
    BY <1>3, BreaksHow DEF FileStep, TakesIn, TakesOut, Puts, CloseFile, Stays
  <2>2. pending = <<>> /\ buffer = <<>>
    BY <2>1 DEF LockInv, FlowInv
  <2> QED
    BY <1>1, <2>1, <2>2 DEF Stays, TurnInv
<1> QED
  BY <1>2, <1>3

(* The file only grows, and what is in it stays.                                            *)
LEMMA FileGrows ==
  ASSUME TypeInv, FileStep
  PROVE  /\ Size \in Nat /\ Size' \in Nat /\ Size <= Size'
         /\ Size = Size' => lines' = lines
<1>1. lines \in Seq(Lines) /\ Len(lines) \in Nat /\ held \in Seq(Records) /\ line \in Seq(Records)
  BY SeqTypes
<1> DEFINE t == IF torn = "no" THEN 0 ELSE 1
           u == IF torn' = "no" THEN 0 ELSE 1
<1>2. t \in 0 .. 1 /\ u \in 0 .. 1 /\ Size = 2 * Len(lines) + t /\ Size' = 2 * Len(lines') + u
  BY DEF Size
<1>3. ASSUME NEW s \in Seq(Records), lines' = lines \o Shown(s),
             s = <<>> /\ torn # "no" => torn' # "no"
      PROVE  /\ Size \in Nat /\ Size' \in Nat /\ Size <= Size'
             /\ Size = Size' => lines' = lines
  <2>1. Shown(s) \in Seq(Lines) /\ Len(Shown(s)) = Len(s) /\ Len(s) \in Nat
    BY ShownIs, LenProperties DEF Lines
  <2>2. lines \in Seq(Lines)
    BY <1>1
  <2>3. Len(lines') = Len(lines) + Len(s)
    <3> HIDE DEF t, u
    <3>1. Len(lines \o Shown(s)) = Len(lines) + Len(Shown(s))
      BY <2>1, <2>2, ConcatProperties
    <3> QED
      BY <1>3, <2>1, <3>1
  <2>4. CASE s = <<>>
    <3>1. Len(s) = 0 /\ Shown(s) = <<>>
      BY <2>4, ShownIs, EmptySeq
    <3>2. lines' = lines
      BY <1>3, <2>2, <3>1, ConcatEmptySeq
    <3> QED
      BY <1>1, <1>2, <1>3, <2>3, <2>4, <3>1, <3>2
  <2>5. CASE s # <<>>
    <3>1. Len(s) > 0
      BY <2>5, EmptySeq
    <3> QED
      BY <1>1, <1>2, <2>1, <2>3, <3>1
  <2> QED
    BY <2>4, <2>5
<1>4. ASSUME lines' = lines, torn' = torn
      PROVE  /\ Size \in Nat /\ Size' \in Nat /\ Size <= Size'
             /\ Size = Size' => lines' = lines
  BY <1>1, <1>2, <1>4
<1>5. CASE (\E r \in Records : TakesIn(r)) \/ TakesOut \/ Stays
  BY <1>4, <1>5 DEF TakesIn, TakesOut, Stays
<1>6. CASE Puts
  <2>1. held \o line \in Seq(Records) /\ held \o line # <<>>
    BY <1>1, <1>6, ConcatProperties, ConcatEqualIffEmpty DEF Puts, PutLine
  <2> QED
    BY <1>3, <1>6, <2>1 DEF Puts, PutLine
<1>7. CASE Breaks
  <2>1. PICK n \in 0 .. Len(held) :
          /\ lines' = lines \o Shown(SubSeq(held, 1, n))
          /\ n = 0 /\ torn # "no" => torn' # "no"
    BY <1>7, BreaksHow
  <2>2. SubSeq(held, 1, n) \in Seq(Records) /\ Len(SubSeq(held, 1, n)) = n
    BY <1>1, PartIs
  <2> DEFINE s == SubSeq(held, 1, n)
  <2>3. s = <<>> /\ torn # "no" => torn' # "no"
    <3>1. s = <<>> => n = 0
      BY <2>2, EmptySeq
    <3> QED
      BY <2>1, <3>1
  <2>4. s \in Seq(Records) /\ lines' = lines \o Shown(s)
    BY <2>1, <2>2
  <2> HIDE DEF s, t, u
  <2> QED
    BY <1>3, <2>3, <2>4
<1>8. CASE CloseFile
  <2>1. held = <<>> => torn' = torn
    BY <1>8 DEF CloseFile
  <2> QED
    BY <1>1, <1>3, <1>8, <2>1 DEF CloseFile
<1> QED
  BY <1>5, <1>6, <1>7, <1>8 DEF FileStep

-----------------------------------------------------------------------------
(* What keeps the labels, the lock and the place in the program            *)

LEMMA LabelsStep ==
  ASSUME LabelsOK, WhereInv, LockInv, [Next]_vars
  PROVE  LabelsOK'
<1> USE DEF LabelsOK, Labels, Parts, PartOf, Expire, file, main, box, reader
<1>1. CASE RunStart \/ EnterTurn
  BY <1>1 DEF RunStart, EnterTurn, MainWrites, Write, Goto
<1>2. CASE TurnWrites \/ TurnResets
  BY <1>2 DEF TurnWrites, TurnResets, MainWrites, Write, Goto
<1>3. CASE Notify \/ Drain \/ Nudge \/ NudgesDone
  BY <1>3 DEF Notify, Drain, Nudge, NudgesDone, Goto, MainWrites, Write
<1>4. CASE TurnEnds \/ Flush \/ RunEnd
  BY <1>4 DEF TurnEnds, Flush, RunEnd, Goto, FlushThen, TakeOut, MainWrites, Write
<1>5. CASE ExitTurn \/ FailRun
  BY <1>5 DEF ExitTurn, FailRun, FlushThen, TakeOut, Goto, MainWrites, Write
<1>6. CASE Close \/ CloseFile
  BY <1>6 DEF Close, CloseFile, Goto, Shown
<1>7. CASE PutAndReturn
  <2>1. CASE pending = <<>> /\ lock = "main"
    BY <1>7, <2>1, PutReturns, AfterPut
  <2>2. CASE pending = <<>> /\ lock # "main"
    BY <1>7, <2>2, PutReturns, AfterPut
  <2>3. CASE pending # <<>>
    BY <1>7, <2>3, PutReturns, AfterPut
  <2> QED
    BY <1>7, <2>1, <2>2, <2>3, PutReturns
<1>8. CASE PutFails
  <2>1. CASE lock = "watchdog"
    BY <1>8, <2>1, PutFailsThen
  <2>2. CASE lock # "watchdog" /\ where \in {"turn", "handler"}
    BY <1>8, <2>2, PutFailsThen
  <2>3. CASE lock # "watchdog" /\ where = "after"
    BY <1>8, <2>3, PutFailsThen
  <2>4. CASE lock # "watchdog" /\ where \notin {"turn", "handler", "after"}
    BY <1>8, <2>4, PutFailsThen
  <2> QED
    BY <1>8, <2>1, <2>2, <2>3, <2>4, PutFailsThen
<1>9. CASE Interrupt
  <2>1. CASE where = "turn"
    BY <1>9, <2>1, InterruptThen
  <2>2. CASE where = "handler"
    BY <1>9, <2>2, InterruptThen
  <2>3. CASE where = "between"
    BY <1>9, <2>3, InterruptThen
  <2>4. CASE where = "exit"
    BY <1>9, <2>4, InterruptThen
  <2>5. CASE where = "before"
    BY <1>9, <2>5, InterruptThen
  <2>6. CASE where = "after"
    BY <1>9, <2>6, InterruptThen
  <2>7. CASE where = "outer"
    BY <1>9, <2>7, InterruptThen
  <2> QED
    BY <1>9, <2>1, <2>2, <2>3, <2>4, <2>5, <2>6, <2>7, InterruptThen
<1>10. CASE WatchdogResets \/ WatchdogNotifies
  BY <1>10 DEF WatchdogResets, WatchdogNotifies, Write
<1>11. CASE ReaderStats \/ ReaderReads
  BY <1>11 DEF ReaderStats, ReaderReads
<1>12. CASE UNCHANGED vars
  BY <1>12 DEF vars, file, main, box, reader
<1> QED
  BY <1>1, <1>2, <1>3, <1>4, <1>5, <1>6, <1>7, <1>8, <1>9, <1>10, <1>11, <1>12 DEF Next,
     MainStep, WatchdogStep, ReaderStep, Terminated

LEMMA FlagsStep ==
  ASSUME FlagsOK, [Next]_vars
  PROVE  FlagsOK'
<1> USE DEF FlagsOK, Expire, file, main, box, reader
<1>1. CASE RunStart \/ EnterTurn
  BY <1>1 DEF RunStart, EnterTurn, MainWrites, Write
<1>2. CASE TurnWrites \/ TurnResets
  BY <1>2 DEF TurnWrites, TurnResets, MainWrites, Write
<1>3. CASE Notify \/ Drain \/ Nudge \/ NudgesDone
  BY <1>3 DEF Notify, Drain, Nudge, NudgesDone, MainWrites, Write
<1>4. CASE TurnEnds \/ Flush \/ RunEnd
  BY <1>4 DEF TurnEnds, Flush, RunEnd, FlushThen, TakeOut, MainWrites, Write
<1>5. CASE ExitTurn \/ FailRun
  BY <1>5 DEF ExitTurn, FailRun, FlushThen, TakeOut, MainWrites, Write
<1>6. CASE Close \/ CloseFile
  BY <1>6 DEF Close, CloseFile
<1>7. CASE PutAndReturn
  BY <1>7, PutReturns
<1>8. CASE PutFails
  BY <1>8, PutFailsThen
<1>9. CASE Interrupt
  BY <1>9, InterruptThen
<1>10. CASE WatchdogResets \/ WatchdogNotifies
  BY <1>10 DEF WatchdogResets, WatchdogNotifies, Write
<1>11. CASE ReaderStats \/ ReaderReads
  BY <1>11 DEF ReaderStats, ReaderReads
<1>12. CASE UNCHANGED vars
  BY <1>12 DEF vars, file, main, box, reader
<1> QED
  BY <1>1, <1>2, <1>3, <1>4, <1>5, <1>6, <1>7, <1>8, <1>9, <1>10, <1>11, <1>12 DEF Next,
     MainStep, WatchdogStep, ReaderStep, Terminated

LEMMA CountsStep ==
  ASSUME TypeInv, WhereInv, NextTurnInv, [Next]_vars
  PROVE  CountsOK'
<1> USE BoundsAre DEF TypeInv, CountsOK, Expire, file, main, box, reader
<1>1. CASE RunStart
  BY <1>1 DEF RunStart, MainWrites, Write
<1>2. CASE EnterTurn
  BY <1>2 DEF EnterTurn, FlagsOK, WhereInv, NextTurnInv, LabelsOK, Parts
<1>3. CASE TurnWrites \/ TurnResets
  BY <1>3 DEF TurnWrites, TurnResets, MainWrites, Write
<1>4. CASE Notify \/ Drain \/ Nudge \/ NudgesDone
  BY <1>4 DEF Notify, Drain, Nudge, NudgesDone, MainWrites, Write
<1>5. CASE TurnEnds \/ Flush \/ RunEnd
  BY <1>5 DEF TurnEnds, Flush, RunEnd, FlushThen, TakeOut, MainWrites, Write
<1>6. CASE ExitTurn \/ FailRun
  BY <1>6 DEF ExitTurn, FailRun, FlushThen, TakeOut, MainWrites, Write
<1>7. CASE Close \/ CloseFile
  BY <1>7 DEF Close, CloseFile, Shown
<1>8. CASE PutAndReturn
  BY <1>8, PutReturns
<1>9. CASE PutFails
  BY <1>9, PutFailsThen
<1>10. CASE Interrupt
  BY <1>10, InterruptThen
<1>11. CASE WatchdogResets \/ WatchdogNotifies
  BY <1>11 DEF WatchdogResets, WatchdogNotifies, Write
<1>12. CASE ReaderStats \/ ReaderReads
  BY <1>12 DEF ReaderStats, ReaderReads
<1>13. CASE UNCHANGED vars
  BY <1>13 DEF vars, file, main, box, reader
<1> QED
  BY <1>1, <1>2, <1>3, <1>4, <1>5, <1>6, <1>7, <1>8, <1>9, <1>10, <1>11, <1>12, <1>13
     DEF Next, MainStep, WatchdogStep, ReaderStep, Terminated

LEMMA HeldStep ==
  ASSUME LabelsOK, LockInv, WhereInv, [Next]_vars
  PROVE  HeldInv'
<1> USE DEF LockInv, HeldInv, LabelsOK, Labels, PartOf, Expire, file, main, box, reader
<1>1. CASE RunStart
  BY <1>1 DEF RunStart, MainWrites, Write, Goto, WhereInv
<1>2. CASE EnterTurn
  BY <1>2 DEF EnterTurn, Goto
<1>3. CASE TurnWrites
  BY <1>3 DEF TurnWrites, MainWrites, Write, Goto, WhereInv
<1>4. CASE TurnResets
  BY <1>4 DEF TurnResets, MainWrites, Write, Goto, WhereInv
<1>5. CASE Notify
  BY <1>5 DEF Notify, Goto
<1>6. CASE Drain
  BY <1>6 DEF Drain, Goto
<1>7. CASE Nudge
  BY <1>7 DEF Nudge, MainWrites, Write, Goto
<1>8. CASE NudgesDone
  BY <1>8 DEF NudgesDone, Goto
<1>9. CASE TurnEnds
  <2>1. CASE pc' = "exit"
    BY <1>9, <2>1 DEF TurnEnds, Goto
  <2>2. CASE pc' # "exit"
    BY <1>9, <2>2 DEF TurnEnds, Goto
  <2> QED
    BY <2>1, <2>2
<1>10. CASE Flush
  BY <1>10 DEF Flush, FlushThen, TakeOut, Goto
<1>11. CASE RunEnd
  <2>1. CASE runEnd
    BY <1>11, <2>1 DEF RunEnd, MainWrites, Write, Goto
  <2>2. CASE ~runEnd /\ open
    BY <1>11, <2>2 DEF RunEnd, MainWrites, Write, Goto
  <2>3. CASE ~runEnd /\ ~open
    BY <1>11, <2>3 DEF RunEnd, MainWrites, Write, Goto
  <2> QED
    BY <2>1, <2>2, <2>3
<1>12. CASE ExitTurn
  BY <1>12 DEF ExitTurn, FlushThen, TakeOut, Goto
<1>13. CASE FailRun
  BY <1>13 DEF FailRun, MainWrites, Write, Goto
<1>14. CASE Close
  BY <1>14 DEF Close, Goto
<1>15. CASE CloseFile
  BY <1>15 DEF CloseFile, Goto, Shown, FlowInv
<1>16. CASE PutAndReturn
  <2>1. CASE pending = <<>> /\ lock = "main"
    BY <1>16, <2>1, PutReturns, AfterPut DEF FlowInv
  <2>2. CASE pending = <<>> /\ lock # "main"
    BY <1>16, <2>2, PutReturns, AfterPut DEF FlowInv
  <2>3. CASE pending # <<>>
    BY <1>16, <2>3, PutReturns, AfterPut DEF FlowInv
  <2> QED
    BY <1>16, <2>1, <2>2, <2>3, PutReturns
<1>17. CASE PutFails
  <2>1. CASE lock = "watchdog"
    BY <1>17, <2>1, PutFailsThen
  <2>2. CASE lock # "watchdog" /\ where \in {"turn", "handler"}
    BY <1>17, <2>2, PutFailsThen
  <2>3. CASE lock # "watchdog" /\ where = "after"
    BY <1>17, <2>3, PutFailsThen
  <2>4. CASE lock # "watchdog" /\ where \notin {"turn", "handler", "after"}
    BY <1>17, <2>4, PutFailsThen
  <2> QED
    BY <1>17, <2>1, <2>2, <2>3, <2>4, PutFailsThen
<1>18. CASE Interrupt
  <2>1. CASE where = "turn"
    BY <1>18, <2>1, InterruptThen
  <2>2. CASE where = "handler"
    BY <1>18, <2>2, InterruptThen
  <2>3. CASE where = "between"
    BY <1>18, <2>3, InterruptThen
  <2>4. CASE where = "exit"
    BY <1>18, <2>4, InterruptThen
  <2>5. CASE where = "before"
    BY <1>18, <2>5, InterruptThen
  <2>6. CASE where = "after"
    BY <1>18, <2>6, InterruptThen
  <2>7. CASE where = "outer"
    BY <1>18, <2>7, InterruptThen
  <2> QED
    BY <1>18, <2>1, <2>2, <2>3, <2>4, <2>5, <2>6, <2>7, InterruptThen
<1>19. CASE WatchdogResets
  BY <1>19 DEF WatchdogResets, Write
<1>20. CASE WatchdogNotifies
  BY <1>20 DEF WatchdogNotifies
<1>21. CASE ReaderStats
  BY <1>21 DEF ReaderStats
<1>22. CASE ReaderReads
  BY <1>22 DEF ReaderReads
<1>23. CASE UNCHANGED vars
  BY <1>23 DEF vars, file, main, box, reader
<1> QED
  BY <1>1, <1>2, <1>3, <1>4, <1>5, <1>6, <1>7, <1>8, <1>9, <1>10, <1>11, <1>12, <1>13,
     <1>14, <1>15, <1>16, <1>17, <1>18, <1>19, <1>20, <1>21, <1>22, <1>23 DEF Next,
     MainStep, WatchdogStep, ReaderStep, Terminated

LEMMA FlowStep ==
  ASSUME LabelsOK, LockInv, WhereInv, [Next]_vars
  PROVE  FlowInv'
<1> USE OneIs DEF LockInv, FlowInv, HeldInv, LabelsOK, Labels, PartOf, Expire, file,
       main, box, reader
<1>1. CASE RunStart
  BY <1>1 DEF RunStart, MainWrites, Write, Goto
<1>2. CASE EnterTurn
  BY <1>2 DEF EnterTurn, Goto
<1>3. CASE TurnWrites
  BY <1>3 DEF TurnWrites, MainWrites, Write, Goto
<1>4. CASE TurnResets
  BY <1>4 DEF TurnResets, MainWrites, Write, Goto
<1>5. CASE Notify
  BY <1>5 DEF Notify, Goto
<1>6. CASE Drain
  BY <1>6 DEF Drain, Goto
<1>7. CASE Nudge
  BY <1>7 DEF Nudge, MainWrites, Write, Goto
<1>8. CASE NudgesDone
  BY <1>8 DEF NudgesDone, Goto
<1>9. CASE TurnEnds
  <2>1. CASE pc' = "exit"
    BY <1>9, <2>1 DEF TurnEnds, Goto
  <2>2. CASE pc' # "exit"
    BY <1>9, <2>2 DEF TurnEnds, Goto
  <2> QED
    BY <2>1, <2>2
<1>10. CASE Flush
  BY <1>10 DEF Flush, FlushThen, TakeOut, Goto
<1>11. CASE RunEnd
  <2>1. CASE runEnd
    BY <1>11, <2>1 DEF RunEnd, MainWrites, Write, Goto
  <2>2. CASE ~runEnd /\ open
    BY <1>11, <2>2 DEF RunEnd, MainWrites, Write, Goto
  <2>3. CASE ~runEnd /\ ~open
    BY <1>11, <2>3 DEF RunEnd, MainWrites, Write, Goto
  <2> QED
    BY <2>1, <2>2, <2>3
<1>12. CASE ExitTurn
  BY <1>12 DEF ExitTurn, FlushThen, TakeOut, Goto
<1>13. CASE FailRun
  BY <1>13 DEF FailRun, MainWrites, Write, Goto
<1>14. CASE Close
  BY <1>14 DEF Close, Goto
<1>15. CASE CloseFile
  BY <1>15 DEF CloseFile, Goto, Shown
<1>16. CASE PutAndReturn
  <2>1. CASE pending = <<>> /\ lock = "main"
    BY <1>16, <2>1, PutReturns, AfterPut
  <2>2. CASE pending = <<>> /\ lock # "main"
    BY <1>16, <2>2, PutReturns, AfterPut
  <2>3. CASE pending # <<>>
    BY <1>16, <2>3, PutReturns, AfterPut
  <2> QED
    BY <1>16, <2>1, <2>2, <2>3, PutReturns
<1>17. CASE PutFails
  <2>1. CASE lock = "watchdog"
    BY <1>17, <2>1, PutFailsThen
  <2>2. CASE lock # "watchdog" /\ where \in {"turn", "handler"}
    BY <1>17, <2>2, PutFailsThen
  <2>3. CASE lock # "watchdog" /\ where = "after"
    BY <1>17, <2>3, PutFailsThen
  <2>4. CASE lock # "watchdog" /\ where \notin {"turn", "handler", "after"}
    BY <1>17, <2>4, PutFailsThen
  <2> QED
    BY <1>17, <2>1, <2>2, <2>3, <2>4, PutFailsThen
<1>18. CASE Interrupt
  <2>1. CASE where = "turn"
    BY <1>18, <2>1, InterruptThen
  <2>2. CASE where = "handler"
    BY <1>18, <2>2, InterruptThen
  <2>3. CASE where = "between"
    BY <1>18, <2>3, InterruptThen
  <2>4. CASE where = "exit"
    BY <1>18, <2>4, InterruptThen
  <2>5. CASE where = "before"
    BY <1>18, <2>5, InterruptThen
  <2>6. CASE where = "after"
    BY <1>18, <2>6, InterruptThen
  <2>7. CASE where = "outer"
    BY <1>18, <2>7, InterruptThen
  <2> QED
    BY <1>18, <2>1, <2>2, <2>3, <2>4, <2>5, <2>6, <2>7, InterruptThen
<1>19. CASE WatchdogResets
  BY <1>19 DEF WatchdogResets, Write
<1>20. CASE WatchdogNotifies
  BY <1>20 DEF WatchdogNotifies
<1>21. CASE ReaderStats
  BY <1>21 DEF ReaderStats
<1>22. CASE ReaderReads
  BY <1>22 DEF ReaderReads
<1>23. CASE UNCHANGED vars
  BY <1>23 DEF vars, file, main, box, reader
<1> QED
  BY <1>1, <1>2, <1>3, <1>4, <1>5, <1>6, <1>7, <1>8, <1>9, <1>10, <1>11, <1>12, <1>13,
     <1>14, <1>15, <1>16, <1>17, <1>18, <1>19, <1>20, <1>21, <1>22, <1>23 DEF Next,
     MainStep, WatchdogStep, ReaderStep, Terminated

LEMMA WhereStep ==
  ASSUME LabelsOK, FlagsOK, LockInv, WhereInv, [Next]_vars
  PROVE  WhereInv'
<1> USE DEF WhereInv, LockInv, HeldInv, LabelsOK, FlagsOK, Labels, Parts, PartOf,
       Expire, file, main, box, reader
<1>1. CASE RunStart
  BY <1>1 DEF RunStart, MainWrites, Write, Goto
<1>2. CASE EnterTurn
  BY <1>2 DEF EnterTurn, Goto
<1>3. CASE TurnWrites
  BY <1>3 DEF TurnWrites, MainWrites, Write, Goto
<1>4. CASE TurnResets
  BY <1>4 DEF TurnResets, MainWrites, Write, Goto
<1>5. CASE Notify
  BY <1>5 DEF Notify, Goto
<1>6. CASE Drain
  BY <1>6 DEF Drain, Goto
<1>7. CASE Nudge
  BY <1>7 DEF Nudge, MainWrites, Write, Goto
<1>8. CASE NudgesDone
  BY <1>8 DEF NudgesDone, Goto
<1>9. CASE TurnEnds
  <2>1. pc = "body" /\ where = "turn" /\ open /\ ~ending /\ after = "none" /\ ~closed
    BY <1>9 DEF TurnEnds
  <2>2. UNCHANGED <<open, after, raising, closed>>
    BY <1>9 DEF TurnEnds
  <2>3. CASE pc' = "exit" /\ where' = "exit" /\ UNCHANGED ending
    BY <2>1, <2>2, <2>3
  <2>4. CASE pc' = "drain" /\ where' = where /\ ending' = TRUE
    BY <2>1, <2>2, <2>4
  <2> QED
    BY <1>9, <2>3, <2>4 DEF TurnEnds, Goto
<1>10. CASE Flush
  BY <1>10 DEF Flush, FlushThen, TakeOut, Goto
<1>11. CASE RunEnd
  <2>1. CASE runEnd
    BY <1>11, <2>1 DEF RunEnd, MainWrites, Write, Goto
  <2>2. CASE ~runEnd /\ open
    BY <1>11, <2>2 DEF RunEnd, MainWrites, Write, Goto
  <2>3. CASE ~runEnd /\ ~open
    BY <1>11, <2>3 DEF RunEnd, MainWrites, Write, Goto
  <2> QED
    BY <2>1, <2>2, <2>3
<1>12. CASE ExitTurn
  BY <1>12 DEF ExitTurn, FlushThen, TakeOut, Goto
<1>13. CASE FailRun
  BY <1>13 DEF FailRun, MainWrites, Write, Goto
<1>14. CASE Close
  BY <1>14 DEF Close, Goto, FlowInv
<1>15. CASE CloseFile
  BY <1>15 DEF CloseFile, Goto, Shown
<1>16. CASE PutAndReturn
  <2>1. CASE pending = <<>> /\ lock = "main"
    BY <1>16, <2>1, PutReturns, AfterPut
  <2>2. CASE pending = <<>> /\ lock # "main"
    BY <1>16, <2>2, PutReturns, AfterPut
  <2>3. CASE pending # <<>>
    BY <1>16, <2>3, PutReturns, AfterPut
  <2> QED
    BY <1>16, <2>1, <2>2, <2>3, PutReturns
<1>17. CASE PutFails
  <2>1. CASE lock = "watchdog"
    BY <1>17, <2>1, PutFailsThen DEF FlowInv
  <2>2. CASE lock # "watchdog" /\ where \in {"turn", "handler"}
    BY <1>17, <2>2, PutFailsThen DEF FlowInv
  <2>3. CASE lock # "watchdog" /\ where = "after"
    BY <1>17, <2>3, PutFailsThen DEF FlowInv
  <2>4. CASE lock # "watchdog" /\ where \notin {"turn", "handler", "after"}
    BY <1>17, <2>4, PutFailsThen DEF FlowInv
  <2> QED
    BY <1>17, <2>1, <2>2, <2>3, <2>4, PutFailsThen
<1>18. CASE Interrupt
  <2>1. CASE where = "turn"
    BY <1>18, <2>1, InterruptThen
  <2>2. CASE where = "handler"
    BY <1>18, <2>2, InterruptThen
  <2>3. CASE where = "between"
    BY <1>18, <2>3, InterruptThen
  <2>4. CASE where = "exit"
    BY <1>18, <2>4, InterruptThen
  <2>5. CASE where = "before"
    BY <1>18, <2>5, InterruptThen
  <2>6. CASE where = "after"
    BY <1>18, <2>6, InterruptThen
  <2>7. CASE where = "outer"
    BY <1>18, <2>7, InterruptThen
  <2> QED
    BY <1>18, <2>1, <2>2, <2>3, <2>4, <2>5, <2>6, <2>7, InterruptThen
<1>19. CASE WatchdogResets
  BY <1>19 DEF WatchdogResets, Write
<1>20. CASE WatchdogNotifies
  BY <1>20 DEF WatchdogNotifies
<1>21. CASE ReaderStats
  BY <1>21 DEF ReaderStats
<1>22. CASE ReaderReads
  BY <1>22 DEF ReaderReads
<1>23. CASE UNCHANGED vars
  BY <1>23 DEF vars, file, main, box, reader
<1> QED
  BY <1>1, <1>2, <1>3, <1>4, <1>5, <1>6, <1>7, <1>8, <1>9, <1>10, <1>11, <1>12, <1>13,
     <1>14, <1>15, <1>16, <1>17, <1>18, <1>19, <1>20, <1>21, <1>22, <1>23 DEF Next,
     MainStep, WatchdogStep, ReaderStep, Terminated

LEMMA NextTurnStep ==
  ASSUME TypeInv, LockInv, WhereInv, NextTurnInv, [Next]_vars
  PROVE  NextTurnInv'
<1> USE BoundsAre DEF TypeInv, NextTurnInv, WhereInv, LockInv, HeldInv, CountsOK,
       FlagsOK, LabelsOK, Labels, Parts, PartOf, Expire, file, main, box, reader
<1>1. CASE RunStart
  BY <1>1 DEF RunStart, MainWrites, Write, Goto
<1>2. CASE EnterTurn
  BY <1>2 DEF EnterTurn, Goto
<1>3. CASE TurnWrites
  BY <1>3 DEF TurnWrites, MainWrites, Write, Goto
<1>4. CASE TurnResets
  BY <1>4 DEF TurnResets, MainWrites, Write, Goto
<1>5. CASE Notify
  BY <1>5 DEF Notify, Goto
<1>6. CASE Drain
  BY <1>6 DEF Drain, Goto
<1>7. CASE Nudge
  BY <1>7 DEF Nudge, MainWrites, Write, Goto
<1>8. CASE NudgesDone
  BY <1>8 DEF NudgesDone, Goto
<1>9. CASE TurnEnds
  <2>1. CASE pc' = "exit"
    BY <1>9, <2>1 DEF TurnEnds, Goto
  <2>2. CASE pc' # "exit"
    BY <1>9, <2>2 DEF TurnEnds, Goto
  <2> QED
    BY <2>1, <2>2
<1>10. CASE Flush
  BY <1>10 DEF Flush, FlushThen, TakeOut, Goto
<1>11. CASE RunEnd
  <2>1. CASE runEnd
    BY <1>11, <2>1 DEF RunEnd, MainWrites, Write, Goto
  <2>2. CASE ~runEnd /\ open
    BY <1>11, <2>2 DEF RunEnd, MainWrites, Write, Goto
  <2>3. CASE ~runEnd /\ ~open
    BY <1>11, <2>3 DEF RunEnd, MainWrites, Write, Goto
  <2> QED
    BY <2>1, <2>2, <2>3
<1>12. CASE ExitTurn
  BY <1>12 DEF ExitTurn, FlushThen, TakeOut, Goto
<1>13. CASE FailRun
  BY <1>13 DEF FailRun, MainWrites, Write, Goto
<1>14. CASE Close
  BY <1>14 DEF Close, Goto
<1>15. CASE CloseFile
  BY <1>15 DEF CloseFile, Goto, Shown
<1>16. CASE PutAndReturn
  <2>1. CASE pending = <<>> /\ lock = "main"
    BY <1>16, <2>1, PutReturns, AfterPut
  <2>2. CASE pending = <<>> /\ lock # "main"
    BY <1>16, <2>2, PutReturns, AfterPut
  <2>3. CASE pending # <<>>
    BY <1>16, <2>3, PutReturns, AfterPut
  <2> QED
    BY <1>16, <2>1, <2>2, <2>3, PutReturns
<1>17. CASE PutFails
  <2>1. CASE lock = "watchdog"
    BY <1>17, <2>1, PutFailsThen
  <2>2. CASE lock # "watchdog" /\ where \in {"turn", "handler"}
    BY <1>17, <2>2, PutFailsThen
  <2>3. CASE lock # "watchdog" /\ where = "after"
    BY <1>17, <2>3, PutFailsThen
  <2>4. CASE lock # "watchdog" /\ where \notin {"turn", "handler", "after"}
    BY <1>17, <2>4, PutFailsThen
  <2> QED
    BY <1>17, <2>1, <2>2, <2>3, <2>4, PutFailsThen
<1>18. CASE Interrupt
  <2>1. CASE where = "turn"
    BY <1>18, <2>1, InterruptThen
  <2>2. CASE where = "handler"
    BY <1>18, <2>2, InterruptThen
  <2>3. CASE where = "between"
    BY <1>18, <2>3, InterruptThen
  <2>4. CASE where = "exit"
    BY <1>18, <2>4, InterruptThen
  <2>5. CASE where = "before"
    BY <1>18, <2>5, InterruptThen
  <2>6. CASE where = "after"
    BY <1>18, <2>6, InterruptThen
  <2>7. CASE where = "outer"
    BY <1>18, <2>7, InterruptThen
  <2> QED
    BY <1>18, <2>1, <2>2, <2>3, <2>4, <2>5, <2>6, <2>7, InterruptThen
<1>19. CASE WatchdogResets
  BY <1>19 DEF WatchdogResets, Write
<1>20. CASE WatchdogNotifies
  BY <1>20 DEF WatchdogNotifies
<1>21. CASE ReaderStats
  BY <1>21 DEF ReaderStats
<1>22. CASE ReaderReads
  BY <1>22 DEF ReaderReads
<1>23. CASE UNCHANGED vars
  BY <1>23 DEF vars, file, main, box, reader
<1> QED
  BY <1>1, <1>2, <1>3, <1>4, <1>5, <1>6, <1>7, <1>8, <1>9, <1>10, <1>11, <1>12, <1>13,
     <1>14, <1>15, <1>16, <1>17, <1>18, <1>19, <1>20, <1>21, <1>22, <1>23 DEF Next,
     MainStep, WatchdogStep, ReaderStep, Terminated

-----------------------------------------------------------------------------
(* The reader and the notices                                              *)

ReaderMoves == Expire \/ ReaderStats \/ ReaderReads \/ UNCHANGED reader

LEMMA ReaderMovesStep ==
  ASSUME [Next]_vars
  PROVE  ReaderMoves
<1> USE DEF ReaderMoves, reader
<1>1. CASE RunStart \/ EnterTurn
  BY <1>1 DEF RunStart, EnterTurn
<1>2. CASE TurnWrites \/ TurnResets
  BY <1>2 DEF TurnWrites, TurnResets
<1>3. CASE Notify \/ Drain \/ Nudge \/ NudgesDone
  BY <1>3 DEF Notify, Drain, Nudge, NudgesDone
<1>4. CASE TurnEnds \/ Flush \/ RunEnd
  BY <1>4 DEF TurnEnds, Flush, RunEnd
<1>5. CASE ExitTurn \/ FailRun
  BY <1>5 DEF ExitTurn, FailRun
<1>6. CASE Close \/ CloseFile
  BY <1>6 DEF Close, CloseFile
<1>7. CASE PutAndReturn
  BY <1>7 DEF PutAndReturn
<1>8. CASE PutFails
  BY <1>8 DEF PutFails
<1>9. CASE Interrupt
  BY <1>9 DEF Interrupt
<1>10. CASE WatchdogResets \/ WatchdogNotifies
  BY <1>10 DEF WatchdogResets, WatchdogNotifies
<1>11. CASE ReaderStats \/ ReaderReads
  BY <1>11 DEF ReaderStats, ReaderReads
<1>12. CASE UNCHANGED vars
  BY <1>12 DEF vars, file, main, box, reader
<1> QED
  BY <1>1, <1>2, <1>3, <1>4, <1>5, <1>6, <1>7, <1>8, <1>9, <1>10, <1>11, <1>12 DEF Next,
     MainStep, WatchdogStep, ReaderStep, Terminated

LEMMA CacheStep ==
  ASSUME TypeInv, CacheInv, FileStep, ReaderMoves
  PROVE  ReaderOK' /\ CacheInv'
<1>1. /\ Size \in Nat /\ Size' \in Nat /\ Size <= Size'
      /\ Size = Size' => lines' = lines
  BY FileGrows
<1>2. /\ rpc \in {"idle", "read"} /\ rsig \in Nat /\ cache \in [sig : Int, lines : Seq(Lines)]
      /\ lines \in Seq(Lines) /\ cache.sig \in Int
  BY SeqTypes DEF TypeInv, ReaderOK
<1>3. /\ cache.sig <= Size /\ (cache.sig = Size => cache.lines = lines)
      /\ (rpc = "read" => rsig <= Size)
  BY DEF CacheInv
<1>4. NoCache \in [sig : Int, lines : Seq(Lines)] /\ NoCache.sig = -1
  BY EmptySeq DEF NoCache
<1>5. CASE cache' = cache /\ rpc' = rpc /\ rsig' = rsig
  BY <1>1, <1>2, <1>3, <1>5 DEF CacheInv, ReaderOK
<1>6. CASE cache' = NoCache /\ rpc' = rpc /\ rsig' = rsig
  BY <1>1, <1>2, <1>3, <1>4, <1>6 DEF CacheInv, ReaderOK
<1>7. CASE ReaderStats
  <2>1. Size' = Size /\ cache' = NoCache /\ rsig' = Size /\ rpc' = "read"
    BY <1>7 DEF ReaderStats, file, Size
  <2> QED
    BY <1>1, <1>4, <2>1 DEF CacheInv, ReaderOK
<1>8. CASE ReaderReads
  <2>1. /\ Size' = Size /\ lines' = lines /\ cache' = [sig |-> rsig, lines |-> lines]
        /\ rsig' = 0 /\ rpc' = "idle" /\ rpc = "read"
    BY <1>8 DEF ReaderReads, file, Size
  <2>2. cache' \in [sig : Int, lines : Seq(Lines)] /\ cache'.sig = rsig /\ cache'.lines = lines
    BY <1>2, <2>1
  <2> QED
    BY <1>1, <1>2, <1>3, <2>1, <2>2 DEF CacheInv, ReaderOK
<1> QED
  BY <1>5, <1>6, <1>7, <1>8 DEF ReaderMoves, Expire, reader

LEMMA NoticesStep ==
  ASSUME TypeInv, OwedInv, [Next]_vars
  PROVE  NoticesOK'
<1> USE EmptySeq, AppendProperties DEF TypeInv, NoticesOK, CountsOK, file, main, box,
       reader
<1>1. CASE RunStart \/ EnterTurn
  BY <1>1 DEF RunStart, EnterTurn
<1>2. CASE TurnWrites \/ TurnResets
  BY <1>2 DEF TurnWrites, TurnResets
<1>3. CASE Notify
  <2>1. resets \in 1 .. MaxResets
    BY <1>3 DEF Notify, OwedInv, Owed
  <2> QED
    BY <1>3, <2>1 DEF Notify
<1>4. CASE Drain
  BY <1>4 DEF Drain
<1>5. CASE Nudge
  <2>1. drained # <<>> /\ drained' = Tail(drained) /\ notices' = notices
    BY <1>5 DEF Nudge, box
  <2> QED
    BY <2>1, HeadTailProperties
<1>6. CASE NudgesDone
  BY <1>6 DEF NudgesDone
<1>7. CASE TurnEnds \/ Flush \/ RunEnd
  BY <1>7 DEF TurnEnds, Flush, RunEnd
<1>8. CASE ExitTurn \/ FailRun
  BY <1>8 DEF ExitTurn, FailRun
<1>9. CASE Close \/ CloseFile
  BY <1>9 DEF Close, CloseFile
<1>10. CASE PutAndReturn
  BY <1>10, PutReturns
<1>11. CASE PutFails
  BY <1>11, PutFailsThen
<1>12. CASE Interrupt
  BY <1>12, InterruptThen
<1>13. CASE WatchdogResets
  BY <1>13 DEF WatchdogResets
<1>14. CASE WatchdogNotifies
  BY <1>14 DEF WatchdogNotifies, OwedInv, Owed
<1>15. CASE ReaderStats \/ ReaderReads
  BY <1>15 DEF ReaderStats, ReaderReads
<1>16. CASE UNCHANGED vars
  BY <1>16 DEF vars, file, main, box, reader
<1> QED
  BY <1>1, <1>2, <1>3, <1>4, <1>5, <1>6, <1>7, <1>8, <1>9, <1>10, <1>11, <1>12, <1>13,
     <1>14, <1>15, <1>16 DEF Next, MainStep, WatchdogStep, ReaderStep, Terminated

LEMMA CalmStep ==
  ASSUME TypeInv, LockInv, WhereInv, CalmInv, [Next]_vars
  PROVE  CalmInv'
<1> USE DEF CalmInv, WhereInv, TypeInv, LabelsOK, CountsOK, Parts, PartOf, Expire, file,
       main, box, reader
<1>1. CASE RunStart
  BY <1>1 DEF RunStart, MainWrites, Write, Goto
<1>2. CASE EnterTurn
  BY <1>2 DEF EnterTurn, Goto
<1>3. CASE TurnWrites \/ TurnResets
  BY <1>3 DEF TurnWrites, TurnResets, MainWrites, Write, Goto
<1>4. CASE Notify \/ Drain \/ NudgesDone
  BY <1>4 DEF Notify, Drain, NudgesDone, Goto
<1>5. CASE Nudge
  BY <1>5 DEF Nudge, MainWrites, Write, Goto
<1>6. CASE TurnEnds
  <2>1. CASE pc' = "exit"
    BY <1>6, <2>1 DEF TurnEnds, Goto
  <2>2. CASE pc' # "exit"
    BY <1>6, <2>2 DEF TurnEnds, Goto
  <2> QED
    BY <2>1, <2>2
<1>7. CASE Flush
  BY <1>7 DEF Flush, FlushThen, TakeOut, Goto
<1>8. CASE RunEnd
  <2>1. CASE runEnd
    BY <1>8, <2>1 DEF RunEnd, MainWrites, Write, Goto
  <2>2. CASE ~runEnd /\ open
    BY <1>8, <2>2 DEF RunEnd, MainWrites, Write, Goto
  <2>3. CASE ~runEnd /\ ~open
    BY <1>8, <2>3 DEF RunEnd, MainWrites, Write, Goto
  <2> QED
    BY <2>1, <2>2, <2>3
<1>9. CASE FailRun
  BY <1>9 DEF FailRun, MainWrites, Write, Goto
<1>10. CASE ExitTurn
  BY <1>10 DEF ExitTurn, FlushThen, TakeOut, Goto
<1>11. CASE Close \/ CloseFile
  BY <1>11 DEF Close, CloseFile, Goto, Shown
<1>12. CASE PutAndReturn
  <2>1. CASE pending = <<>> /\ lock = "main"
    BY <1>12, <2>1, PutReturns, AfterPut
  <2>2. CASE pending = <<>> /\ lock # "main"
    BY <1>12, <2>2, PutReturns, AfterPut
  <2>3. CASE pending # <<>>
    BY <1>12, <2>3, PutReturns, AfterPut
  <2> QED
    BY <1>12, <2>1, <2>2, <2>3, PutReturns
<1>13. CASE PutFails
  <2>1. CASE lock = "watchdog"
    BY <1>13, <2>1, PutFailsThen
  <2>2. CASE lock # "watchdog" /\ where \in {"turn", "handler"}
    BY <1>13, <2>2, PutFailsThen
  <2>3. CASE lock # "watchdog" /\ where = "after"
    BY <1>13, <2>3, PutFailsThen
  <2>4. CASE lock # "watchdog" /\ where \notin {"turn", "handler", "after"}
    BY <1>13, <2>4, PutFailsThen
  <2> QED
    BY <1>13, <2>1, <2>2, <2>3, <2>4, PutFailsThen
<1>14. CASE Interrupt
  <2>1. CASE where = "turn"
    BY <1>14, <2>1, InterruptThen
  <2>2. CASE where = "handler"
    BY <1>14, <2>2, InterruptThen
  <2>3. CASE where = "between"
    BY <1>14, <2>3, InterruptThen
  <2>4. CASE where = "exit"
    BY <1>14, <2>4, InterruptThen
  <2>5. CASE where = "before"
    BY <1>14, <2>5, InterruptThen
  <2>6. CASE where = "after"
    BY <1>14, <2>6, InterruptThen
  <2>7. CASE where = "outer"
    BY <1>14, <2>7, InterruptThen
  <2> QED
    BY <1>14, <2>1, <2>2, <2>3, <2>4, <2>5, <2>6, <2>7, InterruptThen
<1>15. CASE WatchdogResets \/ WatchdogNotifies
  BY <1>15 DEF WatchdogResets, WatchdogNotifies, Write
<1>16. CASE ReaderStats \/ ReaderReads
  BY <1>16 DEF ReaderStats, ReaderReads
<1>17. CASE UNCHANGED vars
  BY <1>17 DEF vars, file, main, box, reader
<1> QED
  BY <1>1, <1>2, <1>3, <1>4, <1>5, <1>6, <1>7, <1>8, <1>9, <1>10, <1>11, <1>12, <1>13,
     <1>14, <1>15, <1>16, <1>17 DEF Next, MainStep, WatchdogStep, ReaderStep, Terminated

LEMMA OwedStep ==
  ASSUME TypeInv, LockInv, WhereInv, OwedInv, [Next]_vars
  PROVE  OwedInv'
<1> USE BoundsAre, EmptySeq DEF OwedInv, Owed, WhereInv, HeldInv, LockInv, TypeInv,
       LabelsOK, Labels, CountsOK, Parts, PartOf, Expire, file, main, box, reader
<1>1. CASE RunStart
  BY <1>1 DEF RunStart, MainWrites, Write, Goto
<1>2. CASE EnterTurn
  BY <1>2 DEF EnterTurn, Goto
<1>3. CASE TurnWrites
  BY <1>3 DEF TurnWrites, MainWrites, Write, Goto
<1>4. CASE TurnResets
  BY <1>4 DEF TurnResets, MainWrites, Write, Goto
<1>5. CASE Notify
  BY <1>5 DEF Notify, Goto
<1>6. CASE Drain
  BY <1>6 DEF Drain, Goto
<1>7. CASE Nudge
  BY <1>7 DEF Nudge, MainWrites, Write, Goto
<1>8. CASE NudgesDone
  BY <1>8 DEF NudgesDone, Goto
<1>9. CASE TurnEnds
  <2>1. CASE pc' = "exit"
    BY <1>9, <2>1 DEF TurnEnds, Goto
  <2>2. CASE pc' # "exit"
    BY <1>9, <2>2 DEF TurnEnds, Goto
  <2> QED
    BY <2>1, <2>2
<1>10. CASE Flush
  BY <1>10 DEF Flush, FlushThen, TakeOut, Goto
<1>11. CASE RunEnd
  <2>1. CASE runEnd
    BY <1>11, <2>1 DEF RunEnd, MainWrites, Write, Goto
  <2>2. CASE ~runEnd /\ open
    BY <1>11, <2>2 DEF RunEnd, MainWrites, Write, Goto
  <2>3. CASE ~runEnd /\ ~open
    BY <1>11, <2>3 DEF RunEnd, MainWrites, Write, Goto
  <2> QED
    BY <2>1, <2>2, <2>3
<1>12. CASE ExitTurn
  BY <1>12 DEF ExitTurn, FlushThen, TakeOut, Goto
<1>13. CASE FailRun
  BY <1>13 DEF FailRun, MainWrites, Write, Goto
<1>14. CASE Close
  BY <1>14 DEF Close, Goto
<1>15. CASE CloseFile
  BY <1>15 DEF CloseFile, Goto, Shown
<1>16. CASE PutAndReturn
  <2>1. CASE pending = <<>> /\ lock = "main"
    BY <1>16, <2>1, PutReturns, AfterPut DEF FlowInv
  <2>2. CASE pending = <<>> /\ lock # "main"
    BY <1>16, <2>2, PutReturns, AfterPut DEF FlowInv
  <2>3. CASE pending # <<>>
    BY <1>16, <2>3, PutReturns, AfterPut DEF FlowInv
  <2> QED
    BY <1>16, <2>1, <2>2, <2>3, PutReturns
<1>17. CASE PutFails
  <2>1. CASE lock = "watchdog"
    BY <1>17, <2>1, PutFailsThen DEF FlowInv
  <2>2. CASE lock # "watchdog" /\ where \in {"turn", "handler"}
    BY <1>17, <2>2, PutFailsThen DEF FlowInv
  <2>3. CASE lock # "watchdog" /\ where = "after"
    BY <1>17, <2>3, PutFailsThen DEF FlowInv
  <2>4. CASE lock # "watchdog" /\ where \notin {"turn", "handler", "after"}
    BY <1>17, <2>4, PutFailsThen DEF FlowInv
  <2> QED
    BY <1>17, <2>1, <2>2, <2>3, <2>4, PutFailsThen
<1>18. CASE Interrupt
  <2>1. CASE where = "turn"
    BY <1>18, <2>1, InterruptThen
  <2>2. CASE where = "handler"
    BY <1>18, <2>2, InterruptThen
  <2>3. CASE where = "between"
    BY <1>18, <2>3, InterruptThen
  <2>4. CASE where = "exit"
    BY <1>18, <2>4, InterruptThen
  <2>5. CASE where = "before"
    BY <1>18, <2>5, InterruptThen
  <2>6. CASE where = "after"
    BY <1>18, <2>6, InterruptThen
  <2>7. CASE where = "outer"
    BY <1>18, <2>7, InterruptThen
  <2> QED
    BY <1>18, <2>1, <2>2, <2>3, <2>4, <2>5, <2>6, <2>7, InterruptThen
<1>19. CASE WatchdogResets
  BY <1>19 DEF WatchdogResets, Write
<1>20. CASE WatchdogNotifies
  BY <1>20 DEF WatchdogNotifies
<1>21. CASE ReaderStats
  BY <1>21 DEF ReaderStats
<1>22. CASE ReaderReads
  BY <1>22 DEF ReaderReads
<1>23. CASE UNCHANGED vars
  BY <1>23 DEF vars, file, main, box, reader
<1> QED
  BY <1>1, <1>2, <1>3, <1>4, <1>5, <1>6, <1>7, <1>8, <1>9, <1>10, <1>11, <1>12, <1>13,
     <1>14, <1>15, <1>16, <1>17, <1>18, <1>19, <1>20, <1>21, <1>22, <1>23 DEF Next,
     MainStep, WatchdogStep, ReaderStep, Terminated

(* What a step does to the notices: nothing, another record, a reset that owes one, its notice queued, the   *)
(* queue taken out, one of them recorded as a nudge, or what was taken out given up.        *)
Kept == UNCHANGED <<notices, drained>>

Quiet ==
  /\ Kept /\ resets' = resets /\ accepted' = accepted /\ (Owed' => Owed)
  /\ faults' = 0 => (Owed => Owed')

\* The records that are no notice's: each of them was counted on.
Spends == RunStart \/ TurnWrites \/ FailRun \/ (RunEnd /\ ~runEnd)

Recording ==
  /\ Kept /\ resets' = resets /\ Owed' = Owed /\ Spends
  /\ \E r \in Records : r.kind # "nudge" /\ accepted' = Append(accepted, r)

Resetting ==
  /\ Kept /\ resets' = resets + 1 /\ ~Owed /\ Owed'
  /\ \E r \in Records : r.kind # "nudge" /\ accepted' = Append(accepted, r)

Queueing ==
  /\ notices' = Append(notices, resets) /\ Owed /\ ~Owed'
  /\ UNCHANGED <<drained, resets, accepted>>

Draining ==
  /\ drained = <<>> /\ drained' = notices /\ notices' = <<>>
  /\ UNCHANGED <<resets, accepted>> /\ Owed' = Owed

Nudging ==
  /\ drained # <<>> /\ drained' = Tail(drained) /\ UNCHANGED <<notices, resets>> /\ Owed' = Owed
  /\ \E r \in Records : /\ r.kind = "nudge" /\ r.about = Head(drained)
                        /\ accepted' = Append(accepted, r)

GivingUp ==
  /\ drained' = <<>> /\ UNCHANGED <<notices, resets, accepted>> /\ (Owed' => Owed) /\ faults' > 0

NoticeStep == Quiet \/ Recording \/ Resetting \/ Queueing \/ Draining \/ Nudging \/ GivingUp

LEMMA NoticeSteps ==
  ASSUME TypeInv, LockInv, WhereInv, BudgetInv, CalmInv, OwedInv, [Next]_vars
  PROVE  NoticeStep
<1> USE DEF NoticeStep
<1>1. CASE EnterTurn
  BY <1>1 DEF EnterTurn, Goto, Quiet, Kept, Owed, file, main, box
<1>2. CASE RunStart
  <2>1. 0 \in 0 .. MaxResets
    BY BoundsAre
  <2>2. Len(accepted) < MaxRecords
    BY <1>2, HasRoom DEF RunStart
  <2> DEFINE r == Record("run_start", 0)
  <2>3. r \in Records /\ r.kind = "run_start" /\ r.about = 0
    BY <2>1, <2>2, RecordIs DEF Kinds
  <2>4. accepted' = Append(accepted, r)
    BY <1>2 DEF RunStart, MainWrites, Write
  <2>5. Kept /\ resets' = resets /\ faults' = faults /\ wpc' = wpc /\ (pc' = "notify" <=> pc = "notify")
    BY <1>2 DEF RunStart, MainWrites, Write, Goto, Kept, box
  <2> HIDE DEF r
  <2> QED
    BY <1>2, <2>3, <2>4, <2>5 DEF Recording, Owed, Spends
<1>3. CASE TurnWrites
  <2>1. 0 \in 0 .. MaxResets
    BY BoundsAre
  <2>2. Len(accepted) < MaxRecords
    BY <1>3, HasRoom DEF TurnWrites
  <2> DEFINE r == Record("event", 0)
  <2>3. r \in Records /\ r.kind = "event" /\ r.about = 0
    BY <2>1, <2>2, RecordIs DEF Kinds
  <2>4. accepted' = Append(accepted, r)
    BY <1>3 DEF TurnWrites, MainWrites, Write
  <2>5. Kept /\ resets' = resets /\ faults' = faults /\ wpc' = wpc /\ (pc' = "notify" <=> pc = "notify")
    BY <1>3 DEF TurnWrites, MainWrites, Write, Goto, Kept, box
  <2> HIDE DEF r
  <2> QED
    BY <1>3, <2>3, <2>4, <2>5 DEF Recording, Owed, Spends
<1>4. CASE TurnResets
  <2>1. resets + 1 \in 0 .. MaxResets
    BY <1>4, BoundsAre DEF TurnResets, TypeInv, CountsOK, NoticesOK
  <2>2. Len(accepted) < MaxRecords
    BY <1>4, HasRoom DEF TurnResets
  <2> DEFINE r == Record("reset", resets + 1)
  <2>3. r \in Records /\ r.kind = "reset" /\ r.about = resets + 1
    BY <2>1, <2>2, RecordIs DEF Kinds
  <2>4. accepted' = Append(accepted, r)
    BY <1>4 DEF TurnResets, MainWrites, Write
  <2>5. Kept /\ resets' = resets + 1 /\ ~Owed /\ Owed'
    BY <1>4 DEF TurnResets, MainWrites, Write, Goto, Kept, main, Owed, WhereInv,
       LabelsOK, TypeInv, Parts
  <2> HIDE DEF r
  <2> QED
    BY <2>3, <2>4, <2>5 DEF Resetting
<1>5. CASE NudgesDone
  BY <1>5 DEF NudgesDone, Goto, Quiet, Kept, Owed, file, main, box
<1>6. CASE Notify
  <2>1. notices' = Append(notices, resets) /\ UNCHANGED <<drained, resets, accepted>>
    BY <1>6 DEF Notify
  <2>2. Owed /\ ~Owed'
    BY <1>6 DEF Notify, Goto, Owed, OwedInv
  <2> QED
    BY <2>1, <2>2 DEF Queueing
<1>7. CASE Drain
  <2>1. drained = <<>>
    BY <1>7 DEF Drain, OwedInv, WhereInv, HeldInv, LockInv, TypeInv, LabelsOK, Parts
  <2>2. /\ drained' = notices /\ notices' = <<>> /\ wpc' = wpc /\ pc # "notify" /\ pc' # "notify"
        /\ UNCHANGED <<resets, accepted>>
    BY <1>7 DEF Drain, Goto, file
  <2> QED
    BY <2>1, <2>2 DEF Draining, Owed
<1>8. CASE Nudge
  <2>1. Head(drained) \in 0 .. MaxResets
    BY <1>8, HeadTailProperties, BoundsAre DEF Nudge, TypeInv, NoticesOK
  <2>2. Len(accepted) < MaxRecords
    BY <1>8, HasRoom DEF Nudge
  <2> DEFINE r == Record("nudge", Head(drained))
  <2>3. r \in Records /\ r.kind = "nudge" /\ r.about = Head(drained)
    BY <2>1, <2>2, RecordIs DEF Kinds
  <2>4. accepted' = Append(accepted, r)
    BY <1>8 DEF Nudge, MainWrites, Write
  <2>5. /\ drained # <<>> /\ drained' = Tail(drained) /\ UNCHANGED <<notices, resets>>
        /\ Owed' = Owed
    BY <1>8 DEF Nudge, MainWrites, Goto, box, Owed
  <2> HIDE DEF r
  <2> QED
    BY <2>3, <2>4, <2>5 DEF Nudging
<1>9. CASE TurnEnds \/ Flush
  BY <1>9 DEF TurnEnds, Flush, Goto, Quiet, Kept, Owed, file, main, box, FlushThen,
     TakeOut
<1>10. CASE RunEnd
  <2>1. Kept /\ resets' = resets /\ faults' = faults /\ wpc' = wpc /\ pc' # "notify" /\ pc # "notify"
    BY <1>10 DEF RunEnd, MainWrites, Write, Goto, Kept, box, file
  <2>2. CASE runEnd
    <3>1. accepted' = accepted
      BY <1>10, <2>2 DEF RunEnd
    <3> QED
      BY <2>1, <3>1 DEF Quiet, Owed
  <2>3. CASE ~runEnd
    <3>1. Len(accepted) < MaxRecords
      BY <1>10, <2>3, HasRoom DEF RunEnd
    <3> DEFINE r == Record("run_end", 0)
    <3>2. r \in Records /\ r.kind = "run_end"
      BY <3>1, RecordIs, BoundsAre DEF Kinds
    <3>3. accepted' = Append(accepted, r)
      BY <1>10, <2>3 DEF RunEnd, MainWrites, Write
    <3> HIDE DEF r
    <3> QED
      BY <1>10, <2>1, <2>3, <3>2, <3>3 DEF Recording, Spends, Owed
  <2> QED
    BY <2>2, <2>3
<1>11. CASE ExitTurn
  BY <1>11 DEF ExitTurn, FlushThen, TakeOut, Goto, Quiet, Kept, Owed, file, main, box
<1>12. CASE FailRun
  <2>1. 0 \in 0 .. MaxResets
    BY BoundsAre
  <2>2. Len(accepted) < MaxRecords
    BY <1>12, HasRoom DEF FailRun
  <2> DEFINE r == Record("run_end", 0)
  <2>3. r \in Records /\ r.kind = "run_end" /\ r.about = 0
    BY <2>1, <2>2, RecordIs DEF Kinds
  <2>4. accepted' = Append(accepted, r)
    BY <1>12 DEF FailRun, MainWrites, Write
  <2>5. Kept /\ resets' = resets /\ faults' = faults /\ wpc' = wpc /\ (pc' = "notify" <=> pc = "notify")
    BY <1>12 DEF FailRun, MainWrites, Write, Goto, Kept, box
  <2> HIDE DEF r
  <2> QED
    BY <1>12, <2>3, <2>4, <2>5 DEF Recording, Owed, Spends
<1>13. CASE Close
  BY <1>13 DEF Close, Goto, Quiet, Kept, Owed, file, main, box
<1>14. CASE CloseFile
  <2>1. Kept /\ resets' = resets /\ accepted' = accepted /\ faults' = faults
    BY <1>14 DEF CloseFile, Kept
  <2>2. pc # "notify" /\ pc' # "notify" /\ wpc' = IF line = <<>> THEN wpc ELSE "poll"
    BY <1>14 DEF CloseFile, Goto
  <2>3. faults = 0 => line = <<>>
    BY <1>14 DEF CloseFile, CalmInv, LockInv, FlowInv
  <2> QED
    BY <2>1, <2>2, <2>3 DEF Quiet, Owed
<1>15. CASE PutAndReturn
  <2>1. Kept /\ resets' = resets /\ accepted' = accepted
    BY <1>15, PutReturns DEF Kept
  <2>2. CASE pending = <<>> /\ lock = "main"
    BY <1>15, <2>1, <2>2, AfterPut DEF Quiet, Owed, LockInv, TypeInv
  <2>3. CASE pending = <<>> /\ lock # "main"
    <3>1. wpc = "put" /\ wpc' = "notify"
      BY <1>15, <2>3, PutReturns DEF LockInv, HeldInv, FlowInv, TypeInv, LabelsOK
    <3> QED
      BY <2>1, <3>1 DEF Quiet, Owed
  <2>4. CASE pending # <<>>
    BY <1>15, <2>1, <2>4, PutReturns DEF Quiet, Owed
  <2> QED
    BY <2>2, <2>3, <2>4
<1>16. CASE PutFails
  <2>1. Kept /\ resets' = resets /\ accepted' = accepted /\ faults' > 0
    BY <1>16, PutFailsThen DEF Kept, TypeInv, CountsOK
  <2>2. CASE lock = "watchdog"
    BY <1>16, <2>1, <2>2, PutFailsThen DEF Quiet, Owed, LockInv, HeldInv
  <2>3. CASE lock # "watchdog"
    <3>1. pc' # "notify" /\ wpc' = wpc
      BY <1>16, <2>3, PutFailsThen
    <3> QED
      BY <2>1, <3>1 DEF Quiet, Owed
  <2> QED
    BY <2>2, <2>3
<1>17. CASE Interrupt
  <2>1. /\ drained' = <<>> /\ UNCHANGED <<notices, resets, accepted>> /\ wpc' = wpc
        /\ pc' \in {"drain", "exit", "exiting", "close"}
    BY <1>17, InterruptThen
  <2>2. faults' > 0
    BY <1>17, InterruptThen DEF TypeInv, CountsOK
  <2> QED
    BY <2>1, <2>2 DEF GivingUp, Owed
<1>18. CASE WatchdogResets
  <2>1. resets + 1 \in 0 .. MaxResets
    BY <1>18, BoundsAre DEF WatchdogResets, TypeInv, CountsOK, NoticesOK
  <2>2. Len(accepted) < MaxRecords
    BY <1>18, HasRoom DEF WatchdogResets
  <2> DEFINE r == Record("reset", resets + 1)
  <2>3. r \in Records /\ r.kind = "reset" /\ r.about = resets + 1
    BY <2>1, <2>2, RecordIs DEF Kinds
  <2>4. accepted' = Append(accepted, r)
    BY <1>18 DEF WatchdogResets, MainWrites, Write
  <2>5. Kept /\ resets' = resets + 1 /\ ~Owed /\ Owed'
    BY <1>18 DEF WatchdogResets, MainWrites, Write, Goto, Kept, main, Owed, WhereInv,
       LabelsOK, TypeInv, Parts
  <2> HIDE DEF r
  <2> QED
    BY <2>3, <2>4, <2>5 DEF Resetting
<1>19. CASE WatchdogNotifies
  <2>1. notices' = Append(notices, resets) /\ UNCHANGED <<drained, resets, accepted>>
    BY <1>19 DEF WatchdogNotifies, main
  <2>2. Owed /\ ~Owed'
    BY <1>19 DEF WatchdogNotifies, main, Owed, OwedInv
  <2> QED
    BY <2>1, <2>2 DEF Queueing
<1>20. CASE ReaderStats \/ ReaderReads
  BY <1>20 DEF ReaderStats, ReaderReads, Quiet, Kept, Owed, file, main, box
<1>21. CASE UNCHANGED vars
  BY <1>21 DEF vars, file, main, box, reader, Quiet, Kept, Owed
<1> QED
  BY <1>1, <1>2, <1>3, <1>4, <1>5, <1>6, <1>7, <1>8, <1>9, <1>10, <1>11, <1>12, <1>13,
     <1>14, <1>15, <1>16, <1>17, <1>18, <1>19, <1>20, <1>21 DEF Next, MainStep,
     WatchdogStep, ReaderStep, Terminated

(* A record taken in is a nudge of its own or leaves the nudges alone.                      *)
LEMMA NudgesAre ==
  ASSUME accepted \in Seq(Records), NEW r \in Records, accepted' = Append(accepted, r)
  PROVE  /\ \A i \in Nudged : i \in Nudged' /\ i \in 1 .. Len(accepted) /\ accepted'[i] = accepted[i]
         /\ \A i \in Nudged' : \/ i \in Nudged /\ accepted'[i] = accepted[i]
                               \/ i = Len(accepted) + 1 /\ accepted'[i] = r /\ r.kind = "nudge"
         /\ r.kind = "nudge" => Len(accepted) + 1 \in Nudged' /\ accepted'[Len(accepted) + 1] = r
<1>1. /\ DOMAIN accepted = 1 .. Len(accepted) /\ Len(accepted) \in Nat
      /\ accepted' \in Seq(Records) /\ Len(accepted') = Len(accepted) + 1
      /\ DOMAIN accepted' = 1 .. Len(accepted')
      /\ \A i \in 1 .. Len(accepted) : accepted'[i] = accepted[i]
      /\ accepted'[Len(accepted) + 1] = r
  BY LenProperties, AppendProperties
<1> QED
  BY <1>1 DEF Nudged

LEMMA NudgesStay ==
  ASSUME TypeInv, \/ accepted' = accepted
                  \/ \E r \in Records : r.kind # "nudge" /\ accepted' = Append(accepted, r)
  PROVE  /\ \A i \in Nudged : i \in Nudged' /\ accepted'[i] = accepted[i]
         /\ \A i \in Nudged' : i \in Nudged /\ accepted'[i] = accepted[i]
<1>1. CASE accepted' = accepted
  BY <1>1 DEF Nudged
<1>2. ASSUME NEW r \in Records, r.kind # "nudge", accepted' = Append(accepted, r)
      PROVE  /\ \A i \in Nudged : i \in Nudged' /\ accepted'[i] = accepted[i]
             /\ \A i \in Nudged' : i \in Nudged /\ accepted'[i] = accepted[i]
  BY <1>2, NudgesAre DEF TypeInv, FileOK
<1> QED
  BY <1>1, <1>2

(* The elements of a sequence of notices, of its tail, and of it with one more.             *)
LEMMA NoticesAre ==
  ASSUME TypeInv
  PROVE  /\ notices \in Seq(1 .. MaxResets) /\ drained \in Seq(1 .. MaxResets)
         /\ DOMAIN notices = 1 .. Len(notices) /\ DOMAIN drained = 1 .. Len(drained)
         /\ Len(notices) \in Nat /\ Len(drained) \in Nat
         /\ \A i \in DOMAIN notices : notices[i] \in 1 .. MaxResets
         /\ \A i \in DOMAIN drained : drained[i] \in 1 .. MaxResets
         /\ \A i \in Nudged : i \in Nat /\ accepted[i].about \in 0 .. MaxResets
<1>1. notices \in Seq(1 .. MaxResets) /\ drained \in Seq(1 .. MaxResets) /\ accepted \in Seq(Records)
  BY DEF TypeInv, NoticesOK, FileOK
<1>2. DOMAIN accepted = 1 .. Len(accepted) /\ Len(accepted) \in Nat
      /\ \A i \in DOMAIN accepted : accepted[i] \in Records
  BY <1>1, LenProperties, ElementOfSeq
<1>3. \A i \in Nudged : i \in Nat /\ accepted[i].about \in 0 .. MaxResets
  BY <1>2, RecordFields DEF Nudged
<1>4. /\ DOMAIN notices = 1 .. Len(notices) /\ DOMAIN drained = 1 .. Len(drained)
      /\ Len(notices) \in Nat /\ Len(drained) \in Nat
  BY <1>1, LenProperties
<1>5. /\ \A i \in DOMAIN notices : notices[i] \in 1 .. MaxResets
      /\ \A i \in DOMAIN drained : drained[i] \in 1 .. MaxResets
  BY <1>1, <1>4, ElementOfSeq
<1> QED
  BY <1>1, <1>3, <1>4, <1>5

LEMMA TailIs ==
  ASSUME NEW S, NEW s \in Seq(S), s # <<>>
  PROVE  /\ 1 \in DOMAIN s /\ Head(s) = s[1] /\ Head(s) \in S
         /\ \A i \in DOMAIN Tail(s) : i \in Nat \ {0} /\ i + 1 \in DOMAIN s /\ Tail(s)[i] = s[i + 1]
         /\ \A i \in DOMAIN s : i = 1 \/ (i - 1 \in DOMAIN Tail(s) /\ Tail(s)[i - 1] = s[i])
<1>1. /\ DOMAIN s = 1 .. Len(s) /\ Len(s) \in Nat \ {0}
      /\ Head(s) \in S /\ Tail(s) \in Seq(S) /\ Len(Tail(s)) = Len(s) - 1
      /\ \A i \in 1 .. Len(Tail(s)) : Tail(s)[i] = s[i + 1]
      /\ DOMAIN Tail(s) = 1 .. Len(Tail(s))
  BY LenProperties, EmptySeq, HeadTailProperties
<1>2. Head(s) = s[1]
  OBVIOUS
<1>3. \A i \in DOMAIN Tail(s) : i \in Nat \ {0} /\ i + 1 \in DOMAIN s /\ Tail(s)[i] = s[i + 1]
  BY <1>1
<1>4. ASSUME NEW i \in DOMAIN s, i # 1
      PROVE  i - 1 \in DOMAIN Tail(s) /\ Tail(s)[i - 1] = s[i]
  <2>1. i - 1 \in 1 .. Len(Tail(s)) /\ (i - 1) + 1 = i
    BY <1>1, <1>4
  <2> QED
    BY <1>1, <2>1
<1> QED
  BY <1>1, <1>2, <1>3, <1>4

LEMMA AppendIs ==
  ASSUME NEW S, NEW s \in Seq(S), NEW e \in S
  PROVE  /\ \A i \in DOMAIN s : i \in Nat /\ i <= Len(s) /\ i \in DOMAIN Append(s, e) /\ Append(s, e)[i] = s[i]
         /\ \A i \in DOMAIN Append(s, e) :
              \/ i \in DOMAIN s /\ Append(s, e)[i] = s[i]
              \/ i = Len(s) + 1 /\ Append(s, e)[i] = e
         /\ Len(s) + 1 \in DOMAIN Append(s, e) /\ Append(s, e)[Len(s) + 1] = e
<1>1. /\ DOMAIN s = 1 .. Len(s) /\ Len(s) \in Nat
      /\ Append(s, e) \in Seq(S) /\ Len(Append(s, e)) = Len(s) + 1
      /\ DOMAIN Append(s, e) = 1 .. Len(Append(s, e))
      /\ \A i \in 1 .. Len(s) : Append(s, e)[i] = s[i]
      /\ Append(s, e)[Len(s) + 1] = e
  BY LenProperties, AppendProperties
<1> QED
  BY <1>1

(* Notices keep the order in which the resets were made, from the queue to the records.     *)
LEMMA OrderStep ==
  ASSUME TypeInv, OwedInv, OrderInv, NoticeStep
  PROVE  OrderInv'
<1>1. resets \in 0 .. MaxResets /\ MaxResets \in Nat
  BY BoundsAre DEF TypeInv, CountsOK
<1>2. CASE Quiet
  <2>1. /\ \A i \in Nudged' : i \in Nudged /\ accepted'[i] = accepted[i]
        /\ UNCHANGED <<notices, drained, resets>> /\ (Owed' => Owed)
    BY <1>2, NudgesStay DEF Quiet, Kept
  <2> QED
    BY <2>1 DEF OrderInv, Rising
<1>3. CASE Resetting
  <2>1. /\ \A i \in Nudged' : i \in Nudged /\ accepted'[i] = accepted[i]
        /\ UNCHANGED <<notices, drained>> /\ resets' = resets + 1
    BY <1>3, NudgesStay DEF Resetting, Kept
  <2>2. Rising(notices') /\ Rising(drained')
    BY <2>1 DEF OrderInv, Rising
  <2>3. /\ \A i, j \in Nudged' : i < j => accepted'[i].about < accepted'[j].about
        /\ \A i \in Nudged', j \in DOMAIN drained' : accepted'[i].about < drained'[j]
        /\ \A i \in Nudged', j \in DOMAIN notices' : accepted'[i].about < notices'[j]
        /\ \A i \in DOMAIN drained', j \in DOMAIN notices' : drained'[i] < notices'[j]
    BY <2>1 DEF OrderInv
  <2>4. ASSUME NEW i \in Nudged'
        PROVE  accepted'[i].about < resets' /\ accepted'[i].about <= resets'
    <3>1. accepted'[i].about \in Nat /\ accepted'[i].about <= resets
      BY <2>1, NoticesAre, <1>1 DEF OrderInv
    <3> QED
      BY <1>1, <2>1, <3>1
  <2>5. ASSUME NEW i \in DOMAIN drained'
        PROVE  drained'[i] < resets' /\ drained'[i] <= resets'
    <3>1. drained'[i] \in Nat /\ drained'[i] <= resets
      BY <2>1, NoticesAre, <1>1 DEF OrderInv
    <3> QED
      BY <1>1, <2>1, <3>1
  <2>6. ASSUME NEW i \in DOMAIN notices'
        PROVE  notices'[i] < resets' /\ notices'[i] <= resets'
    <3>1. notices'[i] \in Nat /\ notices'[i] <= resets
      BY <2>1, NoticesAre, <1>1 DEF OrderInv
    <3> QED
      BY <1>1, <2>1, <3>1
  <2> QED
    BY <2>2, <2>3, <2>4, <2>5, <2>6 DEF OrderInv
<1>4. CASE Queueing
  <2>1. /\ notices' = Append(notices, resets) /\ Owed /\ ~Owed' /\ UNCHANGED <<drained, resets>>
        /\ \A i \in Nudged' : i \in Nudged /\ accepted'[i] = accepted[i]
    BY <1>4, NudgesStay DEF Queueing
  <2>2. resets \in 1 .. MaxResets
    BY <1>1, <2>1 DEF OwedInv
  <2>3. \A i \in DOMAIN notices' : \/ i \in DOMAIN notices /\ notices'[i] = notices[i] /\ i <= Len(notices)
                                   \/ i = Len(notices) + 1 /\ notices'[i] = resets
    BY <2>1, <2>2, AppendIs, NoticesAre
  <2>4. /\ \A i \in DOMAIN notices : notices[i] < resets
        /\ \A i \in DOMAIN drained : drained[i] < resets
        /\ \A i \in Nudged : accepted[i].about < resets
    BY <2>1 DEF OrderInv
  <2>5. Rising(notices')
    <3>1. ASSUME NEW i \in DOMAIN notices', NEW j \in DOMAIN notices', i < j
          PROVE  notices'[i] < notices'[j]
      BY <2>3, <2>4, <3>1, NoticesAre DEF OrderInv, Rising
    <3> QED
      BY <3>1 DEF Rising
  <2>6. /\ \A i \in Nudged', j \in DOMAIN notices' : accepted'[i].about < notices'[j]
        /\ \A i \in DOMAIN drained', j \in DOMAIN notices' : drained'[i] < notices'[j]
    BY <2>1, <2>3, <2>4 DEF OrderInv
  <2>7. \A i \in DOMAIN notices' : notices'[i] <= resets'
    BY <1>1, <2>1, <2>3 DEF OrderInv
  <2> QED
    BY <2>1, <2>5, <2>6, <2>7 DEF OrderInv, Rising
<1>5. CASE Draining
  <2>1. drained' = notices /\ notices' = <<>> /\ resets' = resets /\ accepted' = accepted /\ Owed' = Owed
    BY <1>5 DEF Draining
  <2>2. DOMAIN notices' = {} /\ Nudged' = Nudged
    BY <2>1 DEF Nudged
  <2> QED
    BY <2>1, <2>2 DEF OrderInv, Rising
<1>6. CASE Nudging
  <2>1. PICK r \in Records : /\ r.kind = "nudge" /\ r.about = Head(drained)
                             /\ accepted' = Append(accepted, r)
    BY <1>6 DEF Nudging
  <2>2. /\ drained # <<>> /\ drained' = Tail(drained) /\ UNCHANGED <<notices, resets>> /\ Owed' = Owed
    BY <1>6 DEF Nudging
  <2>3. /\ 1 \in DOMAIN drained /\ r.about = drained[1]
        /\ \A i \in DOMAIN drained' : i \in Nat \ {0} /\ i + 1 \in DOMAIN drained /\ drained'[i] = drained[i + 1]
    BY <2>1, <2>2, TailIs, NoticesAre
  <2>4. \A i \in Nudged' : \/ i \in Nudged /\ accepted'[i].about = accepted[i].about
                              /\ i \in 1 .. Len(accepted)
                           \/ i = Len(accepted) + 1 /\ accepted'[i].about = drained[1]
    BY <2>1, <2>3, NudgesAre, SeqTypes
  <2>5. \A i, j \in Nudged' : i < j => accepted'[i].about < accepted'[j].about
    <3>1. ASSUME NEW i \in Nudged', NEW j \in Nudged', i < j
          PROVE  accepted'[i].about < accepted'[j].about
      <4>1. Len(accepted) \in Nat
        BY SeqTypes
      <4>2. i \in Nudged /\ accepted'[i].about = accepted[i].about
        BY <2>4, <3>1, <4>1
      <4>3. CASE j \in Nudged /\ accepted'[j].about = accepted[j].about
        BY <3>1, <4>2, <4>3 DEF OrderInv
      <4>4. CASE accepted'[j].about = drained[1]
        BY <2>3, <4>2, <4>4 DEF OrderInv
      <4> QED
        BY <2>4, <4>3, <4>4
    <3> QED
      BY <3>1
  <2>6. Rising(drained')
    <3>1. ASSUME NEW i \in DOMAIN drained', NEW j \in DOMAIN drained', i < j
          PROVE  drained'[i] < drained'[j]
      <4>1. i + 1 < j + 1 /\ i + 1 \in DOMAIN drained /\ j + 1 \in DOMAIN drained
        BY <2>3, <3>1
      <4>2. drained[i + 1] < drained[j + 1]
        BY <4>1 DEF OrderInv, Rising
      <4> QED
        BY <2>3, <4>2
    <3> QED
      BY <3>1 DEF Rising
  <2>7. \A j \in DOMAIN drained' : drained[1] < drained'[j]
    <3>1. ASSUME NEW j \in DOMAIN drained' PROVE drained[1] < drained'[j]
      <4>1. 1 < j + 1 /\ j + 1 \in DOMAIN drained
        BY <2>3
      <4>2. drained[1] < drained[j + 1]
        BY <2>3, <4>1 DEF OrderInv, Rising
      <4> QED
        BY <2>3, <4>2
    <3> QED
      BY <3>1
  <2>8. \A i \in Nudged', j \in DOMAIN drained' : accepted'[i].about < drained'[j]
    <3>1. ASSUME NEW i \in Nudged', NEW j \in DOMAIN drained'
          PROVE  accepted'[i].about < drained'[j]
      BY <2>3, <2>4, <2>7 DEF OrderInv
    <3> QED
      BY <3>1
  <2>9. /\ \A i \in Nudged', j \in DOMAIN notices' : accepted'[i].about < notices'[j]
        /\ \A i \in DOMAIN drained', j \in DOMAIN notices' : drained'[i] < notices'[j]
    BY <2>2, <2>3, <2>4 DEF OrderInv
  <2>10. /\ \A i \in Nudged' : accepted'[i].about <= resets' /\ (Owed' => accepted'[i].about < resets')
         /\ \A i \in DOMAIN drained' : drained'[i] <= resets' /\ (Owed' => drained'[i] < resets')
         /\ \A i \in DOMAIN notices' : notices'[i] <= resets' /\ (Owed' => notices'[i] < resets')
    BY <2>2, <2>3, <2>4 DEF OrderInv
  <2> QED
    BY <2>2, <2>5, <2>6, <2>8, <2>9, <2>10 DEF OrderInv
<1>7. CASE GivingUp
  <2>1. drained' = <<>> /\ UNCHANGED <<notices, resets, accepted>> /\ (Owed' => Owed)
    BY <1>7 DEF GivingUp
  <2>2. DOMAIN drained' = {} /\ Nudged' = Nudged
    BY <2>1 DEF Nudged
  <2> QED
    BY <2>1, <2>2 DEF OrderInv, Rising
<1>8. CASE Recording
  <2>1. /\ \A i \in Nudged' : i \in Nudged /\ accepted'[i] = accepted[i]
        /\ UNCHANGED <<notices, drained, resets>> /\ Owed' = Owed
    BY <1>8, NudgesStay DEF Recording, Kept
  <2> QED
    BY <2>1 DEF OrderInv, Rising
<1> QED
  BY <1>2, <1>3, <1>4, <1>5, <1>6, <1>7, <1>8 DEF NoticeStep

-----------------------------------------------------------------------------
(* What keeps the invariants of a run in which nothing broke               *)

(* Until something breaks, nothing is lost on the way into the file.                       *)
LEMMA NothingBroke ==
  ASSUME TypeInv, FileStep, faults' = 0
  PROVE  faults = 0 /\ ~Breaks
<1>1. faults \in Nat
  BY BoundsAre DEF TypeInv, CountsOK
<1>2. ~Breaks
  BY <1>1, BreaksHow
<1>3. faults = 0
  <2>1. CASE \E r \in Records : TakesIn(r)
    BY <2>1 DEF TakesIn
  <2>2. CASE TakesOut
    BY <2>2 DEF TakesOut
  <2>3. CASE Puts
    BY <2>3 DEF Puts, PutLine
  <2>4. CASE CloseFile
    BY <2>4 DEF CloseFile
  <2>5. CASE Stays
    BY <1>1, <2>5 DEF Stays
  <2> QED
    BY <1>2, <2>1, <2>2, <2>3, <2>4, <2>5 DEF FileStep
<1> QED
  BY <1>2, <1>3

LEMMA IntactStep ==
  ASSUME TypeInv, LockInv, WhereInv, CalmInv, IntactInv, FileStep
  PROVE  IntactInv'
<1> SUFFICES ASSUME faults' = 0
             PROVE  /\ held' = <<>> /\ torn' = "no"
                    /\ Len(lines') + Len(line') + Len(pending') + Len(buffer') = Len(accepted')
  BY DEF IntactInv
<1>1. /\ faults = 0 /\ ~Breaks /\ held = <<>> /\ torn = "no"
      /\ Len(lines) + Len(line) + Len(pending) + Len(buffer) = Len(accepted)
  BY NothingBroke DEF IntactInv
<1>2. \A S : <<>> \in Seq(S) /\ Len(<<>>) = 0
  BY EmptySeq
<1>3. /\ Len(lines) \in Nat /\ Len(line) \in Nat /\ Len(pending) \in Nat
      /\ Len(buffer) \in Nat /\ Len(accepted) \in Nat
  BY SeqTypes
<1>4. CASE \E r \in Records : TakesIn(r)
  <2>1. PICK r \in Records : TakesIn(r)
    BY <1>4
  <2>2. /\ held' = <<>> /\ torn' = "no" /\ lines' = lines /\ pending' = pending
        /\ Len(accepted') = Len(accepted) + 1 /\ line = <<>>
    BY <1>1, <2>1, SeqTypes, AppendProperties DEF TakesIn, LockInv, FlowInv
  <2>3. \/ Len(buffer') = Len(buffer) + 1 /\ line' = line
        \/ buffer' = buffer /\ Len(line') = 1
    BY <2>1, SeqTypes, AppendProperties, OneIs DEF TakesIn
  <2>4. Len(line) = 0
    BY <1>2, <2>2
  <2>5. CASE Len(buffer') = Len(buffer) + 1 /\ line' = line
    BY <1>1, <1>3, <2>2, <2>4, <2>5
  <2>6. CASE buffer' = buffer /\ Len(line') = 1
    BY <1>1, <1>3, <2>2, <2>4, <2>6
  <2> QED
    BY <2>3, <2>5, <2>6
<1>5. CASE TakesOut
  <2>1. /\ line = <<>> /\ pending = <<>> /\ buffer # <<>> /\ UNCHANGED <<held, torn, lines, accepted>>
        /\ line' = <<Head(buffer)>> /\ pending' = Tail(buffer) /\ buffer' = <<>>
    BY <1>5 DEF TakesOut, LockInv, FlowInv
  <2>2. Len(Tail(buffer)) = Len(buffer) - 1 /\ Len(line') = 1
    BY <2>1, SeqTypes, HeadTailProperties, OneIs
  <2> QED
    BY <1>1, <1>2, <2>1, <2>2, SeqTypes
<1>6. CASE Puts
  <2>1. /\ lines' = lines \o Shown(held \o line) /\ held' = <<>> /\ torn' = "no"
        /\ line' = IF pending = <<>> THEN <<>> ELSE <<Head(pending)>>
        /\ pending' = IF pending = <<>> THEN <<>> ELSE Tail(pending)
        /\ UNCHANGED <<buffer, accepted>>
    BY <1>6 DEF Puts, PutLine
  <2>2. held \o line = line /\ Shown(line) = line
    BY <1>1, SeqTypes, ConcatEmptySeq, ShownIs
  <2>3. Len(lines') = Len(lines) + Len(line)
    BY <2>1, <2>2, SeqTypes, ConcatProperties
  <2>4. Len(line') + Len(pending') = Len(pending)
    BY <1>2, <2>1, SeqTypes, HeadTailProperties, OneIs
  <2>5. Len(line') \in Nat /\ Len(pending') \in Nat
    BY <1>2, <2>1, SeqTypes, HeadTailProperties, OneIs
  <2>6. buffer' = buffer /\ accepted' = accepted /\ held' = <<>> /\ torn' = "no"
    BY <2>1
  <2> QED
    BY <1>1, <1>3, <2>3, <2>4, <2>5, <2>6
<1>7. CASE CloseFile
  <2>1. pc = "closing" /\ where = "after"
    BY <1>1, <1>7 DEF CloseFile, CalmInv, WhereInv, TypeInv, LabelsOK, Parts
  <2>2. line = <<>> /\ pending = <<>> /\ buffer = <<>>
    BY <2>1 DEF WhereInv, LockInv, FlowInv
  <2>3. /\ lines' = lines \o Shown(held) /\ held' = <<>> /\ line' = <<>> /\ buffer' = <<>> /\ pending' = <<>>
        /\ torn' = torn /\ accepted' = accepted
    BY <1>1, <1>7 DEF CloseFile
  <2>4. lines' = lines
    <3>1. Shown(held) = <<>>
      BY <1>1, EmptySeq, ShownIs
    <3> QED
      BY <2>3, <3>1, SeqTypes, ConcatEmptySeq
  <2> QED
    BY <1>1, <1>2, <2>2, <2>3, <2>4, SeqTypes
<1>8. CASE Stays
  BY <1>1, <1>8 DEF Stays
<1> QED
  BY <1>1, <1>4, <1>5, <1>6, <1>7, <1>8 DEF FileStep

(* Until something breaks, no notice is lost between its reset and its nudge.              *)
LEMMA PresentStep ==
  ASSUME TypeInv, PresentInv, FileStep, NoticeStep
  PROVE  PresentInv'
<1> SUFFICES ASSUME faults' = 0, NEW k \in 1 .. resets'
             PROVE  Placed(k)' \/ (k = resets' /\ Owed')
  BY DEF PresentInv
<1>1. resets \in Nat /\ \A j \in 1 .. resets : Placed(j) \/ (j = resets /\ Owed)
  BY NothingBroke, BoundsAre DEF PresentInv, TypeInv, CountsOK
<1>2. CASE Quiet \/ Recording
  <2>1. /\ \A i \in Nudged : i \in Nudged' /\ accepted'[i] = accepted[i]
        /\ UNCHANGED <<notices, drained, resets>> /\ (Owed => Owed')
    BY <1>2, NudgesStay DEF Quiet, Recording, Kept
  <2> QED
    BY <1>1, <2>1 DEF Placed
<1>3. CASE Resetting
  <2>1. /\ \A i \in Nudged : i \in Nudged' /\ accepted'[i] = accepted[i]
        /\ UNCHANGED <<notices, drained>> /\ resets' = resets + 1 /\ ~Owed /\ Owed'
    BY <1>3, NudgesStay DEF Resetting, Kept
  <2>2. k = resets' \/ k \in 1 .. resets
    BY <1>1, <2>1
  <2> QED
    BY <1>1, <2>1, <2>2 DEF Placed
<1>4. CASE Queueing
  <2>1. /\ notices' = Append(notices, resets) /\ UNCHANGED <<drained, resets>>
        /\ \A i \in Nudged : i \in Nudged' /\ accepted'[i] = accepted[i]
    BY <1>4, NudgesStay DEF Queueing
  <2>2. resets \in 1 .. MaxResets
    BY <1>1, <2>1 DEF TypeInv, CountsOK
  <2>3. /\ \A i \in DOMAIN notices : i \in DOMAIN notices' /\ notices'[i] = notices[i]
        /\ \E i \in DOMAIN notices' : notices'[i] = resets
    <3>1. notices \in Seq(1 .. MaxResets)
      BY NoticesAre
    <3>2. /\ \A i \in DOMAIN notices : /\ i \in DOMAIN Append(notices, resets)
                                      /\ Append(notices, resets)[i] = notices[i]
          /\ Len(notices) + 1 \in DOMAIN Append(notices, resets)
          /\ Append(notices, resets)[Len(notices) + 1] = resets
      BY <2>2, <3>1, AppendIs
    <3> QED
      BY <2>1, <3>2
  <2> QED
    BY <1>1, <2>1, <2>3 DEF Placed
<1>5. CASE Draining
  <2>1. /\ drained = <<>> /\ drained' = notices /\ resets' = resets /\ Owed' = Owed /\ Nudged' = Nudged
        /\ accepted' = accepted
    BY <1>5 DEF Draining, Nudged
  <2>2. DOMAIN drained = {}
    BY <2>1
  <2> QED
    BY <1>1, <2>1, <2>2 DEF Placed
<1>6. CASE Nudging
  <2>1. PICK r \in Records : /\ r.kind = "nudge" /\ r.about = Head(drained)
                             /\ accepted' = Append(accepted, r)
    BY <1>6 DEF Nudging
  <2>2. /\ drained # <<>> /\ drained' = Tail(drained) /\ UNCHANGED <<notices, resets>> /\ Owed' = Owed
    BY <1>6 DEF Nudging
  <2>3. /\ r.about = drained[1]
        /\ \A i \in DOMAIN drained : i = 1 \/ (i - 1 \in DOMAIN drained' /\ drained'[i - 1] = drained[i])
    BY <2>1, <2>2, TailIs, NoticesAre
  <2>4. /\ \A i \in Nudged : i \in Nudged' /\ accepted'[i] = accepted[i]
        /\ \E i \in Nudged' : accepted'[i].about = drained[1]
    BY <2>1, <2>3, NudgesAre, SeqTypes
  <2>5. Placed(k) => Placed(k)'
    <3>1. (\E i \in DOMAIN notices : notices[i] = k) => Placed(k)'
      BY <2>2 DEF Placed
    <3>2. (\E i \in DOMAIN drained : drained[i] = k) => Placed(k)'
      BY <2>3, <2>4 DEF Placed
    <3>3. (\E i \in Nudged : accepted[i].about = k) => Placed(k)'
      BY <2>4 DEF Placed
    <3> QED
      BY <3>1, <3>2, <3>3 DEF Placed
  <2> QED
    BY <1>1, <2>2, <2>5
<1>7. CASE GivingUp
  BY <1>7 DEF GivingUp
<1> QED
  BY <1>2, <1>3, <1>4, <1>5, <1>6, <1>7 DEF NoticeStep

-----------------------------------------------------------------------------
(* What keeps the bound of the records                                     *)

LEMMA LeftFor ==
  ASSUME TypeInv, LockInv, WhereInv, [Next]_vars
  PROVE  /\ (pc' = "start" => pc = "start") /\ (where = "after" => where' = "after") /\ (runEnd => runEnd')
         /\ (where = "after" /\ pc' = "fail" => pc = "fail")
         /\ (where' = "turn" /\ ~ending' => (EnterTurn /\ ~open) \/ (where = "turn" /\ ~ending))
<1> USE DEF WhereInv, LockInv, HeldInv, FlagsOK, TypeInv, LabelsOK, Labels, Parts,
       PartOf, Expire, file, main, box, reader
<1>1. CASE RunStart
  BY <1>1 DEF RunStart, MainWrites, Goto
<1>2. CASE EnterTurn
  BY <1>2 DEF EnterTurn, Goto
<1>3. CASE TurnWrites
  BY <1>3 DEF TurnWrites, MainWrites, Goto
<1>4. CASE TurnResets
  BY <1>4 DEF TurnResets, MainWrites, Goto
<1>5. CASE Notify
  BY <1>5 DEF Notify, Goto
<1>6. CASE Drain
  BY <1>6 DEF Drain, Goto
<1>7. CASE Nudge
  BY <1>7 DEF Nudge, MainWrites, Goto
<1>8. CASE NudgesDone
  BY <1>8 DEF NudgesDone, Goto
<1>9. CASE TurnEnds
  <2>1. CASE pc' = "exit"
    BY <1>9, <2>1 DEF TurnEnds, Goto
  <2>2. CASE pc' # "exit"
    BY <1>9, <2>2 DEF TurnEnds, Goto
  <2> QED
    BY <2>1, <2>2
<1>10. CASE Flush
  BY <1>10 DEF Flush, FlushThen, Goto
<1>11. CASE RunEnd
  <2>1. CASE runEnd
    BY <1>11, <2>1 DEF RunEnd, MainWrites, Goto
  <2>2. CASE ~runEnd /\ open
    BY <1>11, <2>2 DEF RunEnd, MainWrites, Goto
  <2>3. CASE ~runEnd /\ ~open
    BY <1>11, <2>3 DEF RunEnd, MainWrites, Goto
  <2> QED
    BY <2>1, <2>2, <2>3
<1>12. CASE ExitTurn
  BY <1>12 DEF ExitTurn, FlushThen, Goto
<1>13. CASE FailRun
  BY <1>13 DEF FailRun, MainWrites, Goto
<1>14. CASE Close
  BY <1>14 DEF Close, Goto
<1>15. CASE CloseFile
  BY <1>15 DEF CloseFile, Goto, Shown
<1>16. CASE PutAndReturn
  <2>1. CASE pending = <<>> /\ lock = "main"
    BY <1>16, <2>1, PutReturns, AfterPut
  <2>2. CASE pending = <<>> /\ lock # "main"
    BY <1>16, <2>2, PutReturns, AfterPut
  <2>3. CASE pending # <<>>
    BY <1>16, <2>3, PutReturns, AfterPut
  <2> QED
    BY <1>16, <2>1, <2>2, <2>3, PutReturns
<1>17. CASE PutFails
  <2>1. CASE lock = "watchdog"
    BY <1>17, <2>1, PutFailsThen
  <2>2. CASE lock # "watchdog" /\ where \in {"turn", "handler"}
    BY <1>17, <2>2, PutFailsThen
  <2>3. CASE lock # "watchdog" /\ where = "after"
    BY <1>17, <2>3, PutFailsThen
  <2>4. CASE lock # "watchdog" /\ where \notin {"turn", "handler", "after"}
    BY <1>17, <2>4, PutFailsThen
  <2> QED
    BY <1>17, <2>1, <2>2, <2>3, <2>4, PutFailsThen
<1>18. CASE Interrupt
  <2>1. CASE where = "turn"
    BY <1>18, <2>1, InterruptThen
  <2>2. CASE where = "handler"
    BY <1>18, <2>2, InterruptThen
  <2>3. CASE where = "between"
    BY <1>18, <2>3, InterruptThen
  <2>4. CASE where = "exit"
    BY <1>18, <2>4, InterruptThen
  <2>5. CASE where = "before"
    BY <1>18, <2>5, InterruptThen
  <2>6. CASE where = "after"
    BY <1>18, <2>6, InterruptThen
  <2>7. CASE where = "outer"
    BY <1>18, <2>7, InterruptThen
  <2> QED
    BY <1>18, <2>1, <2>2, <2>3, <2>4, <2>5, <2>6, <2>7, InterruptThen
<1>19. CASE WatchdogResets
  BY <1>19 DEF WatchdogResets
<1>20. CASE WatchdogNotifies
  BY <1>20 DEF WatchdogNotifies
<1>21. CASE ReaderStats
  BY <1>21 DEF ReaderStats
<1>22. CASE ReaderReads
  BY <1>22 DEF ReaderReads
<1>23. CASE UNCHANGED vars
  BY <1>23 DEF vars, file, main, box, reader
<1> QED
  BY <1>1, <1>2, <1>3, <1>4, <1>5, <1>6, <1>7, <1>8, <1>9, <1>10, <1>11, <1>12, <1>13,
     <1>14, <1>15, <1>16, <1>17, <1>18, <1>19, <1>20, <1>21, <1>22, <1>23 DEF Next,
     MainStep, WatchdogStep, ReaderStep, Terminated

LEMMA TurnsMove ==
  ASSUME TypeInv, LockInv, WhereInv, [Next]_vars
  PROVE  turns' = turns \/ (EnterTurn /\ ~open /\ turns' = turns + 1)
<1> USE DEF Expire, file, main, box, reader
<1>1. CASE RunStart
  BY <1>1 DEF RunStart, MainWrites, Write
<1>2. CASE EnterTurn
  BY <1>2 DEF EnterTurn
<1>3. CASE TurnWrites
  BY <1>3 DEF TurnWrites, MainWrites, Write
<1>4. CASE TurnResets
  BY <1>4 DEF TurnResets, MainWrites, Write
<1>5. CASE Notify
  BY <1>5 DEF Notify
<1>6. CASE Drain
  BY <1>6 DEF Drain
<1>7. CASE Nudge
  BY <1>7 DEF Nudge, MainWrites, Write
<1>8. CASE NudgesDone
  BY <1>8 DEF NudgesDone
<1>9. CASE TurnEnds
  BY <1>9 DEF TurnEnds
<1>10. CASE Flush
  BY <1>10 DEF Flush, FlushThen, TakeOut
<1>11. CASE RunEnd
  BY <1>11 DEF RunEnd, MainWrites, Write
<1>12. CASE ExitTurn
  BY <1>12 DEF ExitTurn, FlushThen, TakeOut
<1>13. CASE FailRun
  BY <1>13 DEF FailRun, MainWrites, Write
<1>14. CASE Close
  BY <1>14 DEF Close
<1>15. CASE CloseFile
  BY <1>15 DEF CloseFile, Shown
<1>16. CASE PutAndReturn
  BY <1>16, PutReturns DEF Puts
<1>17. CASE PutFails
  BY <1>17, PutFailsThen DEF Breaks
<1>18. CASE Interrupt
  BY <1>18, InterruptThen DEF Breaks
<1>19. CASE WatchdogResets
  BY <1>19 DEF WatchdogResets, Write
<1>20. CASE WatchdogNotifies
  BY <1>20 DEF WatchdogNotifies
<1>21. CASE ReaderStats
  BY <1>21 DEF ReaderStats
<1>22. CASE ReaderReads
  BY <1>22 DEF ReaderReads
<1>23. CASE UNCHANGED vars
  BY <1>23 DEF vars, file, main, box, reader
<1> QED
  BY <1>1, <1>2, <1>3, <1>4, <1>5, <1>6, <1>7, <1>8, <1>9, <1>10, <1>11, <1>12, <1>13,
     <1>14, <1>15, <1>16, <1>17, <1>18, <1>19, <1>20, <1>21, <1>22, <1>23 DEF Next,
     MainStep, WatchdogStep, ReaderStep, Terminated

LEMMA BufferGrows ==
  ASSUME TypeInv, LockInv, WhereInv, where = "turn", ~ending, where' = "turn", ~ending',
         [Next]_vars
  PROVE  buffer' = buffer \/ \E r : buffer' = Append(buffer, r)
<1> USE DEF WhereInv, TypeInv, LabelsOK, Parts, PartOf, Expire, file, main, box, reader
<1>1. CASE RunStart
  BY <1>1 DEF RunStart, MainWrites, Write, Goto
<1>2. CASE EnterTurn
  BY <1>2 DEF EnterTurn, Goto
<1>3. CASE TurnWrites
  BY <1>3 DEF TurnWrites, MainWrites, Write, Goto
<1>4. CASE TurnResets
  BY <1>4 DEF TurnResets, MainWrites, Write, Goto
<1>5. CASE Notify
  BY <1>5 DEF Notify, Goto
<1>6. CASE Drain
  BY <1>6 DEF Drain, Goto
<1>7. CASE Nudge
  BY <1>7 DEF Nudge, MainWrites, Write, Goto
<1>8. CASE NudgesDone
  BY <1>8 DEF NudgesDone, Goto
<1>9. CASE TurnEnds
  BY <1>9 DEF TurnEnds, Goto
<1>10. CASE Flush
  BY <1>10 DEF Flush, FlushThen, TakeOut, Goto
<1>11. CASE RunEnd
  BY <1>11 DEF RunEnd, MainWrites, Write, Goto
<1>12. CASE ExitTurn
  BY <1>12 DEF ExitTurn, FlushThen, TakeOut, Goto
<1>13. CASE FailRun
  BY <1>13 DEF FailRun, MainWrites, Write, Goto
<1>14. CASE Close
  BY <1>14 DEF Close, Goto
<1>15. CASE CloseFile
  BY <1>15 DEF CloseFile, Goto, Shown
<1>16. CASE PutAndReturn
  BY <1>16, PutReturns DEF Puts
<1>17. CASE PutFails
  BY <1>17, PutFailsThen DEF Breaks
<1>18. CASE Interrupt
  BY <1>18, InterruptThen DEF Breaks
<1>19. CASE WatchdogResets
  BY <1>19 DEF WatchdogResets, Write
<1>20. CASE WatchdogNotifies
  BY <1>20 DEF WatchdogNotifies
<1>21. CASE ReaderStats
  BY <1>21 DEF ReaderStats
<1>22. CASE ReaderReads
  BY <1>22 DEF ReaderReads
<1>23. CASE UNCHANGED vars
  BY <1>23 DEF vars, file, main, box, reader
<1> QED
  BY <1>1, <1>2, <1>3, <1>4, <1>5, <1>6, <1>7, <1>8, <1>9, <1>10, <1>11, <1>12, <1>13,
     <1>14, <1>15, <1>16, <1>17, <1>18, <1>19, <1>20, <1>21, <1>22, <1>23 DEF Next,
     MainStep, WatchdogStep, ReaderStep, Terminated

LEMMA SpendsHow ==
  ASSUME TypeInv, WhereInv
  PROVE  /\ RunStart => pc = "start" /\ pc' # "start"
         /\ FailRun => SecondEnd = 1 /\ SecondEnd' = 0
         /\ RunEnd /\ ~runEnd => FirstEnd = 1 /\ FirstEnd' = 0
         /\ TurnWrites => /\ where = "turn" /\ ~ending /\ Len(buffer) < MaxWrites /\ turns' = turns
                          /\ \E r : buffer' = Append(buffer, r)
<1>1. RunStart => pc = "start" /\ pc' # "start"
  BY DEF RunStart, MainWrites, Goto
<1>2. ASSUME FailRun PROVE SecondEnd = 1 /\ SecondEnd' = 0
  <2>1. pc = "fail" /\ where = "after"
    BY <1>2 DEF FailRun, WhereInv, TypeInv, LabelsOK, Parts
  <2>2. pc' \in {"put", "close"} /\ where' = "after"
    BY <1>2, <2>1 DEF FailRun, MainWrites, Goto, PartOf
  <2> QED
    BY <2>1, <2>2 DEF SecondEnd
<1>3. ASSUME RunEnd, ~runEnd PROVE FirstEnd = 1 /\ FirstEnd' = 0
  <2>1. where # "after" /\ runEnd'
    BY <1>3 DEF RunEnd, WhereInv, TypeInv, LabelsOK, Parts
  <2> QED
    BY <1>3, <2>1 DEF FirstEnd
<1>4. ASSUME TurnWrites
      PROVE  /\ where = "turn" /\ ~ending /\ Len(buffer) < MaxWrites /\ turns' = turns
             /\ \E r : buffer' = Append(buffer, r)
  <2>1. where = "turn" /\ ~ending /\ open
    BY <1>4 DEF TurnWrites, WhereInv, TypeInv, LabelsOK, Parts
  <2> QED
    BY <1>4, <2>1 DEF TurnWrites, MainWrites, Write
<1> QED
  BY <1>1, <1>2, <1>3, <1>4

LEMMA AppendLen ==
  ASSUME NEW S, NEW s \in Seq(S), NEW r
  PROVE  Len(Append(s, r)) = Len(s) + 1
<1>1. s \in Seq(S \cup {r}) /\ r \in S \cup {r}
  BY SeqMonotonic
<1> QED
  BY <1>1, AppendProperties

LEMMA DueIs ==
  /\ Due \in Nat /\ (Owed => Due = 1) /\ (~Owed => Due = 0)
  /\ Due' \in Nat /\ (Owed' => Due' = 1) /\ (~Owed' => Due' = 0)
<1>1. Due \in Nat /\ (Owed => Due = 1) /\ (~Owed => Due = 0)
  BY DEF Due, Owed
<1>2. Due' \in Nat /\ (Owed' => Due' = 1) /\ (~Owed' => Due' = 0)
  BY DEF Due, Owed
<1> QED
  BY <1>1, <1>2

(* Only the records the run owes nobody make the log grow without paying for themselves.    *)
LEMMA DebtStep ==
  ASSUME TypeInv, FileStep, NoticeStep
  PROVE  \/ Len(accepted') + Debt' <= Len(accepted) + Debt
         \/ Spends /\ Len(accepted') + Debt' = Len(accepted) + Debt + 1
<1>1. /\ Len(accepted) \in Nat /\ Len(notices) \in Nat /\ Len(drained) \in Nat
      /\ MaxResets \in Nat /\ resets \in Nat /\ Len(<<>>) = 0
  BY SeqTypes, NoticesAre, BoundsAre, EmptySeq DEF TypeInv, CountsOK
<1>2. \A r : Len(Append(accepted, r)) = Len(accepted) + 1
  BY SeqTypes, AppendLen
<1>3. CASE Quiet
  <2>1. UNCHANGED <<notices, drained, resets, accepted>> /\ Due' <= Due
    BY <1>3, DueIs DEF Quiet, Kept
  <2> QED
    BY <1>1, <2>1, DueIs DEF Debt
<1>4. CASE Recording
  <2>1. /\ UNCHANGED <<notices, drained, resets>> /\ Due' = Due /\ Spends
        /\ Len(accepted') = Len(accepted) + 1
    BY <1>2, <1>4, DueIs DEF Recording, Kept
  <2> QED
    BY <1>1, <2>1, DueIs DEF Debt
<1>5. CASE Resetting
  <2>1. /\ UNCHANGED <<notices, drained>> /\ resets' = resets + 1 /\ Due = 0 /\ Due' = 1
        /\ Len(accepted') = Len(accepted) + 1
    BY <1>2, <1>5, DueIs DEF Resetting, Kept
  <2> QED
    BY <1>1, <2>1 DEF Debt
<1>6. CASE Queueing
  <2>1. /\ UNCHANGED <<drained, resets, accepted>> /\ Due = 1 /\ Due' = 0
        /\ notices' = Append(notices, resets)
    BY <1>6, DueIs DEF Queueing
  <2>2. Len(notices') = Len(notices) + 1
    BY <2>1, NoticesAre, AppendLen
  <2> QED
    BY <1>1, <2>1, <2>2 DEF Debt
<1>7. CASE Draining
  <2>1. /\ UNCHANGED <<resets, accepted>> /\ Due' = Due /\ drained = <<>> /\ drained' = notices
        /\ notices' = <<>>
    BY <1>7, DueIs DEF Draining
  <2> QED
    BY <1>1, <2>1, DueIs DEF Debt
<1>8. CASE Nudging
  <2>1. /\ UNCHANGED <<notices, resets>> /\ Due' = Due /\ drained # <<>> /\ drained' = Tail(drained)
        /\ Len(accepted') = Len(accepted) + 1
    BY <1>2, <1>8, DueIs DEF Nudging
  <2>2. Len(drained') = Len(drained) - 1
    BY <2>1, NoticesAre, HeadTailProperties
  <2> QED
    BY <1>1, <2>1, <2>2, DueIs DEF Debt
<1>9. CASE GivingUp
  <2>1. UNCHANGED <<notices, resets, accepted>> /\ Due' <= Due /\ Len(drained') = 0
    BY <1>1, <1>9, DueIs DEF GivingUp
  <2> QED
    BY <1>1, <2>1, DueIs DEF Debt
<1> QED
  BY <1>3, <1>4, <1>5, <1>6, <1>7, <1>8, <1>9 DEF NoticeStep

(* What may still be written by the turns never grows, and each of their records spends of it. *)
LEMMA RoomIs ==
  ASSUME TypeInv
  PROVE  /\ Room \in 0 .. MaxWrites
         /\ where = "turn" /\ ~ending /\ Len(buffer) < MaxWrites => Room = MaxWrites - Len(buffer)
         /\ ~(where = "turn" /\ ~ending /\ Len(buffer) < MaxWrites) => Room = 0
BY SeqTypes, BoundsAre DEF Room

LEMMA Nexts ==
  ASSUME NEW m \in Nat, NEW t \in Nat, NEW w \in Nat
  PROVE  (m - t) * w = (m - (t + 1)) * w + w
OBVIOUS

LEMMA ProductIs ==
  ASSUME NEW m \in Nat, NEW t \in 0 .. m, NEW w \in Nat
  PROVE  (m - t) * w \in Nat
<1> DEFINE d == m - t
<1>1. d \in Nat
  OBVIOUS
<1> HIDE DEF d
<1>2. d * w \in Nat
  BY <1>1
<1> QED
  BY <1>2 DEF d

(* Sums of parts of which none grows.                                                     *)
LEMMA TwoParts ==
  ASSUME NEW a \in Nat, NEW b \in Nat, NEW c \in Nat, NEW d \in Nat, NEW w \in Nat,
         c <= w, b = d + w
  PROVE  a + b \in Nat /\ c + d \in Nat /\ c + d <= a + b
OBVIOUS

LEMMA FourNats ==
  ASSUME NEW a \in Nat, NEW b \in Nat, NEW c \in Nat, NEW d \in Nat
  PROVE  a + b + c + d \in Nat
OBVIOUS

LEMMA FourParts ==
  ASSUME NEW a \in Nat, NEW b \in Nat, NEW c \in Nat, NEW d \in Nat,
         NEW e \in Nat, NEW f \in Nat, NEW g \in Nat, NEW h \in Nat,
         e <= a, f <= b, g <= c, h <= d
  PROVE  /\ e + f + g + h <= a + b + c + d
         /\ e <= a - 1 \/ f <= b - 1 \/ g <= c - 1 \/ h <= d - 1
              => e + f + g + h <= (a + b + c + d) - 1
OBVIOUS

LEMMA RoomStep ==
  ASSUME TypeInv, LockInv, WhereInv, NextTurnInv, FileStep, [Next]_vars, TypeInv'
  PROVE  /\ TurnsLeft \in Nat /\ TurnsLeft' \in Nat /\ TurnsLeft' <= TurnsLeft
         /\ TurnWrites => TurnsLeft' <= TurnsLeft - 1
<1>1. /\ MaxWrites \in Nat /\ MaxTurns \in Nat /\ turns \in 0 .. MaxTurns /\ turns' \in 0 .. MaxTurns
      /\ Len(buffer) \in Nat /\ Len(buffer') \in Nat
  BY BoundsAre, SeqTypes, LenProperties DEF TypeInv, CountsOK, FileOK
<1>2. MaxTurns' = MaxTurns /\ MaxWrites' = MaxWrites
  OBVIOUS
<1>3. /\ Room \in 0 .. MaxWrites
      /\ where = "turn" /\ ~ending /\ Len(buffer) < MaxWrites => Room = MaxWrites - Len(buffer)
      /\ ~(where = "turn" /\ ~ending /\ Len(buffer) < MaxWrites) => Room = 0
  BY RoomIs
<1>4. /\ Room' \in 0 .. MaxWrites
      /\ where' = "turn" /\ ~ending' /\ Len(buffer') < MaxWrites => Room' = MaxWrites - Len(buffer')
      /\ ~(where' = "turn" /\ ~ending' /\ Len(buffer') < MaxWrites) => Room' = 0
  BY <1>1 DEF Room
<1>5. CASE EnterTurn /\ ~open /\ turns' = turns + 1
  <2>1. ~TurnWrites
    BY <1>5 DEF EnterTurn, TurnWrites
  <2>2. (MaxTurns - turns) * MaxWrites = (MaxTurns - (turns + 1)) * MaxWrites + MaxWrites
    BY <1>1, Nexts
  <2>3. (MaxTurns - turns') * MaxWrites \in Nat /\ (MaxTurns - turns) * MaxWrites \in Nat
    BY <1>1, ProductIs
  <2> DEFINE p == (MaxTurns - turns) * MaxWrites
             q == (MaxTurns - turns') * MaxWrites
  <2>4. p = q + MaxWrites /\ p \in Nat /\ q \in Nat
    BY <1>5, <2>2, <2>3
  <2>5. TurnsLeft = Room + p /\ TurnsLeft' = Room' + q
    BY DEF TurnsLeft
  <2>6. Room \in Nat /\ Room' \in Nat /\ Room' <= MaxWrites /\ MaxWrites \in Nat
    BY <1>1, <1>3, <1>4
  <2> HIDE DEF p, q
  <2>7. Room + p \in Nat /\ Room' + q \in Nat /\ Room' + q <= Room + p
    BY <2>4, <2>6, TwoParts, Zenon
  <2> QED
    BY <2>1, <2>5, <2>7
<1>6. CASE turns' = turns
  <2>1. ~EnterTurn \/ open
    BY <1>1, <1>6 DEF EnterTurn
  <2>2. where' = "turn" /\ ~ending' => where = "turn" /\ ~ending /\ Len(buffer) <= Len(buffer')
    BY <1>1, <2>1, LeftFor, BufferGrows, SeqTypes, AppendLen
  <2>3. TurnWrites => where = "turn" /\ ~ending /\ Len(buffer) < MaxWrites /\ Len(buffer') = Len(buffer) + 1
    BY SpendsHow, SeqTypes, AppendLen
  <2>4. Room' <= Room /\ (TurnWrites => Room' <= Room - 1)
    BY <1>1, <1>3, <1>4, <2>2, <2>3
  <2>5. (MaxTurns - turns) * MaxWrites \in Nat
    BY <1>1
  <2> QED
    BY <1>3, <1>4, <1>6, <2>4, <2>5 DEF TurnsLeft
<1> QED
  BY <1>5, <1>6, TurnsMove

LEMMA LeftStep ==
  ASSUME TypeInv, LockInv, WhereInv, NextTurnInv, FileStep, [Next]_vars, TypeInv'
  PROVE  Left' <= Left /\ (Spends => Left' <= Left - 1) /\ Left \in Nat /\ Left' \in Nat
<1>1. /\ TurnsLeft \in Nat /\ TurnsLeft' \in Nat /\ TurnsLeft' <= TurnsLeft
      /\ TurnWrites => TurnsLeft' <= TurnsLeft - 1
  BY RoomStep
<1>2. /\ Start \in 0 .. 1 /\ Start' \in 0 .. 1 /\ FirstEnd \in 0 .. 1 /\ FirstEnd' \in 0 .. 1
      /\ SecondEnd \in 0 .. 1 /\ SecondEnd' \in 0 .. 1
  BY DEF Start, FirstEnd, SecondEnd
<1>3. Start' <= Start /\ (RunStart => Start' <= Start - 1)
  BY LeftFor, SpendsHow DEF Start
<1>4. FirstEnd' <= FirstEnd
  BY LeftFor DEF FirstEnd
<1>5. SecondEnd' <= SecondEnd
  BY LeftFor DEF SecondEnd
<1>6. (RunEnd /\ ~runEnd => FirstEnd' <= FirstEnd - 1) /\ (FailRun => SecondEnd' <= SecondEnd - 1)
  BY SpendsHow
<1>7. Left = Start + FirstEnd + SecondEnd + TurnsLeft /\ Left' = Start' + FirstEnd' + SecondEnd' + TurnsLeft'
  BY DEF Left
<1>8. /\ Start' <= Start /\ FirstEnd' <= FirstEnd /\ SecondEnd' <= SecondEnd /\ TurnsLeft' <= TurnsLeft
      /\ TurnsLeft \in Nat /\ TurnsLeft' \in Nat
  BY <1>1, <1>3, <1>4, <1>5
<1>9. /\ Start \in Nat /\ FirstEnd \in Nat /\ SecondEnd \in Nat /\ TurnsLeft \in Nat
       /\ Start' \in Nat /\ FirstEnd' \in Nat /\ SecondEnd' \in Nat /\ TurnsLeft' \in Nat
       /\ Start' <= Start /\ FirstEnd' <= FirstEnd /\ SecondEnd' <= SecondEnd /\ TurnsLeft' <= TurnsLeft
  BY <1>2, <1>8
<1>10. /\ Start + FirstEnd + SecondEnd + TurnsLeft \in Nat
      /\ Start' + FirstEnd' + SecondEnd' + TurnsLeft' \in Nat
      /\ Start' + FirstEnd' + SecondEnd' + TurnsLeft' <= Start + FirstEnd + SecondEnd + TurnsLeft
  <2>1. Start + FirstEnd + SecondEnd + TurnsLeft \in Nat
    BY <1>9, FourNats, Zenon
  <2>2. Start' + FirstEnd' + SecondEnd' + TurnsLeft' \in Nat
    BY <1>9, FourNats, Zenon
  <2>3. Start' + FirstEnd' + SecondEnd' + TurnsLeft' <= Start + FirstEnd + SecondEnd + TurnsLeft
    BY <1>9, FourParts, Zenon
  <2> QED
    BY <2>1, <2>2, <2>3, Zenon
<1>11. ASSUME Spends
       PROVE  Start' + FirstEnd' + SecondEnd' + TurnsLeft' <= (Start + FirstEnd + SecondEnd + TurnsLeft) - 1
  <2>1. \/ Start' <= Start - 1 \/ FirstEnd' <= FirstEnd - 1 \/ SecondEnd' <= SecondEnd - 1
        \/ TurnsLeft' <= TurnsLeft - 1
    BY <1>1, <1>3, <1>6, <1>11 DEF Spends
  <2> QED
    BY <1>9, <2>1, FourParts, Zenon
<1> QED
  BY <1>7, <1>10, <1>11

LEMMA BudgetStep ==
  ASSUME TypeInv, LockInv, WhereInv, NextTurnInv, BudgetInv, FileStep, NoticeStep,
         [Next]_vars, TypeInv'
  PROVE  BudgetInv'
<1>1. Len(accepted) \in Nat /\ Len(accepted') \in Nat /\ MaxRecords \in Nat
  BY SeqTypes, BoundsAre, LenProperties DEF TypeInv, FileOK
<1>2. Debt \in Nat /\ Debt' \in Nat
  <2>1. resets \in 0 .. MaxResets /\ resets' \in 0 .. MaxResets /\ MaxResets \in Nat
    BY BoundsAre DEF TypeInv, CountsOK
  <2>2. /\ Len(notices) \in Nat /\ Len(drained) \in Nat /\ Len(notices') \in Nat /\ Len(drained') \in Nat
    BY LenProperties DEF TypeInv, NoticesOK
  <2>3. \A m \in Nat : \A n \in 0 .. m : m - n \in Nat
    OBVIOUS
  <2>4. MaxResets - resets \in Nat /\ MaxResets - resets' \in Nat
    BY <2>3, <2>1, Zenon
  <2>5. Due \in Nat /\ Due' \in Nat
    BY DueIs
  <2>6. \A w, x, y, z \in Nat : 2 * w + x + y + z \in Nat
    OBVIOUS
  <2>7. Debt \in Nat
    BY <2>2, <2>4, <2>5, <2>6 DEF Debt
  <2>8. Debt' \in Nat
    BY <2>2, <2>4, <2>5, <2>6 DEF Debt
  <2> QED
    BY <2>7, <2>8
<1>3. Left' <= Left /\ (Spends => Left' <= Left - 1) /\ Left \in Nat /\ Left' \in Nat
  BY LeftStep
<1>4. \/ Len(accepted') + Debt' <= Len(accepted) + Debt
      \/ Spends /\ Len(accepted') + Debt' = Len(accepted) + Debt + 1
  BY DebtStep
<1> QED
  BY <1>1, <1>2, <1>3, <1>4 DEF BudgetInv

-----------------------------------------------------------------------------
(* The invariant, and that every step keeps it.                                           *)
IInv ==
  /\ TypeInv
  /\ LockInv /\ WhereInv /\ NextTurnInv
  /\ CalmInv /\ IntactInv /\ TurnInv /\ AgeInv
  /\ OwedInv /\ OrderInv /\ PresentInv /\ BudgetInv
  /\ CacheInv

LEMMA NoneTakenIn == accepted = <<>> => Nudged = {}
BY DEF Nudged

LEMMA InitOK ==
  ASSUME Init
  PROVE  IInv
<1>1. /\ lock = "free" /\ open = FALSE /\ closed = FALSE /\ torn = "no"
      /\ buffer = <<>> /\ pending = <<>> /\ line = <<>> /\ held = <<>> /\ lines = <<>>
      /\ pc = "start" /\ after = "none" /\ where = "before"
      /\ ending = FALSE /\ raising = "no" /\ runEnd = FALSE /\ turns = 0 /\ drained = <<>>
      /\ wpc = "poll" /\ resets = 0 /\ notices = <<>>
      /\ rpc = "idle" /\ rsig = 0 /\ cache = NoCache
      /\ accepted = <<>> /\ faults = 0
  BY DEF Init
<1>2. \A S : <<>> \in Seq(S) /\ Len(<<>>) = 0 /\ DOMAIN <<>> = {}
  BY EmptySeq
<1>3. TypeInv
  <2>1. FileOK /\ LabelsOK /\ FlagsOK /\ NoticesOK
    BY <1>1, <1>2 DEF FileOK, LabelsOK, Labels, Parts, FlagsOK, NoticesOK
  <2>2. CountsOK
    BY <1>1, BoundsAre DEF CountsOK
  <2>3. ReaderOK
    BY <1>1, <1>2 DEF ReaderOK, NoCache
  <2> QED
    BY <2>1, <2>2, <2>3 DEF TypeInv
<1>4. LockInv /\ WhereInv /\ CalmInv /\ OwedInv
  BY <1>1 DEF LockInv, HeldInv, FlowInv, WhereInv, CalmInv, OwedInv, Owed
<1>5. NextTurnInv
  BY <1>1, TranscriptAssumption DEF NextTurnInv
<1>6. IntactInv /\ TurnInv /\ AgeInv
  BY <1>1, <1>2 DEF IntactInv, TurnInv, AgeInv
<1>7. OrderInv
  BY <1>1, NoneTakenIn DEF OrderInv, Rising
<1>8. PresentInv
  BY <1>1 DEF PresentInv
<1>9. BudgetInv
  <2>1. Start = 1 /\ FirstEnd = 1 /\ SecondEnd = 1 /\ Room = 0 /\ Due = 0
    BY <1>1 DEF Start, FirstEnd, SecondEnd, Room, Due, Owed
  <2>2. /\ Left = 3 + (0 + (MaxTurns - 0) * MaxWrites) /\ Debt = 2 * (MaxResets - 0)
        /\ Len(accepted) = 0
    BY <1>1, <1>2, <2>1, BoundsAre DEF Left, TurnsLeft, Debt
  <2>3. MaxTurns - 0 = MaxTurns /\ MaxResets - 0 = MaxResets
    BY BoundsAre
  <2> QED
    BY <2>2, <2>3, BoundsAre DEF BudgetInv, MaxRecords
<1>10. CacheInv
  <2>1. Size = 0
    BY <1>1, <1>2 DEF Size
  <2> QED
    BY <1>1, <2>1 DEF CacheInv, NoCache
<1> QED
  BY <1>3, <1>4, <1>5, <1>6, <1>7, <1>8, <1>9, <1>10 DEF IInv

LEMMA StepOK ==
  ASSUME IInv, [Next]_vars
  PROVE  IInv'
<1> USE DEF IInv
<1>1. FileStep
  BY FileSteps
<1>2. NoticeStep /\ ReaderMoves
  BY NoticeSteps, ReaderMovesStep
<1>3. TypeInv'
  <2>1. FileOK'
    BY <1>1, FileStepOK DEF LockInv
  <2>2. LabelsOK' /\ FlagsOK'
    BY LabelsStep, FlagsStep DEF TypeInv
  <2>3. CountsOK' /\ NoticesOK'
    BY CountsStep, NoticesStep
  <2>4. ReaderOK'
    BY <1>1, <1>2, CacheStep
  <2> QED
    BY <2>1, <2>2, <2>3, <2>4 DEF TypeInv
<1>4. LockInv'
  BY HeldStep, FlowStep DEF TypeInv, LockInv
<1>5. WhereInv' /\ NextTurnInv'
  BY WhereStep, NextTurnStep DEF TypeInv
<1>6. CalmInv' /\ IntactInv' /\ TurnInv' /\ AgeInv'
  BY <1>1, CalmStep, IntactStep, TurnStep, AgeStep DEF LockInv
<1>7. OwedInv' /\ OrderInv' /\ PresentInv' /\ BudgetInv'
  BY <1>1, <1>2, <1>3, OwedStep, OrderStep, PresentStep, BudgetStep
<1>8. CacheInv'
  BY <1>1, <1>2, CacheStep
<1> QED
  BY <1>3, <1>4, <1>5, <1>6, <1>7, <1>8

\* Every variable of the transcript, its two writers and its reader keeps its type; records
\* are numbered within the bound that the turns and the resets of a run give.
THEOREM TypeCorrect == Spec => []TypeInv
<1>1. IInv /\ [Next]_vars => IInv'
  BY StepOK
<1>2. Init => IInv
  BY InitOK
<1>3. IInv => TypeInv
  BY DEF IInv
<1> QED
  BY <1>1, <1>2, <1>3, PTL DEF Spec

LEMMA Invariant == Spec => []IInv
<1>1. IInv /\ [Next]_vars => IInv'
  BY StepOK
<1>2. Init => IInv
  BY InitOK
<1> QED
  BY <1>1, <1>2, PTL DEF Spec

\* Whatever the two threads write and whatever breaks, the dashboard's entry is the file's
\* text where it is served: DashboardData._transcript never keeps an old reading under the
\* signature of a newer file (CacheIsFresh).
THEOREM CacheIsAlwaysFresh == Spec => []CacheIsFresh
<1>1. IInv => CacheIsFresh
  BY DEF IInv, CacheInv, CacheIsFresh
<1> QED
  BY <1>1, Invariant, PTL

\* A hard kill of a run in which nothing broke loses at most the open turn's records and the
\* line being written, and a closed transcript misses nothing (KillLosesOnlyTheTurn).
THEOREM AKillLosesTheTurnAtMost == Spec => []KillLosesOnlyTheTurn
<1>1. ASSUME IInv PROVE KillLosesOnlyTheTurn
  <2> SUFFICES ASSUME faults = 0
               PROVE  /\ \A r \in Members(held \o pending \o buffer) : r.turn = turns
                      /\ pc \in {"enter", "fail", "closed"} => buffer = <<>> /\ ~open
                      /\ Len(lines) + Len(held \o line \o pending \o buffer) = Len(accepted)
    BY DEF KillLosesOnlyTheTurn
  <2>1. /\ held = <<>> /\ pending \in Seq(Current) /\ buffer \in Seq(Current)
        /\ Len(lines) + Len(line) + Len(pending) + Len(buffer) = Len(accepted)
        /\ pc # "fail"
    BY <1>1 DEF IInv, IntactInv, TurnInv, CalmInv
  <2>2. /\ \A S : <<>> \in Seq(S)
        /\ line \in Seq(Records) /\ pending \in Seq(Records) /\ buffer \in Seq(Records)
    BY <1>1, SeqTypes, EmptySeq DEF IInv
  <2>3. held \o pending \o buffer \in Seq(Current)
    BY <2>1, <2>2, ConcatProperties
  <2>4. \A r \in Members(held \o pending \o buffer) : r.turn = turns
    BY <2>3, ElementOfSeq, LenProperties DEF Members, Current
  <2>5. pc \in {"enter", "closed"} => buffer = <<>> /\ ~open
    BY <1>1 DEF IInv, TypeInv, LabelsOK, Parts, WhereInv, LockInv, FlowInv
  <2>6. /\ held \o line = line /\ line \o pending \in Seq(Records)
        /\ Len(line \o pending) = Len(line) + Len(pending)
        /\ Len(line \o pending \o buffer) = Len(line) + Len(pending) + Len(buffer)
    BY <2>1, <2>2, ConcatEmptySeq, ConcatProperties
  <2> QED
    BY <2>1, <2>4, <2>5, <2>6, <1>1, SeqTypes DEF IInv
<1> QED
  BY <1>1, Invariant, PTL

LEMMA AtMostOne ==
  ASSUME NEW S, \A x, y \in S : x = y
  PROVE  /\ S = {} => Cardinality(S) = 0
         /\ S # {} => Cardinality(S) = 1
<1>1. S = {} => Cardinality(S) = 0
  BY FS_EmptySet
<1>2. ASSUME S # {} PROVE Cardinality(S) = 1
  <2>1. PICK x : S = {x}
    BY <1>2
  <2> QED
    BY <2>1, FS_Singleton
<1> QED
  BY <1>1, <1>2

(* A notice has one place at most where the notices keep their order.                      *)
LEMMA PlacesAre ==
  ASSUME TypeInv, OrderInv, NEW k \in 1 .. MaxResets,
         NEW A, A = {i \in DOMAIN notices : notices[i] = k},
         NEW B, B = {i \in DOMAIN drained : drained[i] = k},
         NEW C, C = {i \in Nudged : accepted[i].about = k}
  PROVE  /\ Cardinality(A) + Cardinality(B) + Cardinality(C) <= 1
         /\ Placed(k) => Cardinality(A) + Cardinality(B) + Cardinality(C) = 1
<1>1. /\ \A i \in A : i \in DOMAIN notices /\ i \in Nat /\ notices[i] = k
      /\ \A i \in B : i \in DOMAIN drained /\ i \in Nat /\ drained[i] = k
      /\ \A i \in C : i \in Nudged /\ i \in Nat /\ accepted[i].about = k
      /\ k \in Nat
  BY NoticesAre, BoundsAre
<1>2. \A x, y \in A : x = y
  BY <1>1 DEF OrderInv, Rising
<1>3. \A x, y \in B : x = y
  BY <1>1 DEF OrderInv, Rising
<1>4. \A x, y \in C : x = y
  BY <1>1 DEF OrderInv
<1>5. (A = {} /\ B = {}) \/ (A = {} /\ C = {}) \/ (B = {} /\ C = {})
  BY <1>1 DEF OrderInv
<1>6. /\ A = {} => Cardinality(A) = 0
      /\ A # {} => Cardinality(A) = 1
      /\ B = {} => Cardinality(B) = 0
      /\ B # {} => Cardinality(B) = 1
      /\ C = {} => Cardinality(C) = 0
      /\ C # {} => Cardinality(C) = 1
  BY <1>2, <1>3, <1>4, AtMostOne
<1>7. Placed(k) => A # {} \/ B # {} \/ C # {}
  BY DEF Placed
<1> QED
  BY <1>5, <1>6, <1>7

\* A notice of a sandbox reset is queued, taken out or recorded as a nudge, and never in two
\* of these places; where nothing broke it is never lost either (NoticeOnce).
THEOREM NoticesReachTheModelOnce == Spec => []NoticeOnce
<1>1. ASSUME IInv PROVE NoticeOnce
  <2> SUFFICES ASSUME NEW k \in 1 .. resets
               PROVE  LET n == Cardinality({i \in DOMAIN notices : notices[i] = k})
                                 + Cardinality({i \in DOMAIN drained : drained[i] = k})
                                 + Cardinality({i \in Nudged : accepted[i].about = k})
                      IN  /\ n <= 1
                          /\ faults = 0 /\ ~(k = resets /\ (pc = "notify" \/ wpc # "poll")) => n = 1
    BY DEF NoticeOnce, Nudged
  <2>1. k \in 1 .. MaxResets
    BY <1>1, BoundsAre DEF IInv, TypeInv, CountsOK
  <2>2. faults = 0 /\ ~(k = resets /\ (pc = "notify" \/ wpc # "poll")) => Placed(k)
    BY <1>1 DEF IInv, PresentInv, Owed
  <2> QED
    BY <1>1, <2>1, <2>2, PlacesAre DEF IInv
<1> QED
  BY <1>1, Invariant, PTL

-----------------------------------------------------------------------------
(* The transcript implements the log of TurnLog.tla.                                      *)

(* What is left of s when some of its elements are dropped.                               *)
KeptFrom(t, s) ==
  /\ Len(t) <= Len(s)
  /\ \E f \in [1 .. Len(t) -> 1 .. Len(s)] :
       /\ \A i \in 1 .. Len(t) : t[i] = s[f[i]]
       /\ \A i, j \in 1 .. Len(t) : i < j => f[i] < f[j]

LEMMA NoneKept ==
  ASSUME NEW S, NEW s \in Seq(S)
  PROVE  KeptFrom(<<>>, s)
<1>1. Len(<<>>) = 0 /\ Len(s) \in Nat
  BY LenProperties, EmptySeq
<1> DEFINE f == [i \in 1 .. 0 |-> i]
<1>2. f \in [1 .. Len(<<>>) -> 1 .. Len(s)]
  BY <1>1
<1>3. 1 .. Len(<<>>) = {} /\ Len(<<>>) <= Len(s)
  BY <1>1
<1> HIDE DEF f
<1> QED
  BY <1>2, <1>3 DEF KeptFrom

LEMMA AllKept ==
  ASSUME NEW S, NEW s \in Seq(S)
  PROVE  KeptFrom(s, s)
<1>1. Len(s) \in Nat
  BY LenProperties
<1> DEFINE f == [i \in 1 .. Len(s) |-> i]
<1>2. f \in [1 .. Len(s) -> 1 .. Len(s)]
  OBVIOUS
<1>3. \A i \in 1 .. Len(s) : s[i] = s[f[i]]
  OBVIOUS
<1>4. \A i, j \in 1 .. Len(s) : i < j => f[i] < f[j]
  OBVIOUS
<1>5. Len(s) <= Len(s)
  BY <1>1
<1> HIDE DEF f
<1> QED
  BY <1>2, <1>3, <1>4, <1>5 DEF KeptFrom

LEMMA TailKept ==
  ASSUME NEW S, NEW s \in Seq(S), s # <<>>
  PROVE  KeptFrom(Tail(s), s)
<1>1. /\ Len(s) \in Nat /\ Len(Tail(s)) = Len(s) - 1
      /\ \A i \in 1 .. Len(Tail(s)) : Tail(s)[i] = s[i + 1]
  BY LenProperties, HeadTailProperties
<1> DEFINE f == [i \in 1 .. Len(Tail(s)) |-> i + 1]
<1>2. f \in [1 .. Len(Tail(s)) -> 1 .. Len(s)]
  BY <1>1
<1>3. \A i \in 1 .. Len(Tail(s)) : Tail(s)[i] = s[f[i]]
  BY <1>1
<1>4. \A i, j \in 1 .. Len(Tail(s)) : i < j => f[i] < f[j]
  BY <1>1
<1>5. Len(Tail(s)) <= Len(s)
  BY <1>1
<1> QED
  BY <1>2, <1>3, <1>4, <1>5 DEF KeptFrom

LEMMA BothKept ==
  ASSUME NEW S, NEW s \in Seq(S), NEW t \in Seq(S), NEW u \in Seq(S), NEW v \in Seq(S),
         KeptFrom(s, u), KeptFrom(t, v)
  PROVE  KeptFrom(s \o t, u \o v)
<1>1. /\ Len(s) \in Nat /\ Len(t) \in Nat /\ Len(u) \in Nat /\ Len(v) \in Nat
      /\ Len(s \o t) = Len(s) + Len(t) /\ Len(u \o v) = Len(u) + Len(v)
  BY LenProperties, ConcatProperties
<1>2. PICK g \in [1 .. Len(s) -> 1 .. Len(u)] :
        /\ \A i \in 1 .. Len(s) : s[i] = u[g[i]]
        /\ \A i, j \in 1 .. Len(s) : i < j => g[i] < g[j]
  BY DEF KeptFrom
<1>3. PICK h \in [1 .. Len(t) -> 1 .. Len(v)] :
        /\ \A i \in 1 .. Len(t) : t[i] = v[h[i]]
        /\ \A i, j \in 1 .. Len(t) : i < j => h[i] < h[j]
  BY DEF KeptFrom
<1>4. Len(s) <= Len(u) /\ Len(t) <= Len(v)
  BY DEF KeptFrom
<1> DEFINE f == [i \in 1 .. Len(s \o t) |-> IF i <= Len(s) THEN g[i] ELSE Len(u) + h[i - Len(s)]]
<1>5. ASSUME NEW i \in 1 .. Len(s \o t), i <= Len(s)
      PROVE  i \in 1 .. Len(s) /\ f[i] = g[i] /\ f[i] \in 1 .. Len(u)
  <2>1. i \in 1 .. Len(s) /\ f[i] = g[i]
    BY <1>1, <1>5
  <2> HIDE DEF f
  <2> QED
    BY <1>2, <2>1
<1>6. ASSUME NEW i \in 1 .. Len(s \o t), ~(i <= Len(s))
      PROVE  /\ i - Len(s) \in 1 .. Len(t) /\ h[i - Len(s)] \in 1 .. Len(v)
             /\ f[i] = Len(u) + h[i - Len(s)]
  <2>1. i - Len(s) \in 1 .. Len(t)
    BY <1>1, <1>6
  <2> QED
    BY <1>3, <1>6, <2>1
<1>7. f \in [1 .. Len(s \o t) -> 1 .. Len(u \o v)]
  <2>1. ASSUME NEW i \in 1 .. Len(s \o t) PROVE f[i] \in 1 .. Len(u \o v)
    <3>1. CASE i <= Len(s)
      <4>1. f[i] \in 1 .. Len(u)
        BY <1>5, <3>1
      <4> HIDE DEF f
      <4> QED
        BY <1>1, <4>1
    <3>2. CASE ~(i <= Len(s))
      <4>1. f[i] = Len(u) + h[i - Len(s)] /\ h[i - Len(s)] \in 1 .. Len(v)
        BY <1>6, <3>2
      <4> HIDE DEF f
      <4> QED
        BY <1>1, <4>1
    <3> QED
      BY <3>1, <3>2
  <2> QED
    BY <2>1
<1>8. ASSUME NEW i \in 1 .. Len(s \o t) PROVE (s \o t)[i] = (u \o v)[f[i]]
  <2>1. i \in 1 .. Len(s) + Len(t)
    BY <1>1
  <2>2. CASE i <= Len(s)
    <3>1. i \in 1 .. Len(s) /\ f[i] = g[i] /\ g[i] \in 1 .. Len(u)
      BY <1>5, <2>2
    <3> HIDE DEF f
    <3>2. (s \o t)[i] = s[i]
      BY <2>1, <2>2, ConcatProperties
    <3>3. g[i] \in 1 .. Len(u) + Len(v) /\ g[i] <= Len(u)
      BY <1>1, <3>1
    <3>4. (u \o v)[g[i]] = u[g[i]]
      BY <3>3, ConcatProperties
    <3> QED
      BY <1>2, <3>1, <3>2, <3>4
  <2>3. CASE ~(i <= Len(s))
    <3>1. /\ i - Len(s) \in 1 .. Len(t) /\ h[i - Len(s)] \in 1 .. Len(v)
          /\ f[i] = Len(u) + h[i - Len(s)]
      BY <1>6, <2>3
    <3> HIDE DEF f
    <3>2. (s \o t)[i] = t[i - Len(s)]
      BY <2>1, <2>3, ConcatProperties
    <3>3. f[i] \in 1 .. Len(u) + Len(v) /\ ~(f[i] <= Len(u)) /\ f[i] - Len(u) = h[i - Len(s)]
      BY <1>1, <3>1
    <3>4. (u \o v)[f[i]] = v[f[i] - Len(u)]
      BY <3>3, ConcatProperties
    <3> QED
      BY <1>3, <3>1, <3>2, <3>3, <3>4
  <2> QED
    BY <2>2, <2>3
<1>9. ASSUME NEW i \in 1 .. Len(s \o t), NEW j \in 1 .. Len(s \o t), i < j
      PROVE  f[i] < f[j]
  <2>1. CASE j <= Len(s)
    <3>1. i <= Len(s)
      BY <1>1, <1>9, <2>1
    <3>2. /\ i \in 1 .. Len(s) /\ j \in 1 .. Len(s) /\ f[i] = g[i] /\ f[j] = g[j]
      BY <1>5, <2>1, <3>1
    <3> QED
      BY <1>2, <1>9, <3>2
  <2>2. CASE i <= Len(s) /\ ~(j <= Len(s))
    <3>1. f[i] \in 1 .. Len(u) /\ f[j] = Len(u) + h[j - Len(s)] /\ h[j - Len(s)] \in 1 .. Len(v)
      BY <1>5, <1>6, <2>2
    <3> HIDE DEF f
    <3> QED
      BY <1>1, <3>1
  <2>3. CASE ~(i <= Len(s))
    <3>1. ~(j <= Len(s))
      BY <1>1, <1>9, <2>3
    <3>2. /\ i - Len(s) \in 1 .. Len(t) /\ h[i - Len(s)] \in 1 .. Len(v) /\ f[i] = Len(u) + h[i - Len(s)]
          /\ j - Len(s) \in 1 .. Len(t) /\ h[j - Len(s)] \in 1 .. Len(v) /\ f[j] = Len(u) + h[j - Len(s)]
      BY <1>6, <2>3, <3>1
    <3> HIDE DEF f
    <3>3. i - Len(s) < j - Len(s)
      BY <1>1, <1>9
    <3>4. h[i - Len(s)] < h[j - Len(s)]
      BY <1>3, <3>2, <3>3
    <3> QED
      BY <1>1, <3>2, <3>4
  <2> QED
    BY <2>1, <2>2, <2>3
<1>10. Len(s \o t) <= Len(u \o v)
  BY <1>1, <1>4
<1> QED
  <2> HIDE DEF f
  <2> QED
    BY <1>7, <1>8, <1>9, <1>10 DEF KeptFrom

(* The numbers of the records of a sequence.                                              *)
LEMMA LineHasNumber ==
  ASSUME NEW r \in Lines
  PROVE  r.n \in Nat
BY BoundsAre, GarbledIs, RecordFields DEF Lines

LEMMA IdsAre ==
  ASSUME NEW s \in Seq(Lines)
  PROVE  /\ Ids(s) \in Seq(Nat) /\ Len(Ids(s)) = Len(s) /\ Len(s) \in Nat
         /\ DOMAIN Ids(s) = 1 .. Len(s)
         /\ \A i \in 1 .. Len(s) : Ids(s)[i] = s[i].n
<1>1. DOMAIN s = 1 .. Len(s) /\ Len(s) \in Nat /\ \A i \in 1 .. Len(s) : s[i] \in Lines
  BY LenProperties, ElementOfSeq
<1>2. Ids(s) = [i \in 1 .. Len(s) |-> s[i].n]
  BY <1>1 DEF Ids
<1>3. \A i \in 1 .. Len(s) : s[i].n \in Nat
  BY <1>1, LineHasNumber
<1>4. Ids(s) \in [1 .. Len(s) -> Nat]
  BY <1>2, <1>3
<1>5. Ids(s) \in Seq(Nat) /\ Len(Ids(s)) = Len(s)
  BY <1>1, <1>4
<1> QED
  BY <1>1, <1>2, <1>5

LEMMA IdsConcat ==
  ASSUME NEW s \in Seq(Lines), NEW t \in Seq(Lines)
  PROVE  Ids(s \o t) = Ids(s) \o Ids(t)
<1>1. /\ Len(s) \in Nat /\ Len(t) \in Nat
      /\ s \o t \in Seq(Lines) /\ Len(s \o t) = Len(s) + Len(t)
      /\ \A i \in 1 .. Len(s) + Len(t) : (s \o t)[i] = IF i <= Len(s) THEN s[i] ELSE t[i - Len(s)]
  BY LenProperties, ConcatProperties
<1>2. /\ Ids(s) \in Seq(Nat) /\ Len(Ids(s)) = Len(s)
      /\ \A i \in 1 .. Len(s) : Ids(s)[i] = s[i].n
  BY IdsAre
<1>3. /\ Ids(t) \in Seq(Nat) /\ Len(Ids(t)) = Len(t)
      /\ \A i \in 1 .. Len(t) : Ids(t)[i] = t[i].n
  BY IdsAre
<1>4. /\ Ids(s \o t) \in Seq(Nat) /\ Len(Ids(s \o t)) = Len(s) + Len(t)
      /\ \A i \in 1 .. Len(s) + Len(t) : Ids(s \o t)[i] = (s \o t)[i].n
  BY <1>1, IdsAre
<1>5. /\ Ids(s) \o Ids(t) \in Seq(Nat) /\ Len(Ids(s) \o Ids(t)) = Len(s) + Len(t)
      /\ \A i \in 1 .. Len(s) + Len(t) :
           (Ids(s) \o Ids(t))[i] = IF i <= Len(s) THEN Ids(s)[i] ELSE Ids(t)[i - Len(s)]
  BY <1>2, <1>3, ConcatProperties
<1>6. ASSUME NEW i \in 1 .. Len(s) + Len(t) PROVE Ids(s \o t)[i] = (Ids(s) \o Ids(t))[i]
  <2>1. CASE i <= Len(s)
    <3>1. i \in 1 .. Len(s)
      BY <1>1, <2>1
    <3> QED
      BY <1>1, <1>2, <1>4, <1>5, <2>1, <3>1
  <2>2. CASE ~(i <= Len(s))
    <3>1. i - Len(s) \in 1 .. Len(t)
      BY <1>1, <2>2
    <3> QED
      BY <1>1, <1>3, <1>4, <1>5, <2>2, <3>1
  <2> QED
    BY <2>1, <2>2
<1> QED
  BY <1>4, <1>5, <1>6, SeqEqual

LEMMA IdsPart ==
  ASSUME NEW s \in Seq(Lines), NEW n \in 0 .. Len(s)
  PROVE  /\ Ids(SubSeq(s, 1, n)) = SubSeq(Ids(s), 1, n)
         /\ Ids(SubSeq(s, n + 1, Len(s))) = SubSeq(Ids(s), n + 1, Len(Ids(s)))
<1>1. /\ Ids(s) \in Seq(Nat) /\ Len(Ids(s)) = Len(s) /\ Len(s) \in Nat /\ n \in 0 .. Len(Ids(s))
      /\ \A i \in 1 .. Len(s) : Ids(s)[i] = s[i].n
  BY IdsAre
<1>2. Ids(SubSeq(s, 1, n)) = SubSeq(Ids(s), 1, n)
  <2>1. /\ SubSeq(s, 1, n) \in Seq(Lines) /\ Len(SubSeq(s, 1, n)) = n
        /\ \A i \in 1 .. n : SubSeq(s, 1, n)[i] = s[i]
    BY PartIs
  <2>2. /\ Ids(SubSeq(s, 1, n)) \in Seq(Nat) /\ Len(Ids(SubSeq(s, 1, n))) = n
        /\ \A i \in 1 .. n : Ids(SubSeq(s, 1, n))[i] = SubSeq(s, 1, n)[i].n
    BY <2>1, IdsAre
  <2>3. /\ SubSeq(Ids(s), 1, n) \in Seq(Nat) /\ Len(SubSeq(Ids(s), 1, n)) = n
        /\ \A i \in 1 .. n : SubSeq(Ids(s), 1, n)[i] = Ids(s)[i]
    BY <1>1, PartIs
  <2>4. \A i \in 1 .. n : i \in 1 .. Len(s)
    BY <1>1
  <2>5. \A i \in 1 .. n : Ids(SubSeq(s, 1, n))[i] = SubSeq(Ids(s), 1, n)[i]
    BY <1>1, <2>1, <2>2, <2>3, <2>4
  <2> QED
    BY <2>2, <2>3, <2>5, SeqEqual
<1>3. Ids(SubSeq(s, n + 1, Len(s))) = SubSeq(Ids(s), n + 1, Len(Ids(s)))
  <2> DEFINE t == SubSeq(s, n + 1, Len(s))
             u == SubSeq(Ids(s), n + 1, Len(Ids(s)))
             m == Len(s) - n
  <2>1. t \in Seq(Lines) /\ Len(t) = m /\ \A i \in 1 .. m : t[i] = s[n + i]
    BY PartIs
  <2>2. u \in Seq(Nat) /\ Len(u) = m /\ \A i \in 1 .. m : u[i] = Ids(s)[n + i]
    <3> DEFINE d == Ids(s)
    <3>1. d \in Seq(Nat) /\ n \in 0 .. Len(d) /\ Len(d) = Len(s)
      BY <1>1
    <3> HIDE DEF d
    <3>2. /\ SubSeq(d, n + 1, Len(d)) \in Seq(Nat) /\ Len(SubSeq(d, n + 1, Len(d))) = Len(d) - n
          /\ \A i \in 1 .. Len(d) - n : SubSeq(d, n + 1, Len(d))[i] = d[n + i]
      BY <3>1, PartIs
    <3> QED
      BY <3>1, <3>2 DEF d
  <2>3. \A i \in 1 .. m : n + i \in 1 .. Len(s)
    BY <1>1
  <2> HIDE DEF t, u, m
  <2>4. Ids(t) \in Seq(Nat) /\ Len(Ids(t)) = m /\ \A i \in 1 .. m : Ids(t)[i] = t[i].n
    BY <2>1, IdsAre
  <2>5. \A i \in 1 .. m : Ids(t)[i] = u[i]
    BY <1>1, <2>1, <2>2, <2>3, <2>4
  <2>6. Ids(t) = u
    BY <2>2, <2>4, <2>5, SeqEqual
  <2> QED
    BY <2>6 DEF t, u
<1> QED
  BY <1>2, <1>3

LEMMA IdsSmall ==
  /\ Ids(<<>>) = <<>> /\ <<>> \in Seq(Lines)
  /\ \A r \in Lines : Ids(<<r>>) = <<r.n>> /\ <<r>> \in Seq(Lines)
<1>1. <<>> \in Seq(Lines)
  BY EmptySeq
<1>2. Ids(<<>>) = <<>>
  BY <1>1, IdsAre, EmptySeq
<1>3. ASSUME NEW r \in Lines PROVE Ids(<<r>>) = <<r.n>> /\ <<r>> \in Seq(Lines)
  <2>1. <<r>> \in Seq(Lines) /\ Len(<<r>>) = 1 /\ <<r>>[1] = r
    BY SingleIs
  <2>2. <<r.n>> \in Seq(Nat) /\ Len(<<r.n>>) = 1 /\ <<r.n>>[1] = r.n
    BY LineHasNumber, SingleIs
  <2>3. Ids(<<r>>) \in Seq(Nat) /\ Len(Ids(<<r>>)) = 1 /\ Ids(<<r>>)[1] = r.n
    <3> DEFINE t == <<r>>
    <3>1. t \in Seq(Lines) /\ Len(t) = 1 /\ t[1] = r
      BY <2>1
    <3> HIDE DEF t
    <3>2. Ids(t) \in Seq(Nat) /\ Len(Ids(t)) = 1 /\ Ids(t)[1] = r.n
      BY <3>1, IdsAre
    <3> QED
      BY <3>2 DEF t
  <2>4. \A i \in 1 .. Len(<<r.n>>) : Ids(<<r>>)[i] = <<r.n>>[i]
    BY <2>2, <2>3
  <2> QED
    BY <2>1, <2>2, <2>3, <2>4, SeqEqual
<1> QED
  BY <1>1, <1>2, <1>3

LEMMA CutIs ==
  ASSUME NEW S, NEW s \in Seq(S), NEW t \in Seq(S)
  PROVE  /\ SubSeq(s \o t, 1, Len(s)) = s
         /\ SubSeq(s \o t, Len(s) + 1, Len(s \o t)) = t
<1> DEFINE u == s \o t
           n == Len(s)
<1>1. /\ n \in Nat /\ Len(t) \in Nat /\ u \in Seq(S) /\ Len(u) = n + Len(t)
      /\ \A i \in 1 .. n + Len(t) : u[i] = IF i <= n THEN s[i] ELSE t[i - n]
  BY LenProperties, ConcatProperties
<1>2. n = Len(s)
  OBVIOUS
<1>3. n \in 0 .. Len(u)
  <2> HIDE DEF u, n
  <2> QED
    BY <1>1
<1> HIDE DEF u, n
<1>4. /\ SubSeq(u, 1, n) \in Seq(S) /\ Len(SubSeq(u, 1, n)) = n
      /\ \A i \in 1 .. n : SubSeq(u, 1, n)[i] = u[i]
      /\ SubSeq(u, n + 1, Len(u)) \in Seq(S) /\ Len(SubSeq(u, n + 1, Len(u))) = Len(u) - n
      /\ \A i \in 1 .. Len(u) - n : SubSeq(u, n + 1, Len(u))[i] = u[n + i]
  BY <1>1, <1>3, PartIs
<1>5. SubSeq(u, 1, n) = s
  <2>1. \A i \in 1 .. n : SubSeq(u, 1, n)[i] = s[i]
    BY <1>1, <1>4
  <2> QED
    BY <1>2, <1>4, <2>1, SeqEqual
<1>6. SubSeq(u, n + 1, Len(u)) = t
  <2>1. ASSUME NEW i \in 1 .. Len(t) PROVE SubSeq(u, n + 1, Len(u))[i] = t[i]
    <3>1. n + i \in 1 .. n + Len(t) /\ ~(n + i <= n) /\ (n + i) - n = i /\ i \in 1 .. Len(u) - n
      BY <1>1
    <3> QED
      BY <1>1, <1>4, <3>1
  <2>2. Len(SubSeq(u, n + 1, Len(u))) = Len(t)
    BY <1>1, <1>4
  <2> QED
    BY <1>4, <2>1, <2>2, SeqEqual
<1> QED
  BY <1>5, <1>6 DEF u, n

(* What write() took in and the file does not show yet.                                   *)
Queue == held \o line \o pending \o buffer

LEMMA QueueIs ==
  ASSUME TypeInv
  PROVE  /\ held \o line \in Seq(Records) /\ pending \o buffer \in Seq(Records)
         /\ Queue \in Seq(Records) /\ Queue = (held \o line) \o (pending \o buffer)
         /\ Queue = held \o (line \o (pending \o buffer))
<1>1. held \in Seq(Records) /\ line \in Seq(Records) /\ pending \in Seq(Records) /\ buffer \in Seq(Records)
  BY SeqTypes
<1>2. /\ held \o line \in Seq(Records) /\ pending \o buffer \in Seq(Records)
      /\ line \o (pending \o buffer) \in Seq(Records)
      /\ (held \o line) \o pending \in Seq(Records) /\ ((held \o line) \o pending) \o buffer \in Seq(Records)
  BY <1>1, ConcatProperties
<1>3. ((held \o line) \o pending) \o buffer = (held \o line) \o (pending \o buffer)
  BY <1>1, <1>2, ConcatAssociative, SMTT(20)
<1>4. (held \o line) \o (pending \o buffer) = held \o (line \o (pending \o buffer))
  <2> DEFINE w == pending \o buffer
  <2>1. w \in Seq(Records)
    BY <1>2
  <2> HIDE DEF w
  <2>2. (held \o line) \o w = held \o (line \o w)
    BY <1>1, <2>1, ConcatAssociative, SMTT(20)
  <2> QED
    BY <2>2 DEF w
<1> QED
  BY <1>2, <1>3, <1>4 DEF Queue

(* A record goes to the end of the queue.                                                 *)
LEMMA TakesInQueue ==
  ASSUME TypeInv, FlowInv, NEW r \in Records, TakesIn(r)
  PROVE  Queue' = Queue \o <<r>>
<1>1. held \in Seq(Records) /\ line \in Seq(Records) /\ pending \in Seq(Records) /\ buffer \in Seq(Records)
  BY SeqTypes
<1>2. <<r>> \in Seq(Records) /\ line = <<>> /\ pending = <<>> /\ UNCHANGED <<held, pending>>
  BY SingleIs DEF TakesIn, FlowInv
<1>3. Queue = held \o buffer
  BY <1>1, <1>2, ConcatEmptySeq DEF Queue
<1>4. CASE open
  <2>1. buffer' = Append(buffer, r) /\ line' = <<>> /\ pending' = <<>> /\ held' = held
    BY <1>2, <1>4 DEF TakesIn
  <2>2. Append(buffer, r) = buffer \o <<r>>
    BY <1>1, AppendIsConcat
  <2>3. Queue' = held \o (buffer \o <<r>>)
    BY <1>1, <2>1, <2>2, ConcatEmptySeq DEF Queue
  <2> QED
    BY <1>1, <1>2, <1>3, <2>3, ConcatAssociative
<1>5. CASE ~open
  <2>1. buffer = <<>> /\ buffer' = <<>> /\ line' = <<r>> /\ pending' = <<>> /\ held' = held
    BY <1>2, <1>5 DEF TakesIn, FlowInv
  <2>2. held \o <<r>> \in Seq(Records) /\ held \o buffer = held
    BY <1>1, <1>2, <2>1, ConcatProperties, ConcatEmptySeq
  <2>3. Queue' = held \o <<r>>
    BY <2>1, <2>2, ConcatEmptySeq DEF Queue
  <2> QED
    BY <1>3, <2>2, <2>3
<1> QED
  BY <1>4, <1>5

LEMMA HeadAndTail ==
  ASSUME NEW S, NEW s \in Seq(S), s # <<>>
  PROVE  <<Head(s)>> \o Tail(s) = s /\ <<Head(s)>> \in Seq(S) /\ Tail(s) \in Seq(S)
<1>1. /\ Len(s) \in Nat \ {0} /\ Head(s) \in S /\ Tail(s) \in Seq(S) /\ Len(Tail(s)) = Len(s) - 1
      /\ \A i \in 1 .. Len(Tail(s)) : Tail(s)[i] = s[i + 1]
      /\ Head(s) = s[1]
  BY EmptySeq, HeadTailProperties
<1> DEFINE h == <<Head(s)>>
           t == Tail(s)
<1>2. h \in Seq(S) /\ Len(h) = 1 /\ h[1] = s[1]
  BY <1>1, SingleIs
<1>3. t \in Seq(S) /\ Len(t) = Len(s) - 1 /\ \A i \in 1 .. Len(t) : t[i] = s[i + 1]
  BY <1>1
<1> HIDE DEF h, t
<1>4. /\ h \o t \in Seq(S) /\ Len(h \o t) = 1 + Len(t)
      /\ \A i \in 1 .. 1 + Len(t) : (h \o t)[i] = IF i <= 1 THEN h[i] ELSE t[i - 1]
  <2>1. h \in Seq(S) /\ t \in Seq(S)
    BY <1>2, <1>3
  <2>2. /\ Len(h \o t) = Len(h) + Len(t)
        /\ \A i \in 1 .. Len(h) + Len(t) : (h \o t)[i] = IF i <= Len(h) THEN h[i] ELSE t[i - Len(h)]
    BY <2>1, ConcatProperties, Zenon
  <2>3. h \o t \in Seq(S)
    BY <1>2, <1>3, ConcatProperties
  <2> QED
    BY <1>2, <2>2, <2>3
<1>5. ASSUME NEW i \in 1 .. Len(s) PROVE (h \o t)[i] = s[i]
  <2>1. CASE i = 1
    BY <1>1, <1>2, <1>3, <1>4, <2>1
  <2>2. CASE i # 1
    <3>1. i - 1 \in 1 .. Len(t) /\ ~(i <= 1) /\ (i - 1) + 1 = i /\ i \in 1 .. 1 + Len(t)
      BY <1>1, <1>3, <2>2
    <3> QED
      BY <1>3, <1>4, <3>1
  <2> QED
    BY <2>1, <2>2
<1>6. Len(h \o t) = Len(s)
  BY <1>1, <1>3, <1>4
<1>7. h \o t = s
  BY <1>4, <1>5, <1>6, SeqEqual
<1> QED
  BY <1>2, <1>3, <1>7 DEF h, t

(* What goes into the file is what was written, or that without its garbled first line.   *)
LEMMA ShownKept ==
  ASSUME NEW s \in Seq(Records)
  PROVE  \E junk \in {<<>>, <<Garbled>>}, out \in Seq(Records) :
           Shown(s) = junk \o out /\ KeptFrom(out, s)
<1>1. CASE torn = "junk" /\ s # <<>>
  <2>1. Tail(s) \in Seq(Records) /\ KeptFrom(Tail(s), s)
    BY <1>1, HeadTailProperties, TailKept
  <2>2. Shown(s) = <<Garbled>> \o Tail(s)
    BY <1>1 DEF Shown
  <2> QED
    BY <2>1, <2>2
<1>2. CASE ~(torn = "junk" /\ s # <<>>)
  <2>1. Shown(s) = <<>> \o s
    BY <1>2, ConcatEmptySeq DEF Shown
  <2>2. KeptFrom(s, s)
    BY AllKept
  <2> QED
    BY <2>1, <2>2
<1> QED
  BY <1>1, <1>2

Drops(out) ==
  /\ KeptFrom(out \o Queue', Queue)
  /\ \E junk \in {<<>>, <<Garbled>>} : lines' = lines \o junk \o out

Passes ==
  \E n \in 1 .. Len(Queue) :
    /\ lines' = lines \o SubSeq(Queue, 1, n)
    /\ Queue' = SubSeq(Queue, n + 1, Len(Queue))

LEMMA JunkFirst ==
  ASSUME TypeInv, NEW junk \in {<<>>, <<Garbled>>}, NEW out \in Seq(Records)
  PROVE  lines \o (junk \o out) = lines \o junk \o out
<1>1. junk \in Seq(Lines) /\ out \in Seq(Lines) /\ lines \in Seq(Lines)
  <2>1. <<Garbled>> \in Seq(Lines) /\ <<>> \in Seq(Lines)
    BY SingleIs, GarbledIs, EmptySeq
  <2>2. out \in Seq(Lines)
    BY SeqMonotonic DEF Lines
  <2> QED
    BY <2>1, <2>2, SeqTypes
<1> QED
  BY <1>1, ConcatAssociative, SMTT(20)

LEMMA PutsQueue ==
  ASSUME TypeInv, FlowInv, Puts
  PROVE  IF torn = "junk" THEN \E out \in Seq(Records) : Drops(out) ELSE Passes
<1> DEFINE s == held \o line
           t == pending \o buffer
<1>1. held \in Seq(Records) /\ line \in Seq(Records) /\ pending \in Seq(Records) /\ buffer \in Seq(Records)
  BY SeqTypes
<1>2. s \in Seq(Records) /\ t \in Seq(Records) /\ Queue = s \o t /\ Queue \in Seq(Records)
  BY QueueIs
<1>3. /\ lines' = lines \o Shown(s) /\ line # <<>> /\ held' = <<>> /\ buffer' = buffer
      /\ line' = IF pending = <<>> THEN <<>> ELSE <<Head(pending)>>
      /\ pending' = IF pending = <<>> THEN <<>> ELSE Tail(pending)
  BY DEF Puts, PutLine
<1>4. line' \in Seq(Records) /\ pending' \in Seq(Records) /\ line' \o pending' = pending
  <2>1. CASE pending = <<>>
    BY <1>1, <1>3, <2>1, EmptySeq, ConcatEmptySeq
  <2>2. CASE pending # <<>>
    BY <1>1, <1>3, <2>2, HeadAndTail
  <2> QED
    BY <2>1, <2>2
<1>5. Queue' = t
  <2>1. <<>> \o line' = line'
    BY <1>4, ConcatEmptySeq
  <2> QED
    BY <1>3, <1>4, <2>1 DEF Queue
<1>6. Len(s) = Len(held) + Len(line) /\ Len(held) \in Nat /\ Len(line) \in Nat \ {0}
  BY <1>1, <1>3, ConcatProperties, LenProperties, EmptySeq
<1>7. Len(Queue) = Len(s) + Len(t) /\ Len(t) \in Nat
  <2> HIDE DEF s, t
  <2> QED
    BY <1>2, ConcatProperties, LenProperties
<1> HIDE DEF s, t
<1>8. CASE torn = "junk"
  <2>1. PICK junk \in {<<>>, <<Garbled>>}, out \in Seq(Records) : Shown(s) = junk \o out /\ KeptFrom(out, s)
    BY <1>2, ShownKept
  <2>2. lines' = lines \o junk \o out
    BY <1>3, <2>1, JunkFirst
  <2>3. KeptFrom(t, t)
    BY <1>2, AllKept
  <2>4. KeptFrom(out \o t, s \o t)
    BY <1>2, <2>1, <2>3, BothKept
  <2>5. Drops(out)
    BY <1>2, <1>5, <2>2, <2>4 DEF Drops
  <2> QED
    BY <1>8, <2>5
<1>9. CASE torn # "junk"
  <2>1. Shown(s) = s
    BY <1>9 DEF Shown
  <2>2. SubSeq(Queue, 1, Len(s)) = s /\ SubSeq(Queue, Len(s) + 1, Len(Queue)) = t
    BY <1>2, CutIs
  <2>3. Len(s) \in 1 .. Len(Queue)
    BY <1>6, <1>7
  <2>4. Passes
    BY <1>3, <1>5, <2>1, <2>2, <2>3 DEF Passes
  <2> QED
    BY <1>9, <2>4
<1> QED
  BY <1>8, <1>9

LEMMA CutTogether ==
  ASSUME NEW S, NEW s \in Seq(S), NEW n \in 0 .. Len(s)
  PROVE  SubSeq(s, 1, n) \o SubSeq(s, n + 1, Len(s)) = s
<1>1. Len(s) \in Nat
  BY LenProperties
<1>2. 1 \in 1 .. Len(s) + 1 /\ n \in 1 - 1 .. Len(s) /\ Len(s) \in n .. Len(s)
  BY <1>1
<1>3. SubSeq(s, 1, n) \o SubSeq(s, n + 1, Len(s)) = SubSeq(s, 1, Len(s))
  BY <1>2, ConcatAdjacentSubSeq
<1> QED
  BY <1>3, SubSeqFull

LEMMA BreaksQueue ==
  ASSUME TypeInv, FlowInv, Breaks
  PROVE  \E out \in Seq(Records) : Drops(out)
<1>1. held \in Seq(Records) /\ line \in Seq(Records) /\ pending \in Seq(Records) /\ buffer \in Seq(Records)
  BY SeqTypes
<1>2. PICK n \in 0 .. Len(held), kept \in {line, <<>>} :
        /\ lines' = lines \o Shown(SubSeq(held, 1, n))
        /\ held' = SubSeq(held, n + 1, Len(held)) \o kept
        /\ line' = <<>> /\ pending' = <<>> /\ buffer' = buffer
  BY BreaksHow
<1> DEFINE p == SubSeq(held, 1, n)
           r == SubSeq(held, n + 1, Len(held))
<1>3. p \in Seq(Records) /\ r \in Seq(Records)
  BY <1>1, PartIs
<1>4. p \o r = held
  BY <1>1, CutTogether
<1> HIDE DEF p, r
<1>5. PICK junk \in {<<>>, <<Garbled>>}, out \in Seq(Records) : Shown(p) = junk \o out /\ KeptFrom(out, p)
  BY <1>3, ShownKept
<1>6. lines' = lines \o junk \o out
  BY <1>2, <1>5, JunkFirst DEF p
<1>7. <<>> \in Seq(Records) /\ kept \in Seq(Records) /\ KeptFrom(kept, line) /\ KeptFrom(<<>>, pending)
  BY <1>1, EmptySeq, AllKept, NoneKept
<1>8. KeptFrom(r, r) /\ KeptFrom(buffer, buffer)
  BY <1>1, <1>3, AllKept
<1>9. out \o r \in Seq(Records) /\ KeptFrom(out \o r, held)
  BY <1>1, <1>3, <1>4, <1>5, <1>8, BothKept, ConcatProperties
<1>10. (out \o r) \o kept \in Seq(Records) /\ held \o line \in Seq(Records)
       /\ KeptFrom((out \o r) \o kept, held \o line)
  BY <1>1, <1>7, <1>9, BothKept, ConcatProperties
<1>11. (held \o line) \o pending \in Seq(Records) /\ KeptFrom(((out \o r) \o kept) \o <<>>, (held \o line) \o pending)
  BY <1>1, <1>7, <1>10, BothKept, ConcatProperties
<1>12. ((out \o r) \o kept) \o <<>> = (out \o r) \o kept
  BY <1>10, ConcatEmptySeq
<1>13. KeptFrom(((out \o r) \o kept) \o buffer, ((held \o line) \o pending) \o buffer)
  BY <1>1, <1>8, <1>10, <1>11, <1>12, BothKept
<1>14. Queue' = (r \o kept) \o buffer /\ r \o kept \in Seq(Records)
  <2>1. r \o kept \in Seq(Records)
    BY <1>3, <1>7, ConcatProperties
  <2>2. ((r \o kept) \o <<>>) \o <<>> = r \o kept
    BY <2>1, ConcatEmptySeq
  <2> QED
    BY <1>2, <2>1, <2>2 DEF Queue, r
<1>15. ((out \o r) \o kept) \o buffer = out \o ((r \o kept) \o buffer)
  <2>1. out \in Seq(Records) /\ r \in Seq(Records) /\ kept \in Seq(Records) /\ buffer \in Seq(Records)
    BY <1>1, <1>3, <1>7
  <2> QED
    BY <2>1, ConcatAssociative, ConcatProperties, SMTT(30)
<1>16. Drops(out)
  BY <1>6, <1>13, <1>14, <1>15 DEF Drops, Queue
<1> QED
  BY <1>16

LEMMA CloseQueue ==
  ASSUME TypeInv, CloseFile
  PROVE  \E out \in Seq(Records) : Drops(out)
<1>1. held \in Seq(Records) /\ line \in Seq(Records) /\ pending \in Seq(Records) /\ buffer \in Seq(Records)
  BY SeqTypes
<1>2. /\ lines' = lines \o Shown(held) /\ held' = <<>> /\ line' = <<>> /\ pending' = <<>> /\ buffer' = <<>>
  BY DEF CloseFile
<1>3. PICK junk \in {<<>>, <<Garbled>>}, out \in Seq(Records) : Shown(held) = junk \o out /\ KeptFrom(out, held)
  BY <1>1, ShownKept
<1>4. lines' = lines \o junk \o out
  BY <1>2, <1>3, JunkFirst
<1> DEFINE w == line \o (pending \o buffer)
<1>5. w \in Seq(Records) /\ Queue = held \o w
  BY <1>1, QueueIs, ConcatProperties
<1> HIDE DEF w
<1>6. KeptFrom(<<>>, w) /\ <<>> \in Seq(Records)
  BY <1>5, NoneKept, EmptySeq
<1>7. KeptFrom(out \o <<>>, held \o w)
  BY <1>1, <1>3, <1>5, <1>6, BothKept
<1>8. Queue' = <<>>
  BY <1>2, <1>6, ConcatEmptySeq DEF Queue
<1> QED
  BY <1>4, <1>5, <1>7, <1>8 DEF Drops

LEMMA IdsKept ==
  ASSUME NEW s \in Seq(Lines), NEW t \in Seq(Lines), KeptFrom(t, s)
  PROVE  KeptFrom(Ids(t), Ids(s))
<1>1. /\ Len(Ids(s)) = Len(s) /\ Len(Ids(t)) = Len(t)
      /\ \A i \in 1 .. Len(s) : Ids(s)[i] = s[i].n
      /\ \A i \in 1 .. Len(t) : Ids(t)[i] = t[i].n
  BY IdsAre
<1>2. PICK f \in [1 .. Len(t) -> 1 .. Len(s)] :
        /\ \A i \in 1 .. Len(t) : t[i] = s[f[i]]
        /\ \A i, j \in 1 .. Len(t) : i < j => f[i] < f[j]
  BY DEF KeptFrom
<1>3. \A i \in 1 .. Len(t) : Ids(t)[i] = Ids(s)[f[i]]
  BY <1>1, <1>2
<1>4. Len(t) <= Len(s)
  BY DEF KeptFrom
<1> QED
  BY <1>1, <1>2, <1>3, <1>4 DEF KeptFrom

LEMMA ThinnedIs ==
  ASSUME NEW s \in Seq(Nat), NEW t \in Seq(Nat), KeptFrom(t, s)
  PROVE  t \in Log!Thinned(s)
<1>1. /\ DOMAIN s = 1 .. Len(s) /\ DOMAIN t = 1 .. Len(t) /\ Len(s) \in Nat /\ Len(t) \in Nat
      /\ t \in [1 .. Len(t) -> Nat]
  BY LenProperties
<1>2. PICK f \in [1 .. Len(t) -> 1 .. Len(s)] :
        /\ \A i \in 1 .. Len(t) : t[i] = s[f[i]]
        /\ \A i, j \in 1 .. Len(t) : i < j => f[i] < f[j]
  BY DEF KeptFrom
<1>3. Len(t) \in 0 .. Len(s)
  BY <1>1 DEF KeptFrom
<1>4. t \in [1 .. Len(t) -> Log!Members(s)]
  BY <1>1, <1>2 DEF Log!Members
<1> DEFINE M == Log!Members(s)
<1>5. t \in UNION {[1 .. n -> M] : n \in 0 .. Len(s)}
  <2>1. t \in [1 .. Len(t) -> M]
    BY <1>4
  <2> HIDE DEF M
  <2> QED
    BY <1>3, <2>1
<1>6. /\ f \in [DOMAIN t -> DOMAIN s]
      /\ \A i \in DOMAIN t : t[i] = s[f[i]]
      /\ \A i, j \in DOMAIN t : i < j => f[i] < f[j]
  BY <1>1, <1>2
<1> QED
  BY <1>5, <1>6 DEF Log!Thinned

LEMMA TakesInIsAccept ==
  ASSUME IInv, TypeInv', NEW r \in Records, TakesIn(r), Queue' = Queue \o <<r>>
  PROVE  Log!Next
<1>1. /\ Queue \in Seq(Lines) /\ lines \in Seq(Lines) /\ r \in Lines /\ <<r>> \in Seq(Lines)
      /\ Queue \in Seq(Records)
  BY QueueIs, SeqMonotonic, SeqTypes, SingleIs DEF IInv, Lines
<1>2. Ids(Queue') = Append(Ids(Queue), r.n)
  <2>1. Ids(Queue') = Ids(Queue) \o <<r.n>>
    BY <1>1, IdsConcat, IdsSmall
  <2> QED
    BY <1>1, <2>1, IdsAre, LineHasNumber, AppendIsConcat
<1>3. lines' = lines /\ faults' = faults /\ r.n = Len(accepted) + 1
  BY DEF TakesIn
<1>4. Len(accepted) \in Nat
  BY SeqTypes DEF IInv
<1>5. r.n \in 1 .. MaxRecords
  BY RecordFields
<1>6. /\ lines \in Seq(Aged \cup {Garbled}) /\ held \in Seq(Aged) /\ line \in Seq(Aged)
      /\ pending \in Seq(Aged) /\ buffer \in Seq(Aged)
  BY DEF IInv, AgeInv
<1>7. Queue \in Seq(Aged)
  BY <1>6, ConcatProperties DEF Queue
<1>8. \A a \in Aged \cup {Garbled} : a.n # r.n
  BY <1>3, <1>4, GarbledIs, RecordFields, BoundsAre DEF Aged
<1>9. r.n \notin Log!Members(Ids(lines))
  <2>1. \A i \in 1 .. Len(lines) : lines[i].n # r.n
    BY <1>6, <1>8, ElementOfSeq
  <2>2. /\ DOMAIN Ids(lines) = 1 .. Len(lines)
        /\ \A i \in 1 .. Len(lines) : Ids(lines)[i] = lines[i].n
    BY <1>1, IdsAre
  <2> QED
    BY <2>1, <2>2 DEF Log!Members
<1>10. r.n \notin Log!Members(Ids(Queue))
  <2>1. \A i \in 1 .. Len(Queue) : Queue[i].n # r.n
    BY <1>7, <1>8, ElementOfSeq
  <2>2. /\ DOMAIN Ids(Queue) = 1 .. Len(Queue)
        /\ \A i \in 1 .. Len(Queue) : Ids(Queue)[i] = Queue[i].n
    BY <1>1, IdsAre
  <2> QED
    BY <2>1, <2>2 DEF Log!Members
<1>11. Log!Accept(r.n)
  BY <1>2, <1>3, <1>9, <1>10 DEF Log!Accept, Queue
<1> QED
  BY <1>5, <1>11 DEF Log!Next

LEMMA PassesIsPublish ==
  ASSUME TypeInv, Passes, faults' = faults
  PROVE  Log!Next
<1>1. Queue \in Seq(Lines) /\ lines \in Seq(Lines)
  BY QueueIs, SeqMonotonic, SeqTypes DEF Lines
<1>2. PICK n \in 1 .. Len(Queue) : /\ lines' = lines \o SubSeq(Queue, 1, n)
                                   /\ Queue' = SubSeq(Queue, n + 1, Len(Queue))
  BY DEF Passes
<1>3. n \in 0 .. Len(Queue) /\ n \in 1 .. Len(Ids(Queue))
  BY <1>1, IdsAre
<1>4. SubSeq(Queue, 1, n) \in Seq(Lines)
  BY <1>1, <1>3, PartIs
<1>5. Ids(lines') = Ids(lines) \o SubSeq(Ids(Queue), 1, n)
  BY <1>1, <1>2, <1>3, <1>4, IdsConcat, IdsPart
<1>6. Ids(Queue') = SubSeq(Ids(Queue), n + 1, Len(Ids(Queue)))
  BY <1>1, <1>2, <1>3, IdsPart
<1>7. Log!Publish
  BY <1>3, <1>5, <1>6 DEF Log!Publish, Log!First, Log!Rest, Queue
<1> QED
  BY <1>7 DEF Log!Next

LEMMA DropsIsLose ==
  ASSUME TypeInv, TypeInv', NEW out \in Seq(Records), Drops(out), faults' > 0
  PROVE  Log!Next
<1>1. /\ Queue \in Seq(Records) /\ Queue' \in Seq(Records)
      /\ Queue \in Seq(Lines) /\ Queue' \in Seq(Lines) /\ lines \in Seq(Lines) /\ out \in Seq(Lines)
  <2>1. Queue \in Seq(Records)
    BY QueueIs
  <2>2. Queue' \in Seq(Records)
    BY ConcatProperties DEF TypeInv, FileOK, Queue
  <2>3. \A s \in Seq(Records) : s \in Seq(Lines)
    BY SeqMonotonic DEF Lines
  <2> QED
    BY <2>1, <2>2, <2>3, SeqTypes
<1>2. PICK junk \in {<<>>, <<Garbled>>} : lines' = lines \o junk \o out
  BY DEF Drops
<1>3. KeptFrom(out \o Queue', Queue)
  BY DEF Drops
<1> DEFINE kept == Ids(out) \o Ids(Queue')
           n == Len(Ids(out))
<1>4. /\ Ids(out) \in Seq(Nat) /\ Ids(Queue') \in Seq(Nat) /\ Ids(Queue) \in Seq(Nat)
      /\ kept \in Seq(Nat) /\ n \in 0 .. Len(kept)
  <2>1. Ids(out) \in Seq(Nat) /\ Ids(Queue') \in Seq(Nat) /\ Ids(Queue) \in Seq(Nat)
    BY <1>1, IdsAre
  <2>2. /\ kept \in Seq(Nat) /\ Len(kept) = n + Len(Ids(Queue'))
        /\ n \in Nat /\ Len(Ids(Queue')) \in Nat
    BY <2>1, ConcatProperties, LenProperties
  <2> HIDE DEF kept, n
  <2> QED
    BY <2>1, <2>2
<1>5. kept \in Log!Thinned(Ids(Queue))
  <2>1. out \o Queue' \in Seq(Lines) /\ Ids(out \o Queue') = kept
    BY <1>1, IdsConcat, ConcatProperties
  <2>2. KeptFrom(kept, Ids(Queue))
    BY <1>1, <1>3, <2>1, IdsKept
  <2> HIDE DEF kept
  <2> QED
    BY <1>4, <2>2, ThinnedIs
<1>6. Log!First(kept, n) = Ids(out) /\ Log!Rest(kept, n) = Ids(Queue')
  BY <1>4, CutIs DEF Log!First, Log!Rest
<1>7. /\ Ids(junk) \in {<<>>, <<Garbled.n>>}
      /\ Ids(lines') = Ids(lines) \o Ids(junk) \o Ids(out)
  <2>1. junk \in Seq(Lines) /\ Ids(junk) \in {<<>>, <<Garbled.n>>}
    BY IdsSmall, GarbledIs
  <2>2. lines \o junk \in Seq(Lines) /\ Ids(lines \o junk) = Ids(lines) \o Ids(junk)
    BY <1>1, <2>1, ConcatProperties, IdsConcat
  <2>3. Ids((lines \o junk) \o out) = Ids(lines \o junk) \o Ids(out)
    BY <1>1, <2>2, IdsConcat
  <2> QED
    BY <1>2, <2>1, <2>2, <2>3
<1>8. Log!Lose
  <2> HIDE DEF kept, n
  <2>1. \E k \in Log!Thinned(Ids(Queue)) : \E m \in 0 .. Len(k), j \in {<<>>, <<Garbled.n>>} :
          /\ Ids(lines') = Ids(lines) \o j \o Log!First(k, m)
          /\ Ids(Queue') = Log!Rest(k, m)
    BY <1>4, <1>5, <1>6, <1>7
  <2> QED
    BY <2>1 DEF Log!Lose, Queue
<1> QED
  BY <1>8 DEF Log!Next

(* What a step does to the queue and to the file's whole lines.                           *)
LEMMA QueueStep ==
  ASSUME IInv, [Next]_vars
  PROVE  \/ Queue' = Queue /\ lines' = lines /\ faults' = faults
         \/ \E r \in Records : TakesIn(r) /\ Queue' = Queue \o <<r>>
         \/ Passes /\ faults' = faults
         \/ faults' > 0 /\ \E out \in Seq(Records) : Drops(out)
<1>1. /\ TypeInv /\ FlowInv /\ CalmInv /\ WhereInv /\ faults \in Nat
      /\ faults = 0 => held = <<>> /\ torn = "no"
  BY BoundsAre DEF IInv, LockInv, TypeInv, CountsOK, IntactInv
<1>2. held \in Seq(Records) /\ line \in Seq(Records) /\ pending \in Seq(Records) /\ buffer \in Seq(Records)
  BY <1>1, SeqTypes
<1>3. FileStep
  BY FileSteps DEF IInv
<1>4. CASE \E r \in Records : TakesIn(r)
  BY <1>1, <1>4, TakesInQueue
<1>5. CASE TakesOut
  <2>1. /\ line = <<>> /\ pending = <<>> /\ buffer # <<>> /\ UNCHANGED <<held, lines, faults>>
        /\ line' = <<Head(buffer)>> /\ pending' = Tail(buffer) /\ buffer' = <<>>
    BY <1>1, <1>5 DEF TakesOut, FlowInv
  <2>2. line' \in Seq(Records) /\ pending' \in Seq(Records) /\ line' \o pending' = buffer
    BY <1>2, <2>1, HeadAndTail
  <2>3. Queue = held \o buffer
    BY <1>2, <2>1, ConcatEmptySeq DEF Queue
  <2>4. Queue' = held \o (line' \o pending')
    <3>1. (held \o line') \o pending' \in Seq(Records)
      BY <1>2, <2>2, ConcatProperties
    <3>2. ((held \o line') \o pending') \o <<>> = (held \o line') \o pending'
      BY <3>1, ConcatEmptySeq
    <3>3. (held \o line') \o pending' = held \o (line' \o pending')
      <4>1. held \in Seq(Records) /\ line' \in Seq(Records) /\ pending' \in Seq(Records)
        BY <1>2, <2>2
      <4> QED
        BY <4>1, ConcatAssociative, ConcatProperties, SMTT(30)
    <3> QED
      BY <2>1, <3>2, <3>3 DEF Queue
  <2> QED
    BY <2>1, <2>2, <2>3, <2>4
<1>6. CASE Puts
  <2>1. faults' = faults
    BY <1>6 DEF Puts, PutLine
  <2>2. torn = "junk" => faults' > 0
    BY <1>1, <2>1
  <2> QED
    BY <1>1, <1>6, <2>1, <2>2, PutsQueue
<1>7. CASE Breaks
  <2>1. faults' > 0
    BY <1>1, <1>7, BreaksHow
  <2> QED
    BY <1>1, <1>7, <2>1, BreaksQueue
<1>8. CASE CloseFile
  <2>1. faults' = faults
    BY <1>8 DEF CloseFile
  <2>2. CASE faults # 0
    <3>1. faults' > 0
      BY <1>1, <2>1, <2>2
    <3> QED
      BY <1>1, <1>8, <3>1, CloseQueue
  <2>3. CASE faults = 0
    <3>1. pc = "closing" /\ where = "after"
      BY <1>1, <1>8, <2>3 DEF CloseFile, CalmInv, WhereInv, TypeInv, LabelsOK, Parts
    <3>2. held = <<>> /\ torn = "no" /\ line = <<>> /\ pending = <<>> /\ buffer = <<>>
      BY <1>1, <2>3, <3>1 DEF WhereInv, FlowInv
    <3>3. /\ lines' = lines \o Shown(held)
          /\ held' = <<>> /\ line' = <<>> /\ buffer' = <<>> /\ pending' = <<>>
      BY <1>8 DEF CloseFile
    <3>4. Shown(held) = <<>>
      BY <3>2 DEF Shown
    <3>5. lines' = lines
      BY <1>1, <3>3, <3>4, SeqTypes, ConcatEmptySeq
    <3>6. Queue' = Queue
      BY <3>2, <3>3 DEF Queue
    <3> QED
      BY <2>1, <3>5, <3>6
  <2> QED
    BY <2>2, <2>3
<1>9. CASE Stays
  <2>1. UNCHANGED <<lines, held, line, pending, buffer>> /\ (faults' = faults \/ faults' > 0)
    BY <1>9 DEF Stays
  <2>2. Queue' = Queue
    BY <2>1 DEF Queue
  <2>3. CASE faults' > 0
    <3>1. Queue \in Seq(Records) /\ <<>> \in Seq(Records) /\ lines \in Seq(Lines)
      BY <1>1, QueueIs, SeqTypes, EmptySeq
    <3>2. <<>> \o Queue = Queue /\ lines \o <<>> \o <<>> = lines
      BY <3>1, ConcatEmptySeq
    <3>3. KeptFrom(<<>> \o Queue', Queue)
      BY <2>2, <3>1, <3>2, AllKept
    <3>4. Drops(<<>>)
      BY <2>1, <3>2, <3>3 DEF Drops
    <3> QED
      BY <2>3, <3>1, <3>4
  <2> QED
    BY <2>1, <2>2, <2>3
<1> QED
  BY <1>3, <1>4, <1>5, <1>6, <1>7, <1>8, <1>9 DEF FileStep

\* The transcript implements TurnLog.tla under the refinement mapping of LogSpec: records come
\* out of the lock, the buffer and the file object's own buffer in the order in which write()
\* took them in, whichever thread wrote them, and only what broke loses or garbles any.
THEOREM TranscriptImplementsTheLog == Spec => LogSpec
<1>1. Init => Log!Init
  <2> SUFFICES ASSUME Init PROVE Log!Init
    OBVIOUS
  <2>1. lines = <<>> /\ held = <<>> /\ line = <<>> /\ pending = <<>> /\ buffer = <<>> /\ faults = 0
    BY DEF Init
  <2>2. Ids(lines) = <<>> /\ Queue = <<>>
    BY <2>1, IdsSmall, ConcatEmptySeq DEF Queue
  <2>3. Ids(held \o line \o pending \o buffer) = <<>>
    BY <2>2, IdsSmall DEF Queue
  <2>4. (faults > 0) = FALSE
    BY <2>1
  <2> QED
    BY <2>2, <2>3, <2>4 DEF Log!Init
<1>2. IInv /\ IInv' /\ [Next]_vars => [Log!Next]_(Log!vars)
  <2> SUFFICES ASSUME IInv, IInv', [Next]_vars PROVE [Log!Next]_(Log!vars)
    OBVIOUS
  <2>1. TypeInv /\ TypeInv'
    BY DEF IInv
  <2>2. CASE Queue' = Queue /\ lines' = lines /\ faults' = faults
    BY <2>2 DEF Log!vars, Queue
  <2>3. CASE \E r \in Records : TakesIn(r) /\ Queue' = Queue \o <<r>>
    BY <2>1, <2>3, TakesInIsAccept
  <2>4. CASE Passes /\ faults' = faults
    BY <2>1, <2>4, PassesIsPublish
  <2>5. CASE faults' > 0 /\ \E out \in Seq(Records) : Drops(out)
    BY <2>1, <2>5, DropsIsLose
  <2> QED
    BY <2>2, <2>3, <2>4, <2>5, QueueStep
<1> QED
  BY <1>1, <1>2, Invariant, PTL DEF Spec, LogSpec, Log!Spec
=============================================================================
