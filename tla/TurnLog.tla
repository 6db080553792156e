------------------------------ MODULE TurnLog ------------------------------
(***************************************************************************)
(* What transcript.py promises: a log of whole lines.  A record is taken   *)
(* in once, and comes out as a line in that order.  Only where something   *)
(* broke (an interrupt inside a flush, a file that cannot be written) may  *)
(* records be missing, and one line be garbled.                            *)
(***************************************************************************)
EXTENDS Sequences, Integers

CONSTANTS
  Records,  \* what may be written
  Garbled   \* a line that no reader can parse

VARIABLES
  lines,   \* the whole lines of the file
  queue,   \* the records taken in and not yet in the file
  broken   \* something went wrong

Members(s) == {s[i] : i \in DOMAIN s}

First(s, n) == SubSeq(s, 1, n)
Rest(s, n)  == SubSeq(s, n + 1, Len(s))

\* The sequence s may lose any of its elements, and keeps the order of the others.
Thinned(s) ==
  {t \in UNION {[1 .. n -> Members(s)] : n \in 0 .. Len(s)} :
     \E f \in [DOMAIN t -> DOMAIN s] :
       /\ \A i \in DOMAIN t : t[i] = s[f[i]]
       /\ \A i, j \in DOMAIN t : i < j => f[i] < f[j]}

Init == lines = <<>> /\ queue = <<>> /\ broken = FALSE

Accept(r) ==
  /\ r \notin Members(lines) \cup Members(queue)
  /\ queue' = Append(queue, r)
  /\ UNCHANGED <<lines, broken>>

Publish ==
  /\ \E n \in 1 .. Len(queue) :
       /\ lines' = lines \o First(queue, n)
       /\ queue' = Rest(queue, n)
  /\ UNCHANGED broken

\* One step of a broken log: it drops records, and may write some of the others.
Lose ==
  /\ broken' = TRUE
  /\ \E kept \in Thinned(queue) : \E n \in 0 .. Len(kept), junk \in {<<>>, <<Garbled>>} :
       /\ lines' = lines \o junk \o First(kept, n)
       /\ queue' = Rest(kept, n)

Next == (\E r \in Records : Accept(r)) \/ Publish \/ Lose

vars == <<lines, queue, broken>>

Spec == Init /\ [][Next]_vars
=============================================================================
