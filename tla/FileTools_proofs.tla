-------------------------- MODULE FileTools_proofs --------------------------
(***************************************************************************)
(* What the file tools do to the disk, for every number of calls and of    *)
(* changes by other processes.                                             *)
(*                                                                         *)
(* The argument is about inodes.  A staging file is a fresh inode: no name *)
(* stands for it and no other temp is it (TempInv), so it is shown under a *)
(* name only when os.replace() puts it there, and then it is complete      *)
(* (TornInv).  What is written without a temp goes into the inode that was *)
(* probed, which the path itself has named (NamedInv).                     *)
(***************************************************************************)
EXTENDS FileTools, FiniteSetTheorems, WellFoundedInduction, TLAPS

Pieces == {"old", "other", "text", "torn", "rest", "rival"}
Whole  == Pieces \ {"torn"}

\* No temp was created yet; the temp of this call is there.
Before == {"probe1", "read1", "read", "probe", "stat", "guard", "copy"}
Staged == {"fill", "promote", "unwind"}
Labels == Before \cup Staged \cup {"idle", "inplace"}

NodesOK   == node \in [Names -> {None, Link, Fifo} \cup Inodes] /\ node["other"] \in Inodes
TempsOK   == temps \in [1 .. MaxCalls -> {None} \cup Inodes]
FilledOK  == content \in [Inodes -> Seq(Pieces)]
RawOK     == raw \in Seq(Whole)
ContentOK == FilledOK /\ RawOK
LabelsOK  == pc \in Labels /\ tool \in Tools /\ resolved \in Names
HandlesOK == first \in {None} \cup Inodes /\ probe \in {None} \cup Inodes
CountsOK  == /\ calls \in 0 .. MaxCalls /\ rivals \in 0 .. MaxRivals
             /\ pc # "idle" => calls > 0
SetsOK    == named \subseteq Inodes /\ multi \subseteq Inodes

TypeInv == NodesOK /\ TempsOK /\ ContentOK /\ LabelsOK /\ HandlesOK /\ CountsOK /\ SetsOK

(* The inodes in use are the first ones: each call and each rival takes at  *)
(* most one more.                                                           *)
Limit == 2 + rivals + (IF pc \in Before THEN calls - 1 ELSE calls)

AllocInv ==
  /\ \A n \in Names : node[n] <= Limit
  /\ \A k \in 1 .. MaxCalls : temps[k] <= Limit
  /\ first <= Limit /\ probe <= Limit

(* A temp is no file with a name and no other call's temp.                  *)
TempInv ==
  /\ \A k \in 1 .. MaxCalls : temps[k] # None =>
       /\ \A n \in Names : node[n] # temps[k]
       /\ \A j \in 1 .. MaxCalls : temps[j] = temps[k] => j = k
  /\ \A k \in 1 .. MaxCalls :
       k > calls \/ (k = calls /\ pc \in Before \cup {"inplace"}) => temps[k] = None
  /\ pc \in Staged => temps[calls] # None

Torn(i) == "torn" \in Members(content[i])

(* Where a name may show half a write.                                      *)
TornInv ==
  /\ \A n \in Names : IsFile(node[n]) /\ Torn(node[n]) => node[n] \in multi \/ ~dirWritable
  /\ node["target"] = node["other"] => node["target"] \in multi
  /\ pc = "promote" => ~Torn(temps[calls])
  /\ pc = "inplace" => IsFile(probe) /\ (probe \in multi \/ ~dirWritable)

(* What a call writes in place has been the path's own file.                *)
NamedInv ==
  /\ IsFile(node["target"]) => node["target"] \in named
  /\ IsFile(probe) => probe \in named
  /\ pc = "inplace" => IsFile(probe)
  /\ \A n \in Names : IsFile(node[n]) /\ node[n] \notin named =>
       "text" \notin Members(content[node[n]]) /\ "torn" \notin Members(content[node[n]])

VerdictInv == (pc # "idle" \/ result = "error") => ~promoted

(* A temp without its call was left by a kill, or a failed unlink.          *)
SweepInv ==
  ~left => \A k \in 1 .. MaxCalls : temps[k] # None => k = calls /\ pc \in Staged

FileInv == TypeInv /\ AllocInv /\ TempInv /\ TornInv /\ NamedInv /\ VerdictInv /\ SweepInv

-----------------------------------------------------------------------------
(* Sequences of pieces                                                      *)

LEMMA MembersOfAppend ==
  ASSUME NEW S, NEW s \in Seq(S), NEW x \in S
  PROVE  Members(Append(s, x)) = Members(s) \cup {x}
<1>1. /\ DOMAIN s = 1 .. Len(s) /\ DOMAIN Append(s, x) = 1 .. Len(s) + 1
      /\ Len(s) \in Nat
      /\ \A i \in 1 .. Len(s) : Append(s, x)[i] = s[i]
      /\ Append(s, x)[Len(s) + 1] = x
  OBVIOUS
<1>2. 1 .. Len(s) + 1 = (1 .. Len(s)) \cup {Len(s) + 1}
  BY <1>1
<1> HIDE DEF Members
<1>3. ASSUME NEW y \in Members(Append(s, x)) PROVE y \in Members(s) \cup {x}
  BY <1>1, <1>2 DEF Members
<1>4. ASSUME NEW y \in Members(s) \cup {x} PROVE y \in Members(Append(s, x))
  BY <1>1, <1>2 DEF Members
<1> QED
  BY <1>3, <1>4

LEMMA MembersTyped == \A S : \A s \in Seq(S) : Members(s) \subseteq S
  BY DEF Members

(* What a call reads and writes is whole.                                   *)
LEMMA WholeIsWhole ==
  /\ \A s \in Seq(Whole) : s \in Seq(Pieces) /\ "torn" \notin Members(s)
  /\ Members(<<>>) = {} /\ <<>> \in Seq(Whole)
<1>1. \A s \in Seq(Whole) : s \in Seq(Pieces)
  BY DEF Whole
<1>2. \A s \in Seq(Whole) : "torn" \notin Members(s)
  BY MembersTyped DEF Whole
<1>3. Members(<<>>) = {} /\ <<>> \in Seq(Whole)
  BY DEF Members
<1> QED
  BY <1>1, <1>2, <1>3

LEMMA PiecesAre ==
  /\ <<"torn">> \in Seq(Pieces) /\ <<"rival">> \in Seq(Pieces)
  /\ Members(<<"torn">>) = {"torn"} /\ Members(<<"rival">>) = {"rival"}
  /\ \A s \in Seq(Pieces) : Append(s, "rival") \in Seq(Pieces)
                             /\ Members(Append(s, "rival")) = Members(s) \cup {"rival"}
<1>1. "torn" \in Pieces /\ "rival" \in Pieces
  BY DEF Pieces
<1>2. \A s \in Seq(Pieces) : Append(s, "rival") \in Seq(Pieces)
                             /\ Members(Append(s, "rival")) = Members(s) \cup {"rival"}
  BY <1>1, MembersOfAppend
<1>3. \A x : Members(<<x>>) = {x}
  BY DEF Members
<1> QED
  BY <1>1, <1>2, <1>3

(* One inode is given other pieces.                                         *)
LEMMA FilledIs ==
  ASSUME FilledOK, NEW i, NEW s \in Seq(Pieces)
  PROVE  /\ [content EXCEPT ![i] = s] \in [Inodes -> Seq(Pieces)]
         /\ i \in Inodes => [content EXCEPT ![i] = s][i] = s
         /\ \A j \in Inodes : j # i => [content EXCEPT ![i] = s][j] = content[j]
  BY DEF FilledOK

LEMMA DataIsWhole == RawOK => Data \in Seq(Whole)
  BY DEF RawOK, Data, Whole, Pieces

LEMMA ReadsAreWhole == ASSUME FilledOK, NEW i \in Inodes PROVE ReadOf(i) \in Seq(Whole)
<1>1. content[i] \in Seq(Pieces)
  BY DEF FilledOK
<1>2. /\ DOMAIN content[i] = 1 .. Len(content[i]) /\ Len(content[i]) \in Nat
      /\ \A k \in DOMAIN content[i] : content[i][k] \in Pieces
  BY <1>1
<1>3. \A k \in DOMAIN content[i] :
        (IF content[i][k] = "torn" THEN "rest" ELSE content[i][k]) \in Whole
  BY <1>2 DEF Pieces, Whole
<1> QED
  BY <1>2, <1>3 DEF ReadOf

-----------------------------------------------------------------------------
(* Inodes                                                                   *)

LEMMA InodesAre ==
  /\ \A x : x \in Inodes <=> x \in Nat /\ 1 <= x /\ x <= 2 + MaxRivals + MaxCalls
  /\ 1 \in Inodes /\ 2 \in Inodes /\ None \notin Inodes /\ Link \notin Inodes /\ Fifo \notin Inodes
  /\ MaxRivals \in Nat /\ MaxCalls \in Nat
  BY FileToolsAssumption DEF FileToolsAssumption, Inodes, None, Link, Fifo

LEMMA FilesAre ==
  NodesOK => \A n \in Names : IsFile(node[n]) <=> node[n] \in Inodes
<1>1. \A x \in {None, Link, Fifo} \cup Inodes : IsFile(x) <=> x \in Inodes
  BY InodesAre DEF IsFile, None, Link, Fifo
<1> QED
  BY <1>1 DEF NodesOK

LEMMA NotFiles == ~IsFile(None) /\ ~IsFile(Link) /\ ~IsFile(Fifo)
  BY DEF IsFile, None, Link, Fifo

LEMMA NodesAre ==
  NodesOK => \A n \in Names : node[n] \in Int
  BY InodesAre DEF NodesOK, None, Link, Fifo

LEMMA LeastElement ==
  ASSUME NEW S, S \subseteq Nat, S # {}
  PROVE  \E i \in S : \A j \in S : i <= j
<1>1. PICK i \in S : \A j \in S : <<j, i>> \notin OpToRel(<, Nat)
  BY NatLessThanWellFounded, WFMin, Zenon
<1>2. \A j \in S : <<j, i>> \in Nat \X Nat /\ <<j, i>>[1] = j /\ <<j, i>>[2] = i
  OBVIOUS
<1>3. \A j \in S : ~ (j < i)
  BY <1>1, <1>2 DEF OpToRel
<1> QED
  BY <1>3

InUse == {node[n] : n \in Names} \cup Members(temps) \cup {first, probe}

Unused(i) ==
  /\ i \in Inodes /\ i <= Limit + 1
  /\ \A n \in Names : node[n] # i
  /\ \A k \in 1 .. MaxCalls : temps[k] # i
  /\ first # i /\ probe # i

(* Fresh is an inode that nothing refers to, and the next one at most.      *)
LEMMA FreshIs ==
  ASSUME TypeInv, AllocInv, Limit < 2 + MaxRivals + MaxCalls
  PROVE  Unused(Fresh)
<1> USE DEF TypeInv
<1>1. Limit \in Nat /\ Limit + 1 \in Inodes
  BY InodesAre DEF CountsOK, Limit, Before, LabelsOK
<1>2. \A x \in InUse : x <= Limit
  BY DEF AllocInv, InUse, Members, TempsOK
<1>3. Limit + 1 \notin InUse
  BY <1>1, <1>2
<1> DEFINE S == Inodes \ InUse
<1>4. S \subseteq Nat /\ Limit + 1 \in S
  BY <1>1, <1>3, InodesAre
<1>5. PICK f \in S : \A j \in S : f <= j
  BY <1>4, LeastElement
<1>6. f \in Inodes /\ f \notin InUse /\ f <= Limit + 1
  BY <1>4, <1>5
<1>7. \A j \in 1 .. f - 1 : j \in InUse
  <2> SUFFICES ASSUME NEW j \in 1 .. f - 1, j \notin InUse PROVE FALSE
    OBVIOUS
  <2>1. j \in Inodes /\ j < f
    BY <1>6, InodesAre
  <2> QED
    BY <1>5, <2>1, InodesAre
<1>8. Fresh \in Inodes /\ Fresh \notin InUse /\ \A j \in 1 .. Fresh - 1 : j \in InUse
  BY <1>6, <1>7 DEF Fresh, InUse
<1>9. Fresh <= Limit + 1
  <2> SUFFICES ASSUME ~(Fresh <= Limit + 1) PROVE FALSE
    OBVIOUS
  <2>1. Limit + 1 \in 1 .. Fresh - 1
    BY <1>1, <1>8, InodesAre
  <2> QED
    BY <1>3, <1>8, <2>1
<1>10. \A k \in 1 .. MaxCalls : temps[k] \in InUse
  BY DEF InUse, Members, TempsOK
<1> QED
  BY <1>8, <1>9, <1>10 DEF InUse, Names, Unused

(* There is one for every temp and for every file a rival saves.            *)
LEMMA StageTakesUnused == TypeInv /\ AllocInv /\ pc \in Before => Unused(Fresh)
<1> SUFFICES ASSUME TypeInv, AllocInv, pc \in Before PROVE Limit < 2 + MaxRivals + MaxCalls
  BY FreshIs
<1>1. pc # "idle"
  BY DEF Before
<1> QED
  BY <1>1, InodesAre DEF TypeInv, CountsOK, Limit

LEMMA RivalTakesUnused == TypeInv /\ AllocInv /\ rivals < MaxRivals => Unused(Fresh)
<1> SUFFICES ASSUME TypeInv, AllocInv, rivals < MaxRivals PROVE Limit < 2 + MaxRivals + MaxCalls
  BY FreshIs
<1> QED
  BY InodesAre DEF TypeInv, CountsOK, Limit

(* A name is followed to a name.                                            *)
LEMMA FollowedIs == Followed("target") = node["target"] \/ Followed("target") = node["other"]
  BY DEF Followed

(* An inode with two names has both.                                        *)
LEMMA LinksAre ==
  ASSUME NEW i, Links(i) > 1
  PROVE  node["target"] = i /\ node["other"] = i
<1> DEFINE N == {n \in Names : node[n] = i}
<1>1. ASSUME node["target"] # i \/ node["other"] # i PROVE Cardinality(N) \in {0, 1}
  <2>1. N = {} \/ N = {"target"} \/ N = {"other"}
    BY <1>1 DEF Names
  <2> QED
    BY <2>1, FS_EmptySet, FS_Singleton
<1> QED
  BY <1>1 DEF Links

Rises ==
  /\ Limit \in Nat /\ Limit' \in Nat /\ Limit <= Limit'
  /\ pc \in Before /\ pc' \in Staged => Limit + 1 <= Limit'
  /\ rivals' # rivals => Limit + 1 <= Limit'

Below ==
  /\ \A n \in Names : node[n] <= Limit'
  /\ \A k \in 1 .. MaxCalls : temps[k] <= Limit'
  /\ \A x \in {first, probe, None, Link, Fifo} : x <= Limit'
  /\ rivals' # rivals \/ (pc \in Before /\ pc' \in Staged) =>
       \A i : Unused(i) => i <= Limit'

LEMMA BelowIs == TypeInv /\ AllocInv /\ Rises => Below
<1> SUFFICES ASSUME TypeInv, AllocInv, Rises PROVE Below
  OBVIOUS
<1>1. \A x \in Int : x <= Limit => x <= Limit'
  BY DEF Rises
<1>2. \A x \in {None, Link, Fifo} : x \in Int /\ x <= Limit
  BY DEF Rises, None, Link, Fifo
<1>3. \A x \in Inodes : x \in Int
  BY InodesAre
<1>4. /\ \A n \in Names : node[n] \in Int
      /\ \A k \in 1 .. MaxCalls : temps[k] \in Int
      /\ first \in Int /\ probe \in Int
  BY <1>2, <1>3 DEF TypeInv, NodesOK, TempsOK, HandlesOK
<1>5. /\ \A n \in Names : node[n] <= Limit'
      /\ \A k \in 1 .. MaxCalls : temps[k] <= Limit'
      /\ first <= Limit' /\ probe <= Limit'
  BY <1>1, <1>4 DEF AllocInv
<1>6. None <= Limit' /\ Link <= Limit' /\ Fifo <= Limit'
  BY <1>1, <1>2
<1>7. ASSUME rivals' # rivals \/ (pc \in Before /\ pc' \in Staged), NEW i, Unused(i)
      PROVE  i <= Limit'
  <2>1. i \in Int /\ i <= Limit + 1 /\ Limit + 1 <= Limit'
    BY <1>3, <1>7 DEF Unused, Rises
  <2> QED
    BY <2>1 DEF Rises
<1> QED
  BY <1>5, <1>6, <1>7 DEF Below

(* What the steps that write leave as it was.                               *)
LEMMA StageLeaves ==
  ASSUME TypeInv, AllocInv, pc \in {"stat", "guard", "copy"}, Stage
  PROVE  /\ UNCHANGED <<node, history>> /\ pc' = "fill"
         /\ \A n \in Names : IsFile(node[n]) => content'[node[n]] = content[node[n]]
<1>1. Unused(Fresh)
  BY StageTakesUnused DEF Before
<1>2. content' = [content EXCEPT ![Fresh] = <<"torn">>] /\ UNCHANGED <<node, history>> /\ pc' = "fill"
  BY DEF Stage
<1>3. \A n \in Names : IsFile(node[n]) => content'[node[n]] = content[node[n]]
  BY <1>1, <1>2, FilesAre, FilledIs, PiecesAre DEF Unused, TypeInv, ContentOK
<1> QED
  BY <1>2, <1>3

LEMMA TruncateLeaves ==
  ASSUME TypeInv, Truncate
  PROVE  /\ UNCHANGED <<node, history>> /\ pc' = "inplace"
         /\ \A n \in Names :
              IsFile(node[n]) /\ node[n] # probe => content'[node[n]] = content[node[n]]
  BY FilesAre, FilledIs, PiecesAre DEF Truncate, TypeInv, ContentOK

LEMMA GrowthLeaves ==
  ASSUME TypeInv, IsFile(Followed("target")),
         content' = [content EXCEPT ![Followed("target")] =
                       Append(content[Followed("target")], "rival")]
  PROVE  \A i \in Inodes : \A x \in {"torn", "text"} :
           x \in Members(content'[i]) => x \in Members(content[i])
<1> USE DEF TypeInv, ContentOK
<1> DEFINE grown == Append(content[Followed("target")], "rival")
<1>1. Followed("target") \in Inodes
  BY FollowedIs, FilesAre DEF Names
<1>2. /\ grown \in Seq(Pieces)
      /\ Members(grown) = Members(content[Followed("target")]) \cup {"rival"}
  BY <1>1, PiecesAre DEF FilledOK
<1>3. content' = [content EXCEPT ![Followed("target")] = grown]
  OBVIOUS
<1> HIDE DEF grown
<1>4. \A i \in Inodes : Members(content'[i]) \subseteq Members(content[i]) \cup {"rival"}
  BY <1>1, <1>2, <1>3, FilledIs
<1> QED
  BY <1>4

LEMMA SaveLeaves ==
  ASSUME TypeInv, Unused(Fresh),
         node' = [node EXCEPT !["target"] = Fresh],
         content' = [content EXCEPT ![Fresh] = <<"rival">>]
  PROVE  /\ content'[Fresh] = <<"rival">>
         /\ \A i \in Inodes : i # Fresh => content'[i] = content[i]
         /\ node'["target"] = Fresh /\ node'["other"] = node["other"] /\ node["other"] # Fresh
  BY PiecesAre, FilledIs DEF TypeInv, ContentOK, Unused, NodesOK, Names

(* The temp of a call is a file without a name.                             *)
LEMMA TempIsApart ==
  ASSUME TypeInv, TempInv, pc \in Staged
  PROVE  Temp \in Inodes /\ \A n \in Names : node[n] # Temp
<1>1. calls \in 1 .. MaxCalls
  BY DEF TypeInv, CountsOK, Staged
<1> QED
  BY <1>1 DEF TempInv, Temp, TypeInv, TempsOK

-----------------------------------------------------------------------------
(* The steps                                                                *)

(* The labels of a call.                                                    *)
LEMMA LabelsStep ==
  ASSUME LabelsOK, [Next]_vars
  PROVE  LabelsOK'
<1> USE DEF LabelsOK, Labels, Before, Staged, Names, Tools, Ends, Refuses, Keeps, disk,
       call, history
<1>1. ASSUME NEW t \in Tools, Start(t) PROVE LabelsOK'
  BY <1>1 DEF Start
<1>2. CASE Probe1 \/ Read1 \/ Read
  BY <1>2 DEF Probe1, Read1, Read
<1>3. CASE Probe \/ Stat
  BY <1>3 DEF Probe, Stat, Truncate, Stage
<1>4. CASE WriteInPlace \/ Fill \/ Promote \/ Unwinds
  BY <1>4 DEF WriteInPlace, Fill, Promote, Unwinds, Unwind
<1>5. CASE Guard \/ Copy
  BY <1>5 DEF Guard, Copy, Stage
<1>6. CASE Interrupt \/ Kill
  BY <1>6 DEF Interrupt, Kill, Unwind
<1>7. ASSUME NEW complete \in BOOLEAN, Sweep(complete) PROVE LabelsOK'
  BY <1>7 DEF Sweep
<1>8. CASE Rival
  BY <1>8 DEF Rival
<1>9. CASE UNCHANGED vars
  BY <1>9 DEF vars
<1> QED
  BY <1>1, <1>2, <1>3, <1>4, <1>5, <1>6, <1>7, <1>8, <1>9 DEF Next, CallStep, Terminated

(* The counters.                                                            *)
LEMMA CountsStep ==
  ASSUME LabelsOK, CountsOK, [Next]_vars
  PROVE  CountsOK'
<1> USE InodesAre DEF CountsOK, Ends, Refuses, Keeps, disk, call, history
<1>1. ASSUME NEW t \in Tools, Start(t) PROVE CountsOK'
  BY <1>1 DEF Start
<1>2. CASE Probe1 \/ Read1 \/ Read
  BY <1>2 DEF Probe1, Read1, Read
<1>3. CASE Probe \/ Stat
  BY <1>3 DEF Probe, Stat, Truncate, Stage
<1>4. CASE WriteInPlace \/ Fill \/ Promote \/ Unwinds
  BY <1>4 DEF WriteInPlace, Fill, Promote, Unwinds, Unwind
<1>5. CASE Guard \/ Copy
  BY <1>5 DEF Guard, Copy, Stage
<1>6. CASE Interrupt \/ Kill
  BY <1>6 DEF Interrupt, Kill, Unwind
<1>7. ASSUME NEW complete \in BOOLEAN, Sweep(complete) PROVE CountsOK'
  BY <1>7 DEF Sweep
<1>8. CASE Rival
  BY <1>8 DEF Rival
<1>9. CASE UNCHANGED vars
  BY <1>9 DEF vars
<1> QED
  BY <1>1, <1>2, <1>3, <1>4, <1>5, <1>6, <1>7, <1>8, <1>9 DEF Next, CallStep, Terminated

(* What a call holds open.                                                  *)
LEMMA HandlesStep ==
  ASSUME NodesOK, HandlesOK, [Next]_vars
  PROVE  HandlesOK'
<1> USE InodesAre, FilesAre DEF HandlesOK, Names, Ends, Refuses, Keeps, disk, call,
       history
<1>1. ASSUME NEW t \in Tools, Start(t) PROVE HandlesOK'
  BY <1>1 DEF Start
<1>2. CASE Probe1
  BY <1>2 DEF Probe1
<1>3. CASE Read1
  BY <1>3 DEF Read1
<1>4. CASE Read
  BY <1>4 DEF Read
<1>5. CASE Probe
  BY <1>5 DEF Probe
<1>6. CASE Stat
  BY <1>6 DEF Stat, Truncate, Stage
<1>7. CASE WriteInPlace \/ Fill \/ Promote \/ Unwinds
  BY <1>7 DEF WriteInPlace, Fill, Promote, Unwinds, Unwind
<1>8. CASE Guard \/ Copy
  BY <1>8 DEF Guard, Copy, Stage
<1>9. CASE Interrupt \/ Kill
  BY <1>9 DEF Interrupt, Kill, Unwind
<1>10. ASSUME NEW complete \in BOOLEAN, Sweep(complete) PROVE HandlesOK'
  BY <1>10 DEF Sweep
<1>11. CASE Rival
  BY <1>11 DEF Rival
<1>12. CASE UNCHANGED vars
  BY <1>12 DEF vars
<1> QED
  BY <1>1, <1>2, <1>3, <1>4, <1>5, <1>6, <1>7, <1>8, <1>9, <1>10, <1>11, <1>12 DEF Next,
     CallStep, Terminated

(* What a name stands for.                                                  *)
LEMMA NodesStep ==
  ASSUME TypeInv, AllocInv, TempInv, [Next]_vars
  PROVE  NodesOK'
<1> USE InodesAre DEF TypeInv, NodesOK, LabelsOK, CountsOK, Names, IsFile, Ends,
       Refuses, Keeps, disk, call, history
<1>1. ASSUME NEW t \in Tools, Start(t) PROVE NodesOK'
  BY <1>1 DEF Start
<1>2. CASE Probe1 \/ Read1 \/ Read
  BY <1>2 DEF Probe1, Read1, Read
<1>3. CASE Probe \/ Stat
  BY <1>3 DEF Probe, Stat, Truncate, Stage
<1>4. CASE WriteInPlace \/ Fill \/ Unwinds
  BY <1>4 DEF WriteInPlace, Fill, Unwinds, Unwind
<1>5. CASE Promote
  BY <1>5 DEF Promote, Temp, TempsOK, TempInv, Staged
<1>6. CASE Guard \/ Copy
  BY <1>6 DEF Guard, Copy, Stage
<1>7. CASE Interrupt \/ Kill
  BY <1>7 DEF Interrupt, Kill, Unwind
<1>8. ASSUME NEW complete \in BOOLEAN, Sweep(complete) PROVE NodesOK'
  BY <1>8 DEF Sweep
<1>9. CASE Rival
  BY <1>9, RivalTakesUnused, FollowedIs DEF Rival, Unused
<1>10. CASE UNCHANGED vars
  BY <1>10 DEF vars
<1> QED
  BY <1>1, <1>2, <1>3, <1>4, <1>5, <1>6, <1>7, <1>8, <1>9, <1>10 DEF Next, CallStep,
     Terminated

(* The temps.                                                               *)
LEMMA TempsStep ==
  ASSUME TypeInv, AllocInv, [Next]_vars
  PROVE  TempsOK'
<1> USE InodesAre DEF TypeInv, TempsOK, Ends, Refuses, Keeps, disk, call, history
<1>1. ASSUME NEW t \in Tools, Start(t) PROVE TempsOK'
  BY <1>1 DEF Start
<1>2. CASE Probe1 \/ Read1 \/ Read
  BY <1>2 DEF Probe1, Read1, Read
<1>3. CASE Probe
  BY <1>3 DEF Probe
<1>4. CASE Stat
  BY <1>4, StageTakesUnused DEF Stat, Truncate, Stage, Unused, Before
<1>5. CASE WriteInPlace \/ Fill \/ Promote \/ Unwinds
  BY <1>5 DEF WriteInPlace, Fill, Promote, Unwinds, Temp, Unwind
<1>6. CASE Guard
  BY <1>6, StageTakesUnused DEF Guard, Stage, Unused, Before
<1>7. CASE Copy
  BY <1>7, StageTakesUnused DEF Copy, Stage, Unused, Before
<1>8. CASE Interrupt \/ Kill
  BY <1>8 DEF Interrupt, Kill, Unwind
<1>9. ASSUME NEW complete \in BOOLEAN, Sweep(complete) PROVE TempsOK'
  BY <1>9 DEF Sweep
<1>10. CASE Rival
  BY <1>10 DEF Rival
<1>11. CASE UNCHANGED vars
  BY <1>11 DEF vars
<1> QED
  BY <1>1, <1>2, <1>3, <1>4, <1>5, <1>6, <1>7, <1>8, <1>9, <1>10, <1>11 DEF Next,
     CallStep, Terminated

(* The history variables.                                                   *)
LEMMA SetsStep ==
  ASSUME TypeInv, AllocInv, TempInv, [Next]_vars
  PROVE  SetsOK'
<1> USE InodesAre DEF TypeInv, SetsOK, NodesOK, Ends, Refuses, Keeps, disk, call,
       history
<1>1. ASSUME NEW t \in Tools, Start(t) PROVE SetsOK'
  BY <1>1 DEF Start
<1>2. CASE Probe1 \/ Read1 \/ Read
  BY <1>2 DEF Probe1, Read1, Read
<1>3. CASE Probe \/ Stat
  BY <1>3 DEF Probe, Stat, Truncate, Stage
<1>4. CASE WriteInPlace \/ Fill \/ Unwinds
  BY <1>4 DEF WriteInPlace, Fill, Unwinds, Unwind
<1>5. CASE Promote
  BY <1>5 DEF Promote, Temp, TempsOK, TempInv, Staged, CountsOK
<1>6. CASE Guard \/ Copy
  BY <1>6 DEF Guard, Copy, Stage
<1>7. CASE Interrupt \/ Kill
  BY <1>7 DEF Interrupt, Kill, Unwind
<1>8. ASSUME NEW complete \in BOOLEAN, Sweep(complete) PROVE SetsOK'
  BY <1>8 DEF Sweep
<1>9. CASE Rival
  BY <1>9, RivalTakesUnused, FollowedIs DEF Rival, Unused
<1>10. CASE UNCHANGED vars
  BY <1>10 DEF vars
<1> QED
  BY <1>1, <1>2, <1>3, <1>4, <1>5, <1>6, <1>7, <1>8, <1>9, <1>10 DEF Next, CallStep,
     Terminated

(* What the files hold.                                                     *)
LEMMA FilledStep ==
  ASSUME TypeInv, [Next]_vars
  PROVE  FilledOK'
<1> USE DEF TypeInv, ContentOK, FilledOK, Ends, Refuses, Keeps, disk, call, history
<1>1. ASSUME NEW t \in Tools, Start(t) PROVE FilledOK'
  BY <1>1 DEF Start
<1>2. CASE Probe1 \/ Read1 \/ Read
  BY <1>2 DEF Probe1, Read1, Read
<1>3. CASE Probe
  BY <1>3 DEF Probe
<1>4. CASE Stat
  <2>1. \/ content' = content
        \/ content' = [content EXCEPT ![probe] = <<"torn">>]
        \/ content' = [content EXCEPT ![Fresh] = <<"torn">>]
    BY <1>4 DEF Stat, Stage, Truncate
  <2> QED
    BY <2>1, PiecesAre, FilledIs
<1>5. CASE Promote \/ Unwinds
  BY <1>5 DEF Promote, Unwinds, Unwind
<1>6. CASE WriteInPlace
  <2>1. content' = content \/ content' = [content EXCEPT ![probe] = Data]
    BY <1>6 DEF WriteInPlace
  <2> QED
    BY <2>1, DataIsWhole, WholeIsWhole, FilledIs
<1>7. CASE Fill
  <2>1. content' = content \/ content' = [content EXCEPT ![Temp] = Data]
    BY <1>7 DEF Fill
  <2> QED
    BY <2>1, DataIsWhole, WholeIsWhole, FilledIs
<1>8. CASE Guard
  <2>1. content' = content \/ content' = [content EXCEPT ![Fresh] = <<"torn">>]
    BY <1>8 DEF Guard, Stage
  <2> QED
    BY <2>1, PiecesAre, FilledIs
<1>9. CASE Copy
  <2>1. content' = content \/ content' = [content EXCEPT ![Fresh] = <<"torn">>]
    BY <1>9 DEF Copy, Stage
  <2> QED
    BY <2>1, PiecesAre, FilledIs
<1>10. CASE Interrupt \/ Kill
  BY <1>10 DEF Interrupt, Kill, Unwind
<1>11. ASSUME NEW complete \in BOOLEAN, Sweep(complete) PROVE FilledOK'
  BY <1>11 DEF Sweep
<1>12. CASE Rival
  <2>1. CASE /\ IsFile(Followed("target"))
             /\ content' = [content EXCEPT ![Followed("target")] =
                              Append(content[Followed("target")], "rival")]
             /\ UNCHANGED <<node, named, multi>>
    <3> DEFINE grown == Append(content[Followed("target")], "rival")
    <3>1. Followed("target") \in Inodes
      BY <2>1, FollowedIs, FilesAre DEF Names
    <3>2. grown \in Seq(Pieces)
      BY <3>1, PiecesAre
    <3>3. content' = [content EXCEPT ![Followed("target")] = grown]
      BY <2>1
    <3> QED
      BY <3>2, <3>3, FilledIs
  <2>2. CASE /\ node' = [node EXCEPT !["target"] = Fresh]
             /\ content' = [content EXCEPT ![Fresh] = <<"rival">>]
             /\ named' = named \cup {Fresh}
             /\ multi' = multi \ {Fresh}
    BY <2>2, PiecesAre, FilledIs
  <2>3. CASE /\ \E x \in {None, Link, Fifo} : node' = [node EXCEPT !["target"] = x]
             /\ UNCHANGED <<content, named, multi>>
    BY <2>3
  <2>4. CASE \E i \in {node[n] : n \in Names} \cap Inodes :
               /\ node' = [n \in Names |-> i]
               /\ named' = named \cup {i}
               /\ multi' = multi \cup {i}
               /\ UNCHANGED content
    BY <2>4
  <2> QED
    BY <1>12, <2>1, <2>2, <2>3, <2>4, Zenon DEF Rival
<1>13. CASE UNCHANGED vars
  BY <1>13 DEF vars
<1> QED
  BY <1>1, <1>2, <1>3, <1>4, <1>5, <1>6, <1>7, <1>8, <1>9, <1>10, <1>11, <1>12, <1>13
     DEF Next, CallStep, Terminated

(* What a call has read is whole, whatever it reads.                        *)
LEMMA RawStep ==
  ASSUME TypeInv, [Next]_vars
  PROVE  RawOK'
<1> USE WholeIsWhole DEF TypeInv, ContentOK, RawOK, Ends, Refuses, Keeps, disk, call,
       history
<1>1. ASSUME NEW t \in Tools, Start(t) PROVE RawOK'
  BY <1>1 DEF Start
<1>2. CASE Probe1
  BY <1>2 DEF Probe1
<1>3. CASE Read1
  <2>1. raw' = raw \/ raw' = <<>> \/ \E i \in Inodes : raw' = ReadOf(i)
    BY <1>3, FilesAre, FollowedIs DEF Read1, Stage, Names, LabelsOK
  <2> QED
    BY <2>1, WholeIsWhole, ReadsAreWhole
<1>4. CASE Read
  <2>1. raw' = raw \/ raw' = <<>> \/ \E i \in Inodes : raw' = ReadOf(i)
    BY <1>4, FilesAre, FollowedIs DEF Read, Stage, Names, LabelsOK
  <2> QED
    BY <2>1, WholeIsWhole, ReadsAreWhole
<1>5. CASE Probe \/ Stat
  BY <1>5 DEF Probe, Stat, Truncate, Stage
<1>6. CASE WriteInPlace \/ Fill \/ Promote \/ Unwinds
  BY <1>6 DEF WriteInPlace, Fill, Promote, Unwinds, Unwind
<1>7. CASE Guard
  BY <1>7 DEF Guard, Stage
<1>8. CASE Copy
  <2>1. raw' = raw \/ raw' = <<>> \/ \E i \in Inodes : raw' = ReadOf(i)
    BY <1>8, FilesAre, FollowedIs DEF Copy, Stage, Names, LabelsOK
  <2> QED
    BY <2>1, WholeIsWhole, ReadsAreWhole
<1>9. CASE Interrupt \/ Kill
  BY <1>9 DEF Interrupt, Kill, Unwind
<1>10. ASSUME NEW complete \in BOOLEAN, Sweep(complete) PROVE RawOK'
  BY <1>10 DEF Sweep
<1>11. CASE Rival
  BY <1>11 DEF Rival
<1>12. CASE UNCHANGED vars
  BY <1>12 DEF vars
<1> QED
  BY <1>1, <1>2, <1>3, <1>4, <1>5, <1>6, <1>7, <1>8, <1>9, <1>10, <1>11, <1>12 DEF Next,
     CallStep, Terminated

(* The number of inodes in use rises with every temp and every saved file.  *)
LEMMA LimitStep ==
  ASSUME LabelsOK, CountsOK, [Next]_vars
  PROVE  Rises
<1> USE InodesAre DEF Rises, Limit, Before, Staged, Labels, CountsOK, LabelsOK, Ends,
       Refuses, Keeps, disk, call, history
<1>1. ASSUME NEW t \in Tools, Start(t) PROVE Rises
  BY <1>1 DEF Start
<1>2. CASE Probe1 \/ Read1 \/ Read
  BY <1>2 DEF Probe1, Read1, Read
<1>3. CASE Probe
  BY <1>3 DEF Probe
<1>4. CASE Stat
  BY <1>4 DEF Stat, Truncate, Stage
<1>5. CASE WriteInPlace \/ Fill \/ Promote \/ Unwinds
  BY <1>5 DEF WriteInPlace, Fill, Promote, Unwinds, Temp, Unwind
<1>6. CASE Guard
  BY <1>6 DEF Guard, Stage
<1>7. CASE Copy
  BY <1>7 DEF Copy, Stage
<1>8. CASE Interrupt \/ Kill
  BY <1>8 DEF Interrupt, Kill, Unwind
<1>9. ASSUME NEW complete \in BOOLEAN, Sweep(complete) PROVE Rises
  BY <1>9 DEF Sweep
<1>10. CASE Rival
  BY <1>10 DEF Rival
<1>11. CASE UNCHANGED vars
  BY <1>11 DEF vars
<1> QED
  BY <1>1, <1>2, <1>3, <1>4, <1>5, <1>6, <1>7, <1>8, <1>9, <1>10, <1>11 DEF Next,
     CallStep, Terminated

(* The inodes in use stay the first ones.                                   *)
LEMMA AllocStep ==
  ASSUME TypeInv, AllocInv, Rises, [Next]_vars
  PROVE  AllocInv'
<1> USE BelowIs DEF AllocInv, Below, TypeInv, TempsOK, NodesOK, Names, Before, Staged,
       Ends, Refuses, Keeps, disk, call, history
<1>1. ASSUME NEW t \in Tools, Start(t) PROVE AllocInv'
  BY <1>1 DEF Start
<1>2. CASE Probe1 \/ Read1 \/ Read
  BY <1>2 DEF Probe1, Read1, Read
<1>3. CASE Probe
  BY <1>3 DEF Probe
<1>4. CASE Stat
  BY <1>4, StageTakesUnused DEF Stat, Truncate, Stage
<1>5. CASE WriteInPlace \/ Fill \/ Unwinds
  BY <1>5 DEF WriteInPlace, Fill, Unwinds, Unwind
<1>6. CASE Promote
  <2>1. calls \in 1 .. MaxCalls
    BY <1>6 DEF Promote, CountsOK
  <2> QED
    BY <1>6, <2>1 DEF Promote, Temp, NodesOK
<1>7. CASE Guard
  BY <1>7, StageTakesUnused DEF Guard, Stage
<1>8. CASE Copy
  BY <1>8, StageTakesUnused DEF Copy, Stage
<1>9. CASE Interrupt \/ Kill
  BY <1>9 DEF Interrupt, Kill, Unwind
<1>10. ASSUME NEW complete \in BOOLEAN, Sweep(complete) PROVE AllocInv'
  BY <1>10 DEF Sweep
<1>11. CASE Rival
  <2>1. Fresh <= Limit' /\ UNCHANGED <<temps, first, probe>>
    <3>1. rivals < MaxRivals /\ rivals' = rivals + 1 /\ UNCHANGED <<temps, first, probe>>
      BY <1>11 DEF Rival
    <3>2. rivals' # rivals
      BY <3>1 DEF CountsOK
    <3> QED
      BY <3>1, <3>2, RivalTakesUnused
  <2>2. CASE /\ IsFile(Followed("target"))
             /\ content' = [content EXCEPT ![Followed("target")] =
                              Append(content[Followed("target")], "rival")]
             /\ UNCHANGED <<node, named, multi>>
    BY <2>2, <2>1
  <2>3. CASE /\ node' = [node EXCEPT !["target"] = Fresh]
             /\ content' = [content EXCEPT ![Fresh] = <<"rival">>]
             /\ named' = named \cup {Fresh}
             /\ multi' = multi \ {Fresh}
    BY <2>3, <2>1
  <2>4. CASE /\ \E x \in {None, Link, Fifo} : node' = [node EXCEPT !["target"] = x]
             /\ UNCHANGED <<content, named, multi>>
    BY <2>4, <2>1
  <2>5. CASE \E i \in {node[n] : n \in Names} \cap Inodes :
               /\ node' = [n \in Names |-> i]
               /\ named' = named \cup {i}
               /\ multi' = multi \cup {i}
               /\ UNCHANGED content
    BY <2>5, <2>1
  <2> QED
    BY <1>11, <2>2, <2>3, <2>4, <2>5, Zenon DEF Rival
<1>12. CASE UNCHANGED vars
  BY <1>12 DEF vars
<1> QED
  BY <1>1, <1>2, <1>3, <1>4, <1>5, <1>6, <1>7, <1>8, <1>9, <1>10, <1>11, <1>12 DEF Next,
     CallStep, Terminated

(* A temp stays apart until it is promoted.                                 *)
LEMMA TempStep ==
  ASSUME TypeInv, AllocInv, TempInv, [Next]_vars
  PROVE  TempInv'
<1> USE InodesAre DEF TempInv, Before, Staged, Labels, TypeInv, CountsOK, LabelsOK,
       TempsOK, NodesOK, Ends, Refuses, Keeps, disk, call, history
<1>1. ASSUME NEW t \in Tools, Start(t) PROVE TempInv'
  BY <1>1 DEF Start
<1>2. CASE Probe1 \/ Read1 \/ Read
  BY <1>2 DEF Probe1, Read1, Read
<1>3. CASE Probe
  BY <1>3 DEF Probe
<1>4. CASE Stat
  BY <1>4, StageTakesUnused DEF Stat, Truncate, Stage, Unused
<1>5. CASE WriteInPlace
  BY <1>5 DEF WriteInPlace
<1>6. CASE Fill
  BY <1>6 DEF Fill
<1>7. CASE Promote
  BY <1>7 DEF Promote, Temp
<1>8. CASE Unwinds
  BY <1>8 DEF Unwinds, Unwind
<1>9. CASE Guard
  BY <1>9, StageTakesUnused DEF Guard, Stage, Unused
<1>10. CASE Copy
  BY <1>10, StageTakesUnused DEF Copy, Stage, Unused
<1>11. CASE Interrupt
  BY <1>11 DEF Interrupt, Unwind
<1>12. CASE Kill
  BY <1>12 DEF Kill
<1>13. ASSUME NEW complete \in BOOLEAN, Sweep(complete) PROVE TempInv'
  BY <1>13 DEF Sweep
<1>14. CASE Rival
  BY <1>14, RivalTakesUnused, FollowedIs DEF Rival, Unused
<1>15. CASE UNCHANGED vars
  BY <1>15 DEF vars
<1> QED
  BY <1>1, <1>2, <1>3, <1>4, <1>5, <1>6, <1>7, <1>8, <1>9, <1>10, <1>11, <1>12, <1>13,
     <1>14, <1>15 DEF Next, CallStep, Terminated

(* Half a write is shown under no name, but where the code says so.         *)
LEMMA TornStep ==
  ASSUME TypeInv, AllocInv, TempInv, TornInv, [Next]_vars
  PROVE  TornInv'
<1> USE FilesAre DEF TornInv, Torn, TypeInv, LabelsOK, ContentOK, Ends, Refuses, Keeps,
       disk, call, history
<1>1. ASSUME NEW t \in Tools, Start(t) PROVE TornInv'
  BY <1>1 DEF Start
<1>2. CASE Probe1 \/ Read1 \/ Read
  BY <1>2 DEF Probe1, Read1, Read
<1>3. CASE Probe
  BY <1>3 DEF Probe
<1>4. CASE Stat
  <2>1. CASE Refuses
    BY <1>4, <2>1 DEF Stat
  <2>2. CASE Truncate /\ IsFile(probe) /\ (Links(probe) > 1 \/ ~dirWritable)
             /\ UNCHANGED <<call, result>>
    BY <1>4, <2>2, TruncateLeaves, LinksAre DEF Stat
  <2>3. CASE Stage /\ UNCHANGED <<first, probe>>
    BY <1>4, <2>3, StageLeaves DEF Stat
  <2> QED
    BY <1>4, <2>1, <2>2, <2>3 DEF Stat
<1>5. CASE WriteInPlace
  <2>1. CASE content' = content
    BY <1>5, <2>1 DEF WriteInPlace
  <2>2. CASE content' = [content EXCEPT ![probe] = Data]
    <3>1. \A n \in Names : IsFile(node[n]) /\ node[n] # probe => content'[node[n]] = content[node[n]]
      BY <2>2, FilesAre, FilledIs, DataIsWhole, WholeIsWhole
    <3>2. content'[probe] = Data /\ "torn" \notin Members(Data)
      BY <1>5, <2>2, FilledIs, DataIsWhole, WholeIsWhole DEF WriteInPlace, HandlesOK,
         IsFile, None
    <3> QED
      BY <1>5, <3>1, <3>2 DEF WriteInPlace
  <2> QED
    BY <1>5, <2>1, <2>2 DEF WriteInPlace
<1>6. CASE Fill
  <2>1. CASE content' = content /\ pc' = "unwind"
    BY <1>6, <2>1 DEF Fill
  <2>2. CASE content' = [content EXCEPT ![Temp] = Data] /\ pc' = "promote"
    <3>1. Temp \in Inodes /\ \A n \in Names : node[n] # Temp
      BY <1>6, TempIsApart DEF Fill, Staged
    <3>2. \A n \in Names : IsFile(node[n]) => content'[node[n]] = content[node[n]]
      BY <2>2, <3>1, FilesAre, FilledIs, DataIsWhole, WholeIsWhole
    <3>3. content'[Temp] = Data /\ "torn" \notin Members(Data)
      BY <2>2, <3>1, FilledIs, DataIsWhole, WholeIsWhole
    <3> QED
      BY <1>6, <2>2, <3>2, <3>3 DEF Fill, Temp
  <2> QED
    BY <1>6, <2>1, <2>2 DEF Fill
<1>7. CASE Promote
  <2>1. CASE pc' = "unwind" /\ UNCHANGED <<node, temps, named, promoted, call, result>>
    BY <1>7, <2>1 DEF Promote
  <2>2. CASE /\ node' = [node EXCEPT !["target"] = Temp]
             /\ named' = named \cup {Temp} /\ Ends("ok")
    <3>1. Temp \in Inodes /\ \A n \in Names : node[n] # Temp
      BY <1>7, TempIsApart DEF Promote, Staged
    <3>2. node'["target"] = Temp /\ node'["other"] = node["other"]
      BY <2>2 DEF NodesOK, Names
    <3>3. ~Torn(Temp)
      BY <1>7 DEF Promote, Temp
    <3> QED
      BY <1>7, <2>2, <3>1, <3>2, <3>3 DEF Promote, Names
  <2> QED
    BY <1>7, <2>1, <2>2 DEF Promote
<1>8. CASE Unwinds
  BY <1>8 DEF Unwinds, Unwind
<1>9. CASE Guard
  <2>1. CASE Refuses
    BY <1>9, <2>1 DEF Guard
  <2>2. CASE pc' = "copy" /\ Keeps /\ UNCHANGED <<call, result>>
    BY <1>9, <2>2 DEF Guard
  <2>3. CASE Stage /\ UNCHANGED <<first, probe>>
    BY <1>9, <2>3, StageLeaves DEF Guard
  <2> QED
    BY <1>9, <2>1, <2>2, <2>3 DEF Guard
<1>10. CASE Copy
  <2>1. CASE Refuses
    BY <1>10, <2>1 DEF Copy
  <2>2. CASE Stage /\ UNCHANGED <<first, probe>>
    BY <1>10, <2>2, StageLeaves DEF Copy
  <2> QED
    BY <1>10, <2>1, <2>2 DEF Copy
<1>11. CASE Interrupt
  BY <1>11 DEF Interrupt, Unwind
<1>12. CASE Kill
  BY <1>12 DEF Kill
<1>13. ASSUME NEW complete \in BOOLEAN, Sweep(complete) PROVE TornInv'
  BY <1>13 DEF Sweep
<1>14. CASE Rival
  <2>1. UNCHANGED <<temps, pc, calls, probe, dirWritable>> /\ Unused(Fresh)
    BY <1>14, RivalTakesUnused DEF Rival
  <2>2. CASE /\ IsFile(Followed("target"))
             /\ content' = [content EXCEPT ![Followed("target")] =
                              Append(content[Followed("target")], "rival")]
             /\ UNCHANGED <<node, named, multi>>
    <3>1. \A i \in Inodes : \A x \in {"torn", "text"} :
            x \in Members(content'[i]) => x \in Members(content[i])
      BY <2>2, GrowthLeaves
    <3>2. pc = "promote" => temps[calls] \in Inodes
      BY DEF TempInv, Staged, TempsOK, CountsOK
    <3> QED
      BY <2>1, <2>2, <3>1, <3>2
  <2>3. CASE /\ node' = [node EXCEPT !["target"] = Fresh]
             /\ content' = [content EXCEPT ![Fresh] = <<"rival">>]
             /\ named' = named \cup {Fresh}
             /\ multi' = multi \ {Fresh}
    <3>1. /\ content'[Fresh] = <<"rival">>
          /\ \A i \in Inodes : i # Fresh => content'[i] = content[i]
          /\ node'["target"] = Fresh /\ node'["other"] = node["other"] /\ node["other"] # Fresh
      BY <2>1, <2>3, SaveLeaves
    <3>2. pc = "promote" => temps[calls] \in Inodes /\ temps[calls] # Fresh
      BY <2>1 DEF TempInv, Staged, TempsOK, CountsOK, Unused
    <3>3. \A i \in Inodes : i # Fresh => (i \in multi' <=> i \in multi)
      BY <2>3
    <3>4. pc = "inplace" => probe # Fresh
      BY <2>1 DEF Unused
    <3>5. node["other"] \in Inodes /\ "torn" \notin Members(content'[Fresh])
      BY <3>1, PiecesAre DEF NodesOK
    <3>6. content'[node["other"]] = content[node["other"]]
      BY <3>1, <3>5
    <3>7. \A n \in Names : IsFile(node'[n]) /\ "torn" \in Members(content'[node'[n]])
                           => node'[n] \in multi' \/ ~dirWritable
      BY <3>1, <3>3, <3>5, <3>6 DEF Names
    <3>8. (pc = "promote" => "torn" \notin Members(content'[temps[calls]]))
          /\ (pc = "inplace" => IsFile(probe) /\ (probe \in multi' \/ ~dirWritable))
      BY <2>3, <3>1, <3>2, <3>4
    <3> QED
      BY <2>1, <3>1, <3>7, <3>8
  <2>4. CASE /\ \E x \in {None, Link, Fifo} : node' = [node EXCEPT !["target"] = x]
             /\ UNCHANGED <<content, named, multi>>
    <3>1. PICK x \in {None, Link, Fifo} : node' = [node EXCEPT !["target"] = x]
      BY <2>4
    <3>2. node'["target"] = x /\ node'["other"] = node["other"] /\ ~IsFile(x) /\ node["other"] # x
      BY <3>1, NotFiles, InodesAre DEF NodesOK, Names
    <3> QED
      BY <2>1, <2>4, <3>2 DEF Names
  <2>5. CASE \E i \in {node[n] : n \in Names} \cap Inodes :
               /\ node' = [n \in Names |-> i]
               /\ named' = named \cup {i}
               /\ multi' = multi \cup {i}
               /\ UNCHANGED content
    <3>1. PICK i \in {node[n] : n \in Names} \cap Inodes :
               /\ node' = [n \in Names |-> i]
               /\ multi' = multi \cup {i}
               /\ UNCHANGED content
      BY <2>5
    <3> QED
      BY <2>1, <3>1 DEF Names
  <2> QED
    BY <1>14, <2>2, <2>3, <2>4, <2>5, Zenon DEF Rival
<1>15. CASE UNCHANGED vars
  BY <1>15 DEF vars
<1> QED
  BY <1>1, <1>2, <1>3, <1>4, <1>5, <1>6, <1>7, <1>8, <1>9, <1>10, <1>11, <1>12, <1>13,
     <1>14, <1>15 DEF Next, CallStep, Terminated

(* A call writes in place only what the path itself has named.              *)
LEMMA NamedStep ==
  ASSUME TypeInv, AllocInv, TempInv, NamedInv, [Next]_vars
  PROVE  NamedInv'
<1> USE FilesAre, NotFiles DEF NamedInv, TypeInv, LabelsOK, ContentOK, Ends, Refuses,
       Keeps, disk, call, history
<1>1. ASSUME NEW t \in Tools, Start(t) PROVE NamedInv'
  BY <1>1 DEF Start
<1>2. CASE Probe1 \/ Read1 \/ Read
  BY <1>2 DEF Probe1, Read1, Read
<1>3. CASE Probe
  BY <1>3 DEF Probe
<1>4. CASE Stat
  <2>1. CASE Refuses
    BY <1>4, <2>1 DEF Stat
  <2>2. CASE Truncate /\ IsFile(probe) /\ (Links(probe) > 1 \/ ~dirWritable)
             /\ UNCHANGED <<call, result>>
    BY <1>4, <2>2, TruncateLeaves, LinksAre DEF Stat
  <2>3. CASE Stage /\ UNCHANGED <<first, probe>>
    BY <1>4, <2>3, StageLeaves DEF Stat
  <2> QED
    BY <1>4, <2>1, <2>2, <2>3 DEF Stat
<1>5. CASE WriteInPlace
  <2>1. CASE content' = content
    BY <1>5, <2>1 DEF WriteInPlace
  <2>2. CASE content' = [content EXCEPT ![probe] = Data]
    <3>1. \A n \in Names : IsFile(node[n]) /\ node[n] # probe => content'[node[n]] = content[node[n]]
      BY <2>2, FilesAre, FilledIs, DataIsWhole, WholeIsWhole
    <3> QED
      BY <1>5, <3>1, NotFiles DEF WriteInPlace
  <2> QED
    BY <1>5, <2>1, <2>2 DEF WriteInPlace
<1>6. CASE Fill
  <2>1. CASE content' = content /\ pc' = "unwind"
    BY <1>6, <2>1 DEF Fill
  <2>2. CASE content' = [content EXCEPT ![Temp] = Data] /\ pc' = "promote"
    <3>1. Temp \in Inodes /\ \A n \in Names : node[n] # Temp
      BY <1>6, TempIsApart DEF Fill, Staged
    <3>2. \A n \in Names : IsFile(node[n]) => content'[node[n]] = content[node[n]]
      BY <2>2, <3>1, FilesAre, FilledIs, DataIsWhole, WholeIsWhole
    <3> QED
      BY <1>6, <2>2, <3>2 DEF Fill
  <2> QED
    BY <1>6, <2>1, <2>2 DEF Fill
<1>7. CASE Promote
  <2>1. CASE pc' = "unwind" /\ UNCHANGED <<node, temps, named, promoted, call, result>>
    BY <1>7, <2>1 DEF Promote
  <2>2. CASE /\ node' = [node EXCEPT !["target"] = Temp]
             /\ named' = named \cup {Temp} /\ Ends("ok")
    <3>1. Temp \in Inodes /\ \A n \in Names : node[n] # Temp
      BY <1>7, TempIsApart DEF Promote, Staged
    <3>2. node'["target"] = Temp /\ node'["other"] = node["other"]
      BY <2>2 DEF NodesOK, Names
    <3> QED
      BY <1>7, <2>2, <3>1, <3>2, NotFiles DEF Promote, Names
  <2> QED
    BY <1>7, <2>1, <2>2 DEF Promote
<1>8. CASE Unwinds
  BY <1>8 DEF Unwinds, Unwind
<1>9. CASE Guard
  <2>1. CASE Refuses
    BY <1>9, <2>1 DEF Guard
  <2>2. CASE pc' = "copy" /\ Keeps /\ UNCHANGED <<call, result>>
    BY <1>9, <2>2 DEF Guard
  <2>3. CASE Stage /\ UNCHANGED <<first, probe>>
    BY <1>9, <2>3, StageLeaves DEF Guard
  <2> QED
    BY <1>9, <2>1, <2>2, <2>3 DEF Guard
<1>10. CASE Copy
  <2>1. CASE Refuses
    BY <1>10, <2>1 DEF Copy
  <2>2. CASE Stage /\ UNCHANGED <<first, probe>>
    BY <1>10, <2>2, StageLeaves DEF Copy
  <2> QED
    BY <1>10, <2>1, <2>2 DEF Copy
<1>11. CASE Interrupt
  BY <1>11 DEF Interrupt, Unwind
<1>12. CASE Kill
  BY <1>12 DEF Kill
<1>13. ASSUME NEW complete \in BOOLEAN, Sweep(complete) PROVE NamedInv'
  BY <1>13 DEF Sweep
<1>14. CASE Rival
  <2>1. UNCHANGED <<temps, pc, calls, probe, dirWritable>> /\ Unused(Fresh)
    BY <1>14, RivalTakesUnused DEF Rival
  <2>2. CASE /\ IsFile(Followed("target"))
             /\ content' = [content EXCEPT ![Followed("target")] =
                              Append(content[Followed("target")], "rival")]
             /\ UNCHANGED <<node, named, multi>>
    <3>1. \A i \in Inodes : \A x \in {"torn", "text"} :
            x \in Members(content'[i]) => x \in Members(content[i])
      BY <2>2, GrowthLeaves
    <3> QED
      BY <2>1, <2>2, <3>1
  <2>3. CASE /\ node' = [node EXCEPT !["target"] = Fresh]
             /\ content' = [content EXCEPT ![Fresh] = <<"rival">>]
             /\ named' = named \cup {Fresh}
             /\ multi' = multi \ {Fresh}
    <3>1. /\ content'[Fresh] = <<"rival">>
          /\ \A i \in Inodes : i # Fresh => content'[i] = content[i]
          /\ node'["target"] = Fresh /\ node'["other"] = node["other"] /\ node["other"] # Fresh
      BY <2>1, <2>3, SaveLeaves
    <3> QED
      BY <2>1, <2>3, <3>1, PiecesAre, FilesAre DEF Names, NodesOK
  <2>4. CASE /\ \E x \in {None, Link, Fifo} : node' = [node EXCEPT !["target"] = x]
             /\ UNCHANGED <<content, named, multi>>
    <3>1. PICK x \in {None, Link, Fifo} : node' = [node EXCEPT !["target"] = x]
      BY <2>4
    <3>2. node'["target"] = x /\ node'["other"] = node["other"] /\ ~IsFile(x)
      BY <3>1, NotFiles DEF NodesOK, Names
    <3> QED
      BY <2>1, <2>4, <3>2 DEF Names
  <2>5. CASE \E i \in {node[n] : n \in Names} \cap Inodes :
               /\ node' = [n \in Names |-> i]
               /\ named' = named \cup {i}
               /\ multi' = multi \cup {i}
               /\ UNCHANGED content
    <3>1. PICK i \in {node[n] : n \in Names} \cap Inodes :
               /\ node' = [n \in Names |-> i]
               /\ named' = named \cup {i}
               /\ UNCHANGED content
      BY <2>5
    <3> QED
      BY <2>1, <3>1 DEF Names
  <2> QED
    BY <1>14, <2>2, <2>3, <2>4, <2>5, Zenon DEF Rival
<1>15. CASE UNCHANGED vars
  BY <1>15 DEF vars
<1> QED
  BY <1>1, <1>2, <1>3, <1>4, <1>5, <1>6, <1>7, <1>8, <1>9, <1>10, <1>11, <1>12, <1>13,
     <1>14, <1>15 DEF Next, CallStep, Terminated

(* A call that reports an error did not replace the target.                 *)
LEMMA VerdictStep ==
  ASSUME LabelsOK, VerdictInv, [Next]_vars
  PROVE  VerdictInv'
<1> USE DEF VerdictInv, LabelsOK, Labels, Before, Staged, Ends, Refuses, Keeps, disk,
       call, history
<1>1. ASSUME NEW t \in Tools, Start(t) PROVE VerdictInv'
  BY <1>1 DEF Start
<1>2. CASE Probe1 \/ Read1 \/ Read
  BY <1>2 DEF Probe1, Read1, Read
<1>3. CASE Probe \/ Stat
  BY <1>3 DEF Probe, Stat, Truncate, Stage
<1>4. CASE WriteInPlace \/ Fill \/ Promote \/ Unwinds
  BY <1>4 DEF WriteInPlace, Fill, Promote, Unwinds, Temp, Unwind
<1>5. CASE Guard \/ Copy
  BY <1>5 DEF Guard, Copy, Stage
<1>6. CASE Interrupt \/ Kill
  BY <1>6 DEF Interrupt, Kill, Unwind
<1>7. ASSUME NEW complete \in BOOLEAN, Sweep(complete) PROVE VerdictInv'
  BY <1>7 DEF Sweep
<1>8. CASE Rival
  BY <1>8 DEF Rival
<1>9. CASE UNCHANGED vars
  BY <1>9 DEF vars
<1> QED
  BY <1>1, <1>2, <1>3, <1>4, <1>5, <1>6, <1>7, <1>8, <1>9 DEF Next, CallStep, Terminated

(* A temp without its call was left by a kill, an interrupt or a failed unlink. *)
LEMMA SweepStep ==
  ASSUME TypeInv, AllocInv, TempInv, SweepInv, [Next]_vars
  PROVE  SweepInv'
<1> USE InodesAre DEF SweepInv, TempInv, Before, Staged, Labels, Temp, TypeInv,
       CountsOK, LabelsOK, TempsOK, Ends, Refuses, Keeps, disk, call, history
<1>1. ASSUME NEW t \in Tools, Start(t) PROVE SweepInv'
  BY <1>1 DEF Start
<1>2. CASE Probe1 \/ Read1 \/ Read
  BY <1>2 DEF Probe1, Read1, Read
<1>3. CASE Probe
  BY <1>3 DEF Probe
<1>4. CASE Stat
  BY <1>4 DEF Stat, Truncate, Stage
<1>5. CASE WriteInPlace
  BY <1>5 DEF WriteInPlace
<1>6. CASE Fill
  BY <1>6 DEF Fill
<1>7. CASE Promote
  BY <1>7 DEF Promote
<1>8. CASE Unwinds
  BY <1>8 DEF Unwinds, Unwind
<1>9. CASE Guard
  BY <1>9 DEF Guard, Stage
<1>10. CASE Copy
  BY <1>10 DEF Copy, Stage
<1>11. CASE Interrupt
  BY <1>11 DEF Interrupt, Unwind
<1>12. CASE Kill
  BY <1>12 DEF Kill
<1>13. ASSUME NEW complete \in BOOLEAN, Sweep(complete) PROVE SweepInv'
  BY <1>13 DEF Sweep
<1>14. CASE Rival
  BY <1>14 DEF Rival
<1>15. CASE UNCHANGED vars
  BY <1>15 DEF vars
<1> QED
  BY <1>1, <1>2, <1>3, <1>4, <1>5, <1>6, <1>7, <1>8, <1>9, <1>10, <1>11, <1>12, <1>13,
     <1>14, <1>15 DEF Next, CallStep, Terminated

-----------------------------------------------------------------------------
LEMMA FileInit == Init => FileInv
<1> SUFFICES ASSUME Init PROVE FileInv
  OBVIOUS
<1> USE InodesAre DEF Init
<1>1. NodesOK /\ node["other"] = 2
  BY DEF NodesOK, Names
<1>2. TempsOK /\ LabelsOK /\ HandlesOK /\ CountsOK
  BY DEF TempsOK, LabelsOK, HandlesOK, CountsOK, Labels, Tools, Names
<1>3. SetsOK
  BY <1>1 DEF SetsOK, NodesOK, Names
<1>4. /\ <<"old">> \in Seq(Pieces) /\ <<"other">> \in Seq(Pieces) /\ <<>> \in Seq(Pieces)
      /\ Members(<<"old">>) = {"old"} /\ Members(<<"other">>) = {"other"} /\ Members(<<>>) = {}
  <2>1. \A x \in Pieces : <<x>> \in Seq(Pieces)
    OBVIOUS
  <2>2. \A x : Members(<<x>>) = {x}
    BY DEF Members
  <2> QED
    BY <2>1, <2>2, WholeIsWhole DEF Pieces
<1>5. \A i \in Inodes : content[i] \in Seq(Pieces) /\ Members(content[i]) \subseteq {"old", "other"}
  BY <1>4
<1>6. FilledOK
  BY <1>5 DEF FilledOK
<1>7. RawOK
  BY WholeIsWhole DEF RawOK
<1>8. AllocInv
  <2>1. Limit = 2
    BY DEF Limit, Before
  <2>2. \A n \in Names : node[n] <= 2
    BY DEF Names, None, Link, Fifo
  <2> QED
    BY <2>1, <2>2 DEF AllocInv, None
<1>9. TempInv /\ VerdictInv /\ SweepInv
  BY DEF TempInv, VerdictInv, SweepInv, Staged
<1>10. node["target"] = node["other"] => node["target"] \in multi
  <2> SUFFICES ASSUME node["target"] = 2 PROVE 2 \in multi
    BY <1>1
  <2>1. {n \in Names : node[n] = 2} = {"target", "other"}
    BY <1>1 DEF Names
  <2>2. Cardinality({"target", "other"}) = 2
    <3>1. IsFiniteSet({"other"}) /\ Cardinality({"other"}) = 1
      BY FS_Singleton
    <3>2. Cardinality({"other"} \cup {"target"}) = Cardinality({"other"}) + 1
      BY <3>1, FS_AddElement
    <3>3. {"other"} \cup {"target"} = {"target", "other"}
      OBVIOUS
    <3> QED
      BY <3>1, <3>2, <3>3
  <2> QED
    BY <2>1, <2>2 DEF Links
<1>11. \A n \in Names : IsFile(node[n]) => /\ "torn" \notin Members(content[node[n]])
                                           /\ "text" \notin Members(content[node[n]])
  BY <1>1, <1>5, FilesAre
<1>12. TornInv
  BY <1>10, <1>11 DEF TornInv, Torn
<1>13. NamedInv
  BY <1>1, <1>11, FilesAre, NotFiles DEF NamedInv, Names
<1> QED
  BY <1>1, <1>2, <1>3, <1>6, <1>7, <1>8, <1>9, <1>12, <1>13 DEF FileInv, TypeInv,
     ContentOK

(* All parts together are inductive.                                        *)
LEMMA FileStep == FileInv /\ [Next]_vars => FileInv'
<1> SUFFICES ASSUME FileInv, [Next]_vars PROVE FileInv'
  OBVIOUS
<1> USE DEF FileInv
<1>1. NodesOK' /\ TempsOK' /\ SetsOK'
  BY NodesStep, TempsStep, SetsStep
<1>2. FilledOK' /\ RawOK' /\ LabelsOK' /\ HandlesOK' /\ CountsOK'
  BY FilledStep, RawStep, LabelsStep, HandlesStep, CountsStep DEF TypeInv
<1>3. AllocInv'
  BY LimitStep, AllocStep DEF TypeInv
<1>4. TempInv' /\ TornInv' /\ NamedInv' /\ SweepInv' /\ VerdictInv'
  BY TempStep, TornStep, NamedStep, SweepStep, VerdictStep DEF TypeInv
<1> QED
  BY <1>1, <1>2, <1>3, <1>4 DEF TypeInv, ContentOK

LEMMA FileInvariant == Spec => []FileInv
  BY FileInit, FileStep, PTL DEF Spec

(* No name ever shows half of a write, whatever system call fails, is       *)
(* killed or finds the path swapped, except for a file that had two names   *)
(* or whose directory takes no temp; and a call that reports an error did   *)
(* not replace the target (_write_atomic, WRITE_SCRIPT).                    *)
THEOREM WritesAreAtomic == Spec => []WriteIsAtomic
<1>1. FileInv => WriteIsAtomic
  BY DEF FileInv, TornInv, Torn, VerdictInv, WriteIsAtomic
<1> QED
  BY <1>1, FileInvariant, PTL

(* A call's bytes are only in files that the path itself has been a name    *)
(* of, and in its temps: a symlink that takes the target's place after the  *)
(* probe is replaced, never followed (open_nofollow, _write_atomic).        *)
THEOREM NothingIsWrittenThroughALink == Spec => []NothingThroughALink
<1>1. FileInv => NothingThroughALink
  <2> SUFFICES ASSUME FileInv, NEW i \in Inodes \ named, NEW n \in Names, node[n] = i
               PROVE  "text" \notin Members(content[i]) /\ "torn" \notin Members(content[i])
    BY DEF NothingThroughALink
  <2> QED
    BY FilesAre DEF FileInv, TypeInv, NamedInv
<1> QED
  BY <1>1, FileInvariant, PTL

(* When a call is over its temp is gone, unless a kill, an interrupt right  *)
(* after open() or a failed unlink left it; and a complete sweep removes it *)
(* then (_write_atomic's finally; HostSandbox.start() and finalize()).      *)
THEOREM TempsAreAlwaysRemoved == Spec => []TempsAreRemoved
<1>1. FileInv => TempsAreRemoved
  <2> SUFFICES ASSUME FileInv, pc = "idle", ~left, NEW k \in DOMAIN temps
               PROVE  temps[k] = None
    BY DEF TempsAreRemoved
  <2> QED
    BY DEF FileInv, TypeInv, TempsOK, SweepInv, Staged
<1> QED
  BY <1>1, FileInvariant, PTL
=============================================================================
