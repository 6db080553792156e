--------------------------- MODULE Firewall_proofs ---------------------------
(***************************************************************************)
(* What the Firewall decides, for every batch, every name, every path and  *)
(* every place of the worktree.                                            *)
(*                                                                         *)
(* FailsClosed is an invariant of the loops over the calls: outcome after  *)
(* outcome, then result after result (BatchInv).                           *)
(*                                                                         *)
(* NamesAgree and LayersAgree compare two functions of a call, each of     *)
(* which goes over a sequence part by part.  A name that either side finds *)
(* stands after the last marker and is the last token that is no space     *)
(* (FoundAre).  A path is followed part by part: from the worktree on, the *)
(* walk through the file system is where normpath() has collapsed the rest *)
(* to (Resolve); and it comes to the worktree by one of its two paths, or  *)
(* not by their length (RealReached, GivenReached, NoRoot).  Induction is  *)
(* over sets of numbers: a set with 0 in it that i + 1 is in whenever i is.*)
(***************************************************************************)
EXTENDS Firewall, SequenceTheorems, WellFoundedInduction, TLAPS

-----------------------------------------------------------------------------
(* Induction over the numbers, with sets of numbers for predicates.         *)

LEMMA LeastElement ==
  ASSUME NEW S, S \subseteq Nat, S # {}
  PROVE  \E i \in S : \A j \in S : i <= j
<1>1. PICK i \in S : \A j \in S : <<j, i>> \notin OpToRel(<, Nat)
  BY NatLessThanWellFounded, WFMin, Zenon
<1>2. \A j \in S : <<j, i>> \in Nat \X Nat /\ <<j, i>>[1] = j /\ <<j, i>>[2] = i
  OBVIOUS
<1>3. \A j \in S : ~ (j < i)
  BY <1>1, <1>2 DEF OpToRel
<1> QED
  BY <1>3

LEMMA GreatestElement ==
  ASSUME NEW n \in Nat, NEW S, S \subseteq 0 .. n, S # {}
  PROVE  \E i \in S : \A j \in S : j <= i
<1> DEFINE R == {k \in 0 .. n : n - k \in S}
<1>1. R \subseteq Nat /\ R # {}
  <2>1. PICK i \in S : TRUE
    OBVIOUS
  <2>2. n - i \in R
    BY <2>1
  <2>3. R # {}
    BY <2>2, Zenon
  <2>4. R \subseteq Nat
    OBVIOUS
  <2> QED
    BY <2>3, <2>4
<1>2. PICK r \in R : \A q \in R : r <= q
  BY <1>1, LeastElement
<1>3. n - r \in S
  BY <1>2
<1>4. \A j \in S : n - j \in R
  OBVIOUS
<1>5. \A j \in S : j <= n - r
  BY <1>2, <1>4
<1> QED
  BY <1>3, <1>5

LEMMA Induction ==
  ASSUME NEW S, 0 \in S, \A n \in Nat : n \in S => n + 1 \in S
  PROVE  Nat \subseteq S
<1> DEFINE Rest0 == Nat \ S
<1> SUFFICES ASSUME Rest0 # {} PROVE FALSE
  OBVIOUS
<1>1. PICK i \in Rest0 : \A j \in Rest0 : i <= j
  <2> HIDE DEF Rest0
  <2>1. Rest0 \subseteq Nat
    BY DEF Rest0
  <2> QED
    BY <2>1, LeastElement
<1>2. i \in Nat /\ i # 0 /\ i - 1 \in Nat
  OBVIOUS
<1>3. i - 1 \in S
  BY <1>1, <1>2
<1> QED
  BY <1>1, <1>2, <1>3

LEMMA InductionTo ==
  ASSUME NEW n \in Nat, NEW S, 0 \in S, \A i \in 0 .. n - 1 : i \in S => i + 1 \in S
  PROVE  0 .. n \subseteq S
<1> DEFINE T == {i \in Nat : i <= n => i \in S}
<1>1. 0 \in T
  OBVIOUS
<1>2. ASSUME NEW i \in Nat, i \in T PROVE i + 1 \in T
  BY <1>2
<1>3. Nat \subseteq T
  <2> HIDE DEF T
  <2> QED
    BY <1>1, <1>2, Induction
<1> QED
  BY <1>3

\* The functions to V on 0 .. m that a first value and a step give: there is one.
Stepping(V, m, step, start, xs) ==
  {f \in [0 .. m -> V] : f[0] = start /\ \A i \in 1 .. m : f[i] = step[f[i - 1]][xs[i]]}

LEMMA StepsExist ==
  ASSUME NEW V, NEW T, NEW step \in [V -> [T -> V]], NEW start \in V,
         NEW m \in Nat, NEW xs \in [1 .. m -> T]
  PROVE  Stepping(V, m, step, start, xs) # {}
<1> DEFINE Good(n, f) == /\ f \in [0 .. n -> V] /\ f[0] = start
                         /\ \A i \in 1 .. n : f[i] = step[f[i - 1]][xs[i]]
           S == {n \in Nat : n <= m => \E f : Good(n, f)}
<1>1. 0 \in S
  <2>1. Good(0, [i \in 0 .. 0 |-> start])
    OBVIOUS
  <2> HIDE DEF Good
  <2> QED
    BY <2>1
<1>2. ASSUME NEW n \in Nat, n \in S PROVE n + 1 \in S
  <2>1. CASE n + 1 > m
    BY <2>1
  <2>2. CASE n + 1 <= m
    <3>1. PICK f : Good(n, f)
      <4> HIDE DEF Good
      <4> QED
        BY <1>2, <2>2
    <3> DEFINE next == step[f[n]][xs[n + 1]]
               g == [i \in 0 .. n + 1 |-> IF i = n + 1 THEN next ELSE f[i]]
    <3>2. next \in V
      BY <2>2, <3>1
    <3>3. \A i \in 0 .. n + 1 : g[i] = IF i = n + 1 THEN next ELSE f[i]
      OBVIOUS
    <3>4. g \in [0 .. n + 1 -> V] /\ g[0] = start
      <4> HIDE DEF next
      <4> QED
        BY <3>1, <3>2
    <3>5. ASSUME NEW i \in 1 .. n + 1 PROVE g[i] = step[g[i - 1]][xs[i]]
      <4>1. CASE i = n + 1
        <5>1. g[i] = next /\ g[i - 1] = f[n]
          BY <3>3, <4>1
        <5> QED
          BY <4>1, <5>1
      <4>2. CASE i # n + 1
        <5>1. i \in 1 .. n /\ i - 1 \in 0 .. n
          BY <4>2
        <5>2. g[i] = f[i] /\ g[i - 1] = f[i - 1]
          BY <3>3, <5>1
        <5> QED
          BY <3>1, <5>1, <5>2
      <4> QED
        BY <4>1, <4>2
    <3>6. Good(n + 1, g)
      <4> HIDE DEF g
      <4> QED
        BY <3>4, <3>5
    <3> HIDE DEF Good
    <3> QED
      BY <3>6
  <2> HIDE DEF S
  <2> QED
    BY <2>1, <2>2
<1>3. m \in S
  <2> HIDE DEF S
  <2> QED
    BY <1>1, <1>2, Induction
<1>4. PICK f : Good(m, f)
  <2> HIDE DEF Good
  <2> QED
    BY <1>3
<1>5. f \in Stepping(V, m, step, start, xs)
  BY <1>4 DEF Stepping
<1> QED
  BY <1>5

-----------------------------------------------------------------------------
(* Sequences of tokens                                                      *)

\* Element by element, what the operators on sequences make.
LEMMA EmptyIs == <<>> \in Tokens /\ Len(<<>>) = 0 /\ \A s \in Tokens : Len(s) = 0 => s = <<>>
  BY DEF Tokens

LEMMA TokensAre ==
  ASSUME NEW s \in Tokens
  PROVE  /\ Len(s) \in Nat /\ DOMAIN s = 1 .. Len(s)
         /\ \A i \in 1 .. Len(s) : s[i] \in STRING
         /\ s # <<>> => Len(s) >= 1
<1> DEFINE Elem == STRING
<1> HIDE DEF Elem
<1>1. s \in Seq(Elem)
  BY DEF Tokens, Elem
<1>2. Len(s) \in Nat /\ s \in [1 .. Len(s) -> Elem] /\ DOMAIN s = 1 .. Len(s)
  BY <1>1, LenProperties
<1>3. s # <<>> => Len(s) >= 1
  BY <1>2, EmptyIs
<1> QED
  BY <1>2, <1>3 DEF Elem

LEMMA SameTokens ==
  ASSUME NEW s \in Tokens, NEW t \in Tokens, Len(s) = Len(t),
         \A i \in 1 .. Len(s) : s[i] = t[i]
  PROVE  s = t
  BY SeqEqual DEF Tokens

LEMMA AppendIs ==
  ASSUME NEW s \in Tokens, NEW x \in STRING
  PROVE  /\ Append(s, x) \in Tokens /\ Len(Append(s, x)) = Len(s) + 1
         /\ \A i \in 1 .. Len(s) : Append(s, x)[i] = s[i]
         /\ Append(s, x)[Len(s) + 1] = x
<1> DEFINE Elem == STRING
<1> HIDE DEF Elem
<1>1. s \in Seq(Elem) /\ x \in Elem
  BY DEF Tokens, Elem
<1> QED
  BY <1>1, AppendProperties DEF Tokens, Elem

LEMMA SliceIs ==
  ASSUME NEW s \in Tokens, NEW m \in Nat \ {0}, NEW n \in 0 .. Len(s), m <= n + 1
  PROVE  /\ SubSeq(s, m, n) \in Tokens /\ Len(SubSeq(s, m, n)) = n - m + 1
         /\ \A i \in 1 .. n - m + 1 : SubSeq(s, m, n)[i] = s[m + i - 1]
<1> DEFINE Elem == STRING
<1> HIDE DEF Elem
<1>1. s \in Seq(Elem) /\ Len(s) \in Nat
  BY TokensAre DEF Tokens, Elem
<1>2. \A i \in m .. n : s[i] \in Elem
  BY <1>1, LenProperties
<1>3. /\ SubSeq(s, m, n) \in Seq(Elem)
      /\ Len(SubSeq(s, m, n)) = IF m <= n THEN n - m + 1 ELSE 0
      /\ \A i \in 1 .. n - m + 1 : SubSeq(s, m, n)[i] = s[m + i - 1]
  BY <1>1, <1>2, SubSeqProperties
<1> QED
  BY <1>1, <1>3 DEF Tokens, Elem

LEMMA FrontIs ==
  ASSUME NEW s \in Tokens, s # <<>>
  PROVE  /\ Front(s) \in Tokens /\ Len(Front(s)) = Len(s) - 1
         /\ \A i \in 1 .. Len(s) - 1 : Front(s)[i] = s[i]
<1>1. 1 \in Nat \ {0} /\ Len(s) \in Nat /\ Len(s) - 1 \in 0 .. Len(s) /\ 1 <= Len(s) - 1 + 1
  BY TokensAre
<1>2. /\ SubSeq(s, 1, Len(s) - 1) \in Tokens
      /\ Len(SubSeq(s, 1, Len(s) - 1)) = (Len(s) - 1) - 1 + 1
      /\ \A i \in 1 .. (Len(s) - 1) - 1 + 1 : SubSeq(s, 1, Len(s) - 1)[i] = s[1 + i - 1]
  BY <1>1, SliceIs
<1>3. \A i \in 1 .. Len(s) - 1 : 1 + i - 1 = i
  OBVIOUS
<1> QED
  BY <1>1, <1>2, <1>3 DEF Front

LEMMA JoinIs ==
  ASSUME NEW s \in Tokens, NEW t \in Tokens
  PROVE  /\ s \o t \in Tokens /\ Len(s \o t) = Len(s) + Len(t)
         /\ \A i \in 1 .. Len(s) : (s \o t)[i] = s[i]
         /\ \A i \in 1 .. Len(t) : (s \o t)[Len(s) + i] = t[i]
<1> DEFINE Elem == STRING
<1> HIDE DEF Elem
<1>1. s \in Seq(Elem) /\ t \in Seq(Elem) /\ Len(s) \in Nat /\ Len(t) \in Nat
  BY TokensAre DEF Tokens, Elem
<1>2. /\ s \o t \in Seq(Elem) /\ Len(s \o t) = Len(s) + Len(t)
      /\ \A i \in 1 .. Len(s) + Len(t) :
           (s \o t)[i] = IF i <= Len(s) THEN s[i] ELSE t[i - Len(s)]
  BY <1>1, ConcatProperties
<1>3. \A i \in 1 .. Len(t) : (s \o t)[Len(s) + i] = t[i]
  BY <1>1, <1>2
<1> QED
  BY <1>1, <1>2, <1>3 DEF Tokens, Elem

LEMMA SingleIs == ASSUME NEW S, NEW x \in S PROVE <<x>> \in Seq(S)
  OBVIOUS

LEMMA ExtendIs ==
  ASSUME NEW s \in Tokens, NEW m \in Nat \ {0}, NEW n \in Nat, m <= n + 1, n + 1 <= Len(s)
  PROVE  Append(SubSeq(s, m, n), s[n + 1]) = SubSeq(s, m, n + 1)
<1> DEFINE u == SubSeq(s, m, n)
           v == SubSeq(s, m, n + 1)
           w == Append(u, s[n + 1])
<1>1. Len(s) \in Nat /\ n \in 0 .. Len(s) /\ n + 1 \in 0 .. Len(s) /\ m <= (n + 1) + 1
      /\ n + 1 \in 1 .. Len(s)
  BY TokensAre
<1>2. u \in Tokens /\ Len(u) = n - m + 1 /\ \A i \in 1 .. n - m + 1 : u[i] = s[m + i - 1]
  BY <1>1, SliceIs
<1>3. /\ v \in Tokens /\ Len(v) = (n + 1) - m + 1
      /\ \A i \in 1 .. (n + 1) - m + 1 : v[i] = s[m + i - 1]
  BY <1>1, SliceIs
<1>4. s[n + 1] \in STRING
  BY <1>1, TokensAre
<1>5. /\ w \in Tokens /\ Len(w) = Len(u) + 1 /\ (\A i \in 1 .. Len(u) : w[i] = u[i])
      /\ w[Len(u) + 1] = s[n + 1]
  <2> HIDE DEF u
  <2> QED
    BY <1>2, <1>4, AppendIs
<1> HIDE DEF u, v, w
<1>6. Len(w) = Len(v)
  BY <1>2, <1>3, <1>5
<1>7. ASSUME NEW i \in 1 .. Len(w) PROVE w[i] = v[i]
  <2>1. CASE i = Len(u) + 1
    <3>1. m + i - 1 = n + 1 /\ i \in 1 .. (n + 1) - m + 1
      BY <1>2, <2>1
    <3> QED
      BY <1>3, <1>5, <2>1, <3>1
  <2>2. CASE i # Len(u) + 1
    <3>1. i \in 1 .. n - m + 1 /\ i \in 1 .. Len(u) /\ i \in 1 .. (n + 1) - m + 1
      BY <1>2, <1>5, <2>2
    <3> QED
      BY <1>2, <1>3, <1>5, <3>1
  <2> QED
    BY <2>1, <2>2
<1>8. w = v
  BY <1>3, <1>5, <1>6, <1>7, SameTokens
<1> QED
  BY <1>8 DEF u, v, w

LEMMA AppendJoin ==
  ASSUME NEW s \in Tokens, NEW t \in Tokens, NEW x \in STRING
  PROVE  Append(s \o t, x) = s \o Append(t, x)
<1> DEFINE Elem == STRING
<1> HIDE DEF Elem
<1>1. s \in Seq(Elem) /\ t \in Seq(Elem) /\ x \in Elem /\ s \o t \in Seq(Elem)
  BY JoinIs DEF Tokens, Elem
<1>2. <<x>> \in Seq(Elem)
  BY <1>1, SingleIs
<1>3. Append(s \o t, x) = (s \o t) \o <<x>> /\ Append(t, x) = t \o <<x>>
  BY <1>1, AppendIsConcat
<1> QED
  BY <1>1, <1>2, <1>3, ConcatAssociative

-----------------------------------------------------------------------------
(* Names                                                                    *)

\* The last token that is no space, and the first.
LEMMA LastSolidIs ==
  ASSUME NEW s \in Tokens
  PROVE  /\ LastSolid(s) = 0 \/ (LastSolid(s) \in 1 .. Len(s) /\ s[LastSolid(s)] # Space)
         /\ \A j \in 1 .. Len(s) : j > LastSolid(s) => s[j] = Space
<1>1. Len(s) \in Nat /\ DOMAIN s = 1 .. Len(s)
  BY TokensAre
<1>2. CASE Solid(s) = {}
  BY <1>1, <1>2 DEF LastSolid, Solid
<1>3. CASE Solid(s) # {}
  <2>1. Solid(s) \subseteq 0 .. Len(s)
    BY <1>1 DEF Solid
  <2>2. \E i \in Solid(s) : \A j \in Solid(s) : j <= i
    BY <1>1, <1>3, <2>1, GreatestElement
  <2>3. LastSolid(s) \in Solid(s) /\ \A j \in Solid(s) : j <= LastSolid(s)
    BY <1>3, <2>2 DEF LastSolid
  <2> QED
    BY <1>1, <2>3 DEF Solid
<1> QED
  BY <1>2, <1>3

LEMMA FirstSolidIs ==
  ASSUME NEW s \in Tokens
  PROVE  /\ FirstSolid(s) \in Nat \ {0}
         /\ LastSolid(s) # 0 => FirstSolid(s) \in 1 .. Len(s) /\ s[FirstSolid(s)] # Space
         /\ \A j \in 1 .. Len(s) : j < FirstSolid(s) => s[j] = Space
<1>1. Len(s) \in Nat /\ DOMAIN s = 1 .. Len(s)
  BY TokensAre
<1>2. CASE Solid(s) = {}
  BY <1>1, <1>2 DEF LastSolid, FirstSolid, Solid
<1>3. CASE Solid(s) # {}
  <2>1. Solid(s) \subseteq Nat
    BY <1>1 DEF Solid
  <2>2. \E i \in Solid(s) : \A j \in Solid(s) : i <= j
    BY <1>3, <2>1, LeastElement
  <2>3. FirstSolid(s) \in Solid(s) /\ \A j \in Solid(s) : FirstSolid(s) <= j
    BY <1>3, <2>2 DEF FirstSolid
  <2> QED
    BY <1>1, <2>3 DEF Solid
<1> QED
  BY <1>2, <1>3

\* The only token that is no space is the last of them, and the first.
LEMMA OnlySolid ==
  ASSUME NEW s \in Tokens, NEW k \in 1 .. Len(s), s[k] # Space,
         \A j \in 1 .. Len(s) : j # k => s[j] = Space
  PROVE  LastSolid(s) = k /\ FirstSolid(s) = k
<1>1. Len(s) \in Nat
  BY TokensAre
<1>2. LastSolid(s) # 0 /\ LastSolid(s) = k
  BY <1>1, LastSolidIs
<1> QED
  BY <1>1, <1>2, FirstSolidIs

LEMMA OneOf ==
  ASSUME NEW x \in STRING
  PROVE  <<x>> \in Tokens /\ Len(<<x>>) = 1 /\ <<x>>[1] = x
<1> DEFINE Elem == STRING
<1> HIDE DEF Elem
<1>1. x \in Elem
  BY DEF Elem
<1>2. <<x>> \in Seq(Elem)
  BY <1>1, SingleIs
<1>3. <<x>> \in Tokens
  BY <1>2 DEF Tokens, Elem
<1> QED
  BY <1>3

\* Tokens that strip() leaves a name of.
LEMMA PaddedIs ==
  ASSUME NEW s \in Tokens
  PROVE  /\ IsPadded(s) => /\ LastSolid(s) \in 1 .. Len(s) /\ s[LastSolid(s)] \in Kinds
                           /\ \A j \in 1 .. Len(s) : j # LastSolid(s) => s[j] = Space
         /\ \A k \in 1 .. Len(s) :
              s[k] \in Kinds /\ (\A j \in 1 .. Len(s) : j # k => s[j] = Space)
                => IsPadded(s) /\ Stripped(s) = <<s[k]>>
<1> DEFINE a == FirstSolid(s)
           b == LastSolid(s)
           w == Stripped(s)
<1>1. Len(s) \in Nat /\ Kinds \subseteq STRING /\ Space \notin Kinds
  BY TokensAre, NamesAssumption
<1>2. /\ b = 0 \/ (b \in 1 .. Len(s) /\ s[b] # Space)
      /\ \A j \in 1 .. Len(s) : j > b => s[j] = Space
  BY LastSolidIs
<1>3. /\ a \in Nat \ {0}
      /\ b # 0 => a \in 1 .. Len(s) /\ s[a] # Space
      /\ \A j \in 1 .. Len(s) : j < a => s[j] = Space
  BY FirstSolidIs
<1>4. w = SubSeq(s, a, b)
  BY DEF Stripped
<1>5. IsPadded(s) <=> Len(w) = 1 /\ w[1] \in Kinds
  BY DEF IsPadded, IsKind
<1> HIDE DEF a, b, w
<1>6. ASSUME b # 0
      PROVE  /\ a <= b /\ w \in Tokens /\ Len(w) = b - a + 1
             /\ \A i \in 1 .. b - a + 1 : w[i] = s[a + i - 1]
  <2>1. a <= b
    BY <1>1, <1>2, <1>3, <1>6
  <2>2. a \in Nat \ {0} /\ b \in 0 .. Len(s) /\ a <= b + 1
    BY <1>1, <1>2, <1>3, <2>1
  <2> QED
    BY <1>4, <2>1, <2>2, SliceIs
<1>7. ASSUME IsPadded(s)
      PROVE  /\ b \in 1 .. Len(s) /\ s[b] \in Kinds
             /\ \A j \in 1 .. Len(s) : j # b => s[j] = Space
  <2>1. b # 0
    <3> SUFFICES ASSUME b = 0 PROVE FALSE
      OBVIOUS
    <3>1. \A j \in 1 .. Len(s) : s[j] = Space
      BY <1>1, <1>2
    <3>2. Solid(s) = {}
      BY <3>1, TokensAre DEF Solid
    <3>3. w = SubSeq(s, 1, 0)
      BY <1>4, <3>2 DEF a, b, FirstSolid, LastSolid
    <3>4. 1 \in Nat \ {0} /\ 0 \in 0 .. Len(s) /\ 1 <= 0 + 1 /\ 0 - 1 + 1 = 0
      BY <1>1
    <3>5. Len(w) = 0
      BY <3>3, <3>4, SliceIs
    <3> QED
      BY <1>5, <1>7, <3>5
  <2>2. b - a + 1 = 1 /\ w[1] \in Kinds
    BY <1>5, <1>6, <1>7, <2>1
  <2>3. a = b /\ b \in 1 .. Len(s) /\ a + 1 - 1 = b /\ 1 \in 1 .. b - a + 1
    BY <1>1, <1>2, <1>3, <2>1, <2>2
  <2>4. w[1] = s[b]
    BY <1>6, <2>1, <2>3
  <2> QED
    BY <1>1, <1>2, <1>3, <2>2, <2>3, <2>4
<1>8. ASSUME NEW k \in 1 .. Len(s), s[k] \in Kinds, \A j \in 1 .. Len(s) : j # k => s[j] = Space
      PROVE  IsPadded(s) /\ w = <<s[k]>>
  <2>1. a = k /\ b = k /\ s[k] \in STRING
    BY <1>1, <1>8, OnlySolid DEF a, b
  <2>2. k \in Nat /\ k # 0 /\ k - k + 1 = 1 /\ k + 1 - 1 = k /\ 1 \in 1 .. 1
    BY <1>1
  <2>3. w \in Tokens /\ Len(w) = 1 /\ w[1] = s[k]
    BY <1>6, <2>1, <2>2
  <2> DEFINE o == <<s[k]>>
  <2>4. o \in Tokens /\ Len(o) = 1 /\ o[1] = s[k]
    BY <2>1, OneOf
  <2> HIDE DEF o
  <2>5. \A i \in 1 .. Len(w) : w[i] = o[i]
    BY <2>3, <2>4
  <2>6. w = o
    BY <2>3, <2>4, <2>5, SameTokens
  <2> QED
    BY <1>5, <1>8, <2>3, <2>6 DEF o
<1> QED
  BY <1>7, <1>8 DEF b, w

\* What a marker that ends at e is.
LEMMA MarkerIs ==
  ASSUME NEW name \in Tokens, NEW m \in Markers, NEW e \in 0 .. Len(name), MarkerEndsAt(name, m, e)
  PROVE  /\ e \in 1 .. Len(name) /\ name[e] # Space
         /\ Len(m) \in 1 .. e /\ m = SubSeq(name, e - Len(m) + 1, e)
<1>1. m \in Tokens /\ m # <<>> /\ m[Len(m)] # Space
  BY NamesAssumption
<1>2. Len(m) \in Nat /\ Len(m) >= 1 /\ Len(name) \in Nat
  BY <1>1, TokensAre
<1>3. e >= Len(m) /\ m = SubSeq(name, e - Len(m) + 1, e)
  BY DEF MarkerEndsAt
<1> DEFINE l == Len(m)
           f == e - l + 1
<1>4. /\ e \in 1 .. Len(name) /\ f \in Nat \ {0} /\ f <= e + 1 /\ l \in 1 .. e - f + 1
      /\ f + l - 1 = e /\ l \in 1 .. e
  BY <1>2, <1>3
<1> HIDE DEF f
<1>5. \A i \in 1 .. e - f + 1 : SubSeq(name, f, e)[i] = name[f + i - 1]
  BY <1>4, SliceIs
<1>6. m[l] = name[e]
  BY <1>3, <1>4, <1>5 DEF f
<1> QED
  BY <1>1, <1>3, <1>4, <1>6

\* The markers that leave a name behind are the ones just before the last name.
LEMMA FoundAre ==
  ASSUME NEW name \in Tokens, NEW last, last = LastSolid(name), NEW m \in Markers,
         NEW e \in 1 .. Len(name)
  PROVE  LET suffix == SubSeq(name, e + 1, Len(name))
         IN  /\ MarkerEndsAt(name, m, e) /\ IsPadded(suffix)
                  <=> /\ last # 0 /\ name[last] \in Kinds
                      /\ e = MarkerEnd(name, last) /\ MarkerEndsAt(name, m, e)
             /\ MarkerEndsAt(name, m, e) /\ IsPadded(suffix) => Stripped(suffix) = <<name[last]>>
<1> DEFINE s == SubSeq(name, e + 1, Len(name))
           c == SubSeq(name, 1, last - 1)
           k == last - e
<1>1. /\ Len(name) \in Nat /\ e \in Nat /\ e \in 0 .. Len(name)
      /\ Kinds \subseteq STRING /\ Space \notin Kinds
  <2>1. Len(name) \in Nat
    BY TokensAre
  <2>2. Kinds \subseteq STRING /\ Space \notin Kinds
    BY NamesAssumption
  <2>3. e \in Nat /\ e \in 0 .. Len(name)
    BY <2>1
  <2> QED
    BY <2>1, <2>2, <2>3
<1>2. /\ last = 0 \/ (last \in 1 .. Len(name) /\ name[last] # Space)
      /\ \A j \in 1 .. Len(name) : j > last => name[j] = Space
  BY LastSolidIs
<1>3. /\ s \in Tokens /\ Len(s) = Len(name) - e
      /\ \A i \in 1 .. Len(name) - e : s[i] = name[e + i]
  <2>1. /\ e + 1 \in Nat \ {0} /\ Len(name) \in 0 .. Len(name) /\ e + 1 <= Len(name) + 1
        /\ Len(name) - (e + 1) + 1 = Len(name) - e
        /\ \A i \in 1 .. Len(name) - e : (e + 1) + i - 1 = e + i
    BY <1>1
  <2>2. /\ s \in Tokens /\ Len(s) = Len(name) - (e + 1) + 1
        /\ \A i \in 1 .. Len(name) - (e + 1) + 1 : s[i] = name[(e + 1) + i - 1]
    BY <2>1, SliceIs
  <2> HIDE DEF s
  <2> QED
    BY <2>1, <2>2
<1>4. ASSUME last # 0
      PROVE  /\ c \in Tokens /\ Len(c) = last - 1 /\ last \in Nat
             /\ \A i \in 1 .. last - 1 : c[i] = name[i]
  <2>1. /\ 1 \in Nat \ {0} /\ last - 1 \in 0 .. Len(name) /\ 1 <= (last - 1) + 1
        /\ (last - 1) - 1 + 1 = last - 1 /\ last \in Nat
        /\ \A i \in 1 .. last - 1 : 1 + i - 1 = i
    BY <1>1, <1>2, <1>4
  <2>2. /\ c \in Tokens /\ Len(c) = (last - 1) - 1 + 1
        /\ \A i \in 1 .. (last - 1) - 1 + 1 : c[i] = name[1 + i - 1]
    BY <2>1, SliceIs
  <2> HIDE DEF c
  <2> QED
    BY <2>1, <2>2
<1>5. MarkerEnd(name, last) = LastSolid(c)
  BY DEF MarkerEnd
<1> HIDE DEF s, c
<1>6. ASSUME MarkerEndsAt(name, m, e), IsPadded(s)
      PROVE  last # 0 /\ name[last] \in Kinds /\ e = LastSolid(c)
  <2>1. name[e] # Space
    BY <1>1, <1>6, MarkerIs
  <2> DEFINE b == LastSolid(s)
  <2>2. /\ b \in 1 .. Len(s) /\ s[b] \in Kinds
        /\ \A j \in 1 .. Len(s) : j # b => s[j] = Space
    BY <1>3, <1>6, PaddedIs
  <2> HIDE DEF b
  <2>3. /\ e + b \in 1 .. Len(name) /\ name[e + b] \in Kinds /\ b \in Nat /\ b >= 1
    BY <1>1, <1>3, <2>2
  <2>4. ASSUME NEW j \in 1 .. Len(name), j > e, j # e + b PROVE name[j] = Space
    <3>1. j - e \in 1 .. Len(s) /\ j - e # b /\ e + (j - e) = j
      BY <1>1, <1>3, <2>3, <2>4
    <3> DEFINE i == j - e
    <3>2. i \in 1 .. Len(s) /\ i # b /\ e + i = j
      BY <3>1
    <3> HIDE DEF i
    <3>3. s[i] = Space /\ s[i] = name[e + i]
      BY <1>3, <2>2, <3>2
    <3> QED
      BY <3>2, <3>3
  <2>5. last = e + b
    <3>1. e + b <= last
      BY <1>1, <1>2, <2>3
    <3>2. last <= e + b
      BY <1>1, <1>2, <2>3, <2>4
    <3> QED
      BY <1>1, <1>2, <2>3, <3>1, <3>2
  <2>6. last # 0
    BY <1>1, <2>3, <2>5
  <2>7. e \in 1 .. Len(c) /\ c[e] # Space
    BY <1>1, <1>4, <2>1, <2>3, <2>5, <2>6
  <2>8. ASSUME NEW j \in 1 .. Len(c), j > e PROVE c[j] = Space
    <3>1. j \in 1 .. Len(name) /\ j # e + b /\ j \in 1 .. last - 1
      BY <1>1, <1>2, <1>4, <2>3, <2>5, <2>6
    <3> QED
      BY <1>4, <2>4, <2>6, <2>8, <3>1
  <2>9. e = LastSolid(c)
    <3>1. /\ LastSolid(c) = 0 \/ (LastSolid(c) \in 1 .. Len(c) /\ c[LastSolid(c)] # Space)
          /\ \A j \in 1 .. Len(c) : j > LastSolid(c) => c[j] = Space
      BY <1>4, <2>6, LastSolidIs
    <3> QED
      BY <1>1, <1>4, <2>6, <2>7, <2>8, <3>1
  <2> QED
    BY <2>3, <2>5, <2>6, <2>9
<1>7. ASSUME last # 0, name[last] \in Kinds, e = LastSolid(c), MarkerEndsAt(name, m, e)
      PROVE  IsPadded(s) /\ Stripped(s) = <<name[last]>>
  <2>1. e \in 1 .. Len(c) /\ \A j \in 1 .. Len(c) : j > e => c[j] = Space
    BY <1>1, <1>4, <1>7, LastSolidIs
  <2>2. e < last /\ last \in 1 .. Len(name)
    BY <1>1, <1>2, <1>4, <1>7, <2>1
  <2>3. k \in 1 .. Len(s) /\ e + k = last
    BY <1>1, <1>3, <2>2
  <2> HIDE DEF k
  <2>4. s[k] = name[last]
    BY <1>3, <2>3
  <2>5. ASSUME NEW j \in 1 .. Len(s), j # k PROVE s[j] = Space
    <3>1. s[j] = name[e + j] /\ e + j \in 1 .. Len(name) /\ e + j # last /\ e + j > e
      BY <1>1, <1>3, <2>3, <2>5
    <3>2. CASE e + j > last
      BY <1>2, <3>1, <3>2
    <3>3. CASE e + j < last
      <4>1. e + j \in 1 .. Len(c)
        BY <1>1, <1>4, <1>7, <2>2, <3>1, <3>3
      <4> QED
        BY <1>4, <1>7, <2>1, <3>1, <4>1
    <3> QED
      BY <1>1, <2>2, <3>1, <3>2, <3>3
  <2> QED
    BY <1>3, <1>7, <2>3, <2>4, <2>5, PaddedIs
<1> QED
  BY <1>5, <1>6, <1>7 DEF s

\* The two ways to recover a name agree on every name.
LEMMA SameNames == \A name \in Tokens : FirewallName(name) = RegistryName(name)
<1> TAKE name \in Tokens
<1> DEFINE last == LastSolid(name)
           end == MarkerEnd(name, last)
           suffix(e) == SubSeq(name, e + 1, Len(name))
           Found == {f \in (1 .. Len(name)) \X Markers :
                       MarkerEndsAt(name, f[2], f[1]) /\ IsPadded(suffix(f[1]))}
           Ends == {m \in Markers : MarkerEndsAt(name, m, end)}
           IsBest(f) == \A g \in Found : f[1] > g[1] \/ (f[1] = g[1] /\ Len(f[2]) >= Len(g[2]))
           IsLongest(m) == \A n \in Ends : Len(m) >= Len(n)
           Named == last # 0 /\ name[last] \in Kinds
           best == CHOOSE f \in Found : IsBest(f)
           longest == CHOOSE m \in Ends : IsLongest(m)
<1>1. RegistryName(name) =
        IF IsKind(name) \/ Found = {} THEN Unchanged(name)
        ELSE [name   |-> Stripped(suffix(best[1])), marker |-> best[2],
              cut    |-> best[1] - Len(best[2])]
  BY DEF RegistryName
<1>2. FirewallName(name) =
        IF IsKind(name) \/ last = 0 \/ name[last] \notin Kinds \/ Ends = {} THEN Unchanged(name)
        ELSE [name |-> <<name[last]>>, marker |-> longest, cut |-> end - Len(longest)]
  BY DEF FirewallName
<1>3. Len(name) \in Nat
  BY TokensAre
<1>4. last # 0 => end \in 0 .. Len(name)
  <2> SUFFICES ASSUME last # 0 PROVE end \in 0 .. Len(name)
    OBVIOUS
  <2> DEFINE c == SubSeq(name, 1, last - 1)
  <2>1. last \in 1 .. Len(name)
    BY LastSolidIs
  <2> HIDE DEF last
  <2>2. /\ 1 \in Nat \ {0} /\ last - 1 \in 0 .. Len(name) /\ 1 <= (last - 1) + 1
        /\ (last - 1) - 1 + 1 = last - 1
    BY <1>3, <2>1
  <2>3. c \in Tokens /\ Len(c) = (last - 1) - 1 + 1
    BY <2>2, SliceIs
  <2> HIDE DEF c
  <2>4. LastSolid(c) \in 0 .. Len(c)
    BY <2>3, LastSolidIs, TokensAre
  <2>5. end = LastSolid(c)
    BY DEF MarkerEnd, c
  <2> QED
    BY <1>3, <2>1, <2>2, <2>3, <2>4, <2>5
<1>5. ASSUME Named, NEW m \in Ends
      PROVE  /\ end \in 1 .. Len(name) /\ Len(m) \in 1 .. end
             /\ m = SubSeq(name, end - Len(m) + 1, end)
  <2>1. m \in Markers /\ MarkerEndsAt(name, m, end) /\ end \in 0 .. Len(name)
    BY <1>4, <1>5
  <2> HIDE DEF end, Ends, Named
  <2> QED
    BY <2>1, MarkerIs
<1>6. ASSUME NEW e \in 1 .. Len(name), NEW m \in Markers
      PROVE  /\ <<e, m>> \in Found <=> Named /\ e = end /\ m \in Ends
             /\ <<e, m>> \in Found => Stripped(suffix(e)) = <<name[last]>>
  <2>1. /\ MarkerEndsAt(name, m, e) /\ IsPadded(suffix(e))
             <=> Named /\ e = end /\ MarkerEndsAt(name, m, e)
        /\ MarkerEndsAt(name, m, e) /\ IsPadded(suffix(e)) => Stripped(suffix(e)) = <<name[last]>>
    BY FoundAre
  <2>2. <<e, m>> \in Found <=> MarkerEndsAt(name, m, e) /\ IsPadded(suffix(e))
    <3> HIDE DEF suffix
    <3> QED
      OBVIOUS
  <2>3. e = end => (m \in Ends <=> MarkerEndsAt(name, m, e))
    <3> HIDE DEF end
    <3> QED
      OBVIOUS
  <2> HIDE DEF Found, Ends, suffix, end, last, Named
  <2>4. Named /\ e = end /\ MarkerEndsAt(name, m, e) <=> Named /\ e = end /\ m \in Ends
    BY <2>3
  <2> QED
    BY <2>1, <2>2, <2>4 DEF last
<1>7. ASSUME NEW f \in Found PROVE f = <<f[1], f[2]>> /\ f[1] \in 1 .. Len(name) /\ f[2] \in Markers
  OBVIOUS
<1>8. Found = {} <=> ~Named \/ Ends = {}
  <2>1. ASSUME Named, NEW m \in Ends PROVE Found # {}
    <3>1. end \in 1 .. Len(name) /\ m \in Markers
      BY <1>5, <2>1
    <3>2. <<end, m>> \in Found
      <4> HIDE DEF Found, Ends, end, Named
      <4> QED
        BY <1>6, <2>1, <3>1
    <3> HIDE DEF Found
    <3> QED
      BY <3>2
  <2>2. ASSUME NEW f \in Found PROVE Named /\ f[2] \in Ends
    <3>1. f = <<f[1], f[2]>> /\ f[1] \in 1 .. Len(name) /\ f[2] \in Markers
      BY <1>7, <2>2
    <3> HIDE DEF Found, Ends, end, Named
    <3> QED
      BY <1>6, <2>2, <3>1
  <2> HIDE DEF Found, Ends, Named
  <2> QED
    BY <2>1, <2>2
<1>9. CASE IsKind(name) \/ Found = {}
  <2>1. IsKind(name) \/ last = 0 \/ name[last] \notin Kinds \/ Ends = {}
    BY <1>8, <1>9
  <2> QED
    BY <1>1, <1>2, <1>9, <2>1
<1>10. CASE ~IsKind(name) /\ Found # {}
  <2>1. Named /\ Ends # {}
    BY <1>8, <1>10
  <2>2. PICK m \in Ends : IsLongest(m)
    <3> DEFINE Lengths == {Len(n) : n \in Ends}
    <3>1. end \in Nat /\ Lengths \subseteq 0 .. end /\ Lengths # {}
      <4>1. \A n \in Ends : end \in 1 .. Len(name) /\ Len(n) \in 1 .. end
        BY <1>5, <2>1
      <4> HIDE DEF end, Ends
      <4>2. PICK o \in Ends : TRUE
        BY <2>1
      <4>3. end \in Nat
        BY <1>3, <4>1, <4>2
      <4>4. Len(o) \in Lengths
        BY <4>2
      <4>5. Lengths \subseteq 0 .. end
        BY <4>1, <4>3
      <4> QED
        BY <4>3, <4>4, <4>5
    <3>2. PICK i \in Lengths : \A j \in Lengths : j <= i
      <4> HIDE DEF Lengths, end
      <4> QED
        BY <3>1, GreatestElement
    <3>3. PICK n \in Ends : Len(n) = i
      BY <3>2
    <3>4. IsLongest(n)
      <4> HIDE DEF end
      <4> QED
        BY <3>2, <3>3
    <3> QED
      BY <3>4
  <2>3. ASSUME NEW n \in Ends, IsLongest(n) PROVE n = m
    <3>1. /\ Len(n) \in 1 .. end /\ n = SubSeq(name, end - Len(n) + 1, end)
          /\ Len(m) \in 1 .. end /\ m = SubSeq(name, end - Len(m) + 1, end)
          /\ end \in 1 .. Len(name)
      BY <1>5, <2>1, <2>2, <2>3
    <3>2. Len(n) >= Len(m) /\ Len(m) >= Len(n)
      BY <2>2, <2>3
    <3> HIDE DEF end
    <3>3. Len(n) = Len(m)
      <4>1. \A i, j \in 1 .. end : i >= j /\ j >= i => i = j
        BY <1>3, <3>1
      <4> QED
        BY <3>1, <3>2, <4>1, Zenon
    <3> QED
      BY <3>1, <3>3
  <2>4. longest = m
    <3> HIDE DEF Ends, IsLongest
    <3> QED
      BY <2>2, <2>3
  <2>5. end \in 1 .. Len(name) /\ m \in Markers
    BY <1>5, <2>1, <2>2
  <2>6. <<end, m>> \in Found /\ Stripped(suffix(end)) = <<name[last]>>
    <3>1. <<end, m>> \in Found
      <4> HIDE DEF Found, Ends, end, Named, last, suffix
      <4> QED
        BY <1>6, <2>1, <2>2, <2>5
    <3> HIDE DEF Found, Ends, end, Named, last, suffix
    <3> QED
      BY <1>6, <2>5, <3>1
  <2>7. ASSUME NEW g \in Found PROVE g = <<end, g[2]>> /\ g[2] \in Ends
    <3>1. g = <<g[1], g[2]>> /\ g[1] \in 1 .. Len(name) /\ g[2] \in Markers
      BY <1>7, <2>7
    <3> HIDE DEF Found, Ends, end, Named, last, suffix
    <3>2. g[1] = end /\ g[2] \in Ends
      BY <1>6, <2>7, <3>1
    <3> QED
      BY <3>1, <3>2
  <2>8. IsBest(<<end, m>>)
    <3> SUFFICES ASSUME NEW g \in Found PROVE end = g[1] /\ Len(m) >= Len(g[2])
      OBVIOUS
    <3>1. g = <<end, g[2]>> /\ g[2] \in Ends
      BY <2>7
    <3>2. Len(m) >= Len(g[2])
      BY <2>2, <3>1
    <3> HIDE DEF end, Found, Ends
    <3> QED
      BY <3>1, <3>2
  <2>9. ASSUME NEW f \in Found, IsBest(f) PROVE f = <<end, m>>
    <3>1. f = <<end, f[2]>> /\ f[2] \in Ends
      BY <2>7, <2>9
    <3>2. f[1] > end \/ (f[1] = end /\ Len(f[2]) >= Len(m))
      <4>1. \A g \in Found : f[1] > g[1] \/ (f[1] = g[1] /\ Len(f[2]) >= Len(g[2]))
        BY <2>9
      <4> HIDE DEF Found, end, Ends
      <4> QED
        BY <2>6, <4>1
    <3>3. Len(f[2]) >= Len(m)
      <4> HIDE DEF Found, Ends, end
      <4> QED
        BY <2>5, <3>1, <3>2
    <3>4. IsLongest(f[2])
      <4> SUFFICES ASSUME NEW n \in Ends PROVE Len(f[2]) >= Len(n)
        OBVIOUS
      <4>1. Len(m) >= Len(n)
        BY <2>2
      <4>2. Len(m) \in Nat /\ Len(n) \in Nat /\ Len(f[2]) \in Nat
        <5>1. \A o \in Ends : Len(o) \in 1 .. end
          BY <1>5, <2>1
        <5> HIDE DEF Ends, end, Found
        <5> QED
          BY <1>3, <2>2, <2>5, <3>1, <5>1
      <4> HIDE DEF Ends, end, Found
      <4> QED
        BY <3>3, <4>1, <4>2
    <3>5. f[2] = m
      <4> HIDE DEF Ends, end, Found, IsLongest
      <4> QED
        BY <2>3, <3>1, <3>4
    <3> HIDE DEF end
    <3> QED
      BY <3>1, <3>5
  <2>10. best = <<end, m>>
    <3> HIDE DEF Found, end, IsBest
    <3> QED
      BY <2>6, <2>8, <2>9
  <2>11. best[1] = end /\ best[2] = m
    <3> HIDE DEF best, end
    <3> QED
      BY <2>10
  <2> HIDE DEF best, longest, end, last, suffix, Found, Ends
  <2>12. RegistryName(name) = [name |-> <<name[last]>>, marker |-> m, cut |-> end - Len(m)]
    BY <1>1, <1>10, <2>6, <2>11
  <2>13. FirewallName(name) = [name |-> <<name[last]>>, marker |-> m, cut |-> end - Len(m)]
    BY <1>2, <1>10, <2>1, <2>4
  <2> QED
    BY <2>12, <2>13
<1> QED
  BY <1>9, <1>10

-----------------------------------------------------------------------------
(* Paths                                                                    *)

\* What a step makes of a path along the way.
Follows(at, step, start, p) ==
  /\ at \in [0 .. Len(p) -> Tokens]
  /\ at[0] = start
  /\ \A i \in 1 .. Len(p) : at[i] = step[at[i - 1]][p[i]]

LEMMA AlongIs ==
  ASSUME NEW step \in [Tokens -> [STRING -> Tokens]], NEW start \in Tokens, NEW p \in Tokens,
         NEW at, at = Along(step, start, p)
  PROVE  Follows(at, step, start, p)
<1> DEFINE Parts == STRING
<1>1. Len(p) \in Nat /\ p \in [1 .. Len(p) -> Parts]
  <2>1. p \in Seq(Parts)
    BY DEF Tokens
  <2> HIDE DEF Parts
  <2> QED
    BY <2>1, LenProperties
<1>2. step \in [Tokens -> [Parts -> Tokens]]
  OBVIOUS
<1> HIDE DEF Parts
<1>3. PICK f \in [0 .. Len(p) -> Tokens] :
        f[0] = start /\ \A i \in 1 .. Len(p) : f[i] = step[f[i - 1]][p[i]]
  <2>1. Stepping(Tokens, Len(p), step, start, p) # {}
    BY <1>1, <1>2, StepsExist, Zenon
  <2> QED
    BY <2>1 DEF Stepping
<1>4. f = [i \in 0 .. Len(p) |-> IF i = 0 THEN start ELSE step[f[i - 1]][p[i]]]
  BY <1>1, <1>3
<1>5. at = [i \in 0 .. Len(p) |-> IF i = 0 THEN start ELSE step[at[i - 1]][p[i]]]
  BY <1>4 DEF Along
<1>6. at[0] = start /\ \A i \in 1 .. Len(p) : at[i] = step[at[i - 1]][p[i]]
  BY <1>1, <1>5
<1> DEFINE S == {i \in 0 .. Len(p) : at[i] \in Tokens}
<1>7. 0 \in S
  BY <1>1, <1>6
<1>8. ASSUME NEW i \in 0 .. Len(p) - 1, i \in S PROVE i + 1 \in S
  <2>1. i + 1 \in 1 .. Len(p) /\ p[i + 1] \in Parts
    BY <1>1
  <2>2. at[i] \in Tokens
    BY <1>8
  <2> QED
    BY <1>2, <1>6, <2>1, <2>2
<1>9. 0 .. Len(p) \subseteq S
  <2> HIDE DEF S
  <2> QED
    BY <1>1, <1>7, <1>8, InductionTo
<1> QED
  BY <1>5, <1>6, <1>9 DEF Follows

LEMMA KeepType == Keep \in [Tokens -> [STRING -> Tokens]]
  BY AppendProperties DEF Keep, Tokens

LEMMA CollapseType == Collapse \in [Tokens -> [STRING -> Tokens]]
<1> DEFINE Parts == STRING
<1> HIDE DEF Parts
<1>1. \A s \in Seq(Parts) : s # <<>> => Front(s) \in Seq(Parts)
  BY SubSeqProperties, LenProperties DEF Front
<1>2. \A s \in Seq(Parts), x \in Parts : Append(s, x) \in Seq(Parts)
  BY AppendProperties
<1> QED
  BY <1>1, <1>2 DEF Collapse, Tokens, Parts

LEMMA WalkType == Walk \in [Tokens -> [STRING -> Tokens]]
<1> DEFINE Parts == STRING
<1> HIDE DEF Parts
<1>1. \A s \in Seq(Parts) : s # <<>> => Front(s) \in Seq(Parts)
  BY SubSeqProperties, LenProperties DEF Front
<1>2. \A s \in Seq(Parts), x \in Parts : Append(s, x) \in Seq(Parts)
  BY AppendProperties
<1>3. Target \in Seq(Parts)
  <2>1. Seq(STRING \ {".", ".."}) \subseteq Seq(STRING)
    BY SeqMonotonic, Zenon
  <2> QED
    BY <2>1, RootAssumption DEF Parts
<1> QED
  BY <1>1, <1>2, <1>3 DEF Walk, Tokens, Parts

LEMMA KeptType == \A p \in Tokens : Kept(p) \in Tokens
<1> TAKE p \in Tokens
<1>1. <<>> \in Tokens /\ Len(p) \in Nat
  BY DEF Tokens
<1> DEFINE at == Along(Keep, <<>>, p)
<1> HIDE DEF at
<1>2. at \in [0 .. Len(p) -> Tokens]
  BY <1>1, KeepType, AlongIs DEF at, Follows
<1> QED
  BY <1>1, <1>2 DEF Kept, at

(* The root, both forms, and the prefix of a path.                          *)
LEMMA RootsAre ==
  /\ Link \in Tokens /\ Target \in Tokens /\ Below \in Tokens
  /\ Given \in Tokens /\ Real \in Tokens
  /\ Len(Given) = Len(Link) + Len(Below) /\ Len(Real) = Len(Target) + Len(Below)
  /\ Len(Link) >= 1 /\ Len(Real) >= 1
  /\ \A i \in 1 .. Len(Given) : Given[i] # ".."
  /\ \A i \in 1 .. Len(Real) : Real[i] # ".."
<1> DEFINE Name == STRING \ {".", ".."}
<1>1. Name \subseteq STRING /\ \A x \in Name : x # ".."
  OBVIOUS
<1>2. Link \in Seq(Name) /\ Target \in Seq(Name) /\ Below \in Seq(Name)
  BY RootAssumption
<1> HIDE DEF Name
<1>3. Given \in Seq(Name) /\ Real \in Seq(Name)
  BY <1>2, ConcatProperties DEF Given, Real
<1>4. Seq(Name) \subseteq Tokens
  BY <1>1, SeqMonotonic DEF Tokens
<1>5. \A s \in Seq(Name) : \A i \in 1 .. Len(s) : s[i] \in Name
  BY LenProperties
<1>6. Len(Given) = Len(Link) + Len(Below) /\ Len(Real) = Len(Target) + Len(Below)
  BY <1>2, <1>4, JoinIs DEF Given, Real
<1>7. Len(Link) >= 1 /\ Len(Real) >= 1
  BY <1>2, <1>3, <1>4, TokensAre, RootAssumption
<1> QED
  BY <1>1, <1>2, <1>3, <1>4, <1>5, <1>6, <1>7

LEMMA PrefixIs ==
  ASSUME NEW s \in Tokens, NEW t \in Tokens
  PROVE  IsPrefix(s, t) <=> Len(s) <= Len(t) /\ \A i \in 1 .. Len(s) : s[i] = t[i]
<1>1. CASE Len(s) <= Len(t)
  <2>1. Len(s) \in Nat /\ Len(t) \in Nat /\ 1 \in Nat \ {0} /\ 1 <= Len(s) + 1
        /\ Len(s) \in 0 .. Len(s) /\ Len(s) \in 0 .. Len(t)
    BY <1>1, TokensAre
  <2>2. /\ SubSeq(s, 1, Len(s)) \in Tokens /\ Len(SubSeq(s, 1, Len(s))) = Len(s) - 1 + 1
        /\ \A i \in 1 .. Len(s) - 1 + 1 : SubSeq(s, 1, Len(s))[i] = s[1 + i - 1]
    BY <2>1, SliceIs
  <2>3. /\ SubSeq(t, 1, Len(s)) \in Tokens /\ Len(SubSeq(t, 1, Len(s))) = Len(s) - 1 + 1
        /\ \A i \in 1 .. Len(s) - 1 + 1 : SubSeq(t, 1, Len(s))[i] = t[1 + i - 1]
    BY <2>1, SliceIs
  <2>4. /\ Len(s) - 1 + 1 = Len(s)
        /\ \A i \in 1 .. Len(s) : 1 + i - 1 = i
    BY <2>1
  <2>5. SubSeq(s, 1, Len(s)) = SubSeq(t, 1, Len(s)) <=> \A i \in 1 .. Len(s) : s[i] = t[i]
    BY <2>2, <2>3, <2>4, SameTokens
  <2> QED
    BY <1>1, <2>5 DEF IsPrefix
<1>2. CASE ~(Len(s) <= Len(t))
  BY <1>2 DEF IsPrefix
<1> QED
  BY <1>1, <1>2

\* One step of normpath(): ".." can only be left at the bottom of the stack.
LEMMA CollapseStep ==
  ASSUME NEW s \in Tokens, HasParent(s) => StartsWith(s, ".."), NEW x \in STRING,
         NEW r, r = Collapse[s][x]
  PROVE  /\ r \in Tokens
         /\ HasParent(r) => StartsWith(r, "..")
         /\ StartsWith(s, "..") => StartsWith(r, "..")
         /\ StartsWith(r, "..") /\ ~StartsWith(s, "..") => s = <<>> /\ x = ".."
         /\ ~HasParent(s) /\ x # ".." => r = Append(s, x)
<1> USE DEF HasParent, StartsWith
<1>1. r = IF x = ".." /\ s # <<>> /\ s[Len(s)] # ".." THEN Front(s) ELSE Append(s, x)
  BY DEF Collapse
<1>2. DOMAIN s = 1 .. Len(s) /\ Len(s) \in Nat /\ (s # <<>> => Len(s) >= 1)
  BY TokensAre
<1>3. CASE r = Front(s) /\ x = ".." /\ s # <<>> /\ s[Len(s)] # ".."
  <2>1. /\ r \in Tokens /\ Len(r) = Len(s) - 1 /\ DOMAIN r = 1 .. Len(r)
        /\ \A i \in 1 .. Len(s) - 1 : r[i] = s[i]
    BY <1>3, FrontIs, TokensAre
  <2>2. r = <<>> \/ Len(r) >= 1
    BY <2>1, TokensAre
  <2>3. s[1] = ".." => Len(s) # 1
    BY <1>3
  <2>4. s[1] = ".." => r # <<>> /\ r[1] = ".."
    <3> SUFFICES ASSUME s[1] = ".." PROVE r # <<>> /\ r[1] = ".."
      OBVIOUS
    <3>1. Len(s) >= 2 /\ Len(r) >= 1
      BY <1>2, <1>3, <2>1, <2>3
    <3>2. 1 \in 1 .. Len(s) - 1 /\ r # <<>>
      BY <1>2, <3>1, EmptyIs
    <3> QED
      BY <2>1, <3>2
  <2> QED
    BY <1>2, <1>3, <2>1, <2>2, <2>4
<1>4. CASE r = Append(s, x) /\ ~(x = ".." /\ s # <<>> /\ s[Len(s)] # "..")
  <2>1. /\ r \in Tokens /\ Len(r) = Len(s) + 1 /\ DOMAIN r = 1 .. Len(r) /\ r # <<>>
        /\ \A i \in 1 .. Len(s) : r[i] = s[i]
        /\ r[Len(s) + 1] = x
    BY <1>2, <1>4, AppendIs, TokensAre, EmptyIs
  <2>2. s # <<>> => r[1] = s[1]
    BY <1>2, <2>1
  <2>3. s = <<>> => r[1] = x
    <3>1. s = <<>> => Len(s) + 1 = 1
      BY EmptyIs
    <3> QED
      BY <2>1, <3>1
  <2>4. \A i \in 1 .. Len(r) : r[i] = ".." => x = ".." \/ \E j \in 1 .. Len(s) : s[j] = ".."
    BY <1>2, <2>1
  <2>5. x = ".." /\ s # <<>> => s[Len(s)] = ".." /\ Len(s) \in DOMAIN s
    BY <1>2, <1>4
  <2> QED
    BY <1>2, <1>4, <2>1, <2>2, <2>3, <2>4, <2>5
<1> QED
  BY <1>1, <1>3, <1>4

\* Where a walk is when normpath() has come to r: inside at r, or just outside.
Matches(loc, r) == IF StartsWith(r, "..") THEN loc = Front(Real) ELSE loc = Real \o r

\* One step of a walk inside the worktree, beside the same step of normpath().
LEMMA WalkBeside ==
  ASSUME NEW s \in Tokens, ~HasParent(s), NEW x \in STRING,
         NEW r, r = Collapse[s][x]
  PROVE  Matches(Walk[Real \o s][x], r)
<1>1. /\ r \in Tokens
      /\ HasParent(r) => StartsWith(r, "..")
      /\ StartsWith(r, "..") /\ ~StartsWith(s, "..") => s = <<>> /\ x = ".."
      /\ x # ".." => r = Append(s, x)
  BY CollapseStep
<1>2. DOMAIN s = 1 .. Len(s) /\ Len(s) \in Nat /\ (s # <<>> => Len(s) >= 1)
  BY TokensAre
<1>3. ~StartsWith(s, "..")
  BY <1>2 DEF StartsWith, HasParent
<1> DEFINE at == Real \o s
           t == Real \o r
           w == Walk[at][x]
<1>9. Real \in Tokens /\ Len(Real) \in Nat /\ Len(Real) >= 1
  BY RootsAre, TokensAre
<1>10. /\ t \in Tokens /\ Len(t) = Len(Real) + Len(r) /\ Len(r) \in Nat
       /\ \A i \in 1 .. Len(Real) : t[i] = Real[i]
       /\ \A i \in 1 .. Len(r) : t[Len(Real) + i] = r[i]
  BY <1>1, <1>9, JoinIs, TokensAre
<1>11. /\ at \in Tokens /\ Len(at) = Len(Real) + Len(s)
       /\ \A i \in 1 .. Len(Real) : at[i] = Real[i]
       /\ \A i \in 1 .. Len(s) : at[Len(Real) + i] = s[i]
  BY <1>9, JoinIs
<1>12. s = <<>> => at = Real
  BY <1>9, ConcatEmptySeq DEF Tokens
<1>13. Append(at, x) = Real \o Append(s, x)
  BY <1>9, AppendJoin
<1> SUFFICES IF StartsWith(r, "..") THEN w = Front(Real) ELSE w = t
  BY DEF Matches
<1> HIDE DEF at, t
<1>4. at # <<>>
  BY <1>2, <1>9, <1>11, EmptyIs
<1>5. w = IF x = ".." THEN Front(at) ELSE IF Append(at, x) = Link THEN Target ELSE Append(at, x)
  BY <1>4, <1>11 DEF Walk
<1>6. CASE x = ".." /\ s = <<>>
  <2>1. r = <<"..">>
    BY <1>6 DEF Collapse, Tokens
  <2>2. at = Real
    BY <1>6, <1>12
  <2>3. StartsWith(r, "..")
    BY <2>1 DEF StartsWith
  <2> QED
    BY <1>5, <1>6, <2>2, <2>3
<1>7. CASE x = ".." /\ s # <<>>
  <2>1. Len(s) \in DOMAIN s /\ s[Len(s)] # ".." /\ r = Front(s)
    BY <1>2, <1>7 DEF Collapse, HasParent
  <2>2. Len(r) = Len(s) - 1 /\ \A i \in 1 .. Len(s) - 1 : r[i] = s[i]
    BY <1>7, <2>1, FrontIs
  <2>4. /\ Front(at) \in Tokens /\ Len(Front(at)) = Len(at) - 1
        /\ \A i \in 1 .. Len(at) - 1 : Front(at)[i] = at[i]
    BY <1>4, <1>11, FrontIs
  <2>5. Len(Front(at)) = Len(t)
    <3>1. Len(Front(at)) = Len(at) - 1 /\ Len(at) = Len(Real) + Len(s)
      BY <1>11, <2>4
    <3>2. Len(t) = Len(Real) + Len(r) /\ Len(r) = Len(s) - 1
      BY <1>10, <2>2
    <3>3. Len(Real) \in Nat /\ Len(s) \in Nat
      BY <1>2, <1>9
    <3> QED
      BY <3>1, <3>2, <3>3
  <2>6. ASSUME NEW i \in 1 .. Len(Front(at)) PROVE Front(at)[i] = t[i]
    <3>1. i \in 1 .. Len(at) - 1 /\ Front(at)[i] = at[i] /\ i \in Nat
      BY <1>2, <1>9, <1>11, <2>4
    <3>2. CASE i <= Len(Real)
      <4>1. i \in 1 .. Len(Real)
        BY <1>9, <3>1, <3>2
      <4> QED
        BY <1>10, <1>11, <3>1, <4>1
    <3>3. CASE i > Len(Real)
      <4>1. i - Len(Real) \in 1 .. Len(s) - 1 /\ i = Len(Real) + (i - Len(Real))
        BY <1>2, <1>9, <1>11, <3>1, <3>3
      <4> DEFINE j == i - Len(Real)
      <4>2. j \in 1 .. Len(s) /\ j \in 1 .. Len(r) /\ i = Len(Real) + j
        <5>1. Len(r) = Len(s) - 1 /\ Len(s) \in Nat /\ Len(Real) \in Nat /\ i \in Nat
          BY <1>2, <1>9, <2>2, <3>1
        <5> QED
          BY <4>1, <5>1
      <4> HIDE DEF j
      <4>3. at[i] = s[j] /\ t[i] = r[j] /\ r[j] = s[j]
        BY <1>10, <1>11, <1>2, <2>2, <4>2
      <4> QED
        BY <3>1, <4>3
    <3> QED
      BY <1>9, <3>1, <3>2, <3>3
  <2>7. Front(at) = t
    BY <1>10, <2>4, <2>5, <2>6, SameTokens
  <2> QED
    BY <1>1, <1>3, <1>5, <1>7, <2>7
<1>8. CASE x # ".."
  <2>1. r = Append(s, x) /\ ~StartsWith(r, "..")
    BY <1>1, <1>3, <1>8
  <2>2. Append(at, x) = t
    BY <1>8, <1>13, <2>1 DEF t
  <2>3. CASE Link = Target
    BY <1>5, <1>8, <2>1, <2>2, <2>3
  <2>4. CASE Link # Target
    <3>1. ~IsPrefix(Real, Link) /\ Link \in Tokens
      BY <2>4, RootAssumption, RootsAre
    <3>2. t # Link
      <4>1. t \in Tokens /\ Real \in Tokens /\ Len(Real) <= Len(t)
        <5>1. t \in Tokens /\ Real \in Tokens
          BY <1>9, <1>10
        <5>2. Len(t) = Len(Real) + Len(r) /\ Len(r) \in Nat /\ Len(Real) \in Nat
          BY <1>9, <1>10
        <5>3. Len(Real) <= Len(t)
          <6>1. \A a, b, c \in Nat : c = a + b => a <= c
            OBVIOUS
          <6>2. Len(t) \in Nat
            BY <5>1, TokensAre
          <6> QED
            BY <5>2, <6>1, <6>2, Zenon
        <5> QED
          BY <5>1, <5>3
      <4>2. \A i \in 1 .. Len(Real) : Real[i] = t[i]
        BY <1>10
      <4>3. IsPrefix(Real, t)
        BY <4>1, <4>2, PrefixIs, Zenon
      <4> QED
        BY <3>1, <4>3
    <3> QED
      BY <1>5, <1>8, <2>1, <2>2, <3>2
  <2> QED
    BY <2>3, <2>4
<1> QED
  BY <1>6, <1>7, <1>8

LEMMA WholeIs == \A s \in Tokens : SubSeq(s, 1, Len(s)) = s
<1> TAKE s \in Tokens
<1> DEFINE w == SubSeq(s, 1, Len(s))
<1>1. Len(s) \in Nat /\ 1 \in Nat \ {0} /\ Len(s) \in 0 .. Len(s) /\ 1 <= Len(s) + 1
  BY TokensAre
<1>2. /\ w \in Tokens /\ Len(w) = Len(s) - 1 + 1
      /\ \A i \in 1 .. Len(s) - 1 + 1 : w[i] = s[1 + i - 1]
  BY <1>1, SliceIs
<1>3. Len(s) - 1 + 1 = Len(s) /\ \A i \in 1 .. Len(s) : 1 + i - 1 = i
  BY <1>1
<1>4. Len(w) = Len(s) /\ \A i \in 1 .. Len(w) : w[i] = s[i]
  BY <1>2, <1>3
<1> HIDE DEF w
<1>5. w = s
  BY <1>2, <1>4, SameTokens
<1> QED
  BY <1>5 DEF w

\* A path without ".." is what normpath() makes of it, and one that starts with ".."
\* still does.
LEMMA NormpathIs ==
  ASSUME NEW p \in Tokens
  PROVE  /\ Normpath(p) \in Tokens
         /\ HasParent(Normpath(p)) => StartsWith(Normpath(p), "..")
         /\ ~HasParent(p) => Normpath(p) = p
         /\ StartsWith(p, "..") => StartsWith(Normpath(p), "..")
<1> DEFINE stack == Along(Collapse, <<>>, p)
<1> HIDE DEF stack
<1>1. /\ stack \in [0 .. Len(p) -> Tokens]
      /\ stack[0] = <<>>
      /\ \A i \in 1 .. Len(p) : stack[i] = Collapse[stack[i - 1]][p[i]]
  <2>1. Follows(stack, Collapse, <<>>, p)
    BY CollapseType, AlongIs, EmptyIs DEF stack
  <2> QED
    BY <2>1 DEF Follows
<1>2. /\ Len(p) \in Nat /\ DOMAIN p = 1 .. Len(p) /\ (p # <<>> => Len(p) >= 1)
      /\ \A i \in 1 .. Len(p) : p[i] \in STRING
  BY TokensAre
<1> DEFINE Good(j) ==
             /\ HasParent(stack[j]) => StartsWith(stack[j], "..")
             /\ ~HasParent(p) => stack[j] = SubSeq(p, 1, j)
             /\ StartsWith(p, "..") /\ j >= 1 => StartsWith(stack[j], "..")
           S == {j \in 0 .. Len(p) : Good(j)}
<1>3. 0 \in S
  <2>1. ~HasParent(<<>>)
    BY DEF HasParent
  <2>2. SubSeq(p, 1, 0) = <<>>
    <3>1. 1 \in Nat \ {0} /\ 0 \in 0 .. Len(p) /\ 1 <= 0 + 1 /\ 0 - 1 + 1 = 0
      BY <1>2
    <3>2. SubSeq(p, 1, 0) \in Tokens /\ Len(SubSeq(p, 1, 0)) = 0
      BY <3>1, SliceIs
    <3> QED
      BY <3>2, EmptyIs, Zenon
  <2>3. Good(0)
    BY <1>1, <2>1, <2>2
  <2> QED
    BY <1>2, <2>3
<1>4. ASSUME NEW j \in 0 .. Len(p) - 1, j \in S PROVE j + 1 \in S
  <2>1. /\ j \in Nat /\ j + 1 \in 1 .. Len(p) /\ j + 1 - 1 = j /\ j \in 0 .. Len(p)
        /\ j + 1 \in 0 .. Len(p)
    BY <1>2
  <2> DEFINE s == stack[j]
             r == stack[j + 1]
             x == p[j + 1]
  <2>2. s \in Tokens /\ x \in STRING /\ r = Collapse[s][x]
    <3>1. stack[j] \in Tokens
      BY <1>1, <2>1
    <3>2. stack[j + 1] = Collapse[stack[j + 1 - 1]][p[j + 1]]
      BY <1>1, <2>1
    <3> QED
      BY <1>2, <2>1, <3>1, <3>2
  <2>3. Good(j)
    BY <1>4
  <2>4. HasParent(s) => StartsWith(s, "..")
    BY <2>3
  <2>5. /\ HasParent(r) => StartsWith(r, "..")
        /\ StartsWith(s, "..") => StartsWith(r, "..")
        /\ ~HasParent(s) /\ x # ".." => r = Append(s, x)
    <3> HIDE DEF s, r, x
    <3> QED
      BY <2>2, <2>4, CollapseStep
  <2>6. ~HasParent(p) => r = SubSeq(p, 1, j + 1)
    <3> SUFFICES ASSUME ~HasParent(p) PROVE r = SubSeq(p, 1, j + 1)
      OBVIOUS
    <3>1. s = SubSeq(p, 1, j) /\ x # ".." /\ \A i \in 1 .. Len(p) : p[i] # ".."
      BY <1>2, <2>1, <2>3 DEF HasParent
    <3>2. ~HasParent(s)
      <4>1. /\ Len(s) = j - 1 + 1 /\ \A i \in 1 .. j - 1 + 1 : s[i] = p[1 + i - 1]
        BY <2>1, <3>1, SliceIs
      <4>2. DOMAIN s = 1 .. Len(s)
        BY <2>2, TokensAre
      <4>3. j - 1 + 1 = j /\ (\A i \in 1 .. j : 1 + i - 1 = i /\ i \in 1 .. Len(p))
        BY <1>2, <2>1
      <4> HIDE DEF s
      <4> QED
        BY <3>1, <4>1, <4>2, <4>3 DEF HasParent
    <3>3. Append(s, x) = SubSeq(p, 1, j + 1)
      BY <2>1, <3>1, ExtendIs
    <3> QED
      BY <2>5, <3>1, <3>2, <3>3
  <2>7. StartsWith(p, "..") => StartsWith(r, "..")
    <3> SUFFICES ASSUME StartsWith(p, "..") PROVE StartsWith(r, "..")
      OBVIOUS
    <3>1. CASE j = 0
      <4>1. s = <<>> /\ x = ".."
        BY <1>1, <3>1 DEF StartsWith
      <4>2. r = <<"..">>
        BY <2>2, <4>1 DEF Collapse
      <4> HIDE DEF r
      <4> QED
        BY <4>2 DEF StartsWith
    <3>2. CASE j >= 1
      BY <2>3, <2>5, <3>2
    <3> QED
      BY <2>1, <3>1, <3>2
  <2>8. Good(j + 1)
    BY <2>5, <2>6, <2>7
  <2> QED
    BY <2>1, <2>8
<1>5. 0 .. Len(p) \subseteq S
  <2> HIDE DEF S
  <2> QED
    BY <1>2, <1>3, <1>4, InductionTo
<1>6. Good(Len(p)) /\ stack[Len(p)] \in Tokens
  BY <1>1, <1>2, <1>5
<1>7. Normpath(p) = stack[Len(p)]
  BY DEF Normpath, stack
<1>8. ~HasParent(p) => Normpath(p) = p
  BY <1>6, <1>7, WholeIs
<1>9. StartsWith(p, "..") => Len(p) >= 1
  BY <1>2 DEF StartsWith
<1> QED
  BY <1>6, <1>7, <1>8, <1>9

EndsAt(at, m, p, n) ==
  IF StartsWith(n, "..") THEN \E i \in m .. Len(p) : ~Inside(at[i])
  ELSE at[Len(p)] = Real \o n

\* From the root on, a walk ends where normpath() says, or is outside on its way.
LEMMA Resolve ==
  ASSUME NEW start \in Tokens, NEW p \in Tokens,
         NEW at, Follows(at, Walk, start, p),
         NEW m \in 0 .. Len(p), at[m] = Real,
         NEW n, n = Normpath(SubSeq(p, m + 1, Len(p)))
  PROVE  n \in Tokens /\ EndsAt(at, m, p, n)
<1> DEFINE rest == SubSeq(p, m + 1, Len(p))
           stack == Along(Collapse, <<>>, rest)
<1> HIDE DEF rest, stack
<1>1. Len(p) \in Nat /\ m + 1 \in Nat \ {0} /\ Len(p) \in 0 .. Len(p) /\ m + 1 <= Len(p) + 1
  BY TokensAre
<1>2. /\ rest \in Tokens /\ Len(rest) = Len(p) - m
      /\ \A i \in 1 .. Len(p) - m : rest[i] = p[m + i]
  <2>1. /\ rest \in Tokens /\ Len(rest) = Len(p) - (m + 1) + 1
        /\ \A i \in 1 .. Len(p) - (m + 1) + 1 : rest[i] = p[(m + 1) + i - 1]
    BY <1>1, SliceIs DEF rest
  <2>2. /\ Len(p) - (m + 1) + 1 = Len(p) - m
        /\ \A i \in 1 .. Len(p) - m : (m + 1) + i - 1 = m + i
    BY <1>1
  <2> QED
    BY <1>1, <2>1, <2>2
<1>3. /\ at \in [0 .. Len(p) -> Tokens]
      /\ \A i \in 1 .. Len(p) : at[i] = Walk[at[i - 1]][p[i]]
  BY DEF Follows
<1>4. /\ stack \in [0 .. Len(rest) -> Tokens]
      /\ stack[0] = <<>>
      /\ \A i \in 1 .. Len(rest) : stack[i] = Collapse[stack[i - 1]][rest[i]]
  <2>1. Follows(stack, Collapse, <<>>, rest)
    BY <1>2, CollapseType, AlongIs, EmptyIs DEF stack
  <2> QED
    BY <2>1 DEF Follows
<1>5. Len(rest) \in Nat /\ m \in Nat
  BY <1>1, <1>2
<1> DEFINE Good(j) ==
             /\ HasParent(stack[j]) => StartsWith(stack[j], "..")
             /\ IF StartsWith(stack[j], "..") THEN \E i \in m .. m + j : at[i] = Front(Real)
                ELSE at[m + j] = Real \o stack[j]
           S == {j \in 0 .. Len(rest) : Good(j)}
<1>6. 0 \in S
  <2>1. ~HasParent(<<>>) /\ ~StartsWith(<<>>, "..")
    BY EmptyIs, TokensAre DEF HasParent, StartsWith
  <2>2. Real \o <<>> = Real
    BY RootsAre, ConcatEmptySeq DEF Tokens
  <2>3. m + 0 = m
    BY <1>5
  <2>4. Good(0)
    BY <1>4, <2>1, <2>2, <2>3
  <2> QED
    BY <1>5, <2>4
<1>7. ASSUME NEW j \in 0 .. Len(rest) - 1, j \in S PROVE j + 1 \in S
  <2>1. /\ j + 1 \in 1 .. Len(rest) /\ m + j + 1 \in 1 .. Len(p) /\ j + 1 - 1 = j
        /\ (m + j + 1) - 1 = m + j /\ m + (j + 1) = m + j + 1
    BY <1>1, <1>2, <1>5
  <2> DEFINE x == rest[j + 1]
  <2>2. x \in STRING /\ x = p[m + j + 1] /\ stack[j] \in Tokens
    <3>1. rest[j + 1] = p[m + (j + 1)] /\ rest[j + 1] \in STRING
      BY <1>2, <2>1, TokensAre
    <3> QED
      <4>1. j \in 0 .. Len(rest) /\ m + (j + 1) = m + j + 1
        BY <1>5
      <4>2. stack[j] \in Tokens
        BY <1>4, <4>1
      <4>3. p[m + (j + 1)] = p[m + j + 1]
        BY <4>1
      <4> QED
        BY <3>1, <4>2, <4>3
  <2>3. stack[j + 1] = Collapse[stack[j]][x] /\ at[m + j + 1] = Walk[at[m + j]][x]
    BY <1>3, <1>4, <2>1, <2>2
  <2>4. Good(j)
    BY <1>7
  <2> HIDE DEF x
  <2>5. /\ HasParent(stack[j + 1]) => StartsWith(stack[j + 1], "..")
        /\ StartsWith(stack[j], "..") => StartsWith(stack[j + 1], "..")
    BY <2>2, <2>3, <2>4, CollapseStep
  <2>6. CASE StartsWith(stack[j], "..")
    <3>1. PICK i \in m .. m + j : at[i] = Front(Real)
      BY <2>4, <2>6
    <3>2. i \in m .. m + (j + 1)
      BY <1>5
    <3> QED
      BY <2>1, <2>5, <2>6, <3>1, <3>2
  <2>7. CASE ~StartsWith(stack[j], "..")
    <3>1. at[m + j] = Real \o stack[j] /\ ~HasParent(stack[j])
      BY <2>4, <2>7
    <3>2. Matches(at[m + j + 1], stack[j + 1])
      <4> DEFINE s == stack[j]
                 r == stack[j + 1]
                 w == at[m + j + 1]
      <4>1. s \in Tokens /\ ~HasParent(s) /\ x \in STRING /\ r = Collapse[s][x]
        BY <2>2, <2>3, <3>1
      <4>2. w = Walk[Real \o s][x]
        BY <2>3, <3>1
      <4> HIDE DEF s, r, w
      <4>3. Matches(Walk[Real \o s][x], r)
        BY <4>1, WalkBeside
      <4>4. Matches(w, r)
        BY <4>2, <4>3
      <4> QED
        BY <4>4 DEF r, w
    <3>3. m + (j + 1) \in m .. m + (j + 1)
      BY <1>5
    <3> QED
      BY <2>1, <2>5, <3>2, <3>3 DEF Matches
  <2> QED
    BY <2>6, <2>7
<1>8. 0 .. Len(rest) \subseteq S
  <2> HIDE DEF S
  <2> QED
    BY <1>5, <1>6, <1>7, InductionTo
<1>9. ~Inside(Front(Real))
  <2>1. Real \in Tokens /\ Real # <<>> /\ Len(Real) \in Nat
    BY RootsAre, TokensAre, EmptyIs
  <2>2. Front(Real) \in Tokens /\ Len(Front(Real)) = Len(Real) - 1
    BY <2>1, FrontIs
  <2>3. ~(Len(Real) <= Len(Front(Real)))
    BY <2>1, <2>2
  <2> QED
    BY <2>1, <2>2, <2>3, PrefixIs DEF Inside
<1>10. /\ n \in Tokens
      /\ IF StartsWith(n, "..") THEN \E i \in m .. Len(p) : at[i] = Front(Real)
         ELSE at[Len(p)] = Real \o n
  <2>1. Len(rest) \in 0 .. Len(rest) /\ m + Len(rest) = Len(p)
    BY <1>1, <1>2, <1>5
  <2>2. n = stack[Len(rest)]
    BY DEF Normpath, rest, stack
  <2> QED
    BY <1>4, <1>8, <2>1, <2>2
<1> QED
  BY <1>9, <1>10 DEF EndsAt

\* What the Firewall denies for the rest of a path, beside what the backend refuses for the
\* end of the walk.
LEMMA Judged ==
  ASSUME NEW start \in Tokens, NEW p \in Tokens,
         NEW at, Follows(at, Walk, start, p),
         NEW m \in 0 .. Len(p), at[m] = Real,
         NEW n, n = Normpath(SubSeq(p, m + 1, Len(p))),
         NEW end, end = at[Len(p)],
         NEW writes,
         NEW denies, denies <=> StartsWith(n, "..") \/ (writes /\ StartsWith(n, ".git")),
         NEW refuses,
         refuses <=> \/ ~Inside(end)
                     \/ writes /\ StartsWith(SubSeq(end, Len(Real) + 1, Len(end)), ".git")
  PROVE  /\ refuses => denies
         /\ denies => refuses \/ \E i \in m .. Len(p) : ~Inside(at[i])
<1>1. /\ n \in Tokens
      /\ IF StartsWith(n, "..") THEN \E i \in m .. Len(p) : ~Inside(at[i])
         ELSE end = Real \o n
  <2>1. n \in Tokens /\ EndsAt(at, m, p, n)
    BY Resolve
  <2> QED
    BY <2>1 DEF EndsAt
<1>2. CASE StartsWith(n, "..")
  BY <1>1, <1>2
<1>3. CASE ~StartsWith(n, "..")
  <2>1. end = Real \o n
    BY <1>1, <1>3
  <2>2. Real \in Tokens /\ Len(Real) \in Nat /\ Len(n) \in Nat
    BY <1>1, RootsAre, TokensAre
  <2>3. /\ end \in Tokens /\ Len(end) = Len(Real) + Len(n)
        /\ \A i \in 1 .. Len(Real) : end[i] = Real[i]
        /\ \A i \in 1 .. Len(n) : end[Len(Real) + i] = n[i]
    BY <1>1, <2>1, <2>2, JoinIs
  <2>4. Inside(end)
    <3>1. Len(Real) <= Len(end)
      BY <2>2, <2>3
    <3> QED
      BY <2>2, <2>3, <3>1, PrefixIs DEF Inside
  <2>5. SubSeq(end, Len(Real) + 1, Len(end)) = n
    <3> DEFINE a == Len(Real) + 1
               b == Len(end)
               w == SubSeq(end, a, b)
    <3>1. a \in Nat \ {0} /\ b \in 0 .. Len(end) /\ a <= b + 1 /\ b - a + 1 = Len(n)
      BY <2>2, <2>3
    <3>2. \A i \in 1 .. Len(n) : a + i - 1 = Len(Real) + i
      BY <2>2
    <3> HIDE DEF a, b
    <3>3. /\ w \in Tokens /\ Len(w) = b - a + 1
          /\ \A i \in 1 .. b - a + 1 : w[i] = end[a + i - 1]
      BY <2>3, <3>1, SliceIs
    <3> HIDE DEF w
    <3>4. w \in Tokens /\ Len(w) = Len(n) /\ \A i \in 1 .. Len(n) : w[i] = n[i]
      <4>1. Len(w) = Len(n) /\ w \in Tokens
        BY <3>1, <3>3
      <4>2. ASSUME NEW i \in 1 .. Len(n) PROVE w[i] = n[i]
        <5>1. w[i] = end[a + i - 1]
          BY <3>1, <3>3
        <5> QED
          BY <2>3, <3>2, <5>1
      <4> QED
        BY <4>1, <4>2
    <3>5. w = n
      BY <1>1, <3>4, SameTokens
    <3> QED
      BY <3>5 DEF w, a, b
  <2> QED
    BY <1>3, <2>4, <2>5
<1> QED
  BY <1>2, <1>3

\* What a step of a walk makes of a place.
LEMMA WalkIs ==
  ASSUME NEW s \in Tokens, NEW x \in STRING
  PROVE  /\ Walk[s][x] \in Tokens
         /\ x = ".." => Len(Walk[s][x]) <= Len(s)
         /\ x = ".." /\ s # <<>> => Len(Walk[s][x]) = Len(s) - 1
         /\ x # ".." => Walk[s][x] = IF Append(s, x) = Link THEN Target ELSE Append(s, x)
<1> DEFINE w == Walk[s][x]
<1>1. w = IF x = ".." THEN (IF s = <<>> THEN <<>> ELSE Front(s))
          ELSE IF Append(s, x) = Link THEN Target ELSE Append(s, x)
  BY DEF Walk
<1> HIDE DEF w
<1>2. Len(s) \in Nat /\ <<>> \in Tokens /\ Len(<<>>) = 0
  BY TokensAre, EmptyIs
<1>3. CASE x = ".." /\ s = <<>>
  BY <1>1, <1>2, <1>3 DEF w
<1>4. CASE x = ".." /\ s # <<>>
  <2>1. w = Front(s)
    BY <1>1, <1>4
  <2>2. w \in Tokens /\ Len(w) = Len(s) - 1
    BY <1>4, <2>1, FrontIs
  <2> QED
    BY <1>2, <1>4, <2>2 DEF w
<1>5. CASE x # ".."
  <2>1. w = IF Append(s, x) = Link THEN Target ELSE Append(s, x)
    BY <1>1, <1>5
  <2>2. w \in Tokens
    BY <2>1, AppendIs, RootsAre
  <2> QED
    BY <1>5, <2>1, <2>2 DEF w
<1> QED
  BY <1>3, <1>4, <1>5

\* Along the worktree's own path a walk meets no link but one that leads where it is.
LEMMA WalkOn ==
  ASSUME NEW k \in 0 .. Len(Real) - 1
  PROVE  Walk[SubSeq(Real, 1, k)][Real[k + 1]] = SubSeq(Real, 1, k + 1)
<1> DEFINE s == SubSeq(Real, 1, k)
           t == SubSeq(Real, 1, k + 1)
           x == Real[k + 1]
<1>1. /\ Real \in Tokens /\ Len(Real) \in Nat /\ k \in Nat /\ k \in 0 .. Len(Real)
      /\ k + 1 \in 0 .. Len(Real) /\ k + 1 \in 1 .. Len(Real) /\ 1 \in Nat \ {0}
      /\ 1 <= k + 1 /\ k + 1 <= Len(Real) /\ 1 <= (k + 1) + 1
  BY RootsAre, TokensAre
<1>2. s \in Tokens /\ t \in Tokens
  BY <1>1, SliceIs
<1>3. x \in STRING /\ x # ".."
  BY <1>1, RootsAre, TokensAre
<1>4. Append(s, x) = t
  BY <1>1, ExtendIs
<1>5. Len(t) = k + 1 /\ \A i \in 1 .. k + 1 : t[i] = Real[i]
  <2>1. Len(t) = (k + 1) - 1 + 1 /\ \A i \in 1 .. (k + 1) - 1 + 1 : t[i] = Real[1 + i - 1]
    BY <1>1, SliceIs
  <2>2. (k + 1) - 1 + 1 = k + 1 /\ \A i \in 1 .. k + 1 : 1 + i - 1 = i
    BY <1>1
  <2> HIDE DEF t
  <2> QED
    BY <2>1, <2>2
<1>6. IsPrefix(t, Real)
  <2> HIDE DEF t
  <2> QED
    BY <1>1, <1>2, <1>5, PrefixIs
<1>7. Walk[s][x] = IF t = Link THEN Target ELSE t
  <2> HIDE DEF s, t, x
  <2> QED
    BY <1>2, <1>3, <1>4, WalkIs
<1>8. t = Link => Link = Target
  BY <1>6, RootAssumption
<1> HIDE DEF s, t, x
<1>9. Walk[s][x] = t
  BY <1>7, <1>8
<1> QED
  BY <1>9 DEF s, t, x

\* A walk along the worktree's path, given or resolved, gets to the worktree.
LEMMA RealReached ==
  ASSUME NEW p \in Tokens, NEW at, Follows(at, Walk, <<>>, p), IsPrefix(Real, p)
  PROVE  Len(Real) \in 0 .. Len(p) /\ at[Len(Real)] = Real
<1>1. /\ Len(Real) \in Nat /\ Len(p) \in Nat /\ Real \in Tokens /\ Len(Real) <= Len(p)
      /\ \A i \in 1 .. Len(Real) : Real[i] = p[i]
  BY RootsAre, TokensAre, PrefixIs
<1> DEFINE S == {i \in 0 .. Len(Real) : at[i] = SubSeq(Real, 1, i)}
<1>2. 0 \in S
  <2>1. SubSeq(Real, 1, 0) = <<>>
    <3>1. 1 \in Nat \ {0} /\ 0 \in 0 .. Len(Real) /\ 1 <= 0 + 1 /\ 0 - 1 + 1 = 0
      BY <1>1
    <3>2. SubSeq(Real, 1, 0) \in Tokens /\ Len(SubSeq(Real, 1, 0)) = 0
      BY <1>1, <3>1, SliceIs
    <3> QED
      BY <3>2, EmptyIs, Zenon
  <2>2. 0 \in 0 .. Len(Real)
    BY <1>1
  <2>3. at[0] = <<>>
    BY DEF Follows
  <2>4. at[0] = SubSeq(Real, 1, 0)
    BY <2>1, <2>3, Zenon
  <2> QED
    BY <2>2, <2>4
<1>3. ASSUME NEW i \in 0 .. Len(Real) - 1, i \in S PROVE i + 1 \in S
  <2>1. /\ i + 1 \in 1 .. Len(p) /\ i + 1 \in 1 .. Len(Real) /\ i + 1 - 1 = i
        /\ i + 1 \in 0 .. Len(Real)
    BY <1>1
  <2>2. at[i + 1] = Walk[at[i]][p[i + 1]] /\ p[i + 1] = Real[i + 1]
    BY <1>1, <2>1 DEF Follows
  <2>3. at[i + 1] = SubSeq(Real, 1, i + 1)
    BY <1>3, <2>2, WalkOn
  <2> QED
    BY <2>1, <2>3
<1>4. 0 .. Len(Real) \subseteq S
  <2> HIDE DEF S
  <2> QED
    BY <1>1, <1>2, <1>3, InductionTo
<1>5. Len(Real) \in 0 .. Len(Real) /\ Len(Real) \in 0 .. Len(p)
  BY <1>1
<1>6. at[Len(Real)] = SubSeq(Real, 1, Len(Real))
  BY <1>4, <1>5
<1> QED
  BY <1>1, <1>5, <1>6, WholeIs

LEMMA GivenReached ==
  ASSUME NEW p \in Tokens, NEW at, Follows(at, Walk, <<>>, p), IsPrefix(Given, p)
  PROVE  Len(Given) \in 0 .. Len(p) /\ at[Len(Given)] = Real
<1>1. /\ Len(Real) \in Nat /\ Len(p) \in Nat /\ Real \in Tokens /\ Given \in Tokens
      /\ Len(Given) \in Nat /\ Len(Given) <= Len(p)
      /\ Link \in Tokens /\ Len(Link) \in Nat /\ Len(Link) >= 1 /\ Len(Target) \in Nat
      /\ Len(Below) \in Nat /\ Target \in Tokens /\ Below \in Tokens
      /\ Len(Given) = Len(Link) + Len(Below) /\ Len(Real) = Len(Target) + Len(Below)
  BY RootsAre, TokensAre, PrefixIs
<1>2. \A i \in 1 .. Len(Given) : p[i] = Given[i]
  BY <1>1, PrefixIs
<1>3. /\ \A i \in 1 .. Len(Link) : Given[i] = Link[i]
      /\ \A i \in 1 .. Len(Below) : Given[Len(Link) + i] = Below[i]
      /\ \A i \in 1 .. Len(Below) : Real[Len(Target) + i] = Below[i]
      /\ \A i \in 1 .. Len(Target) : Real[i] = Target[i]
  BY <1>1, JoinIs DEF Given, Real
<1>4. \A i \in 1 .. Len(Given) : Given[i] # ".." /\ Given[i] \in STRING
  BY <1>1, RootsAre, TokensAre
<1> DEFINE l == Len(Link)
           t == Len(Target)
           b == Len(Below)
<1>5. /\ l \in Nat /\ t \in Nat /\ b \in Nat /\ l >= 1
      /\ Len(Given) = l + b /\ Len(Real) = t + b /\ l + b <= Len(p)
  BY <1>1
<1>6. \A i \in 1 .. Len(p) : at[i] = Walk[at[i - 1]][p[i]]
  BY DEF Follows
<1>7. at[0] = <<>>
  BY DEF Follows
<1>8. \A i \in 1 .. l : Given[i] = Link[i]
  BY <1>3
<1>9. \A i \in 1 .. b : Given[l + i] = Real[t + i]
  BY <1>3
<1> HIDE DEF l, t, b
<1> DEFINE S == {i \in 0 .. l - 1 : at[i] = SubSeq(Link, 1, i)}
           R == {i \in 0 .. b : at[l + i] = SubSeq(Real, 1, t + i)}
<1>10. 0 \in S
  <2>1. SubSeq(Link, 1, 0) = <<>>
    <3>1. 1 \in Nat \ {0} /\ 0 \in 0 .. Len(Link) /\ 1 <= 0 + 1 /\ 0 - 1 + 1 = 0
      BY <1>1
    <3>2. SubSeq(Link, 1, 0) \in Tokens /\ Len(SubSeq(Link, 1, 0)) = 0
      BY <1>1, <3>1, SliceIs
    <3> QED
      BY <3>2, EmptyIs, Zenon
  <2>2. 0 \in 0 .. l - 1
    BY <1>5
  <2>3. at[0] = SubSeq(Link, 1, 0)
    BY <1>7, <2>1, Zenon
  <2> QED
    BY <2>2, <2>3
<1>11. ASSUME NEW i \in 0 .. l - 1, at[i] = SubSeq(Link, 1, i)
       PROVE  at[i + 1] = IF i + 1 = l THEN Target ELSE SubSeq(Link, 1, i + 1)
  <2>1. /\ i + 1 \in 1 .. Len(p) /\ i + 1 \in 1 .. l /\ i + 1 - 1 = i /\ i \in Nat
        /\ i + 1 <= l /\ 1 <= i + 1 /\ 1 \in Nat \ {0} /\ i \in 0 .. l /\ i + 1 \in 0 .. l
        /\ 1 <= (i + 1) + 1 /\ i + 1 \in 1 .. Len(Given) /\ (i + 1) - 1 + 1 = i + 1
    BY <1>5
  <2> DEFINE u == SubSeq(Link, 1, i)
             w == SubSeq(Link, 1, i + 1)
             x == Link[i + 1]
  <2>2. at[i + 1] = Walk[u][x] /\ x # ".." /\ x \in STRING
    <3>1. p[i + 1] = x
      BY <1>2, <1>8, <2>1
    <3>2. x # ".." /\ x \in STRING
      BY <1>4, <1>8, <2>1
    <3>3. at[i + 1] = Walk[at[i + 1 - 1]][p[i + 1]]
      BY <1>6, <2>1
    <3> QED
      BY <1>11, <2>1, <3>1, <3>2, <3>3
  <2>3. u \in Tokens /\ w \in Tokens /\ Len(w) = (i + 1) - 1 + 1
    BY <1>1, <2>1, SliceIs DEF l
  <2>4. Append(u, x) = w
    BY <1>1, <2>1, ExtendIs DEF l
  <2>5. Walk[u][x] = IF w = Link THEN Target ELSE w
    <3> HIDE DEF u, w, x
    <3> QED
      BY <2>2, <2>3, <2>4, WalkIs
  <2>6. w = Link <=> i + 1 = l
    <3>1. i + 1 = l => w = Link
      BY <1>1, WholeIs DEF l
    <3>2. w = Link => i + 1 = l
      <4> HIDE DEF w
      <4> QED
        BY <2>1, <2>3 DEF l
    <3> QED
      BY <3>1, <3>2
  <2> HIDE DEF u, w, x
  <2>7. at[i + 1] = IF i + 1 = l THEN Target ELSE w
    BY <2>2, <2>5, <2>6
  <2> QED
    BY <2>7 DEF w
<1>12. ASSUME NEW i \in 0 .. (l - 1) - 1, i \in S PROVE i + 1 \in S
  <2>1. i \in 0 .. l - 1 /\ i + 1 # l /\ i + 1 \in 0 .. l - 1
    BY <1>5
  <2> QED
    BY <1>11, <1>12, <2>1
<1>13. 0 .. l - 1 \subseteq S
  <2>1. l - 1 \in Nat
    BY <1>5
  <2> HIDE DEF S
  <2> QED
    BY <1>10, <1>12, <2>1, InductionTo
<1>14. at[l] = Target
  <2>1. l - 1 \in 0 .. l - 1 /\ l - 1 + 1 = l
    BY <1>5
  <2>2. at[l - 1] = SubSeq(Link, 1, l - 1)
    BY <1>13, <2>1
  <2> QED
    BY <1>11, <2>1, <2>2
<1>15. 0 \in R
  <2>1. SubSeq(Real, 1, t) = Target
    <3> DEFINE w == SubSeq(Real, 1, t)
    <3>1. 1 \in Nat \ {0} /\ t \in 0 .. Len(Real) /\ 1 <= t + 1 /\ t - 1 + 1 = t
          /\ \A i \in 1 .. t : 1 + i - 1 = i
      BY <1>5
    <3>2. w \in Tokens /\ Len(w) = t - 1 + 1 /\ \A i \in 1 .. t - 1 + 1 : w[i] = Real[1 + i - 1]
      BY <1>1, <3>1, SliceIs
    <3> HIDE DEF w
    <3>3. Len(w) = Len(Target) /\ \A i \in 1 .. Len(w) : w[i] = Target[i]
      BY <1>3, <3>1, <3>2 DEF t
    <3>4. w = Target
      BY <1>1, <3>2, <3>3, SameTokens
    <3> QED
      BY <3>4 DEF w
  <2>2. l + 0 = l /\ t + 0 = t /\ 0 \in 0 .. b
    BY <1>5
  <2> QED
    BY <1>14, <2>1, <2>2
<1>16. ASSUME NEW i \in 0 .. b - 1, i \in R PROVE i + 1 \in R
  <2>1. /\ l + i + 1 \in 1 .. Len(p) /\ l + i + 1 \in 1 .. Len(Given) /\ (l + i + 1) - 1 = l + i
        /\ i + 1 \in 1 .. b /\ l + (i + 1) = l + i + 1 /\ t + (i + 1) = t + i + 1
        /\ t + i \in 0 .. Len(Real) - 1 /\ i + 1 \in 0 .. b
    BY <1>5
  <2>2. p[l + i + 1] = Real[t + i + 1]
    <3>1. Given[l + (i + 1)] = Real[t + (i + 1)]
      BY <1>9, <2>1
    <3> QED
      BY <1>2, <2>1, <3>1
  <2>3. at[l + i + 1] = Walk[at[l + i]][p[l + i + 1]]
    BY <1>6, <2>1
  <2>4. at[l + i] = SubSeq(Real, 1, t + i)
    BY <1>16
  <2>5. at[l + i + 1] = SubSeq(Real, 1, t + i + 1)
    BY <2>1, <2>2, <2>3, <2>4, WalkOn
  <2> QED
    BY <2>1, <2>5
<1>17. 0 .. b \subseteq R
  <2> HIDE DEF R
  <2> QED
    BY <1>5, <1>15, <1>16, InductionTo
<1>18. b \in 0 .. b /\ l + b = Len(Given) /\ t + b = Len(Real) /\ Len(Given) \in 0 .. Len(p)
  BY <1>1, <1>5
<1>19. at[Len(Given)] = SubSeq(Real, 1, Len(Real))
  BY <1>17, <1>18
<1> QED
  BY <1>1, <1>18, <1>19, WholeIs

\* Where a walk from the top may be after i parts: where the path says, before the link or
\* after it; or, having turned back somewhere, not as deep.
Entered(p, loc, i) ==
  \/ loc = SubSeq(p, 1, i)
  \/ i >= Len(Link) /\ IsPrefix(Link, p) /\ loc = Target \o SubSeq(p, Len(Link) + 1, i)
  \/ Len(loc) < i
  \/ i > Len(Link) /\ Len(loc) < i + Len(Target) - Len(Link)

LEMMA EnteredStep ==
  ASSUME NEW p \in Tokens, NEW i \in 0 .. Len(p) - 1, NEW loc \in Tokens, Entered(p, loc, i)
  PROVE  Entered(p, Walk[loc][p[i + 1]], i + 1)
<1> DEFINE x == p[i + 1]
           w == Walk[loc][x]
           l == Len(Link)
           t == Len(Target)
<1>1. /\ Len(p) \in Nat /\ i \in Nat /\ i + 1 \in 1 .. Len(p) /\ i + 1 <= Len(p)
      /\ l \in Nat /\ t \in Nat /\ l >= 1 /\ Link \in Tokens /\ Target \in Tokens
      /\ Len(loc) \in Nat
  BY RootsAre, TokensAre
<1>2. x \in STRING
  BY <1>1, TokensAre
<1>3. /\ w \in Tokens
      /\ x = ".." => Len(w) <= Len(loc)
      /\ x = ".." /\ loc # <<>> => Len(w) = Len(loc) - 1
      /\ x # ".." => w = IF Append(loc, x) = Link THEN Target ELSE Append(loc, x)
  <2> HIDE DEF x
  <2> QED
    BY <1>2, WalkIs DEF w
<1>4. Len(w) \in Nat
  BY <1>3, TokensAre
<1>5. Len(Append(loc, x)) = Len(loc) + 1 /\ Append(loc, x) \in Tokens
  <2> HIDE DEF x
  <2> QED
    BY <1>2, AppendIs
<1>6. x = ".." => Len(w) = 0 \/ Len(w) = Len(loc) - 1
  <2>1. loc = <<>> => Len(loc) = 0
    OBVIOUS
  <2> HIDE DEF w, x
  <2> QED
    BY <1>1, <1>3, <1>4, <2>1
<1> DEFINE u == SubSeq(p, 1, i)
           v == SubSeq(p, 1, i + 1)
<1>7. CASE loc = u
  <2>1. /\ 1 \in Nat \ {0} /\ i \in 0 .. Len(p) /\ i + 1 \in 0 .. Len(p) /\ 1 <= i + 1
        /\ 1 <= (i + 1) + 1 /\ i - 1 + 1 = i /\ (i + 1) - 1 + 1 = i + 1
    BY <1>1
  <2>2. Len(u) = i - 1 + 1 /\ v \in Tokens /\ Len(v) = (i + 1) - 1 + 1
        /\ \A j \in 1 .. (i + 1) - 1 + 1 : v[j] = p[1 + j - 1]
    BY <2>1, SliceIs
  <2>3. Append(u, x) = v
    BY <1>1, <2>1, ExtendIs
  <2>4. Len(loc) = i /\ Len(v) = i + 1
    <3> HIDE DEF u, v
    <3> QED
      BY <1>7, <2>1, <2>2
  <2>5. \A j \in 1 .. i + 1 : v[j] = p[j]
    <3>1. \A j \in 1 .. i + 1 : 1 + j - 1 = j
      BY <1>1
    <3> HIDE DEF v
    <3> QED
      BY <2>1, <2>2, <3>1
  <2>6. CASE x = ".."
    <3>1. Len(w) < i + 1
      <4> HIDE DEF w, x
      <4> QED
        BY <1>1, <1>6, <2>4, <2>6
    <3> QED
      BY <3>1 DEF Entered
  <2>7. CASE x # ".." /\ v # Link
    <3>1. w = v
      <4> HIDE DEF w, x, u, v
      <4> QED
        BY <1>3, <1>7, <2>3, <2>7
    <3> QED
      BY <3>1 DEF Entered
  <2>8. CASE x # ".." /\ v = Link
    <3>1. w = Target
      <4> HIDE DEF w, x, u, v
      <4> QED
        BY <1>3, <1>7, <2>3, <2>8
    <3>2. l = i + 1
      <4> HIDE DEF v
      <4> QED
        BY <2>4, <2>8
    <3>3. IsPrefix(Link, p)
      <4>1. l <= Len(p) /\ \A j \in 1 .. l : Link[j] = p[j]
        <5> HIDE DEF v
        <5> QED
          BY <1>1, <2>5, <2>8, <3>2
      <4> QED
        BY <1>1, <4>1, PrefixIs
    <3>4. SubSeq(p, Len(Link) + 1, i + 1) = <<>>
      <4> DEFINE a == i + 1
                 e == SubSeq(p, a + 1, a)
      <4>1. a + 1 \in Nat \ {0} /\ a \in 0 .. Len(p) /\ a + 1 <= a + 1 /\ a - (a + 1) + 1 = 0
        BY <1>1
      <4> HIDE DEF a
      <4>2. e \in Tokens /\ Len(e) = a - (a + 1) + 1
        BY <4>1, SliceIs
      <4> HIDE DEF e
      <4>3. e = <<>>
        BY <4>1, <4>2, EmptyIs
      <4> QED
        BY <3>2, <4>3 DEF e, a
    <3>5. Target \o <<>> = Target
      BY <1>1, ConcatEmptySeq DEF Tokens
    <3>6. w = Target \o SubSeq(p, Len(Link) + 1, i + 1)
      <4> HIDE DEF w
      <4> QED
        BY <3>1, <3>4, <3>5
    <3>7. i + 1 >= Len(Link)
      BY <1>1, <3>2
    <3> QED
      BY <3>3, <3>6, <3>7 DEF Entered
  <2> QED
    BY <2>6, <2>7, <2>8
<1> DEFINE y == SubSeq(p, Len(Link) + 1, i)
           z == SubSeq(p, Len(Link) + 1, i + 1)
<1>8. CASE i >= Len(Link) /\ IsPrefix(Link, p) /\ loc = Target \o y
  <2>1. /\ l + 1 \in Nat \ {0} /\ i \in 0 .. Len(p) /\ i + 1 \in 0 .. Len(p) /\ l + 1 <= i + 1
        /\ l + 1 <= (i + 1) + 1 /\ i - (l + 1) + 1 = i - l
        /\ (i + 1) - (l + 1) + 1 = i + 1 - l
    BY <1>1, <1>8
  <2>2. y \in Tokens /\ Len(y) = i - l /\ z \in Tokens /\ Len(z) = i + 1 - l
    <3>1. y \in Tokens /\ Len(y) = i - (l + 1) + 1
      BY <2>1, SliceIs
    <3>2. z \in Tokens /\ Len(z) = (i + 1) - (l + 1) + 1
      BY <2>1, SliceIs
    <3> HIDE DEF y, z
    <3> QED
      BY <2>1, <3>1, <3>2
  <2>3. Append(y, x) = z
    BY <1>1, <2>1, ExtendIs
  <2>4. Append(loc, x) = Target \o z
    <3>1. Append(Target \o y, x) = Target \o Append(y, x)
      <4> HIDE DEF x, y
      <4> QED
        BY <1>1, <1>2, <2>2, AppendJoin
    <3> HIDE DEF x, y, z
    <3> QED
      BY <1>8, <2>3, <3>1
  <2>5. Len(loc) = t + i - l
    <3>1. Len(Target \o y) = t + Len(y)
      <4> HIDE DEF y
      <4> QED
        BY <1>1, <2>2, JoinIs
    <3> HIDE DEF y
    <3> QED
      BY <1>1, <1>8, <2>2, <3>1
  <2>6. CASE x = ".."
    <3>1. Len(w) < i + 1 + t - l
      <4> HIDE DEF w, x, l, t
      <4> QED
        BY <1>1, <1>6, <2>5, <2>6, <2>1
    <3>2. i + 1 > l
      BY <1>1, <2>1
    <3> QED
      BY <3>1, <3>2 DEF Entered
  <2>7. CASE x # ".." /\ Append(loc, x) # Link
    <3>1. w = Target \o z
      <4> HIDE DEF w, x, z
      <4> QED
        BY <1>3, <2>4, <2>7
    <3>2. i + 1 >= l
      BY <1>1, <2>1
    <3> QED
      BY <1>8, <3>1, <3>2 DEF Entered
  <2>8. CASE x # ".." /\ Append(loc, x) = Link
    <3>1. Len(w) = t
      <4> HIDE DEF w, x
      <4> QED
        BY <1>3, <2>8
    <3>2. i + 1 > l /\ t < i + 1 + t - l
      <4> HIDE DEF t, l
      <4> QED
        BY <1>1, <2>1
    <3>3. i + 1 > l /\ Len(w) < i + 1 + t - l
      BY <3>1, <3>2
    <3> QED
      BY <3>3 DEF Entered
  <2> QED
    BY <2>6, <2>7, <2>8
<1>9. CASE Len(loc) < i \/ (i > l /\ Len(loc) < i + t - l)
  <2>1. x # ".." => \/ Len(w) = Len(loc) + 1
                    \/ Len(w) = t /\ l = Len(loc) + 1
    <3> HIDE DEF w, x
    <3> QED
      BY <1>3, <1>5
  <2>2. Len(w) <= Len(loc) \/ Len(w) = Len(loc) + 1 \/ (Len(w) = t /\ l = Len(loc) + 1)
    BY <1>3, <2>1
  <2>3. Len(w) < i + 1 \/ (i + 1 > l /\ Len(w) < i + 1 + t - l)
    <3> HIDE DEF w, x, l, t
    <3> QED
      BY <1>1, <1>4, <1>9, <2>2
  <2> QED
    BY <2>3 DEF Entered
<1> QED
  BY <1>7, <1>8, <1>9 DEF Entered

\* A walk from the top is not inside the worktree by the length of one of its paths, unless
\* it followed one of them.
LEMMA NoRoot ==
  ASSUME NEW p \in Tokens, NEW at, Follows(at, Walk, <<>>, p),
         ~IsPrefix(Given, p), ~IsPrefix(Real, p),
         NEW n \in 0 .. Len(p), n <= Len(Given), n <= Len(Real)
  PROVE  ~Inside(at[n])
<1>1. /\ Len(Real) \in Nat /\ Len(p) \in Nat /\ Real \in Tokens /\ Given \in Tokens
      /\ Len(Given) \in Nat /\ n \in Nat
      /\ Link \in Tokens /\ Len(Link) \in Nat /\ Len(Link) >= 1 /\ Len(Target) \in Nat
      /\ Len(Below) \in Nat /\ Target \in Tokens /\ Below \in Tokens
      /\ Len(Given) = Len(Link) + Len(Below) /\ Len(Real) = Len(Target) + Len(Below)
  BY RootsAre, TokensAre
<1>2. at \in [0 .. Len(p) -> Tokens] /\ at[0] = <<>>
      /\ \A i \in 1 .. Len(p) : at[i] = Walk[at[i - 1]][p[i]]
  BY DEF Follows
<1> DEFINE S == {i \in 0 .. Len(p) : Entered(p, at[i], i)}
<1>3. 0 \in S
  <2>1. SubSeq(p, 1, 0) = <<>>
    <3>1. 1 \in Nat \ {0} /\ 0 \in 0 .. Len(p) /\ 1 <= 0 + 1 /\ 0 - 1 + 1 = 0
      BY <1>1
    <3>2. SubSeq(p, 1, 0) \in Tokens /\ Len(SubSeq(p, 1, 0)) = 0
      BY <3>1, SliceIs
    <3> QED
      BY <3>2, EmptyIs, Zenon
  <2>2. at[0] = SubSeq(p, 1, 0)
    BY <1>2, <2>1, Zenon
  <2>3. 0 \in 0 .. Len(p) /\ Entered(p, at[0], 0)
    BY <1>1, <2>2 DEF Entered
  <2> QED
    BY <2>3
<1>4. ASSUME NEW i \in 0 .. Len(p) - 1, i \in S PROVE i + 1 \in S
  <2>1. i + 1 \in 1 .. Len(p) /\ i + 1 - 1 = i /\ i \in 0 .. Len(p) /\ i + 1 \in 0 .. Len(p)
    BY <1>1
  <2>2. at[i + 1] = Walk[at[i]][p[i + 1]] /\ at[i] \in Tokens
    BY <1>2, <2>1
  <2>3. Entered(p, at[i + 1], i + 1)
    BY <1>4, <2>2, EnteredStep
  <2> QED
    BY <2>1, <2>3
<1>5. 0 .. Len(p) \subseteq S
  <2> HIDE DEF S
  <2> QED
    BY <1>1, <1>3, <1>4, InductionTo
<1> DEFINE loc == at[n]
<1>6. Entered(p, loc, n) /\ loc \in Tokens
  BY <1>2, <1>5
<1> HIDE DEF loc
<1> SUFFICES ASSUME Inside(loc) PROVE FALSE
  BY DEF loc
<1>7. Len(loc) \in Nat /\ Len(Real) <= Len(loc) /\ \A i \in 1 .. Len(Real) : Real[i] = loc[i]
  BY <1>1, <1>6, PrefixIs, TokensAre DEF Inside
<1>8. CASE loc = SubSeq(p, 1, n)
  <2>1. 1 \in Nat \ {0} /\ 1 <= n + 1 /\ n - 1 + 1 = n /\ \A i \in 1 .. n : 1 + i - 1 = i
    BY <1>1
  <2>2. Len(loc) = n - 1 + 1 /\ \A i \in 1 .. n - 1 + 1 : loc[i] = p[1 + i - 1]
    BY <1>8, <2>1, SliceIs
  <2>3. Len(loc) = n /\ \A i \in 1 .. n : loc[i] = p[i]
    BY <2>1, <2>2
  <2>4. Len(Real) = n /\ n <= Len(p)
    BY <1>1, <1>7, <2>3
  <2>5. IsPrefix(Real, p)
    BY <1>1, <1>7, <2>3, <2>4, PrefixIs
  <2> QED
    BY <2>5
<1>9. CASE n >= Len(Link) /\ IsPrefix(Link, p)
           /\ loc = Target \o SubSeq(p, Len(Link) + 1, n)
  <2> DEFINE y == SubSeq(p, Len(Link) + 1, n)
             l == Len(Link)
             t == Len(Target)
  <2>1. /\ l + 1 \in Nat \ {0} /\ l + 1 <= n + 1 /\ n - (l + 1) + 1 = n - l
        /\ \A i \in 1 .. n - l : (l + 1) + i - 1 = l + i
    BY <1>1, <1>9
  <2>2. y \in Tokens /\ Len(y) = n - l /\ \A i \in 1 .. n - l : y[i] = p[l + i]
    <3>1. /\ y \in Tokens /\ Len(y) = n - (l + 1) + 1
          /\ \A i \in 1 .. n - (l + 1) + 1 : y[i] = p[(l + 1) + i - 1]
      BY <2>1, SliceIs
    <3> HIDE DEF y, l
    <3> QED
      BY <2>1, <3>1
  <2>3. Len(loc) = t + Len(y) /\ \A i \in 1 .. Len(y) : loc[t + i] = y[i]
    <3>1. loc = Target \o y
      BY <1>9
    <3> HIDE DEF y
    <3>2. y \in Tokens /\ Target \in Tokens
      BY <1>1, <2>2
    <3>3. /\ Len(Target \o y) = Len(Target) + Len(y)
          /\ \A i \in 1 .. Len(y) : (Target \o y)[Len(Target) + i] = y[i]
      BY <3>2, JoinIs
    <3> QED
      BY <3>1, <3>3
  <2>4. /\ \A i \in 1 .. Len(Below) : Real[t + i] = Below[i]
        /\ \A i \in 1 .. Len(Below) : Given[l + i] = Below[i]
        /\ \A i \in 1 .. l : Given[i] = Link[i]
    BY <1>1, JoinIs DEF Given, Real
  <2>5. \A i \in 1 .. l : p[i] = Link[i]
    BY <1>1, <1>9, PrefixIs
  <2> HIDE DEF y
  <2>6. n = Len(Given) /\ n - l = Len(Below) /\ Len(y) = Len(Below)
    <3>1. Len(loc) = t + Len(y) /\ Len(y) = n - l /\ Len(Real) <= Len(loc)
      BY <1>7, <2>2, <2>3
    <3>2. /\ t \in Nat /\ l \in Nat /\ Len(Below) \in Nat
          /\ Len(Given) = l + Len(Below) /\ Len(Real) = t + Len(Below)
      BY <1>1
    <3> HIDE DEF t, l
    <3> QED
      BY <3>1, <3>2
  <2>7. ASSUME NEW i \in 1 .. Len(Given) PROVE Given[i] = p[i]
    <3>1. CASE i <= l
      <4>1. i \in 1 .. l
        BY <1>1, <3>1
      <4> QED
        BY <2>4, <2>5, <4>1
    <3>2. CASE i > l
      <4> DEFINE j == i - l
      <4>1. j \in 1 .. Len(Below) /\ i = l + j /\ t + j \in 1 .. Len(Real)
        BY <1>1, <3>2
      <4> HIDE DEF j, l, t
      <4>2. Given[i] = Below[j] /\ Real[t + j] = Below[j] /\ loc[t + j] = y[j] /\ y[j] = p[l + j]
        BY <2>2, <2>3, <2>4, <2>6, <4>1
      <4>3. Real[t + j] = loc[t + j]
        BY <1>7, <4>1
      <4> QED
        BY <4>1, <4>2, <4>3
    <3> QED
      BY <1>1, <3>1, <3>2
  <2>8. Len(Given) <= Len(p)
    BY <1>1, <2>6
  <2>9. IsPrefix(Given, p)
    BY <1>1, <2>7, <2>8, PrefixIs
  <2> QED
    BY <2>9
<1>10. CASE Len(loc) < n
  BY <1>1, <1>7, <1>10
<1>11. CASE n > Len(Link) /\ Len(loc) < n + Len(Target) - Len(Link)
  BY <1>1, <1>7, <1>11
<1> QED
  BY <1>6, <1>8, <1>9, <1>10, <1>11 DEF Entered

LEMMA DeniesIs ==
  ASSUME NEW rel, NEW writes
  PROVE  DenyRelative(rel, writes) # "none"
           <=> StartsWith(rel, "..") \/ (writes /\ StartsWith(rel, ".git"))
  BY DEF DenyRelative

\* Whatever the shortcuts of _evaluate_path_kind(), a relative path is denied for what
\* normpath() makes of it.
LEMMA RelativeIs ==
  ASSUME NEW path \in [abs : BOOLEAN, parts : Tokens], ~path.abs, NEW writes,
         NEW n, n = Normpath(Kept(path.parts))
  PROVE  EvaluatePath(path, writes) # "none"
           <=> StartsWith(n, "..") \/ (writes /\ StartsWith(n, ".git"))
<1> DEFINE p == Kept(path.parts)
<1>1. p \in Tokens
  BY KeptType
<1>2. EvaluatePath(path, writes) =
        IF StartsWith(p, "..") THEN "path_outside_workspace"
        ELSE IF StartsWith(p, ".git") /\ ~HasParent(p) THEN DenyRelative(p, writes)
        ELSE IF HasParent(p) THEN DenyRelative(Normpath(p), writes)
        ELSE "none"
  BY DEF EvaluatePath
<1> HIDE DEF p
<1>3. n = Normpath(p)
  BY DEF p
<1>4. /\ ~HasParent(p) => n = p
      /\ StartsWith(p, "..") => StartsWith(n, "..")
  BY <1>1, <1>3, NormpathIs
<1>5. StartsWith(p, "..") => HasParent(p)
  BY <1>1, TokensAre DEF StartsWith, HasParent
<1>6. CASE StartsWith(p, "..")
  BY <1>2, <1>4, <1>6
<1>7. CASE HasParent(p) /\ ~StartsWith(p, "..")
  BY <1>2, <1>3, <1>7, DeniesIs
<1>8. CASE ~HasParent(p)
  BY <1>2, <1>4, <1>5, <1>8, DeniesIs
<1> QED
  BY <1>6, <1>7, <1>8

\* What each side says of one path.
Agree(path, writes) ==
  LET denies  == EvaluatePath(path, writes) # "none"
      refuses == IF mode = "host" THEN HostRefuses(path, writes) ELSE DockerRefuses(path, writes)
  IN  /\ refuses => denies
      /\ denies => refuses \/ (mode = "host" /\ Leaves(path))

LEMMA DockerAgrees ==
  ASSUME mode = "docker", NEW path \in [abs : BOOLEAN, parts : Tokens], NEW writes
  PROVE  Agree(path, writes)
<1> DEFINE n == Normpath(Kept(path.parts))
<1>1. Kept(path.parts) \in Tokens
  BY KeptType
<1>2. n \in Tokens /\ (HasParent(n) => StartsWith(n, ".."))
  BY <1>1, NormpathIs
<1>3. StartsWith(n, "..") => HasParent(n)
  <2> HIDE DEF n
  <2> QED
    BY <1>2, TokensAre DEF StartsWith, HasParent
<1>4. DockerRefuses(path, writes) <=> \/ path.abs \/ HasParent(n)
                                      \/ writes /\ StartsWith(n, ".git")
  BY DEF DockerRefuses
<1>5. CASE path.abs
  <2>1. RootsOf(Kept(path.parts)) = {}
    BY DEF RootsOf, Roots
  <2>2. EvaluatePath(path, writes) = "path_outside_workspace"
    BY <1>5, <2>1 DEF EvaluatePath
  <2> QED
    BY <1>4, <1>5, <2>2 DEF Agree
<1>6. CASE ~path.abs
  <2>1. EvaluatePath(path, writes) # "none"
          <=> StartsWith(n, "..") \/ (writes /\ StartsWith(n, ".git"))
    BY <1>6, RelativeIs
  <2> HIDE DEF n
  <2> QED
    BY <1>2, <1>3, <1>4, <1>6, <2>1 DEF Agree
<1> QED
  BY <1>5, <1>6

LEMMA HostAgrees ==
  ASSUME mode = "host", NEW path \in [abs : BOOLEAN, parts : Tokens], NEW writes
  PROVE  Agree(path, writes)
<1> DEFINE p == Kept(path.parts)
           start == Start(path)
           at == Along(Walk, start, p)
           end == at[Len(p)]
<1>1. p \in Tokens /\ Len(p) \in Nat
  BY KeptType, TokensAre
<1>2. start \in Tokens /\ (start = IF path.abs THEN <<>> ELSE Real)
  BY EmptyIs, RootsAre DEF Start
<1>3. Follows(at, Walk, start, p)
  <2> HIDE DEF p, start, at
  <2>1. at = Along(Walk, start, p)
    BY DEF at
  <2> QED
    BY <1>1, <1>2, <2>1, WalkType, AlongIs
<1>4. HostRefuses(path, writes) <=>
        \/ ~Inside(end)
        \/ writes /\ StartsWith(SubSeq(end, Len(Real) + 1, Len(end)), ".git")
  BY DEF HostRefuses, Reaches, Where
<1>5. ASSUME NEW k \in 0 .. Len(p), ~Inside(at[k]),
             path.abs => k >= Len(Given) \/ k >= Len(Real)
      PROVE  Leaves(path)
  <2>1. k \in 0 .. Len(Kept(path.parts)) /\ Where(path, k) = at[k]
    BY DEF Where
  <2> QED
    BY <1>5, <2>1 DEF Leaves
<1>6. CASE ~path.abs
  <2> DEFINE n == Normpath(p)
  <2>1. SubSeq(p, 0 + 1, Len(p)) = p /\ at[0] = Real /\ 0 \in 0 .. Len(p)
    <3>1. at[0] = start
      BY <1>3 DEF Follows
    <3>2. start = Real
      BY <1>2, <1>6
    <3>3. 0 + 1 = 1 /\ 0 \in 0 .. Len(p)
      BY <1>1
    <3> HIDE DEF p, at, start
    <3> QED
      BY <1>1, <3>1, <3>2, <3>3, WholeIs
  <2>2. EvaluatePath(path, writes) # "none"
          <=> StartsWith(n, "..") \/ (writes /\ StartsWith(n, ".git"))
    BY <1>6, RelativeIs
  <2> DEFINE denies == EvaluatePath(path, writes) # "none"
             refuses == HostRefuses(path, writes)
  <2>3. n = Normpath(SubSeq(p, 0 + 1, Len(p)))
    BY <2>1
  <2>4. end = at[Len(p)]
    OBVIOUS
  <2> HIDE DEF p, at, start, end, n
  <2>5. /\ refuses => denies
        /\ denies => refuses \/ \E i \in 0 .. Len(p) : ~Inside(at[i])
    <3>1. denies <=> StartsWith(n, "..") \/ (writes /\ StartsWith(n, ".git"))
      BY <2>2
    <3>2. refuses <=> \/ ~Inside(end)
                      \/ writes /\ StartsWith(SubSeq(end, Len(Real) + 1, Len(end)), ".git")
      BY <1>4
    <3> HIDE DEF denies, refuses
    <3> QED
      BY <1>1, <1>2, <1>3, <2>1, <2>3, <2>4, <3>1, <3>2, Judged
  <2> QED
    BY <1>5, <1>6, <2>5 DEF Agree
<1>7. CASE path.abs /\ RootsOf(p) # {}
  <2> DEFINE r == RootOf(p)
             m == Len(r)
             n == Rest(p, r)
  <2>1. r \in {Given, Real} /\ IsPrefix(r, p)
    <3>1. RootsOf(p) \subseteq {Given, Real} /\ \A q \in RootsOf(p) : IsPrefix(q, p)
      BY DEF RootsOf, Roots
    <3>2. \E q \in RootsOf(p) : \A o \in RootsOf(p) : Len(o) <= Len(q)
      <4>1. Len(Given) \in Nat /\ Len(Real) \in Nat
        BY RootsAre, TokensAre
      <4>2. \A S \in SUBSET {Given, Real} :
              S # {} => \E q \in S : \A o \in S : Len(o) <= Len(q)
        BY <4>1
      <4> HIDE DEF p
      <4> QED
        BY <1>7, <3>1, <4>2
    <3>3. r \in RootsOf(p)
      BY <3>2 DEF RootOf
    <3> QED
      BY <3>1, <3>3
  <2>2. start = <<>>
    BY <1>2, <1>7
  <2>3. m \in 0 .. Len(p) /\ at[m] = Real
    <3> HIDE DEF p, at, start, r
    <3>1. Follows(at, Walk, <<>>, p)
      BY <1>3, <2>2
    <3>2. CASE r = Given
      BY <1>1, <2>1, <3>1, <3>2, GivenReached
    <3>3. CASE r = Real
      BY <1>1, <2>1, <3>1, <3>3, RealReached
    <3> QED
      BY <2>1, <3>2, <3>3
  <2>4. EvaluatePath(path, writes) = DenyRelative(n, writes)
    BY <1>7 DEF EvaluatePath
  <2>5. n = Normpath(SubSeq(p, m + 1, Len(p)))
    BY DEF Rest
  <2> DEFINE denies == EvaluatePath(path, writes) # "none"
             refuses == HostRefuses(path, writes)
  <2>6. end = at[Len(p)]
    OBVIOUS
  <2>7. /\ refuses => denies
        /\ denies => refuses \/ \E i \in m .. Len(p) : ~Inside(at[i])
    <3> HIDE DEF p, at, start, end, n, m
    <3>1. denies <=> StartsWith(n, "..") \/ (writes /\ StartsWith(n, ".git"))
      BY <2>4, DeniesIs
    <3>2. refuses <=> \/ ~Inside(end)
                      \/ writes /\ StartsWith(SubSeq(end, Len(Real) + 1, Len(end)), ".git")
      BY <1>4
    <3> HIDE DEF denies, refuses
    <3> QED
      BY <1>1, <1>2, <1>3, <2>3, <2>5, <2>6, <3>1, <3>2, Judged
  <2>8. ASSUME NEW i \in m .. Len(p), ~Inside(at[i]) PROVE Leaves(path)
    <3>1. i \in 0 .. Len(p) /\ i >= m
      BY <1>1, <2>3
    <3>2. i >= Len(Given) \/ i >= Len(Real)
      <4> HIDE DEF r, p
      <4> QED
        BY <2>1, <3>1
    <3> HIDE DEF p, at, start, r
    <3> QED
      BY <1>5, <2>8, <3>1, <3>2
  <2> HIDE DEF p, at, start, end, r, m, n
  <2> QED
    BY <2>7, <2>8 DEF Agree
<1>8. CASE path.abs /\ RootsOf(p) = {}
  <2>1. EvaluatePath(path, writes) = "path_outside_workspace"
    BY <1>8 DEF EvaluatePath
  <2>2. ~IsPrefix(Given, p) /\ ~IsPrefix(Real, p)
    BY <1>8 DEF RootsOf, Roots
  <2>3. start = <<>>
    BY <1>2, <1>8
  <2>4. Len(Given) \in Nat /\ Len(Real) \in Nat
    BY RootsAre, TokensAre
  <2>5. end = at[Len(p)]
    OBVIOUS
  <2> HIDE DEF p, at, start, end
  <2>6. Follows(at, Walk, <<>>, p)
    BY <1>3, <2>3
  <2>7. ASSUME NEW k \in 0 .. Len(p), k <= Len(Given), k <= Len(Real) PROVE ~Inside(at[k])
    BY <1>1, <2>2, <2>6, <2>7, NoRoot
  <2>8. CASE Len(p) <= Len(Given) /\ Len(p) <= Len(Real)
    <3>1. Len(p) \in 0 .. Len(p)
      BY <1>1
    <3>2. ~Inside(end)
      BY <2>5, <2>7, <2>8, <3>1
    <3> QED
      BY <1>4, <2>1, <3>2 DEF Agree
  <2>9. CASE Len(Given) <= Len(p) /\ Len(Given) <= Len(Real)
    <3>1. Len(Given) \in 0 .. Len(p) /\ Len(Given) <= Len(Given)
      BY <1>1, <2>4, <2>9
    <3>2. Leaves(path)
      BY <1>5, <2>7, <2>9, <3>1
    <3> QED
      BY <2>1, <3>2 DEF Agree
  <2>10. CASE Len(Real) <= Len(p) /\ Len(Real) <= Len(Given)
    <3>1. Len(Real) \in 0 .. Len(p) /\ Len(Real) <= Len(Real)
      BY <1>1, <2>4, <2>10
    <3>2. Leaves(path)
      BY <1>5, <2>7, <2>10, <3>1
    <3> QED
      BY <2>1, <3>2 DEF Agree
  <2>11. \/ Len(p) <= Len(Given) /\ Len(p) <= Len(Real)
         \/ Len(Given) <= Len(p) /\ Len(Given) <= Len(Real)
         \/ Len(Real) <= Len(p) /\ Len(Real) <= Len(Given)
    BY <1>1, <2>4
  <2> QED
    BY <2>8, <2>9, <2>10, <2>11
<1> QED
  BY <1>6, <1>7, <1>8

-----------------------------------------------------------------------------
(* The batch                                                                *)

Codes   == STRING \cup {"none", "batch_too_large", "call_id_invalid", "tool_unknown",
                        "call_id_duplicate", "path_outside_workspace",
                        "repo_metadata_target", Internal}
Outcome == [allow : BOOLEAN, code : Codes, action : BOOLEAN, event : {"action", "request", "none"}]
Results == {"cut", "denied", "ran", "finish"}

\* What makes a call run: nothing against it, and no earlier call of its id.
Fine(i) ==
  /\ Rejection(batch[i]) = "none" /\ Evaluate(batch[i]) = "none"
  /\ \A j \in 1 .. i - 1 : batch[j].id # batch[i].id

\* The outcomes come one by one, then the results; which of them the loop ran, and which
\* left a record, is a matter of the outcome and of nothing else.
BatchInv ==
  /\ mode \in {"host", "docker"} /\ cut \in BOOLEAN /\ batch \in Batches
  /\ pc \in {"duplicates", "decide", "apply", "over"}
  /\ outcomes \in Seq(Outcome) /\ results \in Seq(Results)
  /\ failed \subseteq DOMAIN outcomes
  /\ pc = "duplicates" => outcomes = <<>>
  /\ pc = "decide" => positions = DuplicatePositions /\ Len(outcomes) < Len(batch)
  /\ pc \in {"duplicates", "decide"} => results = <<>>
  /\ pc \in {"apply", "over"} => Len(outcomes) = Len(batch)
  /\ pc = "apply" => Len(results) < Len(batch)
  /\ Len(results) <= Len(batch)
  /\ \A i \in DOMAIN outcomes : outcomes[i].allow <=> i \notin failed /\ Fine(i)
  /\ ran = {i \in DOMAIN results : outcomes[i].allow /\ ~IsCut(batch[i])}
  /\ events = {i \in DOMAIN results : ~outcomes[i].allow /\ ~IsCut(batch[i])}

LEMMA TurnsAre ==
  ASSUME batch \in Batches
  PROVE  /\ batch \in Seq(Calls) /\ Len(batch) \in Nat /\ Len(batch) >= 1
         /\ Positions = 1 .. Len(batch)
         /\ \A i \in 1 .. Len(batch) : batch[i] \in Calls
<1>1. batch \in Seq(Calls) /\ batch # <<>>
  BY FirewallAssumption
<1> DEFINE C == Calls
<1> HIDE DEF C
<1>2. batch \in Seq(C) /\ batch # <<>>
  BY <1>1 DEF C
<1>3. /\ Len(batch) \in Nat /\ Len(batch) >= 1 /\ Positions = 1 .. Len(batch)
      /\ \A i \in 1 .. Len(batch) : batch[i] \in C
  BY <1>2, LenProperties, EmptySeq DEF Positions
<1> QED
  BY <1>1, <1>3 DEF C

\* A step leaves the turn as it is, so what is against a call stays what it was.
LEMMA TurnStays ==
  ASSUME UNCHANGED turn
  PROVE  /\ \A c : /\ Rejection(c)' = Rejection(c) /\ Evaluate(c)' = Evaluate(c)
                  /\ IsCut(c)' = IsCut(c)
         /\ batch' = batch /\ mode' = mode /\ cut' = cut
         /\ \A i : Fine(i)' <=> Fine(i)
         /\ DuplicatePositions' = DuplicatePositions
<1>1. mode' = mode /\ cut' = cut /\ batch' = batch
  BY DEF turn
<1>2. ASSUME NEW c PROVE Rejection(c)' = Rejection(c) /\ IsCut(c)' = IsCut(c)
  BY <1>1 DEF Rejection, IsCut
<1>3. ASSUME NEW p PROVE RootOf(p)' = RootOf(p) /\ RootsOf(p)' = RootsOf(p)
  <2>1. Roots' = Roots
    BY <1>1 DEF Roots
  <2>2. RootsOf(p)' = RootsOf(p)
    BY <2>1 DEF RootsOf
  <2> QED
    BY <2>2 DEF RootOf
<1>4. ASSUME NEW path, NEW writes PROVE EvaluatePath(path, writes)' = EvaluatePath(path, writes)
  BY <1>3 DEF EvaluatePath
<1>5. ASSUME NEW c PROVE EvaluateBash(c)' = EvaluateBash(c)
  BY <1>1 DEF EvaluateBash
<1>6. ASSUME NEW c PROVE Evaluate(c)' = Evaluate(c)
  BY <1>4, <1>5 DEF Evaluate
<1>7. ASSUME NEW i PROVE Fine(i)' <=> Fine(i)
  <2>1. Rejection(batch[i])' = Rejection(batch[i])
    BY <1>1 DEF Rejection
  <2>2. Evaluate(batch[i])' = Evaluate(batch[i])
    BY <1>1, <1>6
  <2> QED
    BY <1>1, <2>1, <2>2 DEF Fine
<1>8. DuplicatePositions' = DuplicatePositions
  BY <1>1 DEF DuplicatePositions, Positions
<1> QED
  BY <1>1, <1>2, <1>6, <1>7, <1>8

LEMMA VerdictsAre ==
  ASSUME NEW c \in Calls
  PROVE  Evaluate(c) \in Codes /\ Rejection(c) \in Codes
<1>1. c.command \in STRING /\ c.bad \in STRING
  BY DEF Calls
<1>2. \A path, writes : EvaluatePath(path, writes) \in Codes
  BY DEF EvaluatePath, DenyRelative, Codes
<1>3. Evaluate(c) \in Codes
  BY <1>1, <1>2 DEF Codes, Evaluate, EvaluateBash
<1>4. Rejection(c) \in Codes
  BY <1>1 DEF Codes, Rejection
<1> QED
  BY <1>3, <1>4

\* What a call that is not rejected has: an id, so that a repeated one is known.
LEMMA DuplicatesAre ==
  ASSUME batch \in Batches, NEW i \in 1 .. Len(batch), Rejection(batch[i]) = "none"
  PROVE  i \in DuplicatePositions <=> \E j \in 1 .. i - 1 : batch[j].id = batch[i].id
<1>1. batch[i].id # 0
  BY DEF Rejection
<1> QED
  BY <1>1, TurnsAre DEF DuplicatePositions

\* Deciding one call more.
LEMMA DecidesKeeps ==
  ASSUME BatchInv, Deciding, NEW outcome \in Outcome, Decides(outcome),
         \/ failed' = failed /\ (outcome.allow <=> Fine(I))
         \/ failed' = failed \cup {I} /\ ~outcome.allow
  PROVE  BatchInv'
<1> USE DEF BatchInv
<1>1. turn' = turn /\ positions' = positions /\ results' = results /\ events' = events /\ ran' = ran
  BY DEF Decides
<1>2. /\ batch' = batch /\ mode' = mode /\ cut' = cut /\ DuplicatePositions' = DuplicatePositions
      /\ \A i : Fine(i)' <=> Fine(i)
      /\ \A c : IsCut(c)' = IsCut(c)
  BY <1>1, TurnStays
<1>3. /\ pc = "decide" /\ results = <<>> /\ Len(batch) \in Nat /\ Len(batch) >= 1
      /\ Positions = 1 .. Len(batch)
  BY TurnsAre DEF Deciding
<1>4. Len(outcomes) \in Nat /\ I = Len(outcomes) + 1 /\ DOMAIN outcomes = 1 .. Len(outcomes)
  BY LenProperties DEF I
<1>5. /\ outcomes' = Append(outcomes, outcome) /\ outcomes' \in Seq(Outcome)
      /\ Len(outcomes') = I /\ DOMAIN outcomes' = 1 .. I
      /\ outcomes'[I] = outcome
      /\ \A i \in 1 .. Len(outcomes) : outcomes'[i] = outcomes[i]
  <2>1. outcomes' = Append(outcomes, outcome)
    BY DEF Decides
  <2> DEFINE O == Outcome
  <2> HIDE DEF O
  <2>2. outcomes \in Seq(O) /\ outcome \in O
    BY DEF O
  <2>3. /\ outcomes' \in Seq(O) /\ Len(outcomes') = Len(outcomes) + 1
        /\ outcomes'[Len(outcomes) + 1] = outcome
        /\ \A i \in 1 .. Len(outcomes) : outcomes'[i] = outcomes[i]
    BY <2>1, <2>2, AppendProperties
  <2>4. DOMAIN outcomes' = 1 .. Len(outcomes')
    BY <2>3, LenProperties
  <2> QED
    BY <1>4, <2>1, <2>3, <2>4 DEF O
<1>6. pc' = IF I = Len(batch) THEN "apply" ELSE "decide"
  BY DEF Decides
<1>7. DOMAIN results = {} /\ Len(results) = 0
  BY <1>3
<1>8. failed' \subseteq DOMAIN outcomes'
  BY <1>4, <1>5
<1>9. ASSUME NEW i \in DOMAIN outcomes' PROVE outcomes'[i].allow <=> i \notin failed' /\ Fine(i)'
  <2>1. CASE i = I
    <3>1. I \notin failed
      BY <1>4
    <3> QED
      BY <1>2, <1>5, <2>1, <3>1
  <2>2. CASE i # I
    <3>1. i \in 1 .. Len(outcomes)
      BY <1>4, <1>5, <2>2
    <3> QED
      BY <1>2, <1>4, <1>5, <2>2, <3>1
  <2> QED
    BY <2>1, <2>2
<1>10. (ran = {i \in DOMAIN results : outcomes[i].allow /\ ~IsCut(batch[i])})'
  BY <1>1, <1>7
<1>11. (events = {i \in DOMAIN results : ~outcomes[i].allow /\ ~IsCut(batch[i])})'
  BY <1>1, <1>7
<1>12. I <= Len(batch)
  BY <1>3, <1>4 DEF Deciding
<1>13. /\ pc' \in {"duplicates", "decide", "apply", "over"}
       /\ pc' = "decide" => positions' = DuplicatePositions' /\ Len(outcomes') < Len(batch')
       /\ pc' = "duplicates" => outcomes' = <<>>
       /\ pc' \in {"apply", "over"} => Len(outcomes') = Len(batch')
       /\ pc' = "apply" => Len(results') < Len(batch')
       /\ pc' \in {"duplicates", "decide"} => results' = <<>>
       /\ Len(results') <= Len(batch')
  BY <1>1, <1>2, <1>3, <1>4, <1>5, <1>6, <1>7, <1>12
<1> QED
  BY <1>1, <1>2, <1>5, <1>8, <1>9, <1>10, <1>11, <1>13

\* Applying one call more.
LEMMA AnswersKeeps ==
  ASSUME BatchInv, Applying, NEW how \in Results, NEW mayAbort, Answers(how, mayAbort),
         ran' = IF outcomes[At].allow /\ ~IsCut(batch[At]) THEN ran \cup {At} ELSE ran,
         events' = IF ~outcomes[At].allow /\ ~IsCut(batch[At]) THEN events \cup {At} ELSE events
  PROVE  BatchInv'
<1> USE DEF BatchInv
<1>1. turn' = turn /\ positions' = positions /\ outcomes' = outcomes /\ failed' = failed
  BY DEF Answers
<1>2. /\ batch' = batch /\ mode' = mode /\ cut' = cut
      /\ \A i : Fine(i)' <=> Fine(i)
      /\ \A c : IsCut(c)' = IsCut(c)
  BY <1>1, TurnStays
<1>3. /\ pc = "apply" /\ Len(batch) \in Nat /\ Positions = 1 .. Len(batch)
      /\ Len(results) \in Nat /\ At = Len(results) + 1 /\ DOMAIN results = 1 .. Len(results)
  BY TurnsAre, LenProperties DEF Applying, At
<1>4. /\ results' \in Seq(Results) /\ Len(results') = At /\ DOMAIN results' = 1 .. At
  <2>1. results' = Append(results, how)
    BY DEF Answers
  <2> DEFINE S == Results
  <2> HIDE DEF S
  <2>2. results \in Seq(S) /\ how \in S
    BY DEF S
  <2>3. results' \in Seq(S) /\ Len(results') = Len(results) + 1
    BY <2>1, <2>2, AppendProperties
  <2>4. DOMAIN results' = 1 .. Len(results')
    BY <2>3, LenProperties
  <2> QED
    BY <1>3, <2>3, <2>4 DEF S
<1>5. /\ pc' \in {"apply", "over"}
      /\ At = Len(batch) /\ pc' = "apply" => FALSE
  BY DEF Answers
<1>6. DOMAIN results' = DOMAIN results \cup {At}
  BY <1>3, <1>4
<1>7. (ran = {i \in DOMAIN results : outcomes[i].allow /\ ~IsCut(batch[i])})'
  BY <1>1, <1>2, <1>6
<1>8. (events = {i \in DOMAIN results : ~outcomes[i].allow /\ ~IsCut(batch[i])})'
  BY <1>1, <1>2, <1>6
<1>9. At <= Len(batch) /\ (pc' = "apply" => At < Len(batch))
  BY <1>3, <1>5 DEF Applying
<1>10. \A i \in DOMAIN outcomes' : outcomes'[i].allow <=> i \notin failed' /\ Fine(i)'
  BY <1>1, <1>2
<1> QED
  BY <1>1, <1>2, <1>3, <1>4, <1>5, <1>7, <1>8, <1>9, <1>10

LEMMA BatchInvHolds == Spec => []BatchInv
<1>1. Init => BatchInv
  <2> SUFFICES ASSUME Init PROVE BatchInv
    OBVIOUS
  <2>1. DOMAIN outcomes = {} /\ DOMAIN results = {} /\ Len(results) = 0
    BY DEF Init
  <2>2. Len(batch) \in Nat
    BY TurnsAre DEF Init
  <2> QED
    BY <2>1, <2>2 DEF Init, BatchInv
<1>2. BatchInv /\ [Next]_vars => BatchInv'
  <2> SUFFICES ASSUME BatchInv, [Next]_vars PROVE BatchInv'
    OBVIOUS
  <2>1. CASE FindDuplicates
    <3>1. /\ turn' = turn /\ results' = results /\ events' = events /\ ran' = ran
          /\ pc = "duplicates"
      BY <2>1 DEF FindDuplicates
    <3>2. /\ batch' = batch /\ mode' = mode /\ cut' = cut
          /\ DuplicatePositions' = DuplicatePositions
      BY <3>1, TurnStays
    <3>3. /\ outcomes = <<>> /\ results = <<>> /\ failed = {} /\ ran = {} /\ events = {}
          /\ Len(batch) \in Nat /\ Len(batch) >= 1 /\ Positions = 1 .. Len(batch)
          /\ Len(results) = 0 /\ DOMAIN results = {} /\ DOMAIN outcomes = {} /\ Len(outcomes) = 0
      BY <3>1, TurnsAre DEF BatchInv
    <3>4. CASE /\ positions' = DuplicatePositions /\ pc' = "decide"
               /\ outcomes' = outcomes /\ failed' = failed
      BY <3>1, <3>2, <3>3, <3>4 DEF BatchInv
    <3>5. ASSUME NEW event \in {"request", "none"},
                 outcomes' = [i \in Positions |-> Denied(Internal, FALSE, event)],
                 failed' = Positions, pc' = "apply"
          PROVE  BatchInv'
      <4>1. Denied(Internal, FALSE, event) \in Outcome /\ ~Denied(Internal, FALSE, event).allow
        BY <3>5 DEF Denied, Outcome, Codes
      <4>2. /\ outcomes' \in Seq(Outcome) /\ DOMAIN outcomes' = Positions
            /\ Len(outcomes') = Len(batch)
            /\ \A i \in Positions : ~outcomes'[i].allow
        <5> DEFINE O == Outcome
                   d == Denied(Internal, FALSE, event)
        <5>1. d \in O /\ ~d.allow
          BY <4>1
        <5> HIDE DEF O, d
        <5>2. outcomes' = [i \in 1 .. Len(batch) |-> d]
          BY <3>3, <3>5 DEF d
        <5>3. outcomes' \in Seq(O) /\ Len(outcomes') = Len(batch)
          BY <3>3, <5>1, <5>2
        <5> QED
          BY <3>3, <5>1, <5>2, <5>3 DEF O
      <4>3. /\ ran' = {} /\ events' = {} /\ results' = <<>>
            /\ DOMAIN results' = {} /\ Len(results') = 0
        BY <3>1, <3>3
      <4>4. \A i \in DOMAIN outcomes' : outcomes'[i].allow <=> i \notin failed' /\ Fine(i)'
        BY <3>5, <4>2
      <4>5. /\ (ran = {i \in DOMAIN results : outcomes[i].allow /\ ~IsCut(batch[i])})'
            /\ (events = {i \in DOMAIN results : ~outcomes[i].allow /\ ~IsCut(batch[i])})'
        BY <4>3
      <4>6. results' \in Seq(Results)
        BY <4>3
      <4>7. /\ mode' \in {"host", "docker"} /\ cut' \in BOOLEAN /\ batch' \in Batches
        BY <3>2 DEF BatchInv
      <4>8. failed' \subseteq DOMAIN outcomes'
        BY <3>5, <4>2
      <4>9. /\ pc' \in {"duplicates", "decide", "apply", "over"}
            /\ pc' = "decide" => positions' = DuplicatePositions' /\ Len(outcomes') < Len(batch')
            /\ pc' = "duplicates" => outcomes' = <<>>
            /\ pc' \in {"apply", "over"} => Len(outcomes') = Len(batch')
            /\ pc' = "apply" => Len(results') < Len(batch')
            /\ pc' \in {"duplicates", "decide"} => results' = <<>>
            /\ Len(results') <= Len(batch')
        BY <3>2, <3>3, <3>5, <4>2, <4>3
      <4> QED
        BY <4>2, <4>4, <4>5, <4>6, <4>7, <4>8, <4>9 DEF BatchInv
    <3> QED
      BY <2>1, <3>4, <3>5 DEF FindDuplicates
  <2>2. ASSUME Deciding
        PROVE  /\ I \in 1 .. Len(batch) /\ batch[I] = This /\ This \in Calls /\ I \in Nat
               /\ positions = DuplicatePositions /\ batch \in Batches
               /\ Evaluate(This) \in Codes /\ Rejection(This) \in Codes
    <3>1. I \in 1 .. Len(batch) /\ positions = DuplicatePositions /\ batch \in Batches
          /\ Len(batch) \in Nat
      BY <2>2, TurnsAre DEF Deciding, BatchInv
    <3>2. batch[I] = This /\ This \in Calls
      BY <3>1, TurnsAre DEF This
    <3> QED
      BY <3>1, <3>2, VerdictsAre
  <2>3. CASE Refuse
    <3>1. Deciding
      BY <2>3 DEF Refuse
    <3> DEFINE code == IF Duplicate THEN "call_id_duplicate" ELSE Rejection(This)
               outcome == Denied(code, FALSE, "request")
    <3>2. outcome \in Outcome /\ ~outcome.allow
      BY <2>2, <3>1 DEF Denied, Outcome, Codes
    <3>3. ~Fine(I)
      <4>1. CASE Rejection(This) # "none"
        BY <2>2, <3>1, <4>1 DEF Fine
      <4>2. CASE Rejection(This) = "none"
        <5>1. I \in DuplicatePositions
          BY <2>2, <2>3, <3>1, <4>2 DEF Refuse, Duplicate
        <5> QED
          BY <2>2, <3>1, <4>2, <5>1, DuplicatesAre DEF Fine
      <4> QED
        BY <4>1, <4>2
    <3>4. Decides(outcome) /\ failed' = failed
      BY <2>3 DEF Refuse
    <3> HIDE DEF outcome
    <3> QED
      BY <3>1, <3>2, <3>3, <3>4, DecidesKeeps
  <2>4. CASE Judge
    <3>1. Deciding /\ ~Duplicate /\ Rejection(This) = "none" /\ failed' = failed
      BY <2>4 DEF Judge
    <3> DEFINE outcome == IF Evaluate(This) = "none" THEN Allowed
                          ELSE Denied(Evaluate(This), TRUE, "action")
    <3>2. outcome \in Outcome /\ (outcome.allow <=> Evaluate(This) = "none")
      BY <2>2, <3>1 DEF Denied, Allowed, Outcome, Codes
    <3>3. \A j \in 1 .. I - 1 : batch[j].id # batch[I].id
      BY <2>2, <3>1, DuplicatesAre DEF Duplicate
    <3>4. outcome.allow <=> Fine(I)
      BY <2>2, <3>1, <3>2, <3>3 DEF Fine
    <3>5. Decides(outcome)
      BY <2>4 DEF Judge
    <3> HIDE DEF outcome
    <3> QED
      BY <3>1, <3>2, <3>4, <3>5, DecidesKeeps
  <2>5. ASSUME Deciding, NEW action \in BOOLEAN, NEW event \in {"action", "request", "none"},
               Decides(Denied(Internal, action, event)), failed' = failed \cup {I}
        PROVE  BatchInv'
    <3>1. /\ Denied(Internal, action, event) \in Outcome
          /\ ~Denied(Internal, action, event).allow
      BY DEF Denied, Outcome, Codes
    <3> QED
      BY <2>5, <3>1, DecidesKeeps
  <2>6. CASE FailBefore
    <3>1. PICK event \in {"request", "none"} : Decides(Denied(Internal, FALSE, event))
      BY <2>6 DEF FailBefore
    <3> QED
      BY <2>5, <2>6, <3>1 DEF FailBefore
  <2>7. CASE FailAfter
    <3>1. PICK event \in {"action", "request", "none"} : Decides(Denied(Internal, TRUE, event))
      BY <2>7 DEF FailAfter
    <3> QED
      BY <2>5, <2>7, <3>1 DEF FailAfter
  <2>8. CASE CutOff
    <3>1. Applying /\ IsCut(batch[At]) /\ Answers("cut", TRUE) /\ ran' = ran /\ events' = events
          /\ "cut" \in Results
      BY <2>8 DEF CutOff, Results
    <3> QED
      BY <3>1, AnswersKeeps
  <2>9. CASE Deny
    <3> DEFINE mayAbort == outcomes[At].code \in Strikes
    <3>1. /\ Applying /\ ~IsCut(batch[At]) /\ ~outcomes[At].allow /\ ran' = ran
          /\ events' = events \cup {At} /\ Answers("denied", mayAbort)
          /\ "denied" \in Results
      BY <2>9 DEF Deny, Results
    <3> HIDE DEF mayAbort
    <3> QED
      BY <3>1, AnswersKeeps
  <2>10. CASE Run
    <3> DEFINE how == IF KindOf(batch[At]) = <<"finish">> THEN "finish" ELSE "ran"
               mayAbort == KindOf(batch[At]) # <<"finish">>
    <3>1. /\ Applying /\ ~IsCut(batch[At]) /\ outcomes[At].allow /\ events' = events
          /\ ran' = ran \cup {At} /\ Answers(how, mayAbort)
      BY <2>10 DEF Run
    <3>2. how \in Results
      BY DEF Results
    <3> HIDE DEF mayAbort, how
    <3> QED
      BY <3>1, <3>2, AnswersKeeps
  <2>11. CASE UNCHANGED vars
    <3>1. /\ turn' = turn /\ pc' = pc /\ positions' = positions /\ outcomes' = outcomes
          /\ results' = results /\ events' = events /\ failed' = failed /\ ran' = ran
      BY <2>11 DEF vars
    <3>2. /\ batch' = batch /\ mode' = mode /\ cut' = cut
          /\ DuplicatePositions' = DuplicatePositions
          /\ \A i : Fine(i)' <=> Fine(i)
          /\ \A c : IsCut(c)' = IsCut(c)
      BY <3>1, TurnStays
    <3> QED
      BY <3>1, <3>2 DEF BatchInv
  <2> QED
    BY <2>1, <2>3, <2>4, <2>6, <2>7, <2>8, <2>9, <2>10, <2>11 DEF Next, Terminated
<1> QED
  BY <1>1, <1>2, PTL DEF Spec

-----------------------------------------------------------------------------
(* The theorems                                                             *)

\* What runs is allowed on its own merits and was not cut off, whatever any function of the
\* Firewall raised on the way; a failure denies its own call and no other; and every denial
\* the loop over the calls reached left a record (decide_batch and the loop in runner.py).
THEOREM FirewallFailsClosed == Spec => []FailsClosed
<1>1. BatchInv => FailsClosed
  <2> SUFFICES ASSUME BatchInv PROVE FailsClosed
    OBVIOUS
  <2>1. DOMAIN results \subseteq DOMAIN outcomes
    <3>1. CASE pc \in {"duplicates", "decide"}
      BY <3>1 DEF BatchInv
    <3>2. CASE pc \in {"apply", "over"}
      <4>1. /\ DOMAIN results = 1 .. Len(results) /\ DOMAIN outcomes = 1 .. Len(outcomes)
            /\ Len(results) \in Nat /\ Len(outcomes) \in Nat
        BY LenProperties DEF BatchInv
      <4> QED
        BY <3>2, <4>1 DEF BatchInv
    <3> QED
      BY <3>1, <3>2 DEF BatchInv
  <2>2. \A i \in ran : i \notin failed /\ Fine(i) /\ ~IsCut(batch[i])
    BY <2>1 DEF BatchInv
  <2>3. \A i \in DOMAIN outcomes \ failed : outcomes[i].allow <=> Fine(i)
    BY DEF BatchInv
  <2>4. events = {i \in DOMAIN results : ~outcomes[i].allow /\ ~IsCut(batch[i])}
    BY DEF BatchInv
  <2> QED
    BY <2>2, <2>3, <2>4 DEF FailsClosed, Fine
<1> QED
  BY <1>1, BatchInvHolds, PTL

\* The tool that the Firewall takes a call to be for is the one the registry runs, whatever
\* the name, the tools and the markers (normalize.recover_name against
\* ToolRegistry.recover_name).
THEOREM FirewallNamesAgree == Spec => []NamesAgree
<1>1. BatchInv => NamesAgree
  <2> SUFFICES ASSUME BatchInv, NEW i \in Positions
               PROVE  FirewallName(batch[i].name) = RegistryName(batch[i].name)
    BY DEF NamesAgree
  <2>1. batch[i] \in Calls
    BY TurnsAre DEF BatchInv
  <2>2. batch[i].name \in Tokens
    BY <2>1 DEF Calls
  <2> QED
    BY <2>2, SameNames
<1> QED
  BY <1>1, BatchInvHolds, PTL

\* The path rules let nothing through that the backend would refuse for where it leads, and
\* refuse nothing it would let through but a host path that leaves the worktree on its way:
\* for every path, and every worktree, reached by a link or not (_evaluate_path_kind against
\* resolve_in_worktree and _rel).
THEOREM FirewallLayersAgree == Spec => []LayersAgree
<1>1. BatchInv => LayersAgree
  <2> SUFFICES ASSUME BatchInv, NEW i \in Positions PROVE Agree(batch[i].path, Writes(batch[i]))
    BY DEF LayersAgree, Agree
  <2>1. batch[i] \in Calls
    BY TurnsAre DEF BatchInv
  <2> DEFINE path == batch[i].path
             writes == Writes(batch[i])
  <2>2. path \in [abs : BOOLEAN, parts : Tokens]
    BY <2>1 DEF Calls
  <2> HIDE DEF path, writes
  <2>3. Agree(path, writes)
    BY <2>2, DockerAgrees, HostAgrees DEF BatchInv
  <2> QED
    BY <2>3 DEF path, writes
<1> QED
  BY <1>1, BatchInvHolds, PTL
=============================================================================
