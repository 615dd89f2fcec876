-------------------------- MODULE Network_proofs --------------------------
(***************************************************************************)
(* Proofs about LineBlocks, Network and Grading, for any labs, networks,   *)
(* numbers of lines and commands.                                          *)
(*                                                                         *)
(* Lines: VtyRange leaves the settings of every existing line alone, adds  *)
(* exactly the missing lines of the range, and leaves no block partly in   *)
(* the range; the line submode of the only editor then holds what it was   *)
(* typed for.  A replay is followed block by block: below the line it has  *)
(* come to, lines are as on the device that printed them, and above as     *)
(* new.  A step of the network is a line command or leaves lines alone, so *)
(* all of this holds in the network.                                       *)
(*                                                                         *)
(* Then the properties of the network that are about its states: what the  *)
(* report is worth, what neighbours say of each other, and that the grader *)
(* and the commands agree on remote access.                                *)
(***************************************************************************)
EXTENDS Grading, TLAPS, FiniteSetTheorems, WellFoundedInduction

USE LineAssumption

-----------------------------------------------------------------------------
(* Least and greatest numbers.                                             *)

LEMMA LeastNumber ==
  ASSUME NEW T, T \subseteq Nat, T # {}
  PROVE  \E x \in T : \A y \in T : x <= y
<1>1. PICK x \in T : \A y \in T : ~ (<<y, x>> \in OpToRel(<, Nat))
  BY WFMin, NatLessThanWellFounded
<1>2. \A y \in T : ~ (y < x)
  BY <1>1 DEF OpToRel
<1> QED BY <1>2

LEMMA GreatestNumber ==
  ASSUME NEW T, T \subseteq Numbers, T # {}
  PROVE  \E x \in T : \A y \in T : y <= x
<1> DEFINE U == {LastLine - y : y \in T}
<1>0. \A y \in T : y \in Int /\ LastLine - y \in Nat
  BY DEF Numbers
<1>1. U \subseteq Nat /\ U # {}
  BY <1>0
<1>2. PICK u \in U : \A v \in U : u <= v
  <2> HIDE DEF U
  <2> QED BY <1>1, LeastNumber
<1>3. PICK x \in T : u = LastLine - x
  BY <1>2
<1>4. \A y \in T : u <= LastLine - y
  BY <1>2
<1> QED BY <1>0, <1>3, <1>4

-----------------------------------------------------------------------------
(* Blocks.                                                                 *)

LEMMA NewTyped == NewSettings \in Settings
  BY DEF NewSettings, Settings, AnyOutput

LEMMA BlockFields ==
  ASSUME NEW b \in BlockType
  PROVE  /\ b.first \in Nat /\ b.last \in Nat /\ b.first <= LastLine /\ b.last <= LastLine
         /\ b.first \in Numbers /\ b.last \in Numbers /\ b.set \in Settings
         /\ b = [first |-> b.first, last |-> b.last, set |-> b.set]
  BY DEF BlockType, Numbers

\* The pieces of a block: they have its lines and its settings, and are in the range or
\* outside.
LEMMA CutPieces ==
  ASSUME NEW b \in BlockType, b.first <= b.last, NEW f \in Numbers, NEW l \in Numbers, f <= l
  PROVE  /\ \A d \in Cut(b, f, l) :
              /\ d \in BlockType /\ d.set = b.set /\ d.first <= d.last
              /\ b.first <= d.first /\ d.last <= b.last
              /\ Overlaps(d, f, l) => Inside(d, f, l)
         /\ \A d, e \in Cut(b, f, l) : d = e \/ d.last < e.first \/ e.last < d.first
         /\ \A i \in Span(b) : \E d \in Cut(b, f, l) : i \in Span(d)
<1> DEFINE x == Part(b, b.first, Lower(b.last, f - 1))
           y == Part(b, Higher(b.first, f), Lower(b.last, l))
           z == Part(b, Higher(b.first, l + 1), b.last)
<1>1. /\ x.first = b.first /\ x.last = Lower(b.last, f - 1) /\ x.set = b.set
      /\ y.first = Higher(b.first, f) /\ y.last = Lower(b.last, l) /\ y.set = b.set
      /\ z.first = Higher(b.first, l + 1) /\ z.last = b.last /\ z.set = b.set
  BY DEF Part
<1>2. /\ x = [first |-> x.first, last |-> x.last, set |-> x.set]
      /\ y = [first |-> y.first, last |-> y.last, set |-> y.set]
      /\ z = [first |-> z.first, last |-> z.last, set |-> z.set]
  BY DEF Part
<1>3. Cut(b, f, l) = {d \in {x, y, z} : d.first <= d.last}
  BY DEF Cut
<1> HIDE DEF x, y, z
<1>4. f \in Nat /\ l \in Nat /\ f <= LastLine /\ l <= LastLine
  BY DEF Numbers
<1>5. /\ x.first <= x.last => x \in BlockType
      /\ y.first <= y.last => y \in BlockType
      /\ z.first <= z.last => z \in BlockType
  BY <1>1, <1>2, <1>4, BlockFields DEF BlockType, Numbers, Lower, Higher
<1>6. \A d \in Cut(b, f, l) :
        /\ d \in BlockType /\ d.set = b.set /\ d.first <= d.last
        /\ b.first <= d.first /\ d.last <= b.last
        /\ Overlaps(d, f, l) => Inside(d, f, l)
  BY <1>1, <1>3, <1>4, <1>5, BlockFields DEF Lower, Higher, Overlaps, Inside
<1>7. \A d, e \in Cut(b, f, l) : d = e \/ d.last < e.first \/ e.last < d.first
  BY <1>1, <1>3, <1>4, BlockFields DEF Lower, Higher
<1>8. ASSUME NEW i \in Span(b) PROVE \E d \in Cut(b, f, l) : i \in Span(d)
  <2>1. i \in Int /\ b.first <= i /\ i <= b.last
    BY BlockFields DEF Span
  <2>2. CASE i < f
    <3>1. x.first <= i /\ i <= x.last /\ x.first <= x.last
      BY <1>1, <1>4, <2>1, <2>2, BlockFields DEF Lower
    <3>2. i \in Span(x)
      BY <1>5, <2>1, <3>1, BlockFields DEF Span
    <3> QED BY <1>3, <3>1, <3>2
  <2>3. CASE f <= i /\ i <= l
    <3>1. y.first <= i /\ i <= y.last /\ y.first <= y.last
      BY <1>1, <1>4, <2>1, <2>3, BlockFields DEF Lower, Higher
    <3>2. i \in Span(y)
      BY <1>5, <2>1, <3>1, BlockFields DEF Span
    <3> QED BY <1>3, <3>1, <3>2
  <2>4. CASE l < i
    <3>1. z.first <= i /\ i <= z.last /\ z.first <= z.last
      BY <1>1, <1>4, <2>1, <2>4, BlockFields DEF Higher
    <3>2. i \in Span(z)
      BY <1>5, <2>1, <3>1, BlockFields DEF Span
    <3> QED BY <1>3, <3>1, <3>2
  <2> QED BY <1>4, <2>1, <2>2, <2>3, <2>4
<1> QED BY <1>6, <1>7, <1>8

\* Two runs that share a line are the same.
LEMMA RunsApart ==
  ASSUME NEW M, M \subseteq Numbers, NEW r \in Runs(M), NEW s \in Runs(M), r # s
  PROVE  r[2] < s[1] \/ s[2] < r[1]
<1>1. /\ r = <<r[1], r[2]>> /\ s = <<s[1], s[2]>> /\ IsRun(r, M) /\ IsRun(s, M)
      /\ r[1] \in M /\ r[2] \in M /\ s[1] \in M /\ s[2] \in M
  BY DEF Runs
<1>2. r[1] \in Nat /\ r[2] \in Nat /\ s[1] \in Nat /\ s[2] \in Nat
  BY <1>1 DEF Numbers
<1>3. ASSUME NEW t \in Runs(M), NEW k \in Nat, t[1] <= k, k < t[2]
      PROVE  Joins(k, k + 1, M)
  <2>1. IsRun(t, M) /\ t[1] \in M /\ t[2] \in M
    BY DEF Runs
  <2>2. t[1] \in Nat /\ t[2] \in Nat
    <3>1. t[1] \in Numbers /\ t[2] \in Numbers
      BY <2>1
    <3> QED BY <3>1 DEF Numbers
  <2>3. k \in M /\ k + 1 \in M
    BY <1>3, <2>1, <2>2 DEF IsRun
  <2> QED BY <1>3, <2>1, <2>2, <2>3 DEF IsRun, Joins, SameSide
<1>4. SUFFICES ASSUME s[1] <= r[2], r[1] <= s[2] PROVE FALSE
  BY <1>2
<1>5. CASE r[1] < s[1]
  <2>1. Joins(s[1] - 1, s[1] - 1 + 1, M)
    BY <1>2, <1>3, <1>4, <1>5
  <2> QED BY <1>1, <1>2, <2>1 DEF IsRun
<1>6. CASE s[1] < r[1]
  <2>1. Joins(r[1] - 1, r[1] - 1 + 1, M)
    BY <1>2, <1>3, <1>4, <1>6
  <2> QED BY <1>1, <1>2, <2>1 DEF IsRun
<1>7. CASE r[1] = s[1] /\ r[2] < s[2]
  <2>1. r[1] <= r[2]
    BY <1>1 DEF IsRun
  <2>2. Joins(r[2], r[2] + 1, M)
    BY <1>2, <1>3, <1>7, <2>1
  <2> QED BY <1>1, <2>2 DEF IsRun
<1>8. CASE r[1] = s[1] /\ s[2] < r[2]
  <2>1. s[1] <= s[2]
    BY <1>1 DEF IsRun
  <2>2. Joins(s[2], s[2] + 1, M)
    BY <1>2, <1>3, <1>8, <2>1
  <2> QED BY <1>1, <2>2 DEF IsRun
<1>9. CASE r[1] = s[1] /\ r[2] = s[2]
  BY <1>1, <1>9
<1> QED BY <1>2, <1>5, <1>6, <1>7, <1>8, <1>9

\* Every line is in a run.
LEMMA RunAround ==
  ASSUME NEW M, M \subseteq Numbers, NEW i \in M
  PROVE  \E r \in Runs(M) : r[1] <= i /\ i <= r[2]
<1> DEFINE A == {a \in M : a <= i /\ a..i \subseteq M /\ SameSide(a, i)}
           C == {c \in M : i <= c /\ i..c \subseteq M /\ SameSide(i, c)}
<1>0. i \in Nat
  BY DEF Numbers
<1>1. i \in A /\ i \in C
  BY <1>0 DEF SameSide
<1>2. A \subseteq Nat /\ C \subseteq Numbers
  <2>1. Numbers \subseteq Nat
    BY DEF Numbers
  <2> QED BY <2>1
<1>3. PICK a \in A : \A x \in A : a <= x
  <2> HIDE DEF A
  <2> QED BY <1>1, <1>2, LeastNumber
<1>4. PICK c \in C : \A x \in C : x <= c
  <2> HIDE DEF C
  <2> QED BY <1>1, <1>2, GreatestNumber
<1>5. a \in M /\ c \in M /\ a \in Nat /\ c \in Nat /\ a <= i /\ i <= c
  BY <1>2, <1>3, <1>4 DEF Numbers
<1>6. a..c \subseteq M /\ SameSide(a, c)
  BY <1>0, <1>3, <1>4, <1>5 DEF SameSide
<1>7. ~Joins(a - 1, a, M)
  <2>1. SUFFICES ASSUME Joins(a - 1, a, M) PROVE FALSE
    OBVIOUS
  <2>2. a - 1 \in M /\ a - 1 \in Nat
    BY <2>1 DEF Joins, Numbers
  <2>3. a - 1 \in A
    BY <1>0, <1>3, <1>5, <2>1, <2>2 DEF Joins, SameSide
  <2> QED BY <1>3, <1>5, <2>3
<1>8. ~Joins(c, c + 1, M)
  <2>1. SUFFICES ASSUME Joins(c, c + 1, M) PROVE FALSE
    OBVIOUS
  <2>2. c + 1 \in M
    BY <2>1 DEF Joins
  <2>3. c + 1 \in C
    BY <1>0, <1>4, <1>5, <2>1, <2>2 DEF Joins, SameSide
  <2> QED BY <1>4, <1>5, <2>3
<1>9. <<a, c>> \in Runs(M)
  BY <1>0, <1>5, <1>6, <1>7, <1>8 DEF Runs, IsRun
<1> QED BY <1>5, <1>9

LEMMA NewPieces ==
  ASSUME NEW B, NEW f \in Numbers, NEW l \in Numbers
  PROVE  /\ \A d \in NewBlocks(B, f, l) :
              /\ d \in BlockType /\ d.set = NewSettings /\ d.first <= d.last
              /\ Inside(d, f, l)
              /\ Span(d) \subseteq (f..l) \ LinesOf(B)
         /\ \A d, e \in NewBlocks(B, f, l) : d = e \/ d.last < e.first \/ e.last < d.first
         /\ \A i \in (f..l) \ LinesOf(B) : \E d \in NewBlocks(B, f, l) : i \in Span(d)
<1> DEFINE M == (f..l) \ LinesOf(B)
           New(r) == [first |-> r[1], last |-> r[2], set |-> NewSettings]
<1>1. M \subseteq Numbers
  BY DEF Numbers
<1>2. NewBlocks(B, f, l) = {New(r) : r \in Runs(M)}
  BY DEF NewBlocks
<1>3. ASSUME NEW r \in Runs(M)
      PROVE  r[1] \in M /\ r[2] \in M /\ r[1] <= r[2] /\ r[1]..r[2] \subseteq M
  BY DEF Runs, IsRun
<1>4. ASSUME NEW r \in Runs(M)
      PROVE  /\ New(r) \in BlockType /\ New(r).set = NewSettings /\ New(r).first <= New(r).last
             /\ Inside(New(r), f, l) /\ Span(New(r)) \subseteq M
  <2>1. r[1] \in Numbers /\ r[2] \in Numbers /\ f <= r[1] /\ r[2] <= l
    <3>1. r[1] \in f..l /\ r[2] \in f..l
      BY <1>3
    <3>2. f \in Int /\ l \in Int
      BY DEF Numbers
    <3> QED BY <1>1, <1>3, <3>1, <3>2
  <2>2. New(r) \in BlockType
    BY <2>1, NewTyped DEF BlockType
  <2> QED BY <1>3, <2>1, <2>2 DEF Inside, Span
<1>5. ASSUME NEW i \in M PROVE \E d \in NewBlocks(B, f, l) : i \in Span(d)
  <2>1. PICK r \in Runs(M) : r[1] <= i /\ i <= r[2]
    <3> HIDE DEF M
    <3> QED BY <1>1, <1>5, RunAround
  <2>2. r[1] \in Int /\ r[2] \in Int /\ i \in Int
    BY <1>3
  <2>3. i \in Span(New(r))
    BY <2>1, <2>2 DEF Span
  <2> QED BY <1>2, <2>3
<1>6. ASSUME NEW r \in Runs(M), NEW s \in Runs(M)
      PROVE  New(r) = New(s) \/ New(r).last < New(s).first \/ New(s).last < New(r).first
  <2> HIDE DEF M
  <2>1. r = s \/ r[2] < s[1] \/ s[2] < r[1]
    BY <1>1, RunsApart
  <2> QED BY <2>1
<1> HIDE DEF New, M
<1>7. \A d \in NewBlocks(B, f, l) :
        /\ d \in BlockType /\ d.set = NewSettings /\ d.first <= d.last
        /\ Inside(d, f, l) /\ Span(d) \subseteq M
  BY <1>2, <1>4
<1>8. \A d, e \in NewBlocks(B, f, l) : d = e \/ d.last < e.first \/ e.last < d.first
  BY <1>2, <1>6
<1> QED BY <1>5, <1>7, <1>8 DEF M

-----------------------------------------------------------------------------
(* Splitting a range and setting lines.                                    *)

LEMMA SplitTyped ==
  ASSUME NEW B, B \subseteq BlockType, Proper(B), NEW f \in Numbers, NEW l \in Numbers, f <= l
  PROVE  \A d \in VtyRange(B, f, l) : /\ d \in BlockType /\ d.first <= d.last
                                      /\ Overlaps(d, f, l) => Inside(d, f, l)
<1>1. ASSUME NEW b \in B, NEW d \in Cut(b, f, l)
      PROVE  d \in BlockType /\ d.first <= d.last /\ (Overlaps(d, f, l) => Inside(d, f, l))
  <2>1. b \in BlockType /\ b.first <= b.last
    BY DEF Proper
  <2> QED BY <2>1, CutPieces
<1>2. ASSUME NEW d \in NewBlocks(B, f, l)
      PROVE  d \in BlockType /\ d.first <= d.last /\ Inside(d, f, l)
  BY NewPieces
<1> QED BY <1>1, <1>2 DEF VtyRange

LEMMA SplitProper ==
  ASSUME NEW B, B \subseteq BlockType, Proper(B), NEW f \in Numbers, NEW l \in Numbers, f <= l
  PROVE  Proper(VtyRange(B, f, l))
<1> DEFINE Apart(d, e) == d.last < e.first \/ e.last < d.first
<1>1. ASSUME NEW b \in B, NEW c \in B, NEW d \in Cut(b, f, l), NEW e \in Cut(c, f, l)
      PROVE  d = e \/ Apart(d, e)
  <2>1. /\ b \in BlockType /\ b.first <= b.last /\ c \in BlockType /\ c.first <= c.last
        /\ b = c \/ b.last < c.first \/ c.last < b.first
    BY DEF Proper
  <2>2. CASE b = c
    BY <2>1, <2>2, CutPieces
  <2>3. CASE b # c
    <3>1. /\ d \in BlockType /\ b.first <= d.first /\ d.last <= b.last
          /\ e \in BlockType /\ c.first <= e.first /\ e.last <= c.last
      BY <2>1, CutPieces
    <3>2. /\ b.first \in Nat /\ b.last \in Nat /\ c.first \in Nat /\ c.last \in Nat
          /\ d.first \in Nat /\ d.last \in Nat /\ e.first \in Nat /\ e.last \in Nat
      BY <2>1, <3>1, BlockFields
    <3> QED BY <2>1, <2>3, <3>1, <3>2
  <2> QED BY <2>2, <2>3
<1>2. ASSUME NEW b \in B, NEW d \in Cut(b, f, l), NEW e \in NewBlocks(B, f, l)
      PROVE  Apart(d, e)
  <2>1. b \in BlockType /\ b.first <= b.last
    BY DEF Proper
  <2>2. d \in BlockType /\ d.first <= d.last /\ b.first <= d.first /\ d.last <= b.last
    BY <2>1, CutPieces
  <2>3. e \in BlockType /\ e.first <= e.last /\ Span(e) \cap LinesOf(B) = {}
    BY NewPieces
  <2>4. /\ b.first \in Nat /\ b.last \in Nat /\ d.first \in Nat /\ d.last \in Nat
        /\ e.first \in Nat /\ e.last \in Nat
    BY <2>1, <2>2, <2>3, BlockFields
  <2>5. SUFFICES ASSUME d.first <= e.last, e.first <= d.last PROVE FALSE
    BY <2>4
  <2>6. \E i \in Nat : d.first <= i /\ i <= d.last /\ e.first <= i /\ i <= e.last
    <3>1. CASE d.first <= e.first
      BY <2>2, <2>3, <2>4, <2>5, <3>1
    <3>2. CASE e.first <= d.first
      BY <2>2, <2>3, <2>4, <2>5, <3>2
    <3> QED BY <2>4, <3>1, <3>2
  <2>7. PICK i \in Nat : i \in Span(b) /\ i \in Span(e)
    BY <2>2, <2>4, <2>6 DEF Span
  <2>8. i \in LinesOf(B)
    BY <2>7 DEF LinesOf
  <2> QED BY <2>3, <2>7, <2>8
<1>3. \A d, e \in NewBlocks(B, f, l) : d = e \/ Apart(d, e)
  BY NewPieces
<1>4. \A d \in VtyRange(B, f, l) :
        (\E b \in B : d \in Cut(b, f, l)) \/ d \in NewBlocks(B, f, l)
  BY DEF VtyRange
<1>5. ASSUME NEW d \in VtyRange(B, f, l), NEW e \in VtyRange(B, f, l)
      PROVE  d = e \/ Apart(d, e)
  BY <1>1, <1>2, <1>3, <1>4
<1> QED BY <1>5, SplitTyped DEF Proper

\* A split changes the settings of no line; missing lines of the range are made.
LEMMA SplitSettings ==
  ASSUME NEW B, B \subseteq BlockType, Proper(B), NEW f \in Numbers, NEW l \in Numbers, f <= l,
         NEW i \in Numbers
  PROVE  SettingsAt(VtyRange(B, f, l), i) =
           IF i \in f..l /\ SettingsAt(B, i) = {} THEN {NewSettings} ELSE SettingsAt(B, i)
<1> DEFINE V == VtyRange(B, f, l)
           N == NewBlocks(B, f, l)
<1>1. ASSUME NEW b \in B PROVE b \in BlockType /\ b.first <= b.last
  BY DEF Proper
<1>2. ASSUME NEW b \in B, NEW d \in Cut(b, f, l), i \in Span(d)
      PROVE  i \in Span(b) /\ d.set = b.set
  <2>1. d \in BlockType /\ b.first <= d.first /\ d.last <= b.last /\ d.set = b.set
    BY <1>1, CutPieces
  <2>2. /\ b.first \in Nat /\ b.last \in Nat /\ d.first \in Nat /\ d.last \in Nat
    BY <1>1, <2>1, BlockFields
  <2> QED BY <1>2, <2>1, <2>2 DEF Span
<1>3. ASSUME NEW b \in B, i \in Span(b)
      PROVE  \E d \in V : i \in Span(d) /\ d.set = b.set
  <2>1. PICK d \in Cut(b, f, l) : i \in Span(d)
    BY <1>1, <1>3, CutPieces
  <2>2. d.set = b.set
    BY <1>1, CutPieces
  <2> QED BY <2>1, <2>2 DEF VtyRange
<1>4. ASSUME NEW d \in N, i \in Span(d)
      PROVE  i \in f..l /\ i \notin LinesOf(B) /\ d.set = NewSettings
  BY <1>4, NewPieces
<1>5. ASSUME i \in f..l, i \notin LinesOf(B) PROVE \E d \in N : i \in Span(d)
  BY <1>5, NewPieces
<1>6. i \in LinesOf(B) <=> SettingsAt(B, i) # {}
  BY DEF LinesOf, SettingsAt
<1>7. ASSUME NEW d \in V PROVE (\E b \in B : d \in Cut(b, f, l)) \/ d \in N
  BY DEF VtyRange
<1>8. N \subseteq V
  BY DEF VtyRange
<1> HIDE DEF V, N
<1>9. CASE i \in f..l /\ SettingsAt(B, i) = {}
  <2>1. \A s : s \in SettingsAt(V, i) <=> s = NewSettings
    BY <1>2, <1>4, <1>5, <1>6, <1>7, <1>8, <1>9 DEF SettingsAt
  <2>2. SettingsAt(V, i) = {NewSettings}
    BY <2>1
  <2> QED BY <1>9, <2>2 DEF V
<1>10. CASE ~(i \in f..l /\ SettingsAt(B, i) = {})
  <2>1. ASSUME NEW d \in V, i \in Span(d) PROVE d.set \in SettingsAt(B, i)
    BY <1>2, <1>4, <1>6, <1>7, <1>10, <2>1 DEF SettingsAt
  <2>2. ASSUME NEW b \in B, i \in Span(b) PROVE b.set \in SettingsAt(V, i)
    BY <1>3, <2>2 DEF SettingsAt
  <2>3. SettingsAt(V, i) \subseteq SettingsAt(B, i) /\ SettingsAt(B, i) \subseteq SettingsAt(V, i)
    BY <2>1, <2>2 DEF SettingsAt
  <2>4. SettingsAt(V, i) = SettingsAt(B, i)
    BY <2>3
  <2> QED BY <1>10, <2>4 DEF V
<1> QED BY <1>9, <1>10

LEMMA ChangeTyped ==
  ASSUME NEW change \in Changes
  PROVE  change \in [Settings -> Settings]
<1>1. ASSUME NEW v \in Passwords \cup {NoPassword} PROVE LinePassword(v) \in [Settings -> Settings]
  BY DEF LinePassword, Settings
<1>2. ASSUME NEW v \in {"none", "line", "local"} PROVE LineLogin(v) \in [Settings -> Settings]
  BY DEF LineLogin, Settings
<1>3. ASSUME NEW v \in SUBSET Transports PROVE TransportInput(v) \in [Settings -> Settings]
  BY DEF TransportInput, Settings
<1>4. ASSUME NEW v \in (SUBSET Transports) \cup {AnyOutput} PROVE TransportOutput(v) \in [Settings -> Settings]
  BY DEF TransportOutput, Settings
<1> QED BY <1>1, <1>2, <1>3, <1>4 DEF Changes

\* Setting lines changes the settings of the blocks held and moves no block.
LEMMA SetLinesBlocks ==
  ASSUME NEW B, B \subseteq BlockType, Proper(B), NEW S, NEW change \in [Settings -> Settings]
  PROVE  LET C == SetBlocks(B, S, change)
         IN /\ C \subseteq BlockType /\ Proper(C)
            /\ \A c \in C : \E b \in B :
                 /\ c.first = b.first /\ c.last = b.last
                 /\ c.set = IF b.first \in S THEN change[b.set] ELSE b.set
            /\ \A b \in B : \E c \in C :
                 /\ c.first = b.first /\ c.last = b.last
                 /\ c.set = IF b.first \in S THEN change[b.set] ELSE b.set
<1> DEFINE Grown(b) == IF b.first \in S THEN [b EXCEPT !.set = change[@]] ELSE b
           C == SetBlocks(B, S, change)
<1>1. C = {Grown(b) : b \in B}
  BY DEF SetBlocks
<1>2. ASSUME NEW b \in B
      PROVE  /\ Grown(b) \in BlockType /\ Grown(b).first = b.first /\ Grown(b).last = b.last
             /\ Grown(b).set = IF b.first \in S THEN change[b.set] ELSE b.set
  <2>1. b \in BlockType /\ b.set \in Settings /\ change[b.set] \in Settings
    BY BlockFields
  <2> QED BY <2>1 DEF BlockType
<1> HIDE DEF Grown, C
<1>3. C \subseteq BlockType
  BY <1>1, <1>2
<1>4. ASSUME NEW c \in C, NEW d \in C PROVE c = d \/ c.last < d.first \/ d.last < c.first
  <2>1. PICK b \in B, e \in B : c = Grown(b) /\ d = Grown(e)
    BY <1>1
  <2>2. b = e \/ b.last < e.first \/ e.last < b.first
    BY DEF Proper
  <2> QED BY <1>2, <2>1, <2>2
<1>5. \A c \in C : c.first <= c.last
  BY <1>1, <1>2 DEF Proper
<1>6. Proper(C)
  BY <1>4, <1>5 DEF Proper
<1> QED BY <1>1, <1>2, <1>3, <1>6 DEF C

-----------------------------------------------------------------------------
(* The running configuration.                                              *)

\* Of Proper blocks one at most has a line, and At names its settings.
LEMMA AtSettings ==
  ASSUME NEW B, B \subseteq BlockType, Proper(B), NEW i \in LinesOf(B)
  PROVE  i \in Numbers /\ At(B, i) \in Settings /\ SettingsAt(B, i) = {At(B, i)}
<1>1. PICK b \in B : i \in Span(b)
  BY DEF LinesOf
<1>2. /\ b.first \in Nat /\ b.last \in Nat /\ b.last <= LastLine /\ b.set \in Settings
      /\ i \in Nat /\ b.first <= i /\ i <= b.last
  BY <1>1, BlockFields DEF Span
<1>3. ASSUME NEW c \in B, i \in Span(c) PROVE c = b
  <2>1. c.first \in Nat /\ c.last \in Nat /\ c.first <= i /\ i <= c.last
    BY <1>3, BlockFields DEF Span
  <2>2. c = b \/ c.last < b.first \/ b.last < c.first
    BY DEF Proper
  <2> QED BY <1>2, <2>1, <2>2
<1>4. At(B, i) = b.set
  BY <1>1, <1>3 DEF At
<1>5. SettingsAt(B, i) = {b.set}
  BY <1>1, <1>3 DEF SettingsAt
<1> QED BY <1>2, <1>4, <1>5 DEF Numbers

LEMMA NoSettings ==
  ASSUME NEW B, NEW i
  PROVE  SettingsAt(B, i) = {} <=> i \notin LinesOf(B)
BY DEF SettingsAt, LinesOf

LEMMA PrintAlikeRelation ==
  ASSUME NEW B, NEW i, NEW j
  PROVE  /\ i \in LinesOf(B) => PrintAlike(B, i, i)
         /\ PrintAlike(B, i, j) => PrintAlike(B, j, i) /\ i \in LinesOf(B) /\ j \in LinesOf(B)
         /\ \A k : PrintAlike(B, i, j) /\ PrintAlike(B, j, k) => PrintAlike(B, i, k)
BY DEF PrintAlike, Joins, SameSide

\* The printed blocks have the lines of the device with their settings, and begin at
\* different lines.
LEMMA PrintedBlocks ==
  ASSUME NEW B, B \subseteq BlockType, Proper(B)
  PROVE  /\ \A p \in Rendered(B) :
              /\ p \in BlockType /\ p.first <= p.last
              /\ \A i \in Span(p) : i \in LinesOf(B) /\ SettingsAt(B, i) = {p.set} /\ At(B, i) = p.set
         /\ \A i \in LinesOf(B) : \E p \in Rendered(B) : i \in Span(p)
         /\ \A p, q \in Rendered(B) : p.first = q.first => p = q
<1> DEFINE L == LinesOf(B)
           Shape(r) == [first |-> r[1], last |-> r[2], set |-> At(B, r[1])]
           R == {r \in L \X L : Printed(B, r)}
<1>1. Rendered(B) = {Shape(r) : r \in R}
  BY DEF Rendered
<1>2. L \subseteq Numbers /\ L \subseteq Nat
  <2>1. L \subseteq Numbers
    BY AtSettings
  <2> QED BY <2>1 DEF Numbers
<1>3. ASSUME NEW r \in R
      PROVE  /\ Shape(r) \in BlockType /\ Shape(r).first <= Shape(r).last
             /\ \A i \in Span(Shape(r)) : /\ i \in L /\ SettingsAt(B, i) = {Shape(r).set}
                                          /\ At(B, i) = Shape(r).set
  <2>1. r[1] \in L /\ r[2] \in L /\ Printed(B, r)
    OBVIOUS
  <2>2. Shape(r) \in BlockType
    BY <1>2, <2>1, AtSettings DEF BlockType
  <2>3. r[1] <= r[2]
    BY <2>1 DEF Printed
  <2>4. ASSUME NEW i \in r[1]..r[2]
        PROVE  i \in L /\ SettingsAt(B, i) = {At(B, r[1])} /\ At(B, i) = At(B, r[1])
    <3>1. PrintAlike(B, r[1], i)
      BY <2>1 DEF Printed
    <3>2. i \in L /\ At(B, i) = At(B, r[1])
      BY <3>1 DEF PrintAlike, Joins
    <3> QED BY <3>2, AtSettings
  <2> QED BY <2>2, <2>3, <2>4 DEF Span
<1>4. ASSUME NEW i \in L PROVE \E r \in R : r[1] <= i /\ i <= r[2]
  <2> DEFINE A == {a \in L : a <= i /\ \A k \in a..i : PrintAlike(B, k, i)}
             C == {c \in L : i <= c /\ \A k \in i..c : PrintAlike(B, k, i)}
  <2>0. i \in Nat
    BY <1>2
  <2>1. i \in A /\ i \in C
    <3>1. \A k \in i..i : PrintAlike(B, k, i)
      BY <2>0, PrintAlikeRelation
    <3> QED BY <2>0, <3>1
  <2>2. PICK a \in A : \A x \in A : a <= x
    <3>1. A \subseteq Nat
      BY <1>2
    <3> HIDE DEF A
    <3> QED BY <2>1, <3>1, LeastNumber
  <2>3. PICK c \in C : \A x \in C : x <= c
    <3>1. C \subseteq Numbers
      BY <1>2
    <3> HIDE DEF C
    <3> QED BY <2>1, <3>1, GreatestNumber
  <2>4. a \in L /\ c \in L /\ a \in Nat /\ c \in Nat /\ a <= i /\ i <= c
    BY <1>2
  <2>5. ASSUME NEW k \in a..c PROVE PrintAlike(B, k, i)
    <3>1. k \in a..i \/ k \in i..c
      BY <2>0, <2>4
    <3> QED BY <2>2, <2>3, <3>1
  <2>6. \A k \in a..c : PrintAlike(B, a, k)
    <3>1. PrintAlike(B, a, i)
      BY <2>4, <2>5
    <3> QED BY <2>5, <3>1, PrintAlikeRelation
  <2>7. ~PrintAlike(B, a - 1, a)
    <3> SUFFICES ASSUME PrintAlike(B, a - 1, a) PROVE FALSE
      OBVIOUS
    <3>1. a - 1 \in L /\ a - 1 \in Nat
      BY <1>2, PrintAlikeRelation
    <3>2. PrintAlike(B, a - 1, i)
      BY <2>4, <2>5, PrintAlikeRelation
    <3>3. ASSUME NEW k \in (a - 1)..i PROVE PrintAlike(B, k, i)
      <4>1. k = a - 1 \/ k \in a..i
        BY <2>0, <2>4
      <4> QED BY <2>2, <3>2, <4>1
    <3>4. a - 1 \in A
      BY <2>0, <2>4, <3>1, <3>3
    <3> QED BY <2>2, <2>4, <3>4
  <2>8. ~PrintAlike(B, c, c + 1)
    <3> SUFFICES ASSUME PrintAlike(B, c, c + 1) PROVE FALSE
      OBVIOUS
    <3>1. c + 1 \in L /\ c + 1 \in Nat
      BY <1>2, PrintAlikeRelation
    <3>2. PrintAlike(B, c + 1, i)
      BY <2>4, <2>5, PrintAlikeRelation
    <3>3. ASSUME NEW k \in i..(c + 1) PROVE PrintAlike(B, k, i)
      <4>1. k = c + 1 \/ k \in i..c
        BY <2>0, <2>4
      <4> QED BY <2>3, <3>2, <4>1
    <3>4. c + 1 \in C
      BY <2>0, <2>4, <3>1, <3>3
    <3> QED BY <2>3, <2>4, <3>4
  <2>9. <<a, c>> \in R
    BY <2>0, <2>4, <2>6, <2>7, <2>8 DEF Printed
  <2> QED BY <2>4, <2>9
<1>5. ASSUME NEW r \in R, NEW s \in R, r[1] = s[1], r[2] < s[2] PROVE FALSE
  <2>1. /\ r[1] \in Nat /\ r[2] \in Nat /\ s[2] \in Nat /\ r[1] <= r[2]
        /\ Printed(B, r) /\ Printed(B, s)
    BY <1>2 DEF Printed
  <2>2. PrintAlike(B, r[1], r[2]) /\ PrintAlike(B, r[1], r[2] + 1)
    BY <1>5, <2>1 DEF Printed
  <2>3. PrintAlike(B, r[2], r[2] + 1)
    BY <2>2, PrintAlikeRelation
  <2> QED BY <2>1, <2>3 DEF Printed
<1>6. ASSUME NEW r \in R, NEW s \in R, r[1] = s[1] PROVE Shape(r) = Shape(s)
  <2>1. r[2] \in Nat /\ s[2] \in Nat
    BY <1>2
  <2>2. r[2] = s[2]
    BY <1>5, <1>6, <2>1
  <2> QED BY <1>6, <2>2
<1>7. \A i \in L : \E p \in Rendered(B) : i \in Span(p)
  <2> TAKE i \in L
  <2>1. PICK r \in R : r[1] <= i /\ i <= r[2]
    BY <1>4
  <2>2. r[1] \in Nat /\ r[2] \in Nat /\ i \in Nat
    BY <1>2
  <2>3. i \in Span(Shape(r))
    BY <2>1, <2>2 DEF Span
  <2> QED BY <1>1, <2>3
<1>8. \A p \in Rendered(B) :
        /\ p \in BlockType /\ p.first <= p.last
        /\ \A i \in Span(p) : i \in L /\ SettingsAt(B, i) = {p.set} /\ At(B, i) = p.set
  <2> HIDE DEF Shape, R, L
  <2> QED BY <1>1, <1>3
<1>9. \A p, q \in Rendered(B) : p.first = q.first => p = q
  <2>1. \A r \in R : Shape(r).first = r[1]
    OBVIOUS
  <2> HIDE DEF Shape, R, L
  <2> QED BY <1>1, <1>6, <2>1
<1> QED BY <1>7, <1>8, <1>9

\* A printed block sets all that it can; what it leaves out is what a new line has, or what
\* it set before.
LEMMA EnteredSettings ==
  ASSUME NEW s \in Settings, NEW o \in Settings
  PROVE  /\ Entered(s, o) \in Settings
         /\ Entered(s, NewSettings) = s
         /\ Entered(s, s) = s
<1>1. /\ s = [login |-> s.login, password |-> s.password, input |-> s.input, output |-> s.output]
      /\ s.login \in {"none", "line", "local"} /\ s.password \in Passwords \cup {NoPassword}
      /\ s.input \in SUBSET Transports /\ s.output \in (SUBSET Transports) \cup {AnyOutput}
      /\ o.password \in Passwords \cup {NoPassword}
      /\ o.output \in (SUBSET Transports) \cup {AnyOutput}
  BY DEF Settings
<1>2. ASSUME NEW x
      PROVE  Entered(s, x) = [login |-> s.login,
                              password |-> IF s.password = NoPassword THEN x.password ELSE s.password,
                              input |-> s.input,
                              output |-> IF s.output = AnyOutput THEN x.output ELSE s.output]
  BY DEF Entered
<1>3. Entered(s, o) \in Settings
  BY <1>1, <1>2 DEF Settings
<1>4. NewSettings.password = NoPassword /\ NewSettings.output = AnyOutput
  BY DEF NewSettings
<1> QED BY <1>1, <1>2, <1>3, <1>4

\* A printed block typed in: its lines exist with its settings, the others are as before.
LEMMA RetypedBlocks ==
  ASSUME NEW B, B \subseteq BlockType, Proper(B), NEW p \in BlockType, p.first <= p.last
  PROVE  /\ Retyped(B, p) \subseteq BlockType /\ Proper(Retyped(B, p))
         /\ \A i \in Numbers : i \notin Span(p) => SettingsAt(Retyped(B, p), i) = SettingsAt(B, i)
         /\ \A i \in Span(p) : SettingsAt(B, i) \subseteq {NewSettings, p.set} =>
              SettingsAt(Retyped(B, p), i) = {p.set}
<1> DEFINE f == p.first
           l == p.last
           V == VtyRange(B, f, l)
           Grown(b) == IF Inside(b, f, l) THEN [b EXCEPT !.set = Entered(p.set, @)] ELSE b
           C == Retyped(B, p)
<1>1. f \in Numbers /\ l \in Numbers /\ f \in Nat /\ l \in Nat /\ p.set \in Settings
  BY BlockFields
<1>2. /\ V \subseteq BlockType /\ Proper(V)
      /\ \A b \in V : Overlaps(b, f, l) => Inside(b, f, l)
      /\ \A i \in Numbers : SettingsAt(V, i) =
           IF i \in f..l /\ SettingsAt(B, i) = {} THEN {NewSettings} ELSE SettingsAt(B, i)
  BY <1>1, SplitTyped, SplitProper, SplitSettings
<1>3. C = {Grown(b) : b \in V}
  BY DEF Retyped
<1>4. ASSUME NEW b \in V
      PROVE  /\ Grown(b) \in BlockType /\ Grown(b).first = b.first /\ Grown(b).last = b.last
             /\ Grown(b).set = IF Inside(b, f, l) THEN Entered(p.set, b.set) ELSE b.set
  <2>1. b \in BlockType /\ b.set \in Settings
    BY <1>2, BlockFields
  <2>2. Entered(p.set, b.set) \in Settings
    BY <1>1, <2>1, EnteredSettings
  <2> QED BY <2>1, <2>2 DEF BlockType
<1>5. Span(p) = f..l /\ f..l \subseteq Numbers
  BY <1>1 DEF Span, Numbers
<1> HIDE DEF V, Grown, C, f, l
<1>6. C \subseteq BlockType
  BY <1>3, <1>4
<1>7. Proper(C)
  <2>1. ASSUME NEW c \in C, NEW d \in C PROVE c = d \/ c.last < d.first \/ d.last < c.first
    <3>1. PICK b \in V, e \in V : c = Grown(b) /\ d = Grown(e)
      BY <1>3
    <3>2. b = e \/ b.last < e.first \/ e.last < b.first
      BY <1>2 DEF Proper
    <3> QED BY <1>4, <3>1, <3>2
  <2>2. \A c \in C : c.first <= c.last
    BY <1>2, <1>3, <1>4 DEF Proper
  <2> QED BY <2>1, <2>2 DEF Proper
<1>8. ASSUME NEW i \in Numbers, NEW b \in V, i \in Span(b)
      PROVE  Inside(b, f, l) <=> i \in f..l
  <2>1. b.first \in Nat /\ b.last \in Nat /\ b.first <= i /\ i <= b.last /\ i \in Nat
    BY <1>2, <1>8, BlockFields DEF Span, Numbers
  <2> QED BY <1>1, <1>2, <2>1 DEF Inside, Overlaps
<1>9. ASSUME NEW i \in Numbers, NEW b \in V PROVE i \in Span(Grown(b)) <=> i \in Span(b)
  BY <1>4 DEF Span
<1>10. ASSUME NEW i \in Numbers, i \notin f..l PROVE SettingsAt(C, i) = SettingsAt(B, i)
  <2>1. ASSUME NEW b \in V, i \in Span(b) PROVE Grown(b).set = b.set
    BY <1>4, <1>8, <1>10, <2>1
  <2>2. SettingsAt(C, i) = SettingsAt(V, i)
    BY <1>3, <1>9, <2>1 DEF SettingsAt
  <2> QED BY <1>2, <1>10, <2>2
<1>11. ASSUME NEW i \in f..l, SettingsAt(B, i) \subseteq {NewSettings, p.set}
       PROVE  SettingsAt(C, i) = {p.set}
  <2>1. i \in Numbers
    BY <1>5
  <2>2. ASSUME NEW b \in V, i \in Span(b) PROVE Grown(b).set = p.set
    <3>1. Grown(b).set = Entered(p.set, b.set)
      BY <1>4, <1>8, <2>1, <2>2
    <3>2. b.set \in SettingsAt(V, i)
      BY <2>2 DEF SettingsAt
    <3>3. b.set = NewSettings \/ b.set = p.set
      BY <1>2, <1>11, <2>1, <3>2
    <3> QED BY <1>1, <3>1, <3>3, EnteredSettings, NewTyped
  <2>3. PICK b \in V : i \in Span(b)
    <3>1. SettingsAt(V, i) # {}
      BY <1>2, <2>1
    <3> QED BY <3>1 DEF SettingsAt
  <2> QED BY <1>3, <1>9, <2>1, <2>2, <2>3 DEF SettingsAt
<1> QED BY <1>5, <1>6, <1>7, <1>10, <1>11 DEF C

\* Replayed is what its recursion says.
LEMMA ReplayedIs ==
  ASSUME NEW P, NEW B
  PROVE  \E g : /\ g[0] = B /\ g[LastLine + 1] = Replayed(P, B)
                /\ \A i \in 0..LastLine :
                     g[i + 1] = IF \E p \in P : p.first = i
                                THEN Retyped(g[i], CHOOSE p \in P : p.first = i) ELSE g[i]
<1> DEFINE Step(f, i) == IF i = 0 THEN B
                         ELSE IF \E p \in P : p.first = i - 1
                         THEN Retyped(f[i - 1], CHOOSE p \in P : p.first = i - 1)
                         ELSE f[i - 1]
           Partial(f, n) == f = [i \in 0..n |-> Step(f, i)]
           Bad == {n \in Nat : ~ \E f : Partial(f, n)}
<1>1. \E f : Partial(f, 0)
  <2> DEFINE f == [i \in 0..0 |-> B]
  <2>1. Partial(f, 0)
    OBVIOUS
  <2> QED BY <2>1
<1>2. ASSUME NEW n \in Nat, NEW f, Partial(f, n) PROVE \E g : Partial(g, n + 1)
  <2> DEFINE g == [i \in 0..(n + 1) |-> Step(f, i)]
  <2>1. ASSUME NEW i \in 0..n PROVE g[i] = f[i]
    <3>1. f[i] = Step(f, i)
      BY <1>2
    <3> QED BY <3>1
  <2>2. ASSUME NEW i \in 0..(n + 1) PROVE Step(f, i) = Step(g, i)
    <3>1. CASE i = 0
      BY <3>1
    <3>2. CASE i # 0
      <4>1. i - 1 \in 0..n
        BY <3>2
      <4>2. g[i - 1] = f[i - 1]
        BY <2>1, <4>1
      <4> QED BY <4>2
    <3> QED BY <3>1, <3>2
  <2>3. Partial(g, n + 1)
    BY <2>2
  <2> HIDE DEF g, Partial
  <2> QED BY <2>3
<1>3. \E f : Partial(f, LastLine + 1)
  <2> HIDE DEF Partial
  <2> SUFFICES ASSUME LastLine + 1 \in Bad PROVE FALSE
    OBVIOUS
  <2>1. PICK m \in Bad : \A k \in Bad : m <= k
    BY LeastNumber
  <2>2. m # 0
    BY <1>1, <2>1
  <2>3. m - 1 \in Nat /\ (m - 1) + 1 = m /\ ~ (m <= m - 1)
    BY <2>1, <2>2
  <2>4. PICK f : Partial(f, m - 1)
    BY <2>1, <2>3
  <2>5. \E g : Partial(g, (m - 1) + 1)
    BY <1>2, <2>3, <2>4
  <2> QED BY <2>1, <2>3, <2>5
<1> DEFINE after == CHOOSE f : Partial(f, LastLine + 1)
<1>4. after = [i \in 0..(LastLine + 1) |-> Step(after, i)]
  BY <1>3
<1>5. Replayed(P, B) = after[LastLine + 1]
  BY DEF Replayed
<1> HIDE DEF after
<1>6. after[0] = B
  BY <1>4
<1>7. ASSUME NEW i \in 0..LastLine
      PROVE  after[i + 1] = IF \E p \in P : p.first = i
                            THEN Retyped(after[i], CHOOSE p \in P : p.first = i) ELSE after[i]
  <2>1. i + 1 \in 0..(LastLine + 1) /\ i + 1 # 0 /\ (i + 1) - 1 = i
    OBVIOUS
  <2>2. after[i + 1] = Step(after, i + 1)
    BY <1>4, <2>1
  <2> QED BY <2>1, <2>2
<1> HIDE DEF Step, Partial
<1> QED BY <1>5, <1>6, <1>7

\* What a device prints makes its lines when it is typed into a new one.
LEMMA ReplayRestores ==
  ASSUME NEW B, B \subseteq BlockType, Proper(B), 0..LastDefault \subseteq LinesOf(B),
         NEW j \in Numbers
  PROVE  SettingsAt(Replayed(Rendered(B), DefaultBlocks), j) = SettingsAt(B, j)
<1> DEFINE P == Rendered(B)
           Typed(i, k) == \E p \in P : p.first < i /\ k \in Span(p)
           Good(D, i) ==
             /\ D \subseteq BlockType /\ Proper(D)
             /\ \A k \in Numbers : SettingsAt(D, k) =
                  IF Typed(i, k) THEN SettingsAt(B, k) ELSE SettingsAt(DefaultBlocks, k)
<1>1. /\ \A p \in P : /\ p \in BlockType /\ p.first <= p.last
                      /\ \A i \in Span(p) : i \in LinesOf(B) /\ SettingsAt(B, i) = {p.set}
      /\ \A i \in LinesOf(B) : \E p \in P : i \in Span(p)
      /\ \A p, q \in P : p.first = q.first => p = q
  BY PrintedBlocks
<1>2. \A k : SettingsAt(DefaultBlocks, k) = IF k \in 0..LastDefault THEN {NewSettings} ELSE {}
  <2> DEFINE d == [first |-> 0, last |-> LastDefault, set |-> NewSettings]
  <2>1. DefaultBlocks = {d}
    BY DEF DefaultBlocks
  <2>2. Span(d) = 0..LastDefault /\ d.set = NewSettings
    BY DEF Span
  <2> HIDE DEF d
  <2> QED BY <2>1, <2>2 DEF SettingsAt
<1>3. PICK g : /\ g[0] = DefaultBlocks /\ g[LastLine + 1] = Replayed(P, DefaultBlocks)
               /\ \A i \in 0..LastLine :
                    g[i + 1] = IF \E p \in P : p.first = i
                               THEN Retyped(g[i], CHOOSE p \in P : p.first = i) ELSE g[i]
  <2> HIDE DEF P
  <2> QED BY ReplayedIs
<1> HIDE DEF P
<1>4. Good(g[0], 0)
  <2>1. DefaultBlocks \subseteq BlockType /\ Proper(DefaultBlocks)
    BY NewTyped DEF DefaultBlocks, BlockType, Proper, Numbers
  <2>2. \A k : ~Typed(0, k)
    BY <1>1, BlockFields
  <2> QED BY <1>3, <2>1, <2>2
<1>5. ASSUME NEW i \in 0..LastLine, Good(g[i], i) PROVE Good(g[i + 1], i + 1)
  <2>1. CASE ~ \E p \in P : p.first = i
    <3>1. g[i + 1] = g[i]
      BY <1>3, <2>1
    <3>2. \A k : Typed(i + 1, k) <=> Typed(i, k)
      BY <1>1, <2>1, BlockFields
    <3> HIDE DEF Typed
    <3> QED BY <1>5, <3>1, <3>2
  <2>2. CASE \E p \in P : p.first = i
    <3> DEFINE p == CHOOSE p \in P : p.first = i
    <3>1. p \in P /\ p.first = i
      BY <2>2
    <3>2. g[i + 1] = Retyped(g[i], p)
      BY <1>3, <2>2
    <3> HIDE DEF p
    <3>3. p \in BlockType /\ p.first <= p.last
      BY <1>1, <3>1
    <3>4. \A k : Typed(i + 1, k) <=> Typed(i, k) \/ k \in Span(p)
      BY <1>1, <3>1, BlockFields
    <3> HIDE DEF Typed
    <3>5. /\ Retyped(g[i], p) \subseteq BlockType /\ Proper(Retyped(g[i], p))
          /\ \A k \in Numbers : k \notin Span(p) => SettingsAt(Retyped(g[i], p), k) = SettingsAt(g[i], k)
          /\ \A k \in Span(p) : SettingsAt(g[i], k) \subseteq {NewSettings, p.set} =>
               SettingsAt(Retyped(g[i], p), k) = {p.set}
      BY <1>5, <3>3, RetypedBlocks
    <3>6. ASSUME NEW k \in Numbers
          PROVE  SettingsAt(g[i + 1], k) =
                   IF Typed(i + 1, k) THEN SettingsAt(B, k) ELSE SettingsAt(DefaultBlocks, k)
      <4>1. CASE k \in Span(p)
        <5>1. SettingsAt(B, k) = {p.set}
          BY <1>1, <3>1, <4>1
        <5>2. SettingsAt(g[i], k) \subseteq {NewSettings, p.set}
          BY <1>2, <1>5, <5>1
        <5> QED BY <3>2, <3>4, <3>5, <4>1, <5>1, <5>2
      <4>2. CASE k \notin Span(p)
        BY <1>5, <3>2, <3>4, <3>5, <4>2
      <4> QED BY <4>1, <4>2
    <3> QED BY <3>2, <3>5, <3>6
  <2> QED BY <2>1, <2>2
<1> DEFINE Bad == {i \in Nat : i <= LastLine + 1 /\ ~Good(g[i], i)}
<1> HIDE DEF Good
<1>6. Bad = {}
  <2> SUFFICES ASSUME Bad # {} PROVE FALSE
    OBVIOUS
  <2>1. PICK m \in Bad : \A k \in Bad : m <= k
    BY LeastNumber
  <2>2. m # 0
    BY <1>4, <2>1
  <2>3. m - 1 \in 0..LastLine /\ (m - 1) + 1 = m /\ ~ (m <= m - 1)
    BY <2>1, <2>2
  <2>4. Good(g[m - 1], m - 1)
    BY <2>1, <2>3
  <2>5. Good(g[(m - 1) + 1], (m - 1) + 1)
    BY <1>5, <2>3, <2>4
  <2> QED BY <2>1, <2>3, <2>5
<1>7. Good(g[LastLine + 1], LastLine + 1)
  BY <1>6
<1>8. Typed(LastLine + 1, j) <=> j \in LinesOf(B)
  <2>1. \A p \in P : p.first < LastLine + 1
    BY <1>1, BlockFields
  <2> QED BY <1>1, <2>1
<1>9. j \notin LinesOf(B) => SettingsAt(B, j) = {} /\ SettingsAt(DefaultBlocks, j) = {}
  BY <1>2, NoSettings
<1> HIDE DEF Typed
<1>10. SettingsAt(g[LastLine + 1], j) = SettingsAt(B, j)
  BY <1>7, <1>8, <1>9 DEF Good
<1> QED BY <1>3, <1>10 DEF P

\* The grader finds a value in a range exactly when each of its lines has it.
LEMMA CoversLines ==
  ASSUME NEW B, B \subseteq BlockType, Proper(B), NEW f \in Numbers, NEW l \in Numbers, f <= l,
         NEW field, NEW T
  PROVE  Covers(Rendered(B), f, l, field, T) <=>
           \A i \in f..l : i \in LinesOf(B) /\ At(B, i)[field] = T
<1> DEFINE P == Rendered(B)
           R == {p \in P : Overlaps(p, f, l)}
<1>1. /\ \A p \in P : /\ p \in BlockType /\ p.first <= p.last
                      /\ \A i \in Span(p) : i \in LinesOf(B) /\ At(B, i) = p.set
      /\ \A i \in LinesOf(B) : \E p \in P : i \in Span(p)
  BY PrintedBlocks
<1>2. f \in Nat /\ l \in Nat
  BY DEF Numbers
<1>3. Covers(P, f, l, field, T) <=> (\A p \in R : p.set[field] = T) /\ f..l \subseteq LinesOf(R)
  BY DEF Covers
<1> HIDE DEF P
<1>4. ASSUME NEW i \in f..l, NEW p \in P, i \in Span(p) PROVE p \in R
  <2>1. p.first \in Nat /\ p.last \in Nat /\ i \in Nat /\ p.first <= i /\ i <= p.last
    BY <1>1, <1>2, <1>4, BlockFields DEF Span
  <2> QED BY <1>2, <2>1 DEF Overlaps
<1>5. ASSUME NEW p \in R PROVE \E i \in f..l : i \in Span(p)
  <2>1. p.first \in Nat /\ p.last \in Nat /\ p.first <= p.last /\ p.first <= l /\ f <= p.last
    BY <1>1, BlockFields DEF Overlaps
  <2>2. CASE p.first <= f
    <3>1. f \in f..l /\ f \in Span(p)
      BY <1>2, <2>1, <2>2 DEF Span
    <3> QED BY <3>1
  <2>3. CASE f <= p.first
    <3>1. p.first \in f..l /\ p.first \in Span(p)
      BY <1>2, <2>1, <2>3 DEF Span
    <3> QED BY <3>1
  <2> QED BY <1>2, <2>1, <2>2, <2>3
<1>6. ASSUME \A p \in R : p.set[field] = T, f..l \subseteq LinesOf(R), NEW i \in f..l
      PROVE  i \in LinesOf(B) /\ At(B, i)[field] = T
  <2>1. PICK p \in R : i \in Span(p)
    BY <1>6 DEF LinesOf
  <2> QED BY <1>1, <1>6, <2>1
<1>7. ASSUME \A i \in f..l : i \in LinesOf(B) /\ At(B, i)[field] = T
      PROVE  (\A p \in R : p.set[field] = T) /\ f..l \subseteq LinesOf(R)
  <2>1. ASSUME NEW p \in R PROVE p.set[field] = T
    BY <1>1, <1>5, <1>7
  <2>2. ASSUME NEW i \in f..l PROVE i \in LinesOf(R)
    BY <1>1, <1>4, <1>7 DEF LinesOf
  <2> QED BY <2>1, <2>2
<1> QED BY <1>3, <1>6, <1>7 DEF P

-----------------------------------------------------------------------------
(* The initial state and the steps.                                        *)

\* What LinesIInv says of one device beyond the types.
Sound(n) == Proper(vty[n]) /\ LineAsTyped(n) /\ Alone(n)

LEMMA LinesStartSound == LinesInit => LinesIInv
<1> SUFFICES ASSUME NEW blocks \in [Devices -> StartBlocks], LinesStart(blocks) PROVE LinesIInv
  BY DEF LinesInit
<1> USE DEF LinesStart
<1>1. 0 \in Numbers /\ 1 \in Numbers
  BY DEF Numbers
<1>2. vty \in [Devices -> SUBSET BlockType] /\ \A n \in Devices : Proper(vty[n])
  BY DEF StartBlocks
<1>3. \A n \in Devices, i \in Numbers : SettingsAt(blocks[n], i) \subseteq Settings
  BY <1>2, BlockFields DEF SettingsAt
<1>4. LinesTypeOK
  BY <1>1, <1>2, <1>3 DEF LinesTypeOK, TypedAs, NoSubmode
<1>5. \A n \in Devices : LineAsTyped(n)
  BY DEF LineAsTyped, TypedAs
<1>6. \A n \in Devices : Alone(n)
  BY DEF Alone
<1> QED BY <1>2, <1>4, <1>5, <1>6 DEF LinesIInv

\* A device that a step leaves alone stays sound.
LEMMA OthersSound ==
  ASSUME NEW n \in Devices, Sound(n), vty'[n] = vty[n], open'[n] = open[n], typed'[n] = typed[n],
         n \in shared' <=> n \in shared
  PROVE  Sound(n)'
<1>1. (Proper(vty[n]))'
  BY DEF Sound, Proper
<1>2. LineAsTyped(n)'
  BY DEF Sound, LineAsTyped
<1>3. Alone(n)'
  BY DEF Sound, Alone, HoldsRange
<1> QED BY <1>1, <1>2, <1>3 DEF Sound

LEMMA NothingFollowed ==
  ASSUME NEW B, NEW f, NEW l
  PROVE  /\ [NoSubmode EXCEPT !.blocks = Followed(@, B, f, l)] = NoSubmode
         /\ [NoSubmode EXCEPT !.blocks = Abandoned(@, B, f, l)] = NoSubmode
<1>1. Followed({}, B, f, l) = {} /\ Abandoned({}, B, f, l) = {}
  BY DEF Followed, Abandoned
<1> QED BY <1>1 DEF NoSubmode

LEMMA LineVtyStep ==
  ASSUME LinesIInv, NEW n \in Devices, NEW e \in Editors, NEW r \in Ranges, LineVty(n, e, r[1], r[2])
  PROVE  LinesIInv'
<1> DEFINE f == r[1]
           l == r[2]
           B == vty[n]
           V == VtyRange(B, f, l)
           Submode(d) == IF d = e THEN [from |-> f, to |-> l, blocks |-> {b.first : b \in {b \in V : Inside(b, f, l)}}]
                         ELSE [open[n][d] EXCEPT !.blocks = Followed(@, B, f, l)]
<1>1. f \in Numbers /\ l \in Numbers /\ f <= l
  BY DEF Numbers
<1>2. B \subseteq BlockType /\ Proper(B)
  BY DEF LinesIInv, LinesTypeOK
<1>3. /\ V \subseteq BlockType /\ Proper(V)
      /\ \A b \in V : Overlaps(b, f, l) => Inside(b, f, l)
      /\ \A i \in Numbers : SettingsAt(V, i) =
           IF i \in f..l /\ SettingsAt(B, i) = {} THEN {NewSettings} ELSE SettingsAt(B, i)
  BY <1>1, <1>2, SplitTyped, SplitProper, SplitSettings
<1>4. /\ vty' = [vty EXCEPT ![n] = V]
      /\ open' = [open EXCEPT ![n] = [d \in Editors |-> Submode(d)]]
      /\ typed' = [typed EXCEPT ![n] =
           [i \in Numbers |-> IF i \in f..l /\ typed[n][i] = {} THEN {NewSettings} ELSE typed[n][i]]]
      /\ shared' = IF \E d \in Editors \ {e} : open[n][d] # NoSubmode THEN shared \cup {n} ELSE shared
  <2>1. vty' = [vty EXCEPT ![n] = V] /\ SplitBy(n, e)
    BY DEF LineVty
  <2>2. open' = [open EXCEPT ![n] = [d \in Editors |-> Submode(d)]]
    BY DEF LineVty
  <2>3. typed' = [typed EXCEPT ![n] =
           [i \in Numbers |-> IF i \in f..l /\ typed[n][i] = {} THEN {NewSettings} ELSE typed[n][i]]]
    BY DEF LineVty
  <2> QED BY <2>1, <2>2, <2>3 DEF SplitBy
<1> DEFINE Kind == [from : Numbers, to : Numbers, blocks : SUBSET Numbers]
<1>5. ASSUME NEW d \in Editors PROVE Submode(d) \in Kind
  <2>1. open[n][d] \in Kind
    BY DEF LinesIInv, LinesTypeOK
  <2>2. \A b \in B : b.first \in Numbers /\ Higher(b.first, f) \in Numbers
    BY <1>1, <1>2, BlockFields DEF Higher
  <2>3. Followed(open[n][d].blocks, B, f, l) \subseteq Numbers
    BY <2>2 DEF Followed
  <2>4. {b.first : b \in {b \in V : Inside(b, f, l)}} \subseteq Numbers
    BY <1>3, BlockFields
  <2> HIDE DEF f, l, V
  <2>5. CASE d = e
    BY <1>1, <2>4, <2>5
  <2>6. CASE d # e
    BY <2>1, <2>3, <2>6
  <2> QED BY <2>5, <2>6
<1> HIDE DEF V, Submode
<1>6. LinesTypeOK'
  <2>1. [d \in Editors |-> Submode(d)] \in [Editors -> Kind]
    BY <1>5
  <2>2. \A i \in Numbers : (IF i \in f..l /\ typed[n][i] = {} THEN {NewSettings} ELSE typed[n][i]) \in SUBSET Settings
    BY NewTyped DEF LinesIInv, LinesTypeOK
  <2>3. vty' \in [Devices -> SUBSET BlockType]
    BY <1>3, <1>4 DEF LinesIInv, LinesTypeOK
  <2>4. open' \in [Devices -> [Editors -> Kind]]
    BY <1>4, <2>1 DEF LinesIInv, LinesTypeOK
  <2>5. typed' \in [Devices -> [Numbers -> SUBSET Settings]]
    <3> DEFINE T == [i \in Numbers |-> IF i \in f..l /\ typed[n][i] = {} THEN {NewSettings} ELSE typed[n][i]]
    <3>1. T \in [Numbers -> SUBSET Settings]
      BY <2>2
    <3>2. typed' = [typed EXCEPT ![n] = T]
      BY <1>4
    <3> HIDE DEF T
    <3> QED BY <3>1, <3>2 DEF LinesIInv, LinesTypeOK
  <2>6. shared' \subseteq Devices
    BY <1>4 DEF LinesIInv, LinesTypeOK
  <2> QED BY <2>3, <2>4, <2>5, <2>6 DEF LinesTypeOK
<1>7. /\ vty'[n] = V /\ \A d \in Editors : open'[n][d] = Submode(d)
      /\ \A i \in Numbers : typed'[n][i] = IF i \in f..l /\ typed[n][i] = {} THEN {NewSettings} ELSE typed[n][i]
  BY <1>4 DEF LinesIInv, LinesTypeOK
<1>8. n \notin shared' => n \notin shared /\ \A d \in Editors \ {e} : open[n][d] = NoSubmode
  BY <1>4
<1>9. LineAsTyped(n)'
  <2> SUFFICES ASSUME n \notin shared', NEW i \in Numbers PROVE typed'[n][i] = SettingsAt(V, i)
    BY <1>7 DEF LineAsTyped
  <2>1. typed[n][i] = SettingsAt(B, i)
    BY <1>8 DEF LinesIInv, LineAsTyped
  <2> QED BY <1>3, <1>7, <2>1
<1>10. Alone(n)'
  <2> SUFFICES ASSUME n \notin shared', NEW d \in Editors, open'[n][d] # NoSubmode
               PROVE  HoldsRange(n, d)' /\ \A g \in Editors : open'[n][g] # NoSubmode => g = d
    BY DEF Alone
  <2>1. ASSUME NEW g \in Editors, g # e PROVE open'[n][g] = NoSubmode
    <3>1. open[n][g] = NoSubmode
      BY <1>8, <2>1
    <3>2. Submode(g) = [NoSubmode EXCEPT !.blocks = Followed(@, B, f, l)]
      BY <2>1, <3>1 DEF Submode
    <3> QED BY <1>7, <3>2, NothingFollowed
  <2>2. d = e
    BY <2>1
  <2>3. open'[n][e] = [from |-> f, to |-> l, blocks |-> {b.first : b \in {b \in V : Inside(b, f, l)}}]
    BY <1>7 DEF Submode
  <2>4. ASSUME NEW b \in V
        PROVE  b.first \in {c.first : c \in {c \in V : Inside(c, f, l)}} <=> Inside(b, f, l)
    <3>1. ASSUME NEW c \in V, b.first = c.first PROVE b = c
      <4>1. /\ b = c \/ b.last < c.first \/ c.last < b.first
            /\ b.first <= b.last /\ c.first <= c.last
        BY <1>3 DEF Proper
      <4>2. b.first \in Nat /\ b.last \in Nat /\ c.first \in Nat /\ c.last \in Nat
        BY <1>3, BlockFields
      <4> QED BY <3>1, <4>1, <4>2
    <3> QED BY <3>1
  <2>5. HoldsRange(n, e)'
    BY <1>3, <1>7, <2>3, <2>4 DEF HoldsRange, Inside, Overlaps
  <2> QED BY <2>1, <2>2, <2>5
<1>11. (Proper(vty[n]))'
  BY <1>3, <1>7 DEF Proper
<1>12. ASSUME NEW m \in Devices, m # n PROVE Sound(m)'
  BY <1>4, <1>12, OthersSound DEF LinesIInv, LinesTypeOK, Sound
<1> QED BY <1>6, <1>9, <1>10, <1>11, <1>12 DEF LinesIInv, Sound

LEMMA SetLinesStep ==
  ASSUME LinesIInv, NEW n \in Devices, NEW e \in Editors, NEW change \in Changes, SetLines(n, e, change)
  PROVE  LinesIInv'
<1> DEFINE o == open[n][e]
           B == vty[n]
           C == SetBlocks(B, o.blocks, change)
           T == [i \in Numbers |-> IF i \in o.from..o.to THEN {change[s] : s \in typed[n][i]} ELSE typed[n][i]]
<1>1. change \in [Settings -> Settings]
  BY ChangeTyped
<1>2. B \subseteq BlockType /\ Proper(B)
  BY DEF LinesIInv, LinesTypeOK
<1>3. /\ C \subseteq BlockType /\ Proper(C)
      /\ \A c \in C : \E b \in B :
           /\ c.first = b.first /\ c.last = b.last
           /\ c.set = IF b.first \in o.blocks THEN change[b.set] ELSE b.set
      /\ \A b \in B : \E c \in C :
           /\ c.first = b.first /\ c.last = b.last
           /\ c.set = IF b.first \in o.blocks THEN change[b.set] ELSE b.set
  <2> HIDE DEF o, B
  <2> QED BY <1>1, <1>2, SetLinesBlocks
<1>4. /\ open[n][e] # NoSubmode
      /\ vty' = [vty EXCEPT ![n] = C] /\ typed' = [typed EXCEPT ![n] = T]
      /\ open' = open /\ shared' = shared
  BY DEF SetLines
<1> HIDE DEF C, T
<1>5. T \in [Numbers -> SUBSET Settings]
  <2>1. \A i \in Numbers : typed[n][i] \in SUBSET Settings
    BY DEF LinesIInv, LinesTypeOK
  <2>2. \A i \in Numbers : {change[s] : s \in typed[n][i]} \in SUBSET Settings
    BY <1>1, <2>1
  <2> QED BY <2>1, <2>2 DEF T
<1>6. LinesTypeOK'
  BY <1>3, <1>4, <1>5 DEF LinesIInv, LinesTypeOK
<1>7. vty'[n] = C /\ typed'[n] = T
  BY <1>4 DEF LinesIInv, LinesTypeOK
<1>8. LineAsTyped(n)'
  <2> SUFFICES ASSUME n \notin shared, NEW i \in Numbers PROVE T[i] = SettingsAt(C, i)
    BY <1>4, <1>7 DEF LineAsTyped
  <2>1. typed[n][i] = SettingsAt(B, i) /\ HoldsRange(n, e)
    BY <1>4 DEF LinesIInv, LineAsTyped, Alone
  <2>2. o.from \in Nat /\ o.to \in Nat /\ i \in Nat
    BY DEF LinesIInv, LinesTypeOK, Numbers
  <2>3. ASSUME NEW b \in B, i \in Span(b)
        PROVE  b.first \in o.blocks <=> i \in o.from..o.to
    <3>1. b.first \in Nat /\ b.last \in Nat /\ b.first <= i /\ i <= b.last
      BY <1>2, <2>2, <2>3, BlockFields DEF Span
    <3>2. /\ b.first \in o.blocks <=> Inside(b, o.from, o.to)
          /\ Overlaps(b, o.from, o.to) => Inside(b, o.from, o.to)
      BY <2>1 DEF HoldsRange
    <3> QED BY <2>2, <3>1, <3>2 DEF Inside, Overlaps
  <2>4. ASSUME NEW c \in C, i \in Span(c) PROVE c.set \in T[i]
    <3>1. PICK b \in B : /\ c.first = b.first /\ c.last = b.last
                         /\ c.set = IF b.first \in o.blocks THEN change[b.set] ELSE b.set
      BY <1>3
    <3>2. i \in Span(b)
      BY <2>4, <3>1 DEF Span
    <3>3. b.set \in typed[n][i]
      BY <2>1, <3>2 DEF SettingsAt
    <3> QED BY <2>3, <3>1, <3>2, <3>3 DEF T
  <2>5. ASSUME NEW s \in typed[n][i]
        PROVE  (IF i \in o.from..o.to THEN change[s] ELSE s) \in SettingsAt(C, i)
    <3>1. PICK b \in B : i \in Span(b) /\ s = b.set
      BY <2>1, <2>5 DEF SettingsAt
    <3>2. PICK c \in C : /\ c.first = b.first /\ c.last = b.last
                         /\ c.set = IF b.first \in o.blocks THEN change[b.set] ELSE b.set
      BY <1>3
    <3>3. i \in Span(c)
      BY <3>1, <3>2 DEF Span
    <3> QED BY <2>3, <3>1, <3>2, <3>3 DEF SettingsAt
  <2>6. T[i] = IF i \in o.from..o.to THEN {change[s] : s \in typed[n][i]} ELSE typed[n][i]
    BY DEF T
  <2>7. \A s \in T[i] : s \in SettingsAt(C, i)
    BY <2>5, <2>6
  <2>8. \A s \in SettingsAt(C, i) : s \in T[i]
    BY <2>4 DEF SettingsAt
  <2> QED BY <2>7, <2>8
<1>9. Alone(n)'
  <2> SUFFICES ASSUME n \notin shared, NEW d \in Editors, open[n][d] # NoSubmode
               PROVE  HoldsRange(n, d)' /\ \A g \in Editors : open[n][g] # NoSubmode => g = d
    BY <1>4 DEF Alone
  <2>1. HoldsRange(n, d) /\ \A g \in Editors : open[n][g] # NoSubmode => g = d
    BY DEF LinesIInv, Alone
  <2>2. HoldsRange(n, d)'
    BY <1>3, <1>4, <1>7, <2>1 DEF HoldsRange, Inside, Overlaps
  <2> QED BY <2>1, <2>2
<1>10. (Proper(vty[n]))'
  BY <1>3, <1>7 DEF Proper
<1>11. ASSUME NEW m \in Devices, m # n PROVE Sound(m)'
  BY <1>4, <1>11, OthersSound DEF LinesIInv, LinesTypeOK, Sound
<1> QED BY <1>6, <1>8, <1>9, <1>10, <1>11 DEF LinesIInv, Sound

LEMMA NoLineVtyStep ==
  ASSUME LinesIInv, NEW n \in Devices, NEW e \in Editors, NEW r \in Ranges, NoLineVty(n, e, r[1], r[2])
  PROVE  LinesIInv'
<1> DEFINE f == r[1]
           l == r[2]
           B == vty[n]
           V == VtyRange(B, f, l)
           W == {b \in V : ~Inside(b, f, l)}
           Submode(d) == IF d = e THEN NoSubmode
                         ELSE [open[n][d] EXCEPT !.blocks = Abandoned(@, B, f, l)]
           T == [i \in Numbers |-> IF i \in f..l THEN {} ELSE typed[n][i]]
           Kind == [from : Numbers, to : Numbers, blocks : SUBSET Numbers]
<1>1. f \in Numbers /\ l \in Numbers /\ f <= l /\ f \in Nat /\ l \in Nat
  BY DEF Numbers
<1>2. B \subseteq BlockType /\ Proper(B)
  BY DEF LinesIInv, LinesTypeOK
<1>3. /\ V \subseteq BlockType /\ Proper(V)
      /\ \A b \in V : Overlaps(b, f, l) => Inside(b, f, l)
      /\ \A i \in Numbers : SettingsAt(V, i) =
           IF i \in f..l /\ SettingsAt(B, i) = {} THEN {NewSettings} ELSE SettingsAt(B, i)
  BY <1>1, <1>2, SplitTyped, SplitProper, SplitSettings
<1>4. /\ vty' = [vty EXCEPT ![n] = W]
      /\ open' = [open EXCEPT ![n] = [d \in Editors |-> Submode(d)]]
      /\ typed' = [typed EXCEPT ![n] = T]
      /\ shared' = IF \E d \in Editors \ {e} : open[n][d] # NoSubmode THEN shared \cup {n} ELSE shared
  <2>1. vty' = [vty EXCEPT ![n] = W] /\ SplitBy(n, e)
    BY DEF NoLineVty, WithoutRange
  <2>2. open' = [open EXCEPT ![n] = [d \in Editors |-> Submode(d)]]
    BY DEF NoLineVty
  <2>3. typed' = [typed EXCEPT ![n] = T]
    BY DEF NoLineVty
  <2> QED BY <2>1, <2>2, <2>3 DEF SplitBy
<1>5. ASSUME NEW d \in Editors PROVE Submode(d) \in Kind
  <2>1. open[n][d] \in Kind
    BY DEF LinesIInv, LinesTypeOK
  <2>2. Abandoned(open[n][d].blocks, B, f, l) \subseteq Numbers
    BY <1>2, BlockFields DEF Abandoned
  <2>3. 0 \in Numbers /\ 1 \in Numbers
    BY DEF Numbers
  <2>4. NoSubmode \in Kind
    BY <2>3 DEF NoSubmode
  <2>5. CASE d # e
    <3> HIDE DEF f, l, B
    <3> QED BY <2>1, <2>2, <2>5
  <2> QED BY <2>4, <2>5
<1>6. T \in [Numbers -> SUBSET Settings]
  BY DEF LinesIInv, LinesTypeOK
<1>7. W \subseteq BlockType
  BY <1>3
<1> HIDE DEF V, W, T, Submode
<1>8. LinesTypeOK'
  <2>1. [d \in Editors |-> Submode(d)] \in [Editors -> Kind]
    BY <1>5
  <2>2. vty' \in [Devices -> SUBSET BlockType] /\ typed' \in [Devices -> [Numbers -> SUBSET Settings]]
    BY <1>4, <1>6, <1>7 DEF LinesIInv, LinesTypeOK
  <2>3. open' \in [Devices -> [Editors -> Kind]]
    BY <1>4, <2>1 DEF LinesIInv, LinesTypeOK
  <2>4. shared' \subseteq Devices
    BY <1>4 DEF LinesIInv, LinesTypeOK
  <2> QED BY <2>2, <2>3, <2>4 DEF LinesTypeOK
<1>9. vty'[n] = W /\ typed'[n] = T /\ \A d \in Editors : open'[n][d] = Submode(d)
  BY <1>4 DEF LinesIInv, LinesTypeOK
<1>10. n \notin shared' => n \notin shared /\ \A d \in Editors \ {e} : open[n][d] = NoSubmode
  BY <1>4
<1>11. LineAsTyped(n)'
  <2> SUFFICES ASSUME n \notin shared', NEW i \in Numbers PROVE T[i] = SettingsAt(W, i)
    BY <1>9 DEF LineAsTyped
  <2>1. typed[n][i] = SettingsAt(B, i)
    BY <1>10 DEF LinesIInv, LineAsTyped
  <2>2. i \in Nat
    BY DEF Numbers
  <2>3. ASSUME NEW b \in V, i \in Span(b) PROVE Inside(b, f, l) <=> i \in f..l
    <3>1. b.first \in Nat /\ b.last \in Nat /\ b.first <= i /\ i <= b.last
      BY <1>3, <2>2, <2>3, BlockFields DEF Span
    <3> QED BY <1>1, <1>3, <2>2, <2>3, <3>1 DEF Inside, Overlaps
  <2>4. SettingsAt(W, i) = IF i \in f..l THEN {} ELSE SettingsAt(V, i)
    BY <2>3 DEF SettingsAt, W
  <2>5. i \notin f..l => SettingsAt(V, i) = SettingsAt(B, i)
    BY <1>3
  <2> QED BY <2>1, <2>4, <2>5 DEF T
<1>12. Alone(n)'
  <2> SUFFICES ASSUME n \notin shared', NEW d \in Editors PROVE open'[n][d] = NoSubmode
    BY DEF Alone
  <2>1. CASE d = e
    BY <1>9, <2>1 DEF Submode
  <2>2. CASE d # e
    <3>1. open[n][d] = NoSubmode
      BY <1>10, <2>2
    <3>2. Submode(d) = [NoSubmode EXCEPT !.blocks = Abandoned(@, B, f, l)]
      BY <2>2, <3>1 DEF Submode
    <3> QED BY <1>9, <3>2, NothingFollowed
  <2> QED BY <2>1, <2>2
<1>13. (Proper(vty[n]))'
  BY <1>3, <1>9 DEF Proper, W
<1>14. ASSUME NEW m \in Devices, m # n PROVE Sound(m)'
  BY <1>4, <1>14, OthersSound DEF LinesIInv, LinesTypeOK, Sound
<1> QED BY <1>8, <1>11, <1>12, <1>13, <1>14 DEF LinesIInv, Sound

LEMMA LeaveLinesStep ==
  ASSUME LinesIInv, NEW n \in Devices, NEW e \in Editors, LeaveLines(n, e)
  PROVE  LinesIInv'
<1>1. /\ open' = [open EXCEPT ![n][e] = NoSubmode]
      /\ vty' = vty /\ typed' = typed /\ shared' = shared
  BY DEF LeaveLines
<1>2. 0 \in Numbers /\ 1 \in Numbers
  BY DEF Numbers
<1>3. NoSubmode \in [from : Numbers, to : Numbers, blocks : SUBSET Numbers]
  BY <1>2 DEF NoSubmode
<1>4. LinesTypeOK'
  BY <1>1, <1>3 DEF LinesIInv, LinesTypeOK
<1>5. \A d \in Editors : open'[n][d] = IF d = e THEN NoSubmode ELSE open[n][d]
  BY <1>1 DEF LinesIInv, LinesTypeOK
<1>6. (Proper(vty[n]))' /\ LineAsTyped(n)'
  BY <1>1 DEF LinesIInv, Proper, LineAsTyped
<1>7. Alone(n)'
  <2> SUFFICES ASSUME n \notin shared, NEW d \in Editors, open'[n][d] # NoSubmode
               PROVE  HoldsRange(n, d)' /\ \A g \in Editors : open'[n][g] # NoSubmode => g = d
    BY <1>1 DEF Alone
  <2>1. d # e /\ open'[n][d] = open[n][d]
    BY <1>5
  <2>2. HoldsRange(n, d) /\ \A g \in Editors : open[n][g] # NoSubmode => g = d
    BY <2>1 DEF LinesIInv, Alone
  <2>3. HoldsRange(n, d)'
    BY <1>1, <2>1, <2>2 DEF HoldsRange
  <2> QED BY <1>5, <2>2, <2>3
<1>8. ASSUME NEW m \in Devices, m # n PROVE Sound(m)'
  BY <1>1, <1>8, OthersSound DEF LinesIInv, LinesTypeOK, Sound
<1> QED BY <1>4, <1>6, <1>7, <1>8 DEF LinesIInv, Sound

LEMMA LinesStutter == LinesIInv /\ UNCHANGED lineVars => LinesIInv'
  BY DEF lineVars, LinesIInv, LinesTypeOK, Proper, LineAsTyped, Alone, HoldsRange

-----------------------------------------------------------------------------

\* Whatever is typed on however many consoles, blocks stay typed, non-empty and apart,
\* and a submode that no other editor disturbs holds the lines it was entered for
\* (vty_range, the line commands, _no_line_vty).
THEOREM LinesInductive == LinesSpec => []LinesIInv
<1>1. LinesInit => LinesIInv
  BY LinesStartSound
<1>2. LinesIInv /\ [\E n \in Devices : LineCommand(n)]_lineVars => LinesIInv'
  <2> SUFFICES ASSUME LinesIInv, [\E n \in Devices : LineCommand(n)]_lineVars PROVE LinesIInv'
    OBVIOUS
  <2>1. CASE UNCHANGED lineVars
    BY <2>1, LinesStutter
  <2>2. ASSUME NEW n \in Devices, NEW e \in Editors, NEW r \in Ranges,
               LineVty(n, e, r[1], r[2]) \/ NoLineVty(n, e, r[1], r[2])
        PROVE  LinesIInv'
    BY <2>2, LineVtyStep, NoLineVtyStep
  <2>3. ASSUME NEW n \in Devices, NEW e \in Editors, NEW change \in Changes, SetLines(n, e, change)
        PROVE  LinesIInv'
    BY <2>3, SetLinesStep
  <2>4. ASSUME NEW n \in Devices, NEW e \in Editors, LeaveLines(n, e) PROVE LinesIInv'
    BY <2>4, LeaveLinesStep
  <2> QED BY <2>1, <2>2, <2>3, <2>4 DEF LineCommand
<1> QED BY <1>1, <1>2, PTL DEF LinesSpec

\* "IOS applies the submode commands to every line of the range" (core.py:336): for any
\* ranges typed in any order, a device that nobody split under another's submode has
\* on each line what the commands for that line gave it.
THEOREM LinesAsTypedHolds == LinesSpec => []LinesAsTyped
<1>1. LinesIInv => LinesAsTyped
  BY DEF LinesIInv, LinesAsTyped
<1> QED BY <1>1, LinesInductive, PTL

-----------------------------------------------------------------------------
(* The default lines, and the running configuration typed in again.        *)

LEMMA DefaultsStart == LinesInit => DefaultsKept
  BY DEF LinesInit, LinesStart, StartBlocks, DefaultsKept

\* Every command keeps the default lines of the device it configures: a split and a setting
\* keep all lines, and no line vty spares those up to LastDefault.
LEMMA DefaultsStep ==
  ASSUME LinesIInv, DefaultsKept, NEW n \in Devices, LineCommand(n)
  PROVE  DefaultsKept'
<1> DEFINE B == vty[n]
<1>1. B \subseteq BlockType /\ Proper(B) /\ 0..LastDefault \subseteq LinesOf(B)
  BY DEF LinesIInv, LinesTypeOK, DefaultsKept
<1>2. vty \in [Devices -> SUBSET BlockType]
  BY DEF LinesIInv, LinesTypeOK
<1>3. 0..LastDefault \subseteq Numbers
  BY DEF Numbers
<1>4. ASSUME NEW r \in Ranges, NEW i \in LinesOf(B), i \in Numbers
      PROVE  i \in LinesOf(VtyRange(B, r[1], r[2]))
  <2>1. r[1] \in Numbers /\ r[2] \in Numbers /\ r[1] <= r[2]
    BY DEF Numbers
  <2>2. SettingsAt(B, i) # {}
    BY NoSettings
  <2>3. SettingsAt(VtyRange(B, r[1], r[2]), i) # {}
    <3> HIDE DEF B
    <3> QED BY <1>1, <1>4, <2>1, <2>2, SplitSettings
  <2> QED BY <2>3, NoSettings
<1>5. ASSUME NEW C, vty' = [vty EXCEPT ![n] = C], \A i \in 0..LastDefault : i \in LinesOf(C)
      PROVE  DefaultsKept'
  BY <1>2, <1>5 DEF DefaultsKept, LinesOf, Span
<1>6. ASSUME NEW e \in Editors, NEW r \in Ranges, LineVty(n, e, r[1], r[2])
      PROVE  DefaultsKept'
  <2>1. vty' = [vty EXCEPT ![n] = VtyRange(B, r[1], r[2])]
    BY <1>6 DEF LineVty
  <2>2. \A i \in 0..LastDefault : i \in LinesOf(VtyRange(B, r[1], r[2]))
    BY <1>1, <1>3, <1>4
  <2> QED BY <1>5, <2>1, <2>2
<1>7. ASSUME NEW e \in Editors, NEW change \in Changes, SetLines(n, e, change)
      PROVE  DefaultsKept'
  <2> DEFINE C == SetBlocks(B, open[n][e].blocks, change)
  <2>1. vty' = [vty EXCEPT ![n] = C]
    BY <1>7 DEF SetLines
  <2>2. \A b \in B : \E c \in C : c.first = b.first /\ c.last = b.last
    <3> HIDE DEF B
    <3> QED BY <1>1, ChangeTyped, SetLinesBlocks
  <2>3. \A i \in 0..LastDefault : i \in LinesOf(C)
    <3> HIDE DEF C
    <3> QED BY <1>1, <2>2 DEF LinesOf, Span
  <2> QED BY <1>5, <2>1, <2>3
<1>8. ASSUME NEW e \in Editors, NEW r \in Ranges, NoLineVty(n, e, r[1], r[2])
      PROVE  DefaultsKept'
  <2> DEFINE V == VtyRange(B, r[1], r[2])
             W == {b \in V : ~Inside(b, r[1], r[2])}
  <2>1. vty' = [vty EXCEPT ![n] = W] /\ r[1] > LastDefault
    BY <1>8 DEF NoLineVty, WithoutRange
  <2>2. r[1] \in Numbers /\ r[2] \in Numbers /\ r[1] <= r[2] /\ r[1] \in Nat /\ r[2] \in Nat
    BY DEF Numbers
  <2>3. V \subseteq BlockType
    <3> HIDE DEF B
    <3> QED BY <1>1, <2>2, SplitTyped
  <2>4. ASSUME NEW i \in 0..LastDefault PROVE i \in LinesOf(W)
    <3>1. PICK b \in V : i \in Span(b)
      BY <1>1, <1>3, <1>4 DEF LinesOf
    <3>2. b.first \in Nat /\ b.last \in Nat /\ b.first <= i
      BY <2>3, <3>1, BlockFields DEF Span
    <3>3. ~Inside(b, r[1], r[2])
      BY <2>1, <2>2, <3>2 DEF Inside
    <3> QED BY <3>1, <3>3 DEF LinesOf
  <2> HIDE DEF W
  <2> QED BY <1>5, <2>1, <2>4
<1>9. ASSUME NEW e \in Editors, LeaveLines(n, e) PROVE DefaultsKept'
  BY <1>9 DEF LeaveLines, DefaultsKept
<1> QED BY <1>6, <1>7, <1>8, <1>9 DEF LineCommand

\* The default lines of every device exist for good: no line vty is refused below line 5
\* (_no_line_vty), and nothing else drops a block.
THEOREM DefaultsKeptHolds == LinesSpec => []DefaultsKept
<1>1. LinesInit => DefaultsKept
  BY DefaultsStart
<1>2. LinesIInv /\ DefaultsKept /\ [\E n \in Devices : LineCommand(n)]_lineVars => DefaultsKept'
  <2>1. ASSUME DefaultsKept, UNCHANGED lineVars PROVE DefaultsKept'
    BY <2>1 DEF lineVars, DefaultsKept
  <2> QED BY <2>1, DefaultsStep
<1> QED BY <1>1, <1>2, LinesInductive, PTL DEF LinesSpec

\* The running configuration, typed into a new device, gives every line its settings and
\* makes no other line, and what the grader reads in it is what the lines have, for
\* any number of lines (_rendered_lines, _line_block, _apply_ios, vty_range, vty_covers).
THEOREM LinesRestoredHolds == LinesSpec => []LinesRestored
<1>1. LinesIInv /\ DefaultsKept => LinesRestored
  <2> SUFFICES ASSUME LinesIInv, DefaultsKept, NEW n \in Devices
               PROVE  /\ \A i \in Numbers :
                           SettingsAt(Replayed(Rendered(vty[n]), DefaultBlocks), i) = SettingsAt(vty[n], i)
                      /\ \A r \in Ranges, T \in SUBSET Transports :
                           Covers(Rendered(vty[n]), r[1], r[2], "input", T) <=>
                             \A i \in r[1]..r[2] : i \in LinesOf(vty[n]) /\ At(vty[n], i).input = T
    BY DEF LinesRestored
  <2> DEFINE B == vty[n]
  <2>1. B \subseteq BlockType /\ Proper(B) /\ 0..LastDefault \subseteq LinesOf(B)
    BY DEF LinesIInv, LinesTypeOK, DefaultsKept
  <2> HIDE DEF B
  <2>2. \A i \in Numbers : SettingsAt(Replayed(Rendered(B), DefaultBlocks), i) = SettingsAt(B, i)
    BY <2>1, ReplayRestores
  <2>3. ASSUME NEW r \in Ranges, NEW T
        PROVE  Covers(Rendered(B), r[1], r[2], "input", T) <=>
                 \A i \in r[1]..r[2] : i \in LinesOf(B) /\ At(B, i).input = T
    <3>1. r[1] \in Numbers /\ r[2] \in Numbers /\ r[1] <= r[2]
      BY DEF Numbers
    <3> QED BY <2>1, <3>1, CoversLines
  <2> QED BY <2>2, <2>3 DEF B
<1> QED BY <1>1, LinesInductive, DefaultsKeptHolds, PTL


-----------------------------------------------------------------------------
(* The lines of a network that is worked on and graded.                     *)

OfALab == lab \in Labs

LEMMA LabStays == GradingSpec => []OfALab
<1>1. GradingInit => OfALab
  BY DEF GradingInit, Init, NetworkInit, OfALab
<1>2. OfALab /\ [GradingNext]_<<vars, report>> => OfALab'
  BY DEF GradingNext, Next, Command, Ping, Grade, vars, OfALab
<1> QED BY <1>1, <1>2, PTL DEF GradingSpec

\* Every step of the network is one line command of one device or leaves all lines
\* alone, so the line blocks of a graded network behave as those of LineBlocks.
THEOREM LinesImplemented == GradingSpec => LinesSpec
<1>1. GradingInit => LinesInit
  BY StartupAssumption DEF GradingInit, Init, NetworkInit, AccessInit, LinesInit
<1>2. OfALab /\ [GradingNext]_<<vars, report>> => [\E n \in Devices : LineCommand(n)]_lineVars
  <2> SUFFICES ASSUME OfALab, [GradingNext]_<<vars, report>>
               PROVE  (\E n \in Devices : LineCommand(n)) \/ UNCHANGED lineVars
    OBVIOUS
  <2>1. CASE UNCHANGED vars
    BY <2>1 DEF vars, accessVars
  <2>2. CASE Grade
    BY <2>1, <2>2 DEF Grade
  <2>3. CASE \E x \in lab.pings : Ping(x[1], x[2])
    BY <2>3 DEF Ping, accessVars
  <2>4. CASE Command
    <3>1. CASE UNCHANGED accessVars
      BY <3>1 DEF accessVars
    <3>2. CASE AccessStep
      <4>1. PICK n \in lab.accessed : AccessCommand(n)
        BY <3>2 DEF AccessStep
      <4>2. n \in Devices
        BY StartupAssumption, AccessAssumption DEF OfALab
      <4> QED BY <4>1, <4>2 DEF AccessCommand
    <3> QED BY <2>4, <3>1, <3>2 DEF Command
  <2> QED BY <2>1, <2>2, <2>3, <2>4 DEF GradingNext, Next
<1> QED BY <1>1, <1>2, LabStays, PTL DEF GradingSpec, LinesSpec

\* So the lines of a network are as typed, whatever else is configured, pinged or graded.
THEOREM NetworkLinesTyped == GradingSpec => []LinesAsTyped
BY LinesImplemented, LinesAsTypedHolds, PTL

\* And a network's running configuration restores its lines.
THEOREM NetworkLinesRestored == GradingSpec => []LinesRestored
BY LinesImplemented, LinesRestoredHolds, PTL


-----------------------------------------------------------------------------
(* What a full score says.                                                  *)

LEMMA TheOnly == ASSUME NEW x PROVE The({x}) = x
BY DEF The

\* What is asked of a network, before requirements are moved and dropped.
IsRequirement(r) ==
  \E n, kind, block, key, task, depends, causes, passed :
    r = Requirement(n, kind, block, key, task, passed, depends, causes)

LEMMA RequirementsAre ==
  ASSUME NEW N, NEW r \in Requirements(N)
  PROVE  IsRequirement(r)
<1>1. CASE \E l \in Solution : r = LineRequirement(l)
  BY <1>1 DEF LineRequirement, IsRequirement
<1>2. CASE \E p \in UNION {Addressed(n) : n \in Routers} : r = InterfaceRequirement(p)
  BY <1>2 DEF InterfaceRequirement, IsRequirement
<1>3. CASE \E n \in Routers : r = OspfRequirement(n, N)
  BY <1>3 DEF OspfRequirement, IsRequirement
<1>4. CASE \E n \in Routers : r = NtpRequirement(n, N)
  BY <1>4 DEF NtpRequirement, IsRequirement
<1>5. CASE \E n \in Routers : r = SshRequirement(n)
  BY <1>5 DEF SshRequirement, IsRequirement
<1>6. CASE \E x \in lab.checks : r = CheckRequirement(x, N)
  BY <1>6 DEF CheckRequirement, IsRequirement
<1> QED BY <1>1, <1>2, <1>3, <1>4, <1>5, <1>6 DEF Requirements

\* A move changes the task and nothing else.
LEMMA MovedIs ==
  ASSUME NEW r, IsRequirement(r)
  PROVE  Moved(r).passed = r.passed /\ Moved(r).causes = r.causes
<1>1. PICK n, kind, block, key, task, depends, causes, passed :
        r = Requirement(n, kind, block, key, task, passed, depends, causes)
  BY DEF IsRequirement
<1>2. ASSUME NEW t PROVE [r EXCEPT !.task = t].passed = r.passed /\ [r EXCEPT !.task = t].causes = r.causes
  BY <1>1 DEF Requirement
<1> QED BY <1>2 DEF Moved

\* The requirement of a line is never moved and never dropped.
LEMMA LinesAreKept ==
  ASSUME NEW N, NEW l \in Solution
  PROVE  \E r \in Kept(Requirements(N)) : r.passed = LineHolds(l)
<1> DEFINE r == LineRequirement(l)
<1>1. r.depends = {} /\ r.causes = {} /\ r.passed = LineHolds(l)
  BY DEF LineRequirement, Requirement
<1>2. r \in Requirements(N)
  BY DEF Requirements
<1> HIDE DEF r
<1>3. Moved(r) = r
  BY <1>1 DEF Moved
<1>4. r \in Kept(Requirements(N))
  BY <1>1, <1>2, <1>3 DEF Kept
<1> QED BY <1>1, <1>4

\* Below a full score there is a requirement that is kept.
LEMMA NothingHidden ==
  ASSUME NEW N
  PROVE  (\A r \in Kept(Requirements(N)) : r.passed) <=> (\A r \in Requirements(N) : r.passed)
<1> DEFINE R == Requirements(N)
<1>1. \A r \in R : Moved(r).passed = r.passed /\ Moved(r).causes = r.causes
  BY RequirementsAre, MovedIs
<1>2. \A l \in Solution : \E r \in Kept(R) : r.passed = LineHolds(l)
  BY LinesAreKept
<1> HIDE DEF R
<1>3. ASSUME \A r \in R : r.passed, NEW k \in Kept(R) PROVE k.passed
  <2>1. PICK r \in R : k = Moved(r)
    BY DEF Kept
  <2> QED BY <1>1, <1>3, <2>1
<1>4. ASSUME \A k \in Kept(R) : k.passed, NEW r \in R PROVE r.passed
  <2>1. SUFFICES ASSUME ~r.passed PROVE FALSE
    OBVIOUS
  <2>2. ~Moved(r).passed /\ Moved(r) \in {Moved(q) : q \in R}
    BY <1>1, <2>1
  <2>3. Moved(r) \notin Kept(R)
    BY <1>4, <2>2
  <2>4. PICK l \in Solution : ~LineHolds(l)
    BY <2>2, <2>3 DEF Kept
  <2> QED BY <1>2, <1>4, <2>4
<1> QED BY <1>3, <1>4 DEF R

LEMMA FullOnlyWhenAllPass ==
  ASSUME NEW R
  PROVE  Report(R).percentage = 100 <=> \A k \in Kept(R) : k.passed
<1> DEFINE Total(T) == FoldSet(LAMBDA t, s : s + Points(t), 0, T)
           Cap99(k) == IF k > 99 THEN 99 ELSE k
           Percentage(earned, possible) ==
             IF possible = 0 THEN 0
             ELSE Cap99((100 * earned) \div possible)
           Score(K, tasks) == IF \A r \in K : r.passed THEN 100
                              ELSE Percentage(Total(tasks), Total(Graded(K)))
           Result(K, tasks) == [tasks |-> tasks, graded |-> Graded(K), percentage |-> Score(K, tasks)]
<1>1. Report(R) = The({The({Result(K, tasks) : tasks \in {PassedTasks(K)}}) : K \in {Kept(R)}})
  BY DEF Report
<1>2. Report(R).percentage = Score(Kept(R), PassedTasks(Kept(R)))
  <2> HIDE DEF Score
  <2>1. Report(R) = Result(Kept(R), PassedTasks(Kept(R)))
    <3> HIDE DEF Result
    <3>1. \A K : {Result(K, tasks) : tasks \in {PassedTasks(K)}} = {Result(K, PassedTasks(K))}
      OBVIOUS
    <3>2. \A K : The({Result(K, tasks) : tasks \in {PassedTasks(K)}}) = Result(K, PassedTasks(K))
      BY <3>1, TheOnly
    <3>3. {The({Result(K, tasks) : tasks \in {PassedTasks(K)}}) : K \in {Kept(R)}}
            = {Result(Kept(R), PassedTasks(Kept(R)))}
      BY <3>2
    <3> QED BY <1>1, <3>3, TheOnly
  <2> QED BY <2>1
<1>3. \A e, k : Percentage(e, k) # 100
  <2>1. \A k : Cap99(k) # 100
    OBVIOUS
  <2> HIDE DEF Cap99
  <2> QED BY <2>1
<1> HIDE DEF Percentage
<1> QED BY <1>2, <1>3

\* The report gives 100 percent exactly when everything that the lab asks for holds, for
\* any lab: a failure may be dropped, but only for a line that failed as well, and
\* the requirement of a line stays (grade_lab, _resolve_dependencies).
THEOREM FullScoreMeansSolvedHolds == GradingSpec => []FullScoreMeansSolved
<1>1. FullScoreMeansSolved
  <2>1. Report(Requirements(Snapshot(Now))).percentage = 100
          <=> \A r \in Requirements(Snapshot(Now)) : r.passed
    BY FullOnlyWhenAllPass, NothingHidden
  <2> QED BY <2>1 DEF FullScoreMeansSolved
<1> QED BY <1>1, PTL

-----------------------------------------------------------------------------
(* Neighbours.                                                              *)

\* A cable is up at both ends.
LEMMA UpBothEnds ==
  ASSUME NEW c, NEW x \in Cabled, PhysUp(Cable[x], c)
  PROVE  PhysUp(x, c)
<1>1. Cable[x] \in Cabled /\ Cable[Cable[x]] = x
  BY CablingAssumption
<1> QED BY <1>1 DEF PhysUp

LEMMA EntersSwitches ==
  ASSUME NEW pq \in DOMAIN Enters
  PROVE  ToSet(Enters[pq]) \subseteq Cabled
<1>1. Enters[pq] \in Seq(SwitchPorts) /\ SwitchPorts \subseteq Cabled
  BY CablingAssumption
<1> QED BY <1>1 DEF ToSet

LEMMA JoinedBack ==
  ASSUME NEW c, NEW p, NEW q, Joined(p, q, c)
  PROVE  Joined(q, p, c)
<1>1. /\ <<p, q>> \in DOMAIN Enters /\ PhysUp(p, c) /\ PhysUp(q, c)
      /\ \A x \in ToSet(Enters[<<p, q>>]) : PhysUp(x, c)
  BY DEF Joined
<1>2. /\ <<q, p>> \in DOMAIN Enters
      /\ \A x \in ToSet(Enters[<<q, p>>]) : Cable[x] \in {q} \cup ToSet(Enters[<<p, q>>])
  BY <1>1, TreeAssumption
<1>3. ASSUME NEW x \in ToSet(Enters[<<q, p>>]) PROVE PhysUp(x, c)
  <2>1. PhysUp(Cable[x], c)
    BY <1>1, <1>2
  <2>2. x \in Cabled
    BY <1>2, EntersSwitches
  <2> QED BY <2>1, <2>2, UpBothEnds
<1> QED BY <1>1, <1>2, <1>3 DEF Joined

LEMMA JoinedOn ==
  ASSUME NEW c, NEW p, NEW q, NEW r, Joined(p, q, c), Joined(q, r, c), p # r
  PROVE  Joined(p, r, c)
<1>1. /\ <<p, q>> \in DOMAIN Enters /\ PhysUp(p, c)
      /\ \A x \in ToSet(Enters[<<p, q>>]) : PhysUp(x, c)
      /\ <<q, r>> \in DOMAIN Enters /\ PhysUp(r, c)
      /\ \A x \in ToSet(Enters[<<q, r>>]) : PhysUp(x, c)
  BY DEF Joined
<1>2. /\ <<p, r>> \in DOMAIN Enters
      /\ ToSet(Enters[<<p, r>>]) \subseteq ToSet(Enters[<<p, q>>]) \cup ToSet(Enters[<<q, r>>])
  BY <1>1, TreeAssumption
<1> QED BY <1>1, <1>2 DEF Joined

\* To be in a group is the same for all that are in it.
LEMMA SameGroupBack ==
  ASSUME NEW c, NEW o, NEW q, SameGroup(o, q, c)
  PROVE  SameGroup(q, o, c)
BY JoinedBack DEF SameGroup

LEMMA SameGroupOn ==
  ASSUME NEW c, NEW o, NEW q, NEW r, SameGroup(o, q, c), SameGroup(q, r, c)
  PROVE  SameGroup(o, r, c)
<1>1. o.port = r.port \/ Joined(o.port, r.port, c)
  BY JoinedOn DEF SameGroup
<1> QED BY <1>1 DEF SameGroup

LEMMA OneGroup ==
  ASSUME NEW c, NEW O, NEW o, NEW q, SameGroup(o, q, c)
  PROVE  Group(o, O, c) = Group(q, O, c)
<1>1. \A x : SameGroup(o, x, c) <=> SameGroup(q, x, c)
  BY SameGroupBack, SameGroupOn
<1> QED BY <1>1 DEF Group

\* Each router works out its neighbours, their roles and whether it is FULL with them for
\* itself, and what two neighbours find agrees in every state of every network whose LANs
\* are trees (neighbors, _groups, _dr_bdr).
THEOREM NeighboursAgreeHolds == GradingSpec => []NeighboursAgree
<1>1. NeighboursAgree
  <2> DEFINE O == OspfInterfaces(Now)
  <2>1. ASSUME NEW o \in O, NEW q \in Neighbours(o, O, Now)
        PROVE  /\ o \in Neighbours(q, O, Now)
               /\ Group(q, O, Now) = Group(o, O, Now)
               /\ Full(o, q, O, Now) <=> Full(q, o, O, Now)
    <3> HIDE DEF O
    <3>1. q \in O /\ Speaks(o) /\ Speaks(q) /\ SameGroup(o, q, Now) /\ Foreign(o, q)
      BY DEF Neighbours, Group
    <3>2. SameGroup(q, o, Now) /\ Foreign(q, o)
      BY <3>1, SameGroupBack DEF Foreign
    <3>3. Group(q, O, Now) = Group(o, O, Now)
      BY <3>1, OneGroup
    <3>4. o.type = q.type
      BY <3>1 DEF SameGroup
    <3> QED BY <3>1, <3>2, <3>3, <3>4 DEF Neighbours, Group, Full
  <2> HIDE DEF O
  <2>2. NeighboursAgree <=>
          \A o \in O : \A q \in Neighbours(o, O, Now) :
            /\ o \in Neighbours(q, O, Now)
            /\ {<<x.port, Role(x, Group(q, O, Now))>> : x \in Group(q, O, Now)}
                 = {<<x.port, Role(x, Group(o, O, Now))>> : x \in Group(o, O, Now)}
            /\ Full(o, q, O, Now) <=> Full(q, o, O, Now)
    BY DEF NeighboursAgree, O
  <2> QED BY <2>1, <2>2
<1> QED BY <1>1, PTL

-----------------------------------------------------------------------------
(* Remote access.                                                           *)

LEMMA PortsAreNumbers ==
  ASSUME NEW p \in L3Ports
  PROVE  p[1] \in Nodes /\ p[1] \in Nat /\ p[2] \in Nat /\ p = <<p[1], p[2]>>
<1>1. p \in Nodes \X Nat /\ Nodes \subseteq Nat
  BY RouterAssumption DEF L3Ports, Nodes
<1>2. p = <<p[1], p[2]>> /\ p[1] \in Nodes /\ p[2] \in Nat
  BY <1>1
<1> QED BY <1>1, <1>2

LEMMA OneFirstPort ==
  ASSUME NEW S, S \subseteq L3Ports, NEW p \in FirstPort(S), NEW q \in FirstPort(S)
  PROVE  p = q
<1>1. /\ p \in S /\ q \in S
      /\ \A r \in S \ {p} : Before(p, r)
      /\ \A r \in S \ {q} : Before(q, r)
  BY DEF FirstPort
<1>2. p[1] \in Nat /\ p[2] \in Nat /\ q[1] \in Nat /\ q[2] \in Nat
  BY <1>1, PortsAreNumbers
<1>3. ~(Before(p, q) /\ Before(q, p))
  BY <1>2 DEF Before
<1> QED BY <1>1, <1>3

LEMMA SnapshotEnds ==
  ASSUME NEW c
  PROVE  Snapshot(c).ends = Endpoints(c) /\ Snapshot(c).c = c
<1> DEFINE O == OspfInterfaces(c)
           E == Edges(O, c)
           ends == Endpoints(c)
<1>1. Snapshot(c) = The({The({View(c, O, E, ends)})})
  <2> HIDE DEF ends
  <2>1. \A X, Y : {View(c, X, Z, Y) : Z \in {Edges(X, c)}} = {View(c, X, Edges(X, c), Y)}
    OBVIOUS
  <2>2. {The({View(c, X, Z, Y) : Z \in {Edges(X, c)}}) : X \in {O}, Y \in {ends}} = {The({View(c, O, E, ends)})}
    BY <2>1
  <2> QED BY <2>2 DEF Snapshot, ends
<1>2. Snapshot(c) = View(c, O, E, ends)
  BY <1>1, TheOnly
<1> QED BY <1>2 DEF View

LEMMA HoldersAre ==
  ASSUME NEW a, NEW c, NEW m \in Holder(a, Snapshot(c))
  PROVE  m \in Nodes /\ Holder(a, Snapshot(c)) = {m}
<1> DEFINE S == {p \in Snapshot(c).ends : ifc[p].addr = a}
<1>1. S \subseteq L3Ports
  BY SnapshotEnds DEF Endpoints, UpIp, Of
<1> HIDE DEF S
<1>2. Holder(a, Snapshot(c)) = {p[1] : p \in FirstPort(S)}
  BY DEF Holder, S
<1>3. PICK p \in FirstPort(S) : m = p[1]
  BY <1>2
<1>4. \A q \in FirstPort(S) : q = p
  BY <1>1, OneFirstPort
<1>5. p \in L3Ports
  BY <1>1 DEF FirstPort
<1> QED BY <1>2, <1>3, <1>4, <1>5, PortsAreNumbers

\* The least of a set of numbers.
LEMMA MinOfIs ==
  ASSUME NEW S, S \subseteq Nat, S # {}
  PROVE  MinOf(S) \in S /\ \A k \in S : MinOf(S) <= k
<1>1. PICK x \in S : \A k \in S : x <= k
  BY LeastNumber
<1>2. Least(S) = {y \in S : \A k \in S : y <= k}
  BY DEF Least
<1>3. \A y \in S : (\A k \in S : y <= k) => y = x
  BY <1>1
<1>4. Least(S) = {x}
  BY <1>1, <1>2, <1>3
<1> QED BY <1>1, <1>4, TheOnly DEF MinOf

\* The lines of a device, and the block that a session asks for.
LineBlocksOf(m) == BlocksAt(m) \subseteq BlockType /\ Proper(BlocksAt(m))

LEMMA LinesOfDevice ==
  ASSUME LinesIInv, NEW m
  PROVE  LineBlocksOf(m)
<1>1. CASE m \in Routers
  <2>1. m \in Devices
    BY <1>1, AccessAssumption
  <2> QED BY <1>1, <2>1 DEF LinesIInv, LinesTypeOK, BlocksAt, LineBlocksOf
<1>2. CASE m \notin Routers
  BY <1>2 DEF BlocksAt, LineBlocksOf, Proper
<1> QED BY <1>1, <1>2

\* Blocks of a device that share their first line, or any line, are the same.
LEMMA SameBlock ==
  ASSUME NEW m, LineBlocksOf(m), NEW b \in BlocksAt(m), NEW d \in BlocksAt(m), NEW i,
         i \in Span(b), i \in Span(d)
  PROVE  b = d
<1>1. /\ b.first \in Nat /\ b.last \in Nat /\ d.first \in Nat /\ d.last \in Nat
      /\ b = d \/ b.last < d.first \/ d.last < b.first
  BY BlockFields DEF LineBlocksOf, Proper
<1>2. i \in Int /\ b.first <= i /\ i <= b.last /\ d.first <= i /\ i <= d.last
  BY <1>1 DEF Span
<1> QED BY <1>1, <1>2

LEMMA AtBlock ==
  ASSUME NEW m, LineBlocksOf(m), NEW b \in BlocksAt(m), NEW i \in Span(b)
  PROVE  At(BlocksAt(m), i) = b.set
<1>1. \A d \in BlocksAt(m) : i \in Span(d) <=> d = b
  BY SameBlock
<1> QED BY <1>1 DEF At

LEMMA FirstLine ==
  ASSUME NEW m, LineBlocksOf(m), NEW b \in BlocksAt(m)
  PROVE  b.first \in Nat /\ b.first \in Span(b) /\ Span(b) \subseteq Nat /\ \A i \in Span(b) : b.first <= i
<1>1. b.first \in Nat /\ b.last \in Nat /\ b.first <= b.last
  BY BlockFields DEF LineBlocksOf, Proper
<1> QED BY <1>1 DEF Span

\* An answer of vty_access that is ok: one device holds the address, and its first block
\* that admits the transport is asked.
LEMMA AccessOk ==
  ASSUME NEW n, NEW a, NEW t, NEW c, NEW d \in VtyAccess(n, a, t, Snapshot(c)), d.code = "ok"
  PROVE  \E m \in Nodes : \E b \in FirstBlocks(Permitting(m, t)) :
           /\ d.to = m /\ d.block = <<b.first, b.last>> /\ d.login = b.set.login
           /\ b \in BlocksAt(m) /\ t \in b.set.input
           /\ \A e \in VtyAccess(n, a, t, Snapshot(c)) : e.code # "refused"
<1> DEFINE N == Snapshot(c)
           to == Holder(a, N)
           first == UNION {FirstBlocks(Permitting(m, t)) : m \in to}
           Answer(b) == IF b.set.login = "line" /\ b.set.password = NoPassword THEN Refused("no password")
                        ELSE [code |-> "ok", to |-> CHOOSE m \in to : TRUE, block |-> <<b.first, b.last>>,
                              login |-> b.set.login]
<1>1. \A code : Refused(code).code = code
  BY DEF Refused
<1>2. VtyAccess(n, a, t, N) = {Answer(b) : b \in first} /\ to # {}
  <2> DEFINE Silent == ~Reachable(n, a, N) \/ to = {}
             Closed == first = {} \/ (t = "ssh" /\ \E m \in to : ssh[m].rsa = NoKeys)
  <2>1. VtyAccess(n, a, t, N) = IF Silent THEN {Refused("timeout")} ELSE IF Closed THEN {Refused("refused")}
                                ELSE {Answer(b) : b \in first}
    BY DEF VtyAccess
  <2>2. ~Silent => to # {}
    OBVIOUS
  <2> HIDE DEF Silent, Closed, Answer, to
  <2> QED BY <1>1, <2>1, <2>2
<1>3. PICK b \in first : d = Answer(b)
  BY <1>2
<1>4. PICK m \in to : b \in FirstBlocks(Permitting(m, t))
  OBVIOUS
<1>5. m \in Nodes /\ to = {m}
  BY HoldersAre
<1>6. (CHOOSE k \in to : TRUE) = m
  BY <1>5
<1>7. d = [code |-> "ok", to |-> m, block |-> <<b.first, b.last>>, login |-> b.set.login]
  <2> HIDE DEF to
  <2> QED BY <1>1, <1>3, <1>6
<1>8. b \in BlocksAt(m) /\ t \in b.set.input
  BY <1>4 DEF FirstBlocks, Permitting
<1>9. \A e \in {Answer(x) : x \in first} : e.code # "refused"
  <2>1. \A x : Answer(x).code = "no password" \/ Answer(x).code = "ok"
    <3> HIDE DEF to
    <3> QED BY <1>1
  <2> HIDE DEF Answer, first
  <2> QED BY <2>1
<1> QED BY <1>2, <1>4, <1>5, <1>7, <1>8, <1>9

\* The line that a session gets: free, the first such, and with its block's settings.
LEMMA FreeLine ==
  ASSUME NEW m, LineBlocksOf(m), NEW t, NEW taken, FreeVty(m, t, taken) # {},
         NEW i, i = MinOf(FreeVty(m, t, taken))
  PROVE  /\ i \notin taken /\ \A k \in FreeVty(m, t, taken) : i <= k
         /\ \E b \in Permitting(m, t) : b \in BlocksAt(m) /\ i \in Span(b) /\ At(BlocksAt(m), i) = b.set
<1>1. \A b \in Permitting(m, t) : b \in BlocksAt(m) /\ Span(b) \subseteq Nat
  BY FirstLine DEF Permitting
<1>2. FreeVty(m, t, taken) \subseteq Nat
  BY <1>1 DEF FreeVty, LinesOf
<1>3. i \in FreeVty(m, t, taken) /\ \A k \in FreeVty(m, t, taken) : i <= k
  BY <1>2, MinOfIs
<1>4. PICK b \in Permitting(m, t) : i \in Span(b)
  BY <1>3 DEF FreeVty, LinesOf
<1>5. At(BlocksAt(m), i) = b.set
  BY <1>1, <1>4, AtBlock
<1>6. i \notin taken
  BY <1>3 DEF FreeVty
<1> QED BY <1>1, <1>3, <1>4, <1>5, <1>6

\* With no line taken it is the first line of the block that was asked.
LEMMA FirstFreeLine ==
  ASSUME NEW m, LineBlocksOf(m), NEW t, NEW b \in FirstBlocks(Permitting(m, t))
  PROVE  /\ FreeVty(m, t, {}) # {}
         /\ At(BlocksAt(m), MinOf(FreeVty(m, t, {}))) = b.set
<1> DEFINE F == FreeVty(m, t, {})
           i == MinOf(F)
<1>1. b \in Permitting(m, t) /\ b \in BlocksAt(m) /\ \A d \in Permitting(m, t) : b.first <= d.first
  BY DEF FirstBlocks, Permitting
<1>2. b.first \in Nat /\ b.first \in F
  BY <1>1, FirstLine DEF FreeVty, LinesOf
<1>3. /\ \A k \in F : i <= k
      /\ \E d \in Permitting(m, t) : d \in BlocksAt(m) /\ i \in Span(d) /\ At(BlocksAt(m), i) = d.set
  BY <1>2, FreeLine
<1>4. PICK d \in Permitting(m, t) : d \in BlocksAt(m) /\ i \in Span(d) /\ At(BlocksAt(m), i) = d.set
  BY <1>3
<1> HIDE DEF F, i
<1>5. i \in Nat /\ d.first \in Nat /\ d.first <= i /\ i <= b.first /\ b.first <= d.first
  BY <1>1, <1>2, <1>3, <1>4, FirstLine
<1>6. i = b.first
  BY <1>2, <1>5
<1>7. i \in Span(b)
  BY <1>1, <1>6, FirstLine
<1>8. d = b
  BY <1>1, <1>4, <1>7, SameBlock
<1> QED BY <1>2, <1>4, <1>8 DEF F, i

\* A session that a command opens, against what the login was checked for.
LEMMA SessionsSound ==
  ASSUME LinesIInv, NEW n, NEW a, NEW t, NEW c, NEW u, NEW p, NEW busy,
         NEW s \in Opens(n, FromConsole, a, t, AnyVersion, u, p, busy, Snapshot(c))
  PROVE  /\ s[1] \in Routers
         /\ s[2] \notin busy[s[1]] /\ t \in At(vty[s[1]], s[2]).input
         /\ busy[s[1]] = {} =>
              LET set == At(vty[s[1]], s[2])
              IN \/ set.login = "none"
                 \/ set.login = "local" /\ ssh[s[1]].users[u] = p
                 \/ set.login = "line" /\ set.password = p
         /\ \A e \in VtyAccess(n, a, t, Snapshot(c)) : e.code # "refused"
<1>1. PICK d \in VtyAccess(n, a, t, Snapshot(c)) :
        /\ d.code = "ok" /\ Authenticates(d, u, p)
        /\ FreeVty(d.to, t, busy[d.to]) # {}
        /\ s = <<d.to, MinOf(FreeVty(d.to, t, busy[d.to]))>>
  BY DEF Opens
<1>2. PICK m \in Nodes : \E b \in FirstBlocks(Permitting(m, t)) :
        /\ d.to = m /\ d.block = <<b.first, b.last>> /\ d.login = b.set.login
        /\ b \in BlocksAt(m) /\ t \in b.set.input
        /\ \A e \in VtyAccess(n, a, t, Snapshot(c)) : e.code # "refused"
  BY <1>1, AccessOk
<1>3. PICK b \in FirstBlocks(Permitting(m, t)) :
        /\ d.to = m /\ d.block = <<b.first, b.last>> /\ d.login = b.set.login
        /\ b \in BlocksAt(m) /\ t \in b.set.input
  BY <1>2
<1>4. m \in Routers /\ BlocksAt(m) = vty[m] /\ LineBlocksOf(m)
  BY <1>3, LinesOfDevice DEF BlocksAt
<1> DEFINE i == MinOf(FreeVty(m, t, busy[m]))
<1>5. s = <<m, i>> /\ s[1] = m /\ s[2] = i /\ FreeVty(m, t, busy[m]) # {}
  BY <1>1, <1>3
<1>6. i \notin busy[m] /\ t \in At(vty[m], i).input
  <2>1. /\ i \notin busy[m]
        /\ \E x \in Permitting(m, t) : x \in BlocksAt(m) /\ i \in Span(x) /\ At(BlocksAt(m), i) = x.set
    BY <1>4, <1>5, FreeLine
  <2> QED BY <1>4, <2>1 DEF Permitting
<1>7. ASSUME busy[m] = {}
      PROVE  \/ At(vty[m], i).login = "none"
             \/ At(vty[m], i).login = "local" /\ ssh[m].users[u] = p
             \/ At(vty[m], i).login = "line" /\ At(vty[m], i).password = p
  <2>1. At(vty[m], i) = b.set
    BY <1>4, <1>7, FirstFreeLine
  <2>2. ASSUME NEW x \in BlocksAt(m), <<b.first, b.last>> = <<x.first, x.last>> PROVE x = b
    <3>1. b.first = x.first
      BY <2>2
    <3>2. b.first \in Span(b) /\ x.first \in Span(x)
      BY <1>3, <1>4, FirstLine
    <3> QED BY <1>3, <1>4, <3>1, <3>2, SameBlock
  <2>3. \/ b.set.login = "none"
        \/ b.set.login = "local" /\ ssh[m].users[u] = p
        \/ b.set.login = "line" /\ \E x \in BlocksAt(m) : <<b.first, b.last>> = <<x.first, x.last>> /\ x.set.password = p
    BY <1>1, <1>3 DEF Authenticates, VerifyUser
  <2> QED BY <2>1, <2>2, <2>3
<1> HIDE DEF i
<1> QED BY <1>2, <1>4, <1>5, <1>6, <1>7

\* Without a session on any line, a command opens one for whom the grader authenticates.
LEMMA GraderAgrees ==
  ASSUME LinesIInv, NEW n, NEW a, NEW c, NEW u, NEW p
  PROVE  SshAuthenticate(n, u, p, a, Snapshot(c))
           <=> Opens(n, FromConsole, a, "ssh", AnyVersion, u, p, [m \in Nodes |-> {}], Snapshot(c)) # {}
<1> DEFINE Free == [m \in Nodes |-> {}]
           A == VtyAccess(n, a, "ssh", Snapshot(c))
<1>1. TransportPermitted(n, FromConsole, "ssh")
  <2>1. \A b \in BlocksAt(n) : FromConsole \notin Span(b)
    BY LinesOfDevice, FirstLine DEF FromConsole
  <2> QED BY <2>1 DEF TransportPermitted
<1>2. \A d \in A : d.code = "ok" => FreeVty(d.to, "ssh", Free[d.to]) # {} /\ SshVersion(d.to, AnyVersion)
  <2> SUFFICES ASSUME NEW d \in A, d.code = "ok"
               PROVE  FreeVty(d.to, "ssh", Free[d.to]) # {} /\ SshVersion(d.to, AnyVersion)
    OBVIOUS
  <2>1. PICK m \in Nodes : \E b \in FirstBlocks(Permitting(m, "ssh")) : d.to = m
    BY AccessOk
  <2>2. FreeVty(m, "ssh", {}) # {}
    BY <2>1, LinesOfDevice, FirstFreeLine
  <2> QED BY <2>1, <2>2 DEF SshVersion
<1>3. Opens(n, FromConsole, a, "ssh", AnyVersion, u, p, Free, Snapshot(c)) # {}
        <=> \E d \in A : d.code = "ok" /\ Authenticates(d, u, p)
  <2> HIDE DEF Free
  <2> QED BY <1>1, <1>2 DEF Opens
<1> QED BY <1>3 DEF SshAuthenticate

\* Lines 0 to LastDefault printed for SSH with local users are enough, with keys.
LEMMA PreparedAuthenticates ==
  ASSUME LinesIInv, DefaultsKept, NEW n, NEW a, NEW c, NEW u, NEW p,
         NEW m \in Holder(a, Snapshot(c)), m \in Routers, ssh[m].rsa # NoKeys,
         Covers(Rendered(vty[m]), 0, LastDefault, "input", {"ssh"}),
         Covers(Rendered(vty[m]), 0, LastDefault, "login", "local"),
         Reachable(n, a, Snapshot(c)), ssh[m].users[u] = p
  PROVE  SshAuthenticate(n, u, p, a, Snapshot(c))
<1> DEFINE B == vty[m]
           to == Holder(a, Snapshot(c))
<1>1. /\ BlocksAt(m) = B /\ LineBlocksOf(m) /\ B \subseteq BlockType /\ Proper(B)
      /\ to = {m} /\ m \in Devices
  BY LinesOfDevice, HoldersAre, AccessAssumption DEF BlocksAt, LineBlocksOf
<1>2. 0 \in Numbers /\ LastDefault \in Numbers /\ 0 <= LastDefault /\ 0 \in 0..LastDefault
  BY DEF Numbers
<1>3. 0 \in LinesOf(B) /\ At(B, 0)["input"] = {"ssh"} /\ At(B, 0)["login"] = "local"
  BY <1>1, <1>2, CoversLines
<1>4. PICK b \in B : 0 \in Span(b)
  BY <1>3 DEF LinesOf
<1>5. At(B, 0) = b.set
  BY <1>1, <1>4, AtBlock
<1>6. b.first = 0 /\ b.set.input = {"ssh"} /\ b.set.login = "local"
  BY <1>1, <1>3, <1>4, <1>5, FirstLine
<1>7. b \in FirstBlocks(Permitting(m, "ssh"))
  <2>1. b \in Permitting(m, "ssh")
    BY <1>1, <1>6 DEF Permitting
  <2>2. \A d \in Permitting(m, "ssh") : 0 <= d.first
    BY <1>1, FirstLine DEF Permitting
  <2> QED BY <1>6, <2>1, <2>2 DEF FirstBlocks
<1> DEFINE d == [code |-> "ok", to |-> CHOOSE k \in to : TRUE, block |-> <<b.first, b.last>>, login |-> b.set.login]
<1>8. d \in VtyAccess(n, a, "ssh", Snapshot(c))
  <2> DEFINE first == UNION {FirstBlocks(Permitting(k, "ssh")) : k \in to}
  <2>1. b \in first /\ to # {} /\ first # {}
    BY <1>1, <1>7
  <2>2. ~\E k \in to : ssh[k].rsa = NoKeys
    BY <1>1
  <2>3. d = IF b.set.login = "line" /\ b.set.password = NoPassword THEN Refused("no password") ELSE d
    BY <1>6
  <2>4. VtyAccess(n, a, "ssh", Snapshot(c)) =
          {IF x.set.login = "line" /\ x.set.password = NoPassword THEN Refused("no password")
           ELSE [code |-> "ok", to |-> CHOOSE k \in to : TRUE, block |-> <<x.first, x.last>>, login |-> x.set.login] :
             x \in first}
    BY <2>1, <2>2 DEF VtyAccess
  <2> HIDE DEF to, first
  <2> QED BY <2>1, <2>3, <2>4
<1>9. d.code = "ok" /\ d.to = m /\ d.login = "local"
  <2>1. (CHOOSE k \in to : TRUE) = m
    BY <1>1
  <2> HIDE DEF to
  <2> QED BY <1>6, <2>1
<1>10. Authenticates(d, u, p)
  <2> HIDE DEF d
  <2> QED BY <1>9 DEF Authenticates, VerifyUser
<1> HIDE DEF d
<1> QED BY <1>8, <1>9, <1>10 DEF SshAuthenticate

\* What the grader says of SSH and Telnet is what the commands do, however the lines of the
\* devices are split: it authenticates just those who get a session, a refused Telnet
\* opens none, and a session's line is free, admits the transport and is the one that
\* the login was checked against (vty_access, vty_authenticate, ssh_authenticate,
\* telnet_allowed, _ssh, _telnet, _free_vty).
THEOREM AccessAgreesHolds == GradingSpec => []AccessAgrees
<1>1. LinesIInv /\ DefaultsKept => AccessAgrees
  <2> SUFFICES ASSUME LinesIInv, DefaultsKept PROVE AccessAgrees
    OBVIOUS
  <2> DEFINE N == Snapshot(Now)
             Free == [m \in Nodes |-> {}]
             Typed(n, a, t, u, p, busy) == Opens(n, FromConsole, a, t, AnyVersion, u, p, busy, N)
             LetsIn(s, m, u, p) == \/ s.login = "none"
                                   \/ s.login = "local" /\ ssh[m].users[u] = p
                                   \/ s.login = "line" /\ s.password = p
  <2>1. ASSUME NEW n, NEW a, NEW u, NEW p
        PROVE  SshAuthenticate(n, u, p, a, N) <=> Typed(n, a, "ssh", u, p, Free) # {}
    BY GraderAgrees
  <2>2. ASSUME NEW n, NEW a, NEW t, NEW u, NEW p, NEW busy, NEW s \in Typed(n, a, t, u, p, busy)
        PROVE  /\ s[2] \notin busy[s[1]] /\ t \in At(vty[s[1]], s[2]).input
               /\ busy = Free => LetsIn(At(vty[s[1]], s[2]), s[1], u, p)
               /\ t = "telnet" => ~TelnetRefused(n, a, N)
    <3>1. /\ s[1] \in Routers
          /\ s[2] \notin busy[s[1]] /\ t \in At(vty[s[1]], s[2]).input
          /\ busy[s[1]] = {} => LetsIn(At(vty[s[1]], s[2]), s[1], u, p)
          /\ \A e \in VtyAccess(n, a, t, N) : e.code # "refused"
      BY SessionsSound
    <3>2. busy = Free => busy[s[1]] = {}
      BY <3>1 DEF Nodes
    <3>3. t = "telnet" => ~TelnetRefused(n, a, N)
      BY <3>1 DEF TelnetRefused
    <3> QED BY <3>1, <3>2, <3>3
  <2>3. ASSUME NEW n, NEW a, NEW u, NEW p, NEW m \in Holder(a, N) \cap Routers,
               ssh[m].rsa # NoKeys,
               \A x \in {<<"input", {"ssh"}>>, <<"login", "local">>} :
                 Covers(Rendered(vty[m]), 0, LastDefault, x[1], x[2]),
               Reachable(n, a, N), ssh[m].users[u] = p
        PROVE  SshAuthenticate(n, u, p, a, N)
    <3>1. Covers(Rendered(vty[m]), 0, LastDefault, <<"input", {"ssh"}>>[1], <<"input", {"ssh"}>>[2])
      BY <2>3
    <3>2. Covers(Rendered(vty[m]), 0, LastDefault, <<"login", "local">>[1], <<"login", "local">>[2])
      BY <2>3
    <3>3. /\ Covers(Rendered(vty[m]), 0, LastDefault, "input", {"ssh"})
          /\ Covers(Rendered(vty[m]), 0, LastDefault, "login", "local")
      BY <3>1, <3>2
    <3> QED BY <2>3, <3>3, PreparedAuthenticates
  <2> DEFINE Busy == {Free} \cup {[m \in Nodes |-> Span(b)] : b \in UNION {FirstBlocks(vty[m]) : m \in lab.accessed}}
             Prepared(m) == /\ ssh[m].rsa # NoKeys
                            /\ \A x \in {<<"input", {"ssh"}>>, <<"login", "local">>} :
                                 Covers(Rendered(vty[m]), 0, LastDefault, x[1], x[2])
             Holds(n, a, u, p) ==
               /\ SshAuthenticate(n, u, p, a, N) <=> Typed(n, a, "ssh", u, p, Free) # {}
               /\ \A t \in Transports, busy \in Busy : \A s \in Typed(n, a, t, u, p, busy) :
                    /\ s[2] \notin busy[s[1]] /\ t \in At(vty[s[1]], s[2]).input
                    /\ busy = Free => LetsIn(At(vty[s[1]], s[2]), s[1], u, p)
                    /\ t = "telnet" => ~TelnetRefused(n, a, N)
               /\ \A m \in Holder(a, N) \cap Routers :
                    Prepared(m) /\ Reachable(n, a, N) /\ ssh[m].users[u] = p => SshAuthenticate(n, u, p, a, N)
  <2>4. ASSUME NEW n, NEW a, NEW u, NEW p PROVE Holds(n, a, u, p)
    <3> HIDE DEF N, Free, Typed, LetsIn, Busy
    <3> QED BY <2>1, <2>2, <2>3
  <2>5. AccessAgrees <=>
          (lab.accessed # {} =>
             \A n \in Routers, x \in {x \in N.ends : x[1] \in lab.accessed}, u \in Users, p \in Passwords :
               Holds(n, ifc[x].addr, u, p))
    BY DEF AccessAgrees
  <2> HIDE DEF Holds
  <2> QED BY <2>4, <2>5
<1> QED BY <1>1, LinesImplemented, LinesInductive, DefaultsKeptHolds, PTL

=============================================================================
