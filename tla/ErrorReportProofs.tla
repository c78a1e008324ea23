-------------------------- MODULE ErrorReportProofs ---------------------------
(***************************************************************************)
(* parser_print_error prints the lines that an error touches, each once    *)
(* and whole, and marks the error in them, for code of any length and      *)
(* every range that an error can have.                                     *)
(*                                                                         *)
(* The argument is about the newlines between two indices: lines are       *)
(* counted by them, and memchr and memrchr find the first and the last of  *)
(* them.                                                                   *)
(***************************************************************************)
EXTENDS ErrorReport, FiniteSetTheorems, SequenceTheorems, TLAPS

-----------------------------------------------------------------------------
(***************************************************************************)
(* Newlines                                                                *)
(***************************************************************************)
\* The newlines that stand between two indices.
Breaks(from, to) == {q \in (from + 1)..to : code[q] = Newline}

\* A set of numbers between two others has a least and a greatest one.
LEMMA LeastAndGreatest ==
  ASSUME NEW from \in Nat, NEW to \in Nat, NEW S, S \subseteq from..to, S # {}
  PROVE  /\ Min(S) \in S /\ \A n \in S : Min(S) <= n
         /\ Max(S) \in S /\ \A n \in S : n <= Max(S)
<1>1. ASSUME NEW T, T \subseteq Nat, T # {}
      PROVE  \E n \in T : \A m \in T : n <= m
  <2>1. PICK n \in T : \A m \in T : <<m, n>> \notin OpToRel(<, Nat)
    BY <1>1, NatLessThanWellFounded, WFMin
  <2>2. \A m \in T : ~(m < n)
    BY <1>1, <2>1 DEF OpToRel
  <2>. QED
    BY <1>1, <2>2
<1>2. \E n \in S : \A m \in S : n <= m
  <2>1. S \subseteq Nat
    OBVIOUS
  <2>. QED
    BY <1>1, <2>1
<1>3. \E n \in S : \A m \in S : n >= m
  <2> DEFINE T == {to - n : n \in S}
  <2>1. T \subseteq Nat /\ T # {}
    OBVIOUS
  <2>2. PICK t \in T : \A u \in T : t <= u
    BY <1>1, <2>1
  <2>3. PICK n \in S : t = to - n
    BY <2>2
  <2>4. \A m \in S : to - n <= to - m
    BY <2>2, <2>3
  <2>5. \A m \in S : n >= m
    BY <2>4
  <2>. QED
    BY <2>5
<1>4. Min(S) \in S /\ \A n \in S : Min(S) <= n
  BY <1>2 DEF Min
<1>5. Max(S) \in S /\ \A n \in S : Max(S) >= n
  BY <1>3 DEF Max
<1>6. \A n \in S : n <= Max(S)
  BY <1>5
<1>. QED
  BY <1>4, <1>5, <1>6

LEMMA MemchrFindsFirst ==
  ASSUME NEW from \in Nat, NEW to \in Nat
  PROVE  /\ Breaks(from, to) = {} => Memchr(from, to) = 0
         /\ Breaks(from, to) # {} =>
              /\ Memchr(from, to) \in Breaks(from, to)
              /\ \A q \in Breaks(from, to) : Memchr(from, to) <= q
<1>1. Memchr(from, to) = IF Breaks(from, to) # {} THEN Min(Breaks(from, to)) ELSE 0
  BY DEF Memchr, Breaks, SelectInSubSeq, IsNewline
<1>2. Breaks(from, to) \subseteq (from + 1)..to /\ from + 1 \in Nat
  BY DEF Breaks
<1>. QED
  BY <1>1, <1>2, LeastAndGreatest

LEMMA MemrchrFindsLast ==
  ASSUME NEW to \in Nat
  PROVE  /\ Breaks(0, to) = {} => Memrchr(to) = 0
         /\ Breaks(0, to) # {} =>
              /\ Memrchr(to) \in Breaks(0, to)
              /\ \A q \in Breaks(0, to) : q <= Memrchr(to)
<1>1. Memrchr(to) = IF Breaks(0, to) # {} THEN Max(Breaks(0, to)) ELSE 0
  BY DEF Memrchr, Breaks, SelectLastInSubSeq, IsNewline
<1>2. Breaks(0, to) \subseteq 1..to /\ 1 \in Nat
  BY DEF Breaks
<1>. QED
  BY <1>1, <1>2, LeastAndGreatest

LEMMA BreaksAreFinite ==
  ASSUME NEW from \in Nat, NEW to \in Nat
  PROVE  IsFiniteSet(Breaks(from, to)) /\ Cardinality(Breaks(from, to)) \in Nat
<1>1. Breaks(from, to) \in SUBSET ((from + 1)..to) /\ IsFiniteSet((from + 1)..to)
  BY FS_Interval DEF Breaks
<1>2. IsFiniteSet(Breaks(from, to))
  BY <1>1, FS_Subset
<1>. QED
  BY <1>2, FS_CardinalityType

\* Lines are counted by the newlines before them.
LEMMA LineOfIs ==
  ASSUME NEW i \in Nat
  PROVE  LineOf(i) = 1 + Cardinality(Breaks(0, i)) /\ LineOf(i) \in Nat /\ LineOf(i) >= 1
<1>1. LineOf(i) = 1 + Cardinality(Breaks(0, i))
  BY DEF LineOf, Breaks
<1>2. Cardinality(Breaks(0, i)) \in Nat
  BY BreaksAreFinite
<1>. QED
  BY <1>1, <1>2

LEMMA LinesGrow ==
  ASSUME NEW i \in Nat, NEW j \in Nat, i <= j
  PROVE  /\ LineOf(i) <= LineOf(j)
         /\ Breaks(i, j) = {} => LineOf(i) = LineOf(j)
         /\ Breaks(i, j) # {} => LineOf(i) < LineOf(j)
<1> DEFINE I == Breaks(0, i)
           J == Breaks(0, j)
<1>1. I \in SUBSET J /\ J = I \cup Breaks(i, j) /\ I \cap Breaks(i, j) = {}
  BY DEF Breaks
<1>2. IsFiniteSet(J) /\ Cardinality(I) \in Nat /\ Cardinality(J) \in Nat
  BY BreaksAreFinite
<1>3. /\ Cardinality(I) <= Cardinality(J)
      /\ Cardinality(J) = Cardinality(I) => J = I
  BY <1>1, <1>2, FS_Subset
<1>4. LineOf(i) = 1 + Cardinality(I) /\ LineOf(j) = 1 + Cardinality(J)
  BY LineOfIs
<1> HIDE DEF I, J
<1>5. Breaks(i, j) = {} => I = J
  BY <1>1
<1>6. Breaks(i, j) # {} => I # J
  BY <1>1
<1>. QED
  BY <1>2, <1>3, <1>4, <1>5, <1>6

\* Behind a newline the next line begins.
LEMMA LineBreaks ==
  ASSUME NEW i \in Nat, code[i + 1] = Newline
  PROVE  LineOf(i + 1) = LineOf(i) + 1
<1>1. Breaks(0, i + 1) = Breaks(0, i) \cup {i + 1} /\ i + 1 \notin Breaks(0, i)
  <2>1. \A q \in Int : q \in 1..(i + 1) <=> q \in 1..i \/ q = i + 1
    OBVIOUS
  <2>. QED
    BY <2>1 DEF Breaks
<1>2. Cardinality(Breaks(0, i + 1)) = Cardinality(Breaks(0, i)) + 1
  BY <1>1, BreaksAreFinite, FS_AddElement
<1>. QED
  BY <1>2, BreaksAreFinite, LineOfIs
-----------------------------------------------------------------------------
(***************************************************************************)
(* Lines                                                                   *)
(***************************************************************************)
\* A line begins at an index.
StartsLine(line, b) ==
  /\ b \in 0..Size
  /\ LineOf(b) = line
  /\ b = 0 \/ code[b] = Newline

LEMMA SizeIsNat == ASSUME code \in Seq(STRING) PROVE Size \in Nat /\ Size = Len(code)
BY DEF Size

\* memrchr finds where the line of an index begins.
LEMMA BeginOfLine ==
  ASSUME code \in Seq(STRING), NEW i \in 0..Size
  PROVE  /\ StartsLine(LineOf(i), Memrchr(i))
         /\ Memrchr(i) <= i /\ Breaks(Memrchr(i), i) = {}
<1>1. Size \in Nat /\ i \in Nat
  BY SizeIsNat
<1>2. CASE Breaks(0, i) = {}
  <2>1. Memrchr(i) = 0
    BY <1>1, <1>2, MemrchrFindsLast
  <2>2. LineOf(0) = LineOf(i)
    BY <1>1, <1>2, LinesGrow
  <2>. QED
    BY <1>1, <1>2, <2>1, <2>2 DEF StartsLine
<1>3. CASE Breaks(0, i) # {}
  <2> DEFINE b == Memrchr(i)
  <2>1. b \in Breaks(0, i) /\ \A q \in Breaks(0, i) : q <= b
    BY <1>1, <1>3, MemrchrFindsLast
  <2>2. b \in 1..i /\ code[b] = Newline
    BY <2>1 DEF Breaks
  <2>3. Breaks(b, i) = {}
    <3>1. \A q \in Breaks(b, i) : q \in Breaks(0, i) /\ ~(q <= b)
      BY <1>1, <2>2 DEF Breaks
    <3>. QED
      BY <2>1, <3>1
  <2>4. LineOf(b) = LineOf(i)
    BY <1>1, <2>2, <2>3, LinesGrow
  <2>. QED
    BY <1>1, <2>2, <2>3, <2>4 DEF StartsLine
<1>. QED
  BY <1>2, <1>3

\* A line begins at one index only.
LEMMA OneBegin ==
  ASSUME code \in Seq(STRING), NEW line, NEW b, NEW c, StartsLine(line, b), StartsLine(line, c)
  PROVE  b = c
<1>1. ASSUME NEW x \in 0..Size, NEW y \in 0..Size, x < y, code[y] = Newline
      PROVE  LineOf(x) < LineOf(y)
  <2>1. x \in Nat /\ y \in Nat /\ y \in Breaks(x, y)
    BY <1>1, SizeIsNat DEF Breaks
  <2>. QED
    BY <1>1, <2>1, LinesGrow
<1>2. /\ b \in 0..Size /\ c \in 0..Size /\ LineOf(b) = LineOf(c)
      /\ b = 0 \/ code[b] = Newline
      /\ c = 0 \/ code[c] = Newline
  BY DEF StartsLine
<1>3. ~(LineOf(b) < LineOf(c)) /\ ~(LineOf(c) < LineOf(b))
  BY <1>2, SizeIsNat, LineOfIs
<1>4. ~(b < c)
  BY <1>1, <1>2, <1>3
<1>5. ~(c < b)
  BY <1>1, <1>2, <1>3
<1>. QED
  BY <1>2, <1>4, <1>5, SizeIsNat

\* A line ends before the next newline.
LEMMA EndOfLine ==
  ASSUME code \in Seq(STRING), NEW b \in 0..Size
  PROVE  LET e == GetLineEnd(b)
         IN  /\ e \in b..Size /\ Breaks(b, e) = {}
             /\ e = Size \/ (e < Size /\ code[e + 1] = Newline)
<1> DEFINE newline == Memchr(b, Size)
<1>1. Size \in Nat /\ b \in Nat
  BY SizeIsNat
<1>2. /\ Breaks(b, Size) = {} => newline = 0
      /\ Breaks(b, Size) # {} =>
           newline \in Breaks(b, Size) /\ \A q \in Breaks(b, Size) : newline <= q
  BY <1>1, MemchrFindsFirst
<1>3. GetLineEnd(b) = IF b >= Size \/ newline = 0 THEN Size ELSE newline - 1
  BY DEF GetLineEnd
<1>4. CASE Breaks(b, Size) = {}
  <2>1. GetLineEnd(b) = Size
    BY <1>2, <1>3, <1>4
  <2>. QED
    BY <1>1, <1>4, <2>1
<1>5. CASE Breaks(b, Size) # {}
  <2>1. newline \in (b + 1)..Size /\ code[newline] = Newline
    BY <1>2, <1>5 DEF Breaks
  <2>2. GetLineEnd(b) = newline - 1
    BY <1>1, <1>3, <2>1
  <2>3. Breaks(b, newline - 1) = {}
    <3>1. \A q \in Breaks(b, newline - 1) : q \in Breaks(b, Size) /\ ~(newline <= q)
      BY <1>1, <2>1 DEF Breaks
    <3>. QED
      BY <1>2, <1>5, <3>1
  <2>4. newline - 1 + 1 = newline /\ newline - 1 \in b..Size /\ newline - 1 < Size
    BY <1>1, <2>1
  <2>. QED
    BY <2>1, <2>2, <2>3, <2>4
<1>. QED
  BY <1>4, <1>5

\* The indices in a line, and those behind it.
LEMMA WithinLine ==
  ASSUME code \in Seq(STRING), NEW line, NEW b, StartsLine(line, b), NEW i \in 0..Size
  PROVE  /\ i < b => LineOf(i) < line
         /\ i \in b..GetLineEnd(b) => LineOf(i) = line
         /\ i > GetLineEnd(b) => LineOf(i) > line
<1> DEFINE e == GetLineEnd(b)
<1>1. /\ Size \in Nat /\ b \in 0..Size /\ LineOf(b) = line
      /\ b = 0 \/ code[b] = Newline
  BY SizeIsNat DEF StartsLine
<1>2. e \in b..Size /\ Breaks(b, e) = {} /\ (e = Size \/ (e < Size /\ code[e + 1] = Newline))
  BY <1>1, EndOfLine
<1> HIDE DEF e
<1>3. ASSUME i < b PROVE LineOf(i) < line
  <2>1. i \in Nat /\ b \in Nat /\ b \in Breaks(i, b)
    BY <1>1, <1>3 DEF Breaks
  <2>. QED
    BY <1>1, <1>3, <2>1, LinesGrow
<1>4. ASSUME i \in b..e PROVE LineOf(i) = line
  <2>1. i \in Nat /\ b \in Nat /\ b <= i /\ Breaks(b, i) = {}
    BY <1>1, <1>2, <1>4 DEF Breaks
  <2>. QED
    BY <1>1, <2>1, LinesGrow
<1>5. ASSUME i > e PROVE LineOf(i) > line
  <2>1. /\ e \in Nat /\ e + 1 \in Nat /\ i \in Nat /\ e + 1 <= i /\ b <= e /\ b \in Nat
        /\ code[e + 1] = Newline
    BY <1>1, <1>2, <1>5
  <2>2. LineOf(e) = line
    BY <1>1, <1>2, <2>1, LinesGrow
  <2>3. LineOf(e + 1) = LineOf(e) + 1
    BY <2>1, LineBreaks
  <2>4. LineOf(e + 1) <= LineOf(i)
    BY <2>1, LinesGrow
  <2>5. LineOf(e) \in Nat /\ LineOf(i) \in Nat
    BY <2>1, LineOfIs
  <2>. QED
    BY <2>2, <2>3, <2>4, <2>5
<1>. QED
  BY <1>3, <1>4, <1>5 DEF e

\* The text of a line stands between its begin and its end.
LEMMA TextOfLine ==
  ASSUME code \in Seq(STRING), NEW line, NEW b, StartsLine(line, b)
  PROVE  LineText(line) = b..(GetLineEnd(b) - 1)
<1> DEFINE e == GetLineEnd(b)
<1>1. Size \in Nat /\ b \in 0..Size
  BY SizeIsNat DEF StartsLine
<1>2. e \in b..Size /\ Breaks(b, e) = {} /\ (e = Size \/ (e < Size /\ code[e + 1] = Newline))
  BY <1>1, EndOfLine
<1>3. \A i \in 0..Size : /\ i < b => LineOf(i) < line
                         /\ i \in b..e => LineOf(i) = line
                         /\ i > e => LineOf(i) > line
  BY WithinLine
<1>4. line \in Nat
  BY <1>1, LineOfIs DEF StartsLine
<1> HIDE DEF e
<1>5. ASSUME NEW i \in LineText(line) PROVE i \in b..(e - 1)
  <2>1. i \in 0..(Size - 1) /\ LineOf(i) = line /\ code[i + 1] # Newline
    BY DEF LineText
  <2>2. ~(i < b) /\ ~(i > e)
    BY <1>1, <1>3, <1>4, <2>1
  <2>3. i # e
    BY <1>2, <2>1
  <2>. QED
    BY <1>1, <1>2, <2>1, <2>2, <2>3
<1>6. ASSUME NEW i \in b..(e - 1) PROVE i \in LineText(line)
  <2>1. i \in 0..(Size - 1) /\ i \in b..e
    BY <1>1, <1>2
  <2>2. LineOf(i) = line
    BY <1>1, <1>3, <2>1
  <2>3. i + 1 \in (b + 1)..e
    BY <1>1, <1>2
  <2>4. code[i + 1] # Newline
    BY <1>2, <2>3 DEF Breaks
  <2>. QED
    BY <2>1, <2>2, <2>4 DEF LineText
<1>. QED
  BY <1>5, <1>6 DEF e

-----------------------------------------------------------------------------
(***************************************************************************)
(* get_location counts lines and columns                                   *)
(***************************************************************************)
\* What its loop finds from ptr on.
LocationFrom(ptr, end) ==
  [lineno |-> 1 + Cardinality(Breaks(ptr, end)),
   column |-> end - (IF Breaks(ptr, end) = {} THEN ptr ELSE Max(Breaks(ptr, end))) + 1]

\* One round of the loop.
Round(location, ptr, end) ==
  LET newline == Memchr(ptr, end)
  IN  IF newline = 0
      THEN [lineno |-> 1, column |-> end - ptr + 1]
      ELSE [location[newline] EXCEPT !.lineno = @ + 1]

LEMMA RoundIs ==
  ASSUME NEW end \in Nat, NEW ptr \in 0..end, NEW location,
         \A p \in (ptr + 1)..end : location[p] = LocationFrom(p, end)
  PROVE  Round(location, ptr, end) = LocationFrom(ptr, end)
<1> DEFINE newline == Memchr(ptr, end)
           behind == Breaks(newline, end)
<1>1. /\ Breaks(ptr, end) = {} => newline = 0
      /\ Breaks(ptr, end) # {} =>
           newline \in Breaks(ptr, end) /\ \A q \in Breaks(ptr, end) : newline <= q
  BY MemchrFindsFirst
<1>2. CASE Breaks(ptr, end) = {}
  <2>1. Cardinality(Breaks(ptr, end)) = 0
    BY <1>2, FS_EmptySet
  <2>2. LocationFrom(ptr, end) = [lineno |-> 1, column |-> end - ptr + 1]
    BY <1>2, <2>1 DEF LocationFrom
  <2>. QED
    BY <1>1, <1>2, <2>2 DEF Round
<1>3. CASE Breaks(ptr, end) # {}
  <2>1. newline \in (ptr + 1)..end /\ code[newline] = Newline
    BY <1>1, <1>3 DEF Breaks
  <2>2. newline \in Nat /\ newline # 0
    BY <2>1
  <2>3. Breaks(ptr, end) = behind \cup {newline} /\ newline \notin behind
    <3>1. \A q \in Breaks(ptr, end) : q = newline \/ q \in (newline + 1)..end
      BY <1>1, <1>3, <2>1 DEF Breaks
    <3>2. \A q \in (newline + 1)..end : q \in (ptr + 1)..end /\ q # newline
      BY <2>1
    <3>. QED
      BY <1>1, <1>3, <3>1, <3>2 DEF Breaks
  <2>4. /\ IsFiniteSet(behind) /\ Cardinality(behind) \in Nat
        /\ Cardinality(Breaks(ptr, end)) = Cardinality(behind) + 1
    BY <2>2, <2>3, BreaksAreFinite, FS_AddElement
  <2>5. Max(Breaks(ptr, end)) = IF behind = {} THEN newline ELSE Max(behind)
    <3>1. CASE behind = {}
      <4>1. Breaks(ptr, end) = {newline}
        BY <2>3, <3>1
      <4>2. Breaks(ptr, end) \subseteq 0..end
        BY DEF Breaks
      <4>3. Max(Breaks(ptr, end)) \in Breaks(ptr, end)
        BY <1>3, <4>2, LeastAndGreatest
      <4>. QED
        BY <3>1, <4>1, <4>3
    <3>2. CASE behind # {}
      <4>1. behind \subseteq (newline + 1)..end /\ Breaks(ptr, end) \subseteq 0..end
        BY DEF Breaks
      <4>2. /\ Max(behind) \in behind /\ \A q \in behind : q <= Max(behind)
        BY <2>2, <3>2, <4>1, LeastAndGreatest
      <4>3. /\ Max(Breaks(ptr, end)) \in Breaks(ptr, end)
            /\ \A q \in Breaks(ptr, end) : q <= Max(Breaks(ptr, end))
        BY <1>3, <4>1, LeastAndGreatest
      <4>4. Max(behind) \in Breaks(ptr, end) /\ newline < Max(behind)
        BY <2>1, <2>3, <4>1, <4>2
      <4>5. Max(Breaks(ptr, end)) \in behind
        <5>1. Max(behind) <= Max(Breaks(ptr, end))
          BY <4>3, <4>4
        <5>2. newline \in Int /\ Max(behind) \in Int
          BY <2>1, <4>1, <4>2
        <5>3. Max(Breaks(ptr, end)) # newline
          BY <4>4, <5>1, <5>2
        <5>. QED
          BY <2>3, <4>3, <5>3
      <4>6. Max(Breaks(ptr, end)) <= Max(behind) /\ Max(behind) <= Max(Breaks(ptr, end))
        BY <4>2, <4>3, <4>4, <4>5
      <4>7. Max(Breaks(ptr, end)) \in Int /\ Max(behind) \in Int
        BY <4>1, <4>2, <4>3
      <4>. QED
        BY <3>2, <4>6, <4>7
    <3>. QED
      BY <3>1, <3>2
  <2>6. location[newline] = LocationFrom(newline, end)
    BY <2>1
  <2>7. Round(location, ptr, end) = [LocationFrom(newline, end) EXCEPT !.lineno = @ + 1]
    BY <2>2, <2>6 DEF Round
  <2> HIDE DEF newline, behind
  <2>8. LocationFrom(newline, end) =
          [lineno |-> 1 + Cardinality(behind),
           column |-> end - (IF behind = {} THEN newline ELSE Max(behind)) + 1]
    BY DEF LocationFrom, behind
  <2>9. LocationFrom(ptr, end) =
          [lineno |-> 1 + (Cardinality(behind) + 1),
           column |-> end - (IF behind = {} THEN newline ELSE Max(behind)) + 1]
    BY <1>3, <2>4, <2>5 DEF LocationFrom
  <2>10. Round(location, ptr, end) =
           [lineno |-> 1 + Cardinality(behind) + 1,
            column |-> end - (IF behind = {} THEN newline ELSE Max(behind)) + 1]
    BY <2>7, <2>8
  <2>11. 1 + (Cardinality(behind) + 1) = 1 + Cardinality(behind) + 1
    BY <2>4
  <2>. QED
    BY <2>9, <2>10, <2>11
<1>. QED
  BY <1>2, <1>3

LEMMA LocationIs ==
  ASSUME code \in Seq(STRING), NEW i \in 0..Size
  PROVE  GetLocation(i) = [lineno |-> LineOf(i), column |-> i - Memrchr(i) + 1]
<1>1. Size \in Nat /\ i \in Nat
  BY SizeIsNat
<1> DEFINE end == IF i > Size THEN Size ELSE i
           D == 0..end
           f == [p \in D |-> LocationFrom(p, end)]
<1>2. end = i
  BY <1>1
<1> DEFINE location == CHOOSE g : g = [p \in D |->
             LET newline == Memchr(p, end)
             IN  IF newline = 0
                 THEN [lineno |-> 1, column |-> end - p + 1]
                 ELSE [g[newline] EXCEPT !.lineno = @ + 1]]
<1>3. GetLocation(i) = location[0]
  BY Zenon DEF GetLocation
<1> HIDE DEF end
<1>4. location = [p \in D |-> Round(location, p, end)]
  <2>1. ASSUME NEW p \in D PROVE f[p] = Round(f, p, end)
    <3>1. \A q \in (p + 1)..end : q \in D
      BY <1>1, <1>2
    <3>2. \A q \in (p + 1)..end : f[q] = LocationFrom(q, end)
      BY <3>1
    <3>. QED
      BY <1>1, <1>2, <3>2, RoundIs
  <2>2. f = [p \in D |-> Round(f, p, end)]
    BY <2>1
  <2>. QED
    BY <2>2 DEF Round
<1> HIDE DEF location, f
<1>5. \A p \in D : location[p] = LocationFrom(p, end)
  <2> DEFINE S == {p \in D : location[p] # LocationFrom(p, end)}
  <2>1. SUFFICES ASSUME S # {} PROVE FALSE
    OBVIOUS
  <2>2. S \subseteq 0..end
    OBVIOUS
  <2>3. PICK p \in S : \A q \in S : q <= p
    BY <1>1, <1>2, <2>1, <2>2, LeastAndGreatest
  <2>4. \A q \in (p + 1)..end : q \in D /\ ~(q <= p)
    BY <1>1, <1>2
  <2>5. \A q \in (p + 1)..end : location[q] = LocationFrom(q, end)
    BY <2>3, <2>4
  <2>6. Round(location, p, end) = LocationFrom(p, end)
    BY <1>1, <1>2, <2>5, RoundIs
  <2>. QED
    BY <1>4, <2>6
<1>6. GetLocation(i) = LocationFrom(0, i)
  BY <1>1, <1>2, <1>3, <1>5
<1>7. LineOf(i) = 1 + Cardinality(Breaks(0, i))
  BY <1>1, LineOfIs
<1>8. Memrchr(i) = IF Breaks(0, i) = {} THEN 0 ELSE Max(Breaks(0, i))
  BY DEF Memrchr, Breaks, SelectLastInSubSeq, IsNewline
<1>. QED
  BY <1>6, <1>7, <1>8 DEF LocationFrom
-----------------------------------------------------------------------------
(***************************************************************************)
(* The lines printed                                                       *)
(***************************************************************************)
LastLine == LineOf(error.end)

\* The range of the error lies in the code and can be reported.
ErrorOK ==
  /\ code \in Codes
  /\ error \in [start : 0..Size, end : 0..Size]
  /\ Reportable(code, error)

MarkedIn(line) == {line.from + c : c \in line.blanks..(line.blanks + line.carets - 1)}

\* What the properties say of a line that is printed.
IsRight(line) ==
  LET text == line.from..(line.to - 1)
  IN  /\ line.from <= line.to
      /\ text = LineText(line.lineno)
      /\ MarkedIn(line) \cap text = ErrorText \cap text
      /\ line.lineno = LastLine =>
           MarkedIn(line) = IF ErrorText \cap text = {} THEN {error.end} ELSE ErrorText \cap text

PrintedLine == [lineno : Int, from : Int, to : Int, blanks : Int, carets : Int]

\* parser_print_error between two lines: it stands where a line begins, as
\* long as there is one to print.
Printing ==
  /\ heading = [lineno |-> First, column |-> error.start - Memrchr(error.start) + 1]
  /\ lineno = First + Len(report)
  /\ lineno <= LastLine + 1
  /\ lineno <= LastLine => StartsLine(lineno, index)
  /\ at = "done" => lineno > LastLine

IInv ==
  /\ ErrorOK
  /\ at \in {"start", "lines", "done"}
  /\ report \in Seq(PrintedLine)
  /\ \A k \in DOMAIN report : report[k].lineno = First + k - 1 /\ IsRight(report[k])
  /\ at = "start" => report = <<>>
  /\ at # "start" => Printing

LEMMA ErrorIs ==
  ASSUME ErrorOK
  PROVE  /\ code \in Seq(STRING) /\ Size \in Nat
         /\ error.start \in 0..Size /\ error.end \in 0..Size /\ error.start <= error.end
         /\ error.start < Size => error.start < error.end /\ code[error.start + 1] # Newline
         /\ error.end < Size => code[error.end] # Newline
         /\ First \in Nat /\ LastLine \in Nat /\ 1 <= First /\ First <= LastLine
<1>1. code \in Seq(STRING) /\ Size = Len(code)
  BY ReportAssumption DEF ErrorOK, Size
<1>2. Size \in Nat /\ error.start \in 0..Size /\ error.end \in 0..Size
  BY <1>1, SizeIsNat DEF ErrorOK
<1>3. /\ IF error.start = Size THEN error.end = error.start
         ELSE error.start < error.end /\ code[error.start + 1] # Newline
      /\ IF error.end = Size THEN TRUE ELSE code[error.end] # Newline
  BY <1>1 DEF ErrorOK, Reportable
<1>4. error.start \in Nat /\ error.end \in Nat /\ error.start <= error.end
  BY <1>2, <1>3
<1>5. First \in Nat /\ LastLine \in Nat /\ 1 <= First /\ First <= LastLine
  BY <1>4, LineOfIs, LinesGrow DEF First, LastLine
<1>6. /\ error.start < Size => error.start < error.end /\ code[error.start + 1] # Newline
      /\ error.end < Size => code[error.end] # Newline
  BY <1>2, <1>3
<1>. QED
  BY <1>1, <1>2, <1>4, <1>5, <1>6

\* The carets of a line stand next to each other.
LEMMA MarksAre ==
  ASSUME NEW line \in PrintedLine
  PROVE  MarkedIn(line) = (line.from + line.blanks)..(line.from + line.blanks + line.carets - 1)
<1> DEFINE f == line.from
           b == line.blanks
           n == line.carets
<1>1. f \in Int /\ b \in Int /\ n \in Int
  BY DEF PrintedLine
<1> HIDE DEF f, b, n
<1>2. \A x \in (f + b)..(f + b + n - 1) : x - f \in b..(b + n - 1) /\ x = f + (x - f)
  BY <1>1
<1>3. \A c \in b..(b + n - 1) : f + c \in (f + b)..(f + b + n - 1)
  BY <1>1
<1>4. {f + c : c \in b..(b + n - 1)} = (f + b)..(f + b + n - 1)
  BY <1>2, <1>3
<1>. QED
  BY <1>4 DEF f, b, n, MarkedIn

\* The line that PrintLine prints.
NextLine ==
  [lineno |-> lineno, from |-> index, to |-> GetLineEnd(index),
   blanks |-> StartColumn, carets |-> Carets(GetLineEnd(index))]

\* Where the line stands to the error.
LEMMA LineAndError ==
  ASSUME ErrorOK, Printing, lineno <= LastLine, report \in Seq(PrintedLine)
  PROVE  /\ index \in 0..Size /\ GetLineEnd(index) \in index..Size
         /\ lineno \in Nat /\ First <= lineno
         /\ lineno = First =>
              /\ index = Memrchr(error.start) /\ index <= error.start
              /\ error.start <= GetLineEnd(index)
         /\ lineno # First => error.start < index
         /\ lineno = LastLine =>
              /\ index = Memrchr(error.end) /\ index <= error.end
              /\ error.end <= GetLineEnd(index)
         /\ lineno # LastLine =>
              /\ GetLineEnd(index) < error.end
              /\ code[GetLineEnd(index) + 1] = Newline
<1> DEFINE e == GetLineEnd(index)
<1>1. /\ code \in Seq(STRING) /\ Size \in Nat
      /\ error.start \in 0..Size /\ error.end \in 0..Size
      /\ First \in Nat /\ LastLine \in Nat
  BY ErrorIs
<1>2. StartsLine(lineno, index) /\ lineno = First + Len(report) /\ Len(report) \in Nat
  BY DEF Printing
<1>3. index \in 0..Size
  BY <1>2 DEF StartsLine
<1>4. e \in index..Size /\ (e = Size \/ (e < Size /\ code[e + 1] = Newline))
  BY <1>1, <1>3, EndOfLine
<1>5. /\ error.start < index => First < lineno
      /\ error.start \in index..e => First = lineno
      /\ error.start > e => First > lineno
      /\ error.end < index => LastLine < lineno
      /\ error.end \in index..e => LastLine = lineno
      /\ error.end > e => LastLine > lineno
  BY <1>1, <1>2, WithinLine DEF First, LastLine
<1>6. /\ StartsLine(First, Memrchr(error.start))
      /\ StartsLine(LastLine, Memrchr(error.end))
  BY <1>1, BeginOfLine DEF First, LastLine
<1>7. lineno = First => index = Memrchr(error.start)
  BY <1>1, <1>2, <1>6, OneBegin
<1>8. lineno = LastLine => index = Memrchr(error.end)
  BY <1>1, <1>2, <1>6, OneBegin
<1> HIDE DEF e
<1>9. lineno \in Nat /\ First <= lineno
  BY <1>1, <1>2
<1>10. lineno = First => index <= error.start /\ error.start <= e
  BY <1>1, <1>3, <1>4, <1>5
<1>11. lineno # First => error.start < index
  BY <1>1, <1>3, <1>4, <1>5, <1>9
<1>12. lineno = LastLine => index <= error.end /\ error.end <= e
  BY <1>1, <1>3, <1>4, <1>5
<1>13. lineno # LastLine => e < error.end /\ code[e + 1] = Newline
  BY <1>1, <1>3, <1>4, <1>5, <1>9
<1>. QED
  BY <1>3, <1>4, <1>7, <1>8, <1>9, <1>10, <1>11, <1>12, <1>13 DEF e

LEMMA NextLineIs ==
  ASSUME ErrorOK, Printing, lineno <= LastLine, report \in Seq(PrintedLine)
  PROVE  /\ NextLine \in PrintedLine
         /\ StartColumn = IF lineno = First THEN error.start - index ELSE 0
         /\ EndColumn(GetLineEnd(index)) =
              IF lineno = LastLine THEN error.end - index ELSE GetLineEnd(index)
<1> DEFINE e == GetLineEnd(index)
<1>1. /\ index \in 0..Size /\ e \in index..Size /\ lineno \in Nat
      /\ lineno = First => index = Memrchr(error.start)
      /\ lineno = LastLine => index = Memrchr(error.end)
  BY LineAndError
<1>2. /\ code \in Seq(STRING) /\ Size \in Nat
      /\ error.start \in 0..Size /\ error.end \in 0..Size
  BY ErrorIs
<1>3. /\ EndLocation.lineno = LastLine
      /\ EndLocation.column = error.end - Memrchr(error.end) + 1
  BY <1>2, LocationIs DEF EndLocation, LastLine
<1>4. heading.lineno = First /\ heading.column = error.start - Memrchr(error.start) + 1
  BY DEF Printing
<1>5. StartColumn = IF lineno = First THEN error.start - index ELSE 0
  <2>1. lineno = First => heading.column - 1 = error.start - index
    BY <1>1, <1>2, <1>4
  <2>. QED
    BY <1>4, <2>1 DEF StartColumn
<1>6. EndColumn(e) = IF lineno = LastLine THEN error.end - index ELSE e
  <2>1. lineno = LastLine => EndLocation.column - 1 = error.end - index
    BY <1>1, <1>2, <1>3
  <2>. QED
    BY <1>3, <2>1 DEF EndColumn
<1>7. StartColumn \in Int /\ EndColumn(e) \in Int
  BY <1>1, <1>2, <1>5, <1>6
<1>8. Carets(e) \in Int
  BY <1>7 DEF Carets
<1>. QED
  BY <1>1, <1>2, <1>5, <1>6, <1>7, <1>8 DEF NextLine, PrintedLine

\* Under the line stand the carets that it needs.
LEMMA NextLineIsRight ==
  ASSUME ErrorOK, Printing, lineno <= LastLine, report \in Seq(PrintedLine)
  PROVE  IsRight(NextLine)
<1> DEFINE e == GetLineEnd(index)
           s == error.start
           t == error.end
           text == index..(e - 1)
           from == StartColumn
           to == EndColumn(e)
<1>1. /\ code \in Seq(STRING) /\ Size \in Nat /\ s \in 0..Size /\ t \in 0..Size /\ s <= t
      /\ s < Size => s < t /\ code[s + 1] # Newline
      /\ t < Size => code[t] # Newline
      /\ First \in Nat /\ 1 <= First
  BY ErrorIs
<1>2. /\ index \in 0..Size /\ e \in index..Size /\ lineno \in Nat /\ First <= lineno
      /\ lineno = First => index <= s /\ s <= e
      /\ lineno # First => s < index
      /\ lineno = LastLine => index <= t /\ t <= e
      /\ lineno # LastLine => e < t /\ code[e + 1] = Newline
  BY LineAndError
<1>3. /\ from = IF lineno = First THEN s - index ELSE 0
      /\ to = IF lineno = LastLine THEN t - index ELSE e
  BY NextLineIs
<1>4. StartsLine(lineno, index)
  BY DEF Printing
<1>5. LineText(lineno) = text
  BY <1>1, <1>4, TextOfLine
<1>6. /\ NextLine.lineno = lineno /\ NextLine.from = index /\ NextLine.to = e
      /\ NextLine.blanks = from /\ NextLine.carets = Carets(e)
  BY DEF NextLine
<1>7. MarkedIn(NextLine) = (index + from)..(index + from + Carets(e) - 1)
  BY <1>6, NextLineIs, MarksAre
<1>8. Carets(e) = IF from = to THEN 1 ELSE IF from < to THEN to - from ELSE 0
  <2>1. from \in Int /\ to \in Int
    BY <1>1, <1>2, <1>3
  <2>. QED
    BY <2>1 DEF Carets
<1>9. ErrorText = s..(t - 1)
  BY DEF ErrorText
<1>10. lineno # First => index # 0 /\ code[index] = Newline
  BY <1>1, <1>2, <1>4 DEF StartsLine
<1>11. ASSUME MarkedIn(NextLine) \cap text = ErrorText \cap text,
              lineno = LastLine =>
                MarkedIn(NextLine) = IF ErrorText \cap text = {} THEN {t} ELSE ErrorText \cap text
       PROVE  IsRight(NextLine)
  <2>1. NextLine.from..(NextLine.to - 1) = text
    BY <1>6
  <2>2. NextLine.from <= NextLine.to
    BY <1>1, <1>2, <1>6
  <2>. QED
    BY <1>5, <1>6, <1>11, <2>1, <2>2, Zenon DEF IsRight
<1> HIDE DEF e, s, t, from, to
\* the last line
<1>12. CASE lineno = LastLine
  <2>1. CASE from = to
    <3>1. Carets(e) = 1
      BY <1>8, <2>1
    <3>2. t = Size /\ index + from = t /\ t = e
      <4>1. CASE lineno = First
        BY <1>1, <1>2, <1>3, <1>12, <2>1, <4>1
      <4>2. CASE lineno # First
        BY <1>1, <1>2, <1>3, <1>10, <1>12, <2>1, <4>2
      <4>. QED
        BY <4>1, <4>2
    <3>3. MarkedIn(NextLine) = {t}
      <4>1. t..(t + 1 - 1) = {t}
        BY <1>1
      <4>. QED
        BY <1>7, <3>1, <3>2, <4>1
    <3>4. t \notin text
      BY <1>1, <1>2, <3>2
    <3>5. ErrorText \cap text = {}
      <4>1. CASE lineno = First
        <5>1. s = t
          BY <1>1, <1>2, <1>3, <1>12, <2>1, <4>1
        <5>. QED
          BY <1>1, <1>9, <5>1
      <4>2. CASE lineno # First
        <5>1. t = index
          BY <1>1, <1>2, <1>3, <1>12, <2>1, <4>2
        <5>. QED
          BY <1>1, <1>9, <5>1
      <4>. QED
        BY <4>1, <4>2
    <3>. QED
      BY <1>11, <3>3, <3>4, <3>5
  <2>2. CASE from # to
    <3>1. from < to
      BY <1>1, <1>2, <1>3, <1>12, <2>2
    <3>2. /\ Carets(e) = to - from /\ index + to = t
          /\ index + from = IF lineno = First THEN s ELSE index
      BY <1>1, <1>2, <1>3, <1>8, <1>12, <2>2, <3>1
    <3>3. MarkedIn(NextLine) = (IF lineno = First THEN s ELSE index)..(t - 1)
      <4>1. from \in Int /\ to \in Int /\ index \in Int
        BY <1>1, <1>2, <1>3
      <4>2. index + from + (to - from) - 1 = t - 1
        BY <1>1, <3>2, <4>1
      <4>. QED
        BY <1>7, <3>2, <4>2
    <3>4. ErrorText \cap text = (IF lineno = First THEN s ELSE index)..(t - 1)
      BY <1>1, <1>2, <1>9, <1>12
    <3>5. (IF lineno = First THEN s ELSE index) \in ErrorText \cap text
      BY <1>1, <1>2, <1>3, <1>12, <3>1, <3>4
    <3>6. MarkedIn(NextLine) = ErrorText \cap text /\ ErrorText \cap text # {}
      BY <3>3, <3>4, <3>5
    <3>. QED
      BY <1>11, <3>6
  <2>. QED
    BY <2>1, <2>2
\* a line that the error goes beyond
<1>13. CASE lineno # LastLine
  <2>1. from < to
    BY <1>1, <1>2, <1>3, <1>10, <1>13
  <2>2. /\ Carets(e) = to - from
        /\ index + from = IF lineno = First THEN s ELSE index
    BY <1>1, <1>2, <1>3, <1>8, <2>1
  <2>3. MarkedIn(NextLine) = (IF lineno = First THEN s ELSE index)..(index + e - 1)
    <3>1. from \in Int /\ to = e /\ index \in Int /\ e \in Int
      BY <1>1, <1>2, <1>3, <1>13
    <3>2. index + from + (to - from) - 1 = index + e - 1
      BY <3>1
    <3>. QED
      BY <1>7, <2>2, <3>2
  <2>4. ErrorText \cap text = (IF lineno = First THEN s ELSE index)..(e - 1)
    BY <1>1, <1>2, <1>9, <1>13
  <2>5. MarkedIn(NextLine) \cap text = (IF lineno = First THEN s ELSE index)..(e - 1)
    BY <1>1, <1>2, <2>3
  <2>. QED
    BY <1>13, <1>11, <2>4, <2>5
<1>. QED
  BY <1>12, <1>13

-----------------------------------------------------------------------------
(***************************************************************************)
(* The invariant                                                           *)
(***************************************************************************)
\* What is said of the lines rests on the code and the error alone.
LEMMA SameCode ==
  ASSUME code' = code, error' = error
  PROVE  /\ ErrorOK' <=> ErrorOK
         /\ First' = First /\ LastLine' = LastLine
         /\ \A line : IsRight(line)' <=> IsRight(line)
         /\ \A line, b : StartsLine(line, b)' <=> StartsLine(line, b)
         /\ \A i : Memrchr(i)' = Memrchr(i)
<1>1. Size' = Size /\ \A i : LineOf(i)' = LineOf(i)
  BY DEF Size, LineOf
<1>2. ErrorOK' <=> ErrorOK
  BY <1>1 DEF ErrorOK, Reportable
<1>3. First' = First /\ LastLine' = LastLine /\ ErrorText' = ErrorText
  BY <1>1 DEF First, LastLine, ErrorText
<1>4. \A line : LineText(line)' = LineText(line)
  BY <1>1 DEF LineText
<1>5. \A line : IsRight(line)' <=> IsRight(line)
  BY <1>3, <1>4 DEF IsRight, MarkedIn
<1>6. \A line, b : StartsLine(line, b)' <=> StartsLine(line, b)
  BY <1>1 DEF StartsLine
<1>7. \A i : Memrchr(i)' = Memrchr(i)
  BY DEF Memrchr
<1>. QED
  BY <1>2, <1>3, <1>5, <1>6, <1>7

LEMMA HeadingOK ==
  ASSUME IInv, PrintHeading
  PROVE  IInv'
<1>1. /\ at = "start" /\ heading' = GetLocation(error.start) /\ lineno' = heading'.lineno
      /\ index' = GetLineStart(error.start) /\ at' = "lines"
      /\ code' = code /\ error' = error /\ report' = report /\ report = <<>>
  BY DEF PrintHeading, IInv
<1>2. /\ code \in Seq(STRING) /\ Size \in Nat /\ error.start \in 0..Size
      /\ First \in Nat /\ LastLine \in Nat /\ First <= LastLine
      /\ error.start < Size => code[error.start + 1] # Newline
  BY ErrorIs DEF IInv
<1>3. heading' = [lineno |-> First, column |-> error.start - Memrchr(error.start) + 1]
  BY <1>1, <1>2, LocationIs DEF First
<1>4. index' = Memrchr(error.start)
  <2>1. CASE error.start < Size
    <3> DEFINE i == error.start
    <3>1. i \in Nat /\ i + 1 \in Nat
      BY <1>2
    <3>2. Breaks(0, i + 1) = Breaks(0, i)
      <4>1. \A q \in Int : q \in 1..(i + 1) <=> q \in 1..i \/ q = i + 1
        BY <3>1
      <4>. QED
        BY <1>2, <2>1, <4>1 DEF Breaks
    <3>3. \A n : Memrchr(n) = IF Breaks(0, n) # {} THEN Max(Breaks(0, n)) ELSE 0
      BY DEF Memrchr, Breaks, SelectLastInSubSeq, IsNewline
    <3>. QED
      BY <1>1, <2>1, <3>2, <3>3 DEF GetLineStart
  <2>2. CASE ~(error.start < Size)
    <3>1. error.start = Size
      BY <1>2, <2>2
    <3>. QED
      BY <1>1, <2>2, <3>1 DEF GetLineStart
  <2>. QED
    BY <2>1, <2>2
<1>5. StartsLine(First, Memrchr(error.start))
  BY <1>2, BeginOfLine DEF First
<1>6. Len(report') = 0 /\ DOMAIN report' = {} /\ report' \in Seq(PrintedLine)
  BY <1>1
<1>7. lineno' = First
  BY <1>1, <1>3
<1>8. Printing'
  <2>1. lineno' = First' + Len(report') /\ lineno' <= LastLine' + 1
    BY <1>1, <1>2, <1>6, <1>7, SameCode
  <2>2. StartsLine(lineno, index)'
    BY <1>1, <1>4, <1>5, <1>7, SameCode
  <2>. QED
    BY <1>1, <1>3, <2>1, <2>2, SameCode DEF Printing
<1>. QED
  BY <1>1, <1>6, <1>8, SameCode DEF IInv

LEMMA LineOK ==
  ASSUME IInv, PrintLine
  PROVE  IInv'
<1> DEFINE e == GetLineEnd(index)
           n == Len(report)
<1>1. /\ at = "lines" /\ lineno <= EndLocation.lineno
      /\ report' = Append(report, NextLine)
      /\ index' = e + 1 /\ lineno' = lineno + 1
      /\ code' = code /\ error' = error /\ heading' = heading /\ at' = at
  BY DEF PrintLine, NextLine
<1>2. ErrorOK /\ Printing /\ report \in Seq(PrintedLine) /\ n \in Nat
  BY <1>1 DEF IInv
<1>3. /\ code \in Seq(STRING) /\ Size \in Nat /\ error.end \in 0..Size
      /\ First \in Nat /\ LastLine \in Nat
  BY <1>2, ErrorIs
<1>4. lineno <= LastLine
  <2>1. EndLocation.lineno = LastLine
    BY <1>3, LocationIs DEF EndLocation, LastLine
  <2>. QED
    BY <1>1, <2>1
<1>5. NextLine \in PrintedLine /\ IsRight(NextLine)
  BY <1>2, <1>4, NextLineIs, NextLineIsRight
<1>6. lineno = First + n /\ NextLine.lineno = lineno
  BY <1>2 DEF Printing, NextLine
<1>7. /\ report' \in Seq(PrintedLine) /\ Len(report') = n + 1
      /\ DOMAIN report' = 1..(n + 1) /\ DOMAIN report = 1..n
      /\ report'[n + 1] = NextLine /\ \A k \in 1..n : report'[k] = report[k]
  BY <1>1, <1>2, <1>5
<1>8. \A k \in 1..(n + 1) : report'[k].lineno = First + k - 1 /\ IsRight(report'[k])
  <2>1. \A k \in 1..n : report[k].lineno = First + k - 1 /\ IsRight(report[k])
    BY <1>7 DEF IInv
  <2>2. \A k \in 1..(n + 1) : k \in 1..n \/ k = n + 1
    BY <1>2
  <2>3. First + (n + 1) - 1 = lineno
    BY <1>2, <1>3, <1>6
  <2>. QED
    BY <1>5, <1>6, <1>7, <2>1, <2>2, <2>3
<1>9. (\A k \in DOMAIN report : report[k].lineno = First + k - 1 /\ IsRight(report[k]))'
  BY <1>1, <1>7, <1>8, SameCode
<1>10. lineno' <= LastLine => StartsLine(lineno', index')
  <2> SUFFICES ASSUME lineno + 1 <= LastLine PROVE StartsLine(lineno + 1, e + 1)
    BY <1>1
  <2>1. /\ index \in 0..Size /\ e \in index..Size /\ lineno \in Nat
        /\ lineno # LastLine => e < error.end /\ code[e + 1] = Newline
    BY <1>2, <1>4, LineAndError
  <2>2. e < error.end /\ code[e + 1] = Newline
    BY <1>3, <2>1
  <2>3. StartsLine(lineno, index)
    BY <1>2, <1>4 DEF Printing
  <2>4. LineOf(e) = lineno
    BY <1>3, <2>1, <2>3, WithinLine
  <2>5. e \in Nat /\ e + 1 \in 0..Size
    BY <1>3, <2>1, <2>2
  <2>6. LineOf(e + 1) = lineno + 1
    BY <2>2, <2>4, <2>5, LineBreaks
  <2>. QED
    BY <2>2, <2>5, <2>6 DEF StartsLine
<1>11. Printing'
  <2>1. lineno' = First' + Len(report') /\ lineno' <= LastLine' + 1
    BY <1>1, <1>2, <1>3, <1>4, <1>6, <1>7, SameCode
  <2>2. lineno' <= LastLine' => StartsLine(lineno, index)'
    BY <1>1, <1>10, SameCode
  <2>3. (heading = [lineno |-> First, column |-> error.start - Memrchr(error.start) + 1])'
    BY <1>1, <1>2, SameCode DEF Printing
  <2>. QED
    BY <1>1, <2>1, <2>2, <2>3 DEF Printing
<1>. QED
  BY <1>1, <1>2, <1>7, <1>9, <1>11, SameCode DEF IInv

LEMMA FinishOK ==
  ASSUME IInv, Finish
  PROVE  IInv'
<1>1. /\ at = "lines" /\ lineno > EndLocation.lineno /\ at' = "done"
      /\ code' = code /\ error' = error /\ heading' = heading
      /\ lineno' = lineno /\ index' = index /\ report' = report
  BY DEF Finish
<1>2. ErrorOK /\ Printing
  BY <1>1 DEF IInv
<1>3. EndLocation.lineno = LastLine
  BY <1>2, ErrorIs, LocationIs DEF EndLocation, LastLine
<1>4. Printing'
  BY <1>1, <1>2, <1>3, SameCode DEF Printing
<1>. QED
  BY <1>1, <1>4, SameCode DEF IInv

LEMMA InitOK == Init => IInv
<1> SUFFICES ASSUME Init PROVE IInv
  OBVIOUS
<1>1. /\ code \in Codes /\ error \in [start : 0..Size, end : 0..Size]
      /\ Reportable(code, error) /\ report = <<>> /\ at = "start"
  BY DEF Init
<1>. QED
  BY <1>1 DEF IInv, ErrorOK

LEMMA NextOK == IInv /\ [Next]_vars => IInv'
<1> SUFFICES ASSUME IInv, [Next]_vars PROVE IInv'
  OBVIOUS
<1>1. CASE PrintHeading
  BY <1>1, HeadingOK
<1>2. CASE PrintLine
  BY <1>2, LineOK
<1>3. CASE Finish
  BY <1>3, FinishOK
<1>4. CASE UNCHANGED vars
  <2>1. /\ code' = code /\ error' = error /\ heading' = heading /\ at' = at
        /\ lineno' = lineno /\ index' = index /\ report' = report
    BY <1>4 DEF vars
  <2>2. Printing' <=> Printing
    BY <2>1, SameCode DEF Printing
  <2>. QED
    BY <2>1, <2>2, SameCode DEF IInv
<1>. QED
  BY <1>1, <1>2, <1>3, <1>4 DEF Next, Terminated

\* The location that parser_print_error names is that of the first wrong
\* character, and the lines it prints are the lines of the code from that one
\* to the one the error ends in, each once and whole.
THEOREM LinesArePrinted == Spec => []PrintsTheLines
<1>1. IInv => PrintsTheLines
  <2> SUFFICES ASSUME IInv PROVE PrintsTheLines
    OBVIOUS
  <2>1. /\ code \in Seq(STRING) /\ Size \in Nat /\ error.start \in 0..Size
        /\ First \in Nat /\ LastLine \in Nat
    BY ErrorIs DEF IInv
  <2>2. ASSUME at # "start"
        PROVE  heading = [lineno |-> First,
                 column |-> 1 + Cardinality({i \in LineText(First) : i < error.start})]
    <3> DEFINE b == Memrchr(error.start)
               e == GetLineEnd(b)
    <3>1. StartsLine(First, b) /\ b <= error.start
      BY <2>1, BeginOfLine DEF First
    <3>2. b \in 0..Size
      BY <3>1 DEF StartsLine
    <3>3. e \in b..Size /\ error.start <= e
      <4>1. e \in b..Size
        BY <2>1, <3>2, EndOfLine
      <4>2. error.start > e => LineOf(error.start) > First
        BY <2>1, <3>1, WithinLine
      <4>. QED
        BY <2>1, <3>2, <4>1, <4>2 DEF First
    <3>4. LineText(First) = b..(e - 1)
      BY <2>1, <3>1, TextOfLine
    <3> HIDE DEF b, e
    <3>5. {i \in LineText(First) : i < error.start} = b..(error.start - 1)
      <4>1. b \in Int /\ e \in Int /\ error.start \in Int
        BY <2>1, <3>2, <3>3
      <4>2. \A i \in b..(e - 1) : i < error.start <=> i \in b..(error.start - 1)
        BY <4>1
      <4>3. b..(error.start - 1) \subseteq b..(e - 1)
        BY <3>3, <4>1
      <4>. QED
        BY <3>4, <4>2, <4>3
    <3>6. Cardinality(b..(error.start - 1)) = error.start - b
      <4>1. b \in Int /\ error.start - 1 \in Int /\ error.start \in Int /\ b <= error.start
        BY <2>1, <3>1, <3>2
      <4>2. Cardinality(b..(error.start - 1)) =
              IF b > error.start - 1 THEN 0 ELSE error.start - 1 - b + 1
        BY <4>1, FS_Interval
      <4>. QED
        BY <4>1, <4>2
    <3>7. heading = [lineno |-> First, column |-> error.start - b + 1]
      BY <2>2 DEF IInv, Printing, b
    <3>8. error.start - b + 1 = 1 + (error.start - b)
      BY <2>1, <3>2
    <3>. QED
      BY <3>5, <3>6, <3>7, <3>8
  <2>3. ASSUME NEW k \in DOMAIN report
        PROVE  /\ report[k].lineno = First + k - 1
               /\ report[k].from <= report[k].to
               /\ report[k].from..(report[k].to - 1) = LineText(report[k].lineno)
    BY DEF IInv, IsRight
  <2>4. ASSUME at = "done" PROVE Len(report) = LineOf(error.end) - First + 1
    <3>1. lineno = First + Len(report) /\ lineno <= LastLine + 1 /\ lineno > LastLine
      BY <2>4 DEF IInv, Printing
    <3>2. Len(report) \in Nat
      BY DEF IInv
    <3>3. Len(report) = LastLine - First + 1
      BY <2>1, <3>1, <3>2
    <3>. QED
      BY <3>3 DEF LastLine
  <2>5. GetLineRange(error.start) =
          [start |-> GetLineStart(error.start), end |-> GetLineEnd(error.start)]
    <3>1. (IF error.start < Size /\ Memchr(error.start, Size) # 0
           THEN Memchr(error.start, Size) - 1 ELSE Size) = GetLineEnd(error.start)
      BY <2>1 DEF GetLineEnd
    <3>. QED
      BY <3>1 DEF GetLineRange, GetLineStart
  <2>. QED
    BY <2>2, <2>3, <2>4, <2>5 DEF PrintsTheLines
<1>. QED
  BY <1>1, InitOK, NextOK, PTL DEF Spec

\* Of the characters that are printed exactly those of the error have a caret
\* below them, and in the last line there is no other caret, but for the one
\* that shows where an error without characters is.
THEOREM ErrorsAreMarked == Spec => []MarksTheError
<1>1. IInv => MarksTheError
  <2> SUFFICES ASSUME IInv, NEW k \in DOMAIN report
               PROVE  LET text == report[k].from..(report[k].to - 1)
                      IN  /\ Marked(k) \cap text = ErrorText \cap text
                          /\ report[k].lineno = LineOf(error.end) =>
                               Marked(k) = IF ErrorText \cap text = {} THEN {error.end}
                                           ELSE ErrorText \cap text
    BY DEF MarksTheError
  <2>1. IsRight(report[k])
    BY DEF IInv
  <2>2. Marked(k) = MarkedIn(report[k])
    BY DEF Marked, MarkedIn
  <2>. QED
    BY <2>1, <2>2 DEF IsRight, LastLine
<1>. QED
  BY <1>1, InitOK, NextOK, PTL DEF Spec
=============================================================================
