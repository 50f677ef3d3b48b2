---------------------------- MODULE DotenvProofs ----------------------------
(***************************************************************************)
(* Proofs about Dotenv, for every tree, every file and every environment:  *)
(* what the search finds and misses, and what the lines make of the        *)
(* environment.  The second needs what string_split() does to a text       *)
(* without blank lines.  That is an induction over the positions of its    *)
(* fold, with a set of numbers in place of a predicate.  The same way the  *)
(* last part proves the laws of the string and path functions that dotenv  *)
(* is made of (module TextLaws), for strings of any length.                *)
(***************************************************************************)
EXTENDS Dotenv, TextLaws, TLAPS, FiniteSetTheorems, SequenceTheorems

-----------------------------------------------------------------------------
(* Numbers.                                                                 *)

\* Every non-empty set of naturals has a least element.
LEMMA LeastNat ==
    ASSUME NEW S, S \subseteq Nat, S # {}
    PROVE  \E m \in S : \A n \in S : m <= n
<1> DEFINE R == {ss \in Nat \X Nat : ss[1] < ss[2]}
<1>0. IsWellFoundedOn(R, Nat)
  BY NatLessThanWellFounded, Zenon DEF OpToRel
<1>1. PICK m \in S : \A n \in S : ~ (<<n, m>> \in R)
  <2> HIDE DEF R
  <2> QED BY WFMin, <1>0
<1>2. ASSUME NEW n \in S, ~ (m <= n) PROVE FALSE
  <2>1. n \in Nat /\ m \in Nat /\ n < m BY <1>2
  <2>2. <<n, m>> \in R BY <2>1, SMT
  <2> QED BY <2>2, <1>1
<1> QED BY <1>2

\* Induction, with the set of the numbers for which the claim holds in place of
\* the claim.
LEMMA InductionSet ==
    ASSUME NEW S, 0 \in S, \A n \in Nat : n \in S => n + 1 \in S
    PROVE  Nat \subseteq S
<1> SUFFICES ASSUME NEW b \in Nat, b \notin S PROVE FALSE
  OBVIOUS
<1>1. PICK m \in Nat \ S : \A n \in Nat \ S : m <= n
  BY LeastNat
<1>2. m - 1 \in Nat /\ m - 1 \in S
  BY <1>1
<1> QED BY <1>1, <1>2

\* The greatest and the least element are the ones that Max and Min choose.
LEMMA MaxIs ==
    ASSUME NEW S, S \subseteq Int, NEW m \in S, \A x \in S : x <= m
    PROVE  Max(S) = m
<1>1. \A x \in S : m >= x OBVIOUS
<1>2. \A y \in S : (\A x \in S : y >= x) => y = m OBVIOUS
<1> QED BY <1>1, <1>2 DEF Max

\* Likewise for the least element.
LEMMA MinIs ==
    ASSUME NEW S, S \subseteq Int, NEW m \in S, \A x \in S : m <= x
    PROVE  Min(S) = m
<1>2. \A y \in S : (\A x \in S : y <= x) => y = m OBVIOUS
<1> QED BY <1>2 DEF Min

-----------------------------------------------------------------------------
(* string_split() as a walk over the characters.                            *)

\* One round of its loop: the position p, with the delimiter behind the end.
Cut(c, d, acc, p) ==
    IF (p <= Len(c) /\ c[p] # d) \/ p = acc.start THEN acc
    ELSE [start |-> p + 1, pieces |-> Append(acc.pieces, SubSeq(c, acc.start, p - 1))]

Uncut == [start |-> 1, pieces |-> <<>>]

\* The fold of the community modules, on the positions up to k.
Fold(c, d, k, g) ==
    g = [s \in SUBSET (1 .. k) |->
            IF s = {} THEN Uncut ELSE Cut(c, d, g[s \ {Max(s)}], Max(s))]

\* A recursive function of this kind exists, by induction on k.
LEMMA FoldExists ==
    ASSUME NEW c, NEW d, NEW k \in Nat
    PROVE  \E g : Fold(c, d, k, g)
<1> DEFINE S == {n \in Nat : \E g : Fold(c, d, n, g)}
<1>1. 0 \in S
  <2> DEFINE g == [s \in SUBSET (1 .. 0) |-> Uncut]
  <2>1. \A s \in SUBSET (1 .. 0) : s = {} OBVIOUS
  <2>2. Fold(c, d, 0, g) BY <2>1 DEF Fold
  <2> QED BY <2>2
<1>2. ASSUME NEW n \in Nat, n \in S PROVE n + 1 \in S
  <2>1. PICK g : Fold(c, d, n, g) BY <1>2
  <2> DEFINE h == [s \in SUBSET (1 .. (n + 1)) |->
                      IF n + 1 \in s THEN Cut(c, d, g[s \ {n + 1}], n + 1) ELSE g[s]]
  <2>2. ASSUME NEW s \in SUBSET (1 .. (n + 1))
        PROVE  h[s] = IF s = {} THEN Uncut ELSE Cut(c, d, h[s \ {Max(s)}], Max(s))
    <3>1. CASE n + 1 \in s
      <4>1. Max(s) = n + 1
        <5>1. s \subseteq Int /\ \A x \in s : x <= n + 1 OBVIOUS
        <5> QED BY <3>1, <5>1, MaxIs
      <4>2. s \ {n + 1} \in SUBSET (1 .. (n + 1)) OBVIOUS
      <4>3. h[s \ {n + 1}] = g[s \ {n + 1}] BY <4>2
      <4>4. h[s] = Cut(c, d, g[s \ {n + 1}], n + 1) BY <3>1
      <4> QED BY <3>1, <4>1, <4>3, <4>4
    <3>2. CASE n + 1 \notin s
      <4>1. s \in SUBSET (1 .. n) BY <3>2
      <4>2. h[s] = g[s] BY <3>2
      <4>3. g[s] = IF s = {} THEN Uncut ELSE Cut(c, d, g[s \ {Max(s)}], Max(s))
        BY <2>1, <4>1 DEF Fold
      <4>4. s \ {Max(s)} \in SUBSET (1 .. (n + 1)) /\ n + 1 \notin s \ {Max(s)}
        BY <3>2
      <4>5. h[s \ {Max(s)}] = g[s \ {Max(s)}] BY <4>4
      <4> QED BY <4>2, <4>3, <4>5
    <3> QED BY <3>1, <3>2
  <2>3. h = [s \in SUBSET (1 .. (n + 1)) |->
                IF s = {} THEN Uncut ELSE Cut(c, d, h[s \ {Max(s)}], Max(s))]
    <3>1. h = [s \in SUBSET (1 .. (n + 1)) |-> h[s]] OBVIOUS
    <3> HIDE DEF h
    <3> QED BY <2>2, <3>1
  <2>4. Fold(c, d, n + 1, h)
    <3> HIDE DEF h
    <3> QED BY <2>3 DEF Fold
  <2> QED BY <2>4
<1>3. Nat \subseteq S
  <2> HIDE DEF S
  <2> QED BY <1>1, <1>2, InductionSet
<1> QED BY <1>3

\* What the rounds have made after 0, 1, ... positions, and that the pieces are
\* what they have made at the end.
LEMMA SplitRounds ==
    ASSUME NEW A, NEW c \in Seq(A), NEW d
    PROVE  \E acc : /\ acc[0] = Uncut
                    /\ \A p \in 0 .. Len(c) : acc[p + 1] = Cut(c, d, acc[p], p + 1)
                    /\ string_split(c, d) = acc[Len(c) + 1].pieces
<1> DEFINE n == Len(c) + 1
           all == DOMAIN Append(c, d)
           Rule(g) == g = [s \in SUBSET all |->
                              IF s = {} THEN Uncut
                              ELSE Cut(c, d, g[s \ {Max(s)}], [i \in all |-> i][Max(s)])]
           g == CHOOSE h : Rule(h)
<1>1. n \in Nat /\ all = 1 .. n
  <2>1. Append(c, d) \in Seq(A \cup {d}) /\ Len(Append(c, d)) = Len(c) + 1 /\ Len(c) \in Nat
    OBVIOUS
  <2> QED BY <2>1
<1>2. string_split(c, d) = g[all].pieces
  BY DEF string_split, FoldLeftDomain, FoldLeft, MapThenFoldSet, Cut, Uncut
<1> HIDE DEF all, n
<1>3. \A p \in 0 .. n : 1 .. p \in SUBSET all
  BY <1>1
<1>4. \A p \in 0 .. (n - 1) : Max(1 .. (p + 1)) = p + 1
  <2> SUFFICES ASSUME NEW p \in 0 .. (n - 1) PROVE Max(1 .. (p + 1)) = p + 1
    OBVIOUS
  <2>1. /\ 1 .. (p + 1) \subseteq Int /\ p + 1 \in 1 .. (p + 1)
        /\ \A x \in 1 .. (p + 1) : x <= p + 1
    BY <1>1
  <2> QED BY <2>1, MaxIs
<1>5. \E h : Rule(h)
  <2>1. PICK h : Fold(c, d, n, h) BY <1>1, FoldExists
  <2>2. ASSUME NEW s \in SUBSET all, s # {} PROVE Max(s) \in all
    <3> DEFINE T == {n - x : x \in s}
    <3>1. T \subseteq Nat /\ T # {} BY <1>1, <2>2
    <3>2. PICK m \in T : \A x \in T : m <= x BY <3>1, LeastNat
    <3>3. PICK x \in s : m = n - x BY <3>2
    <3>4. \A y \in s : y <= x
      <4> SUFFICES ASSUME NEW y \in s PROVE y <= x OBVIOUS
      <4>1. n - y \in T OBVIOUS
      <4>2. x \in Nat /\ y \in Nat BY <1>1
      <4>3. n - x <= n - y BY <3>2, <3>3, <4>1
      <4> QED BY <1>1, <4>2, <4>3
    <3>5. Max(s) = x
      <4>1. s \subseteq Int BY <1>1
      <4> QED BY <3>4, <4>1, MaxIs
    <3> QED BY <3>5
  <2>3. \A s \in SUBSET all : s # {} => [i \in all |-> i][Max(s)] = Max(s)
    BY <2>2
  <2>4. Rule(h) BY <1>1, <2>1, <2>3 DEF Fold
  <2> QED BY <2>4
<1>6. Rule(g)
  BY <1>5
<1> HIDE DEF g
<1> DEFINE acc == [p \in 0 .. n |-> g[1 .. p]]
<1>7. acc[0] = Uncut
  <2>1. 1 .. 0 = {} /\ 0 \in 0 .. n BY <1>1
  <2>2. {} \in SUBSET all OBVIOUS
  <2> QED BY <1>6, <2>1, <2>2
<1>8. ASSUME NEW p \in 0 .. Len(c) PROVE acc[p + 1] = Cut(c, d, acc[p], p + 1)
  <2>1. p \in 0 .. (n - 1) /\ p \in 0 .. n /\ p + 1 \in 0 .. n /\ p + 1 \in all
    BY <1>1 DEF n
  <2>2. 1 .. (p + 1) # {} /\ (1 .. (p + 1)) \ {p + 1} = 1 .. p
    BY <2>1
  <2>3. 1 .. (p + 1) \in SUBSET all BY <1>3, <2>1
  <2>4. g[1 .. (p + 1)] = Cut(c, d, g[1 .. p], p + 1)
    BY <1>4, <1>6, <2>1, <2>2, <2>3
  <2> QED BY <2>1, <2>4
<1>9. string_split(c, d) = acc[Len(c) + 1].pieces
  BY <1>1, <1>2 DEF n
<1> QED BY <1>7, <1>8, <1>9

\* The pieces are a sequence of sequences, for any text.
LEMMA PiecesAreStrings ==
    ASSUME NEW A, NEW c \in Seq(A), NEW d
    PROVE  string_split(c, d) \in Seq(Seq(A))
<1>1. PICK acc : /\ acc[0] = Uncut
                 /\ \A p \in 0 .. Len(c) : acc[p + 1] = Cut(c, d, acc[p], p + 1)
                 /\ string_split(c, d) = acc[Len(c) + 1].pieces
  BY SplitRounds
<1> DEFINE n == Len(c)
           S == {p \in Nat : p <= n + 1 =>
                    acc[p].start \in 1 .. (p + 1) /\ acc[p].pieces \in Seq(Seq(A))}
<1>2. n \in Nat OBVIOUS
<1>3. 0 \in S
  <2>1. acc[0].start = 1 /\ acc[0].pieces = <<>> BY <1>1 DEF Uncut
  <2>2. acc[0].start \in 1 .. (0 + 1) /\ acc[0].pieces \in Seq(Seq(A)) BY <2>1
  <2> QED BY <2>2
<1>4. ASSUME NEW p \in Nat, p \in S PROVE p + 1 \in S
  <2> SUFFICES ASSUME p + 1 <= n + 1
               PROVE  acc[p + 1].start \in 1 .. (p + 2) /\ acc[p + 1].pieces \in Seq(Seq(A))
    OBVIOUS
  <2>1. p \in 0 .. n /\ acc[p].start \in 1 .. (p + 1) /\ acc[p].pieces \in Seq(Seq(A))
    BY <1>2, <1>4
  <2>2. acc[p + 1] = Cut(c, d, acc[p], p + 1)
    BY <1>1, <2>1
  <2>3. CASE acc[p + 1] = acc[p]
    BY <2>1, <2>3
  <2>4. CASE acc[p + 1] = [start |-> p + 2,
                           pieces |-> Append(acc[p].pieces, SubSeq(c, acc[p].start, p))]
    <3>1. SubSeq(c, acc[p].start, p) \in Seq(A)
      BY <1>2, <2>1
    <3> QED BY <2>1, <2>4, <3>1
  <2> QED BY <2>2, <2>3, <2>4 DEF Cut
<1>5. n + 1 \in S
  <2> HIDE DEF S
  <2> QED BY <1>2, <1>3, <1>4, InductionSet
<1> QED BY <1>1, <1>2, <1>5

-----------------------------------------------------------------------------
(* The lines of a text.                                                     *)

Starts(c) == {i \in DOMAIN c : c[i] # "\n" /\ (i = 1 \/ c[i - 1] = "\n")}
StartOf(c, k) == CHOOSE i \in Starts(c) : Cardinality({j \in Starts(c) : j <= i}) = k
LineAt(c, i) ==
    SubSeq(c, i, SelectInSubSeq(Append(c, "\n"), i, Len(c) + 1, LAMBDA d : d = "\n") - 1)

\* The lines of a text, in the names of this module.
LEMMA TextLinesAre ==
    ASSUME NEW c
    PROVE  TextLines(c) = [k \in 1 .. Cardinality(Starts(c)) |-> LineAt(c, StartOf(c, k))]
  BY DEF TextLines, Starts, StartOf, LineAt

StartsBefore(c, m) == {i \in Starts(c) : i < m}

\* A text has finitely many lines.
LEMMA StartsFinite ==
    ASSUME NEW A, NEW c \in Seq(A)
    PROVE  /\ Starts(c) \subseteq 1 .. Len(c) /\ IsFiniteSet(Starts(c))
           /\ \A T \in SUBSET Starts(c) : IsFiniteSet(T) /\ Cardinality(T) \in Nat
<1>1. Len(c) \in Int /\ DOMAIN c = 1 .. Len(c) OBVIOUS
<1>2. IsFiniteSet(1 .. Len(c)) BY <1>1, FS_Interval
<1>3. Starts(c) \subseteq 1 .. Len(c) BY <1>1 DEF Starts
<1>4. IsFiniteSet(Starts(c)) BY <1>2, <1>3, FS_Subset
<1> QED BY <1>3, <1>4, FS_Subset, FS_CardinalityType

\* The number of a line is one more than that of the lines before it.
LEMMA StartOfIs ==
    ASSUME NEW A, NEW c \in Seq(A), NEW s \in Starts(c)
    PROVE  /\ StartOf(c, Cardinality(StartsBefore(c, s)) + 1) = s
           /\ Cardinality(StartsBefore(c, s) \cup {s}) = Cardinality(StartsBefore(c, s)) + 1
<1> DEFINE UpTo(i) == {j \in Starts(c) : j <= i}
           k == Cardinality(StartsBefore(c, s)) + 1
<1>1. Starts(c) \subseteq Nat /\ \A T \in SUBSET Starts(c) : IsFiniteSet(T) /\ Cardinality(T) \in Nat
  BY StartsFinite
<1>2. UpTo(s) = StartsBefore(c, s) \cup {s} /\ s \notin StartsBefore(c, s)
  BY <1>1 DEF StartsBefore
<1>3. StartsBefore(c, s) \in SUBSET Starts(c) BY DEF StartsBefore
<1>4. Cardinality(UpTo(s)) = k
  BY <1>1, <1>2, <1>3, FS_AddElement
<1>5. ASSUME NEW i \in Starts(c), Cardinality(UpTo(i)) = k, i # s PROVE FALSE
  <2>1. ASSUME NEW a \in Starts(c), NEW b \in Starts(c), a < b
        PROVE  Cardinality(UpTo(a)) < Cardinality(UpTo(b))
    <3>1. UpTo(a) \subseteq UpTo(b) /\ b \in UpTo(b) /\ b \notin UpTo(a)
      BY <1>1, <2>1
    <3>2. IsFiniteSet(UpTo(b)) /\ Cardinality(UpTo(b)) \in Nat /\ Cardinality(UpTo(a)) \in Nat
      BY <1>1
    <3> HIDE DEF UpTo
    <3> QED BY <3>1, <3>2, FS_Subset
  <2>2. i < s \/ s < i BY <1>1, <1>5
  <2>3. Cardinality(UpTo(i)) \in Nat /\ Cardinality(UpTo(s)) \in Nat BY <1>1
  <2> HIDE DEF UpTo
  <2> QED BY <1>4, <1>5, <2>1, <2>2, <2>3
<1>6. StartOf(c, k) = CHOOSE i \in Starts(c) : Cardinality(UpTo(i)) = k
  BY DEF StartOf
<1> HIDE DEF UpTo, k
<1>7. StartOf(c, k) = s BY <1>4, <1>5, <1>6
<1> QED BY <1>2, <1>4, <1>7 DEF k

\* A line ends in front of the first newline behind its start, or at the end.
LEMMA LineEnds ==
    ASSUME NEW A, NEW c \in Seq(A), NEW s \in 1 .. Len(c), NEW q \in (s + 1) .. (Len(c) + 1),
           \A j \in s .. (q - 1) : c[j] # "\n",
           q <= Len(c) => c[q] = "\n"
    PROVE  LineAt(c, s) = SubSeq(c, s, q - 1)
<1> DEFINE t == Append(c, "\n")
           I == {i \in s .. (Len(c) + 1) : t[i] = "\n"}
<1>1. Len(c) \in Nat /\ t[Len(c) + 1] = "\n" /\ \A i \in 1 .. Len(c) : t[i] = c[i]
  OBVIOUS
<1>2. q \in I
  BY <1>1
<1>3. I \subseteq Int /\ \A i \in I : q <= i
  BY <1>1
<1>4. SelectInSubSeq(t, s, Len(c) + 1, LAMBDA d : d = "\n") = IF I # {} THEN Min(I) ELSE 0
  BY DEF SelectInSubSeq
<1> HIDE DEF I
<1>5. Min(I) = q
  BY <1>2, <1>3, MinIs
<1> QED BY <1>2, <1>4, <1>5 DEF LineAt

\* The pieces are the lines that start before m, each with a first character that
\* is no newline.
Numbered(A, c, m, pieces) ==
    /\ pieces \in Seq(Seq(A))
    /\ Len(pieces) = Cardinality(StartsBefore(c, m))
    /\ \A k \in 1 .. Len(pieces) :
          /\ pieces[k] = LineAt(c, StartOf(c, k))
          /\ pieces[k] # <<>> /\ pieces[k][1] # "\n"

\* After p positions: the start of the line that is read, the lines before it, and
\* that nothing has ended it yet.
Cutting(A, c, p, acc) ==
    /\ acc.start \in 1 .. (p + 1)
    /\ Numbered(A, c, acc.start, acc.pieces)
    /\ acc.start <= p =>
          acc.start \in Starts(c) /\ \A j \in acc.start .. p : c[j] # "\n"
    /\ acc.start = p + 1 => p = 0 \/ c[p] = "\n"

\* A newline, or the end, behind a line that is read: the line becomes a piece.
LEMMA LineIsCut ==
    ASSUME NEW A, NEW c \in Seq(A), NEW p \in 1 .. Len(c),
           NEW acc, Cutting(A, c, p, acc), acc.start <= p,
           p < Len(c) => c[p + 1] = "\n",
           NEW pieces, pieces = Append(acc.pieces, SubSeq(c, acc.start, p))
    PROVE  Numbered(A, c, p + 2, pieces)
<1> DEFINE s == acc.start
           n == Len(c)
           line == SubSeq(c, s, p)
<1>1. /\ n \in Nat /\ p \in 1 .. n /\ s \in 1 .. p /\ s \in Starts(c) /\ c \in Seq(A)
      /\ \A j \in s .. p : c[j] # "\n"
      /\ acc.pieces \in Seq(Seq(A)) /\ Len(acc.pieces) = Cardinality(StartsBefore(c, s))
  BY DEF Cutting, Numbered
<1>2. line = LineAt(c, s)
  <2>1. p + 1 \in (s + 1) .. (n + 1) /\ (p + 1) - 1 = p /\ s \in 1 .. n BY <1>1
  <2>2. p + 1 <= n => c[p + 1] = "\n" BY <1>1
  <2> QED BY <1>1, <2>1, <2>2, LineEnds
<1>3. line \in Seq(A) /\ line # <<>> /\ line[1] # "\n"
  <2>1. line \in Seq(A) /\ Len(line) = p - s + 1 /\ line[1] = c[s]
    BY <1>1
  <2>2. Len(line) # 0 /\ s \in s .. p BY <1>1, <2>1
  <2> HIDE DEF line, s, n
  <2> QED BY <1>1, <2>1, <2>2
<1>4. StartsBefore(c, p + 2) = StartsBefore(c, s) \cup {s}
  <2>1. ASSUME NEW i \in Starts(c), s < i, i < p + 2 PROVE FALSE
    <3>1. i \in 2 .. n /\ c[i] # "\n" /\ c[i - 1] = "\n"
      BY <1>1, <2>1 DEF Starts
    <3>2. CASE i <= p
      <4>1. i - 1 \in s .. p BY <1>1, <2>1, <3>1, <3>2
      <4> QED BY <1>1, <3>1, <4>1
    <3>3. CASE i = p + 1
      BY <1>1, <3>1, <3>3
    <3> QED BY <1>1, <2>1, <3>1, <3>2, <3>3
  <2>2. Starts(c) \subseteq Nat BY <1>1 DEF Starts
  <2>3. \A i \in Starts(c) : i < p + 2 <=> i < s \/ i = s
    BY <1>1, <2>1, <2>2
  <2> QED BY <1>1, <2>3 DEF StartsBefore
<1>5. /\ StartOf(c, Len(acc.pieces) + 1) = s
      /\ Cardinality(StartsBefore(c, p + 2)) = Len(acc.pieces) + 1
  BY <1>1, <1>4, StartOfIs
<1>6. pieces = Append(acc.pieces, line)
  OBVIOUS
<1> HIDE DEF s, n, line
<1>7. /\ pieces \in Seq(Seq(A)) /\ Len(pieces) = Len(acc.pieces) + 1
      /\ Len(acc.pieces) \in Nat
      /\ \A k \in 1 .. Len(acc.pieces) : pieces[k] = acc.pieces[k]
      /\ pieces[Len(acc.pieces) + 1] = line
  <2>1. acc.pieces \in Seq(Seq(A)) /\ line \in Seq(A) BY <1>1, <1>3
  <2> QED BY <1>6, <2>1
<1>8. ASSUME NEW k \in 1 .. Len(pieces)
      PROVE  /\ pieces[k] = LineAt(c, StartOf(c, k))
             /\ pieces[k] # <<>> /\ pieces[k][1] # "\n"
  <2>1. CASE k = Len(acc.pieces) + 1
    BY <1>2, <1>3, <1>5, <1>7, <2>1
  <2>2. CASE k \in 1 .. Len(acc.pieces)
    BY <1>7, <2>2 DEF Cutting, Numbered
  <2>3. k \in 1 .. (Len(acc.pieces) + 1) BY <1>7
  <2>4. k = Len(acc.pieces) + 1 \/ k \in 1 .. Len(acc.pieces)
    BY <1>7, <2>3
  <2> QED BY <2>1, <2>2, <2>4
<1> QED BY <1>5, <1>7, <1>8 DEF Numbered

\* A position in a text without blank lines: it goes on with a line, begins one, or
\* ends one.
LEMMA CutKeeps ==
    ASSUME NEW A, NEW c \in Seq(A), ~HasBlankLine(c),
           NEW p \in 0 .. (Len(c) - 1), NEW acc, Cutting(A, c, p, acc)
    PROVE  Cutting(A, c, p + 1, Cut(c, "\n", acc, p + 1))
<1> DEFINE n == Len(c)
           q == p + 1
           new == Cut(c, "\n", acc, q)
<1>1. /\ n \in Nat /\ p \in Nat /\ q \in 1 .. n /\ q \in DOMAIN c /\ DOMAIN c = 1 .. n
      /\ acc.start \in 1 .. q
  BY DEF Cutting
<1>2. CASE c[q] # "\n"
  <2>1. new = acc BY <1>1, <1>2 DEF Cut
  <2>2. acc.start \in Starts(c) /\ \A j \in acc.start .. q : c[j] # "\n"
    <3>1. CASE acc.start = q
      BY <1>1, <1>2, <3>1 DEF Cutting, Starts
    <3>2. CASE acc.start <= p
      <4>1. acc.start \in Starts(c) /\ \A j \in acc.start .. p : c[j] # "\n"
        BY <3>2 DEF Cutting
      <4>2. \A j \in acc.start .. q : j \in acc.start .. p \/ j = q
        BY <1>1
      <4> QED BY <1>2, <4>1, <4>2
    <3> QED BY <1>1, <3>1, <3>2
  <2>3. acc.start \in 1 .. (q + 1) /\ acc.start # q + 1
    BY <1>1
  <2> HIDE DEF n, q, new
  <2> QED BY <2>1, <2>2, <2>3 DEF Cutting, q, new
<1>3. CASE c[q] = "\n"
  <2>1. acc.start # q
    <3>1. acc.start = q => q - 1 = p /\ (p = 0 \/ c[p] = "\n")
      BY <1>1 DEF Cutting
    <3>2. ~(q \in DOMAIN c /\ c[q] = "\n" /\ (q = 1 \/ c[q - 1] = "\n"))
      BY DEF HasBlankLine
    <3> HIDE DEF q, n
    <3> QED BY <1>1, <1>3, <3>1, <3>2 DEF q
  <2>2. acc.start <= p /\ p \in 1 .. n
    BY <1>1, <2>1
  <2>3. new = [start |-> p + 2, pieces |-> Append(acc.pieces, SubSeq(c, acc.start, p))]
    BY <1>1, <1>3, <2>1 DEF Cut
  <2>4. Numbered(A, c, new.start, new.pieces)
    <3>1. new.pieces = Append(acc.pieces, SubSeq(c, acc.start, p)) /\ new.start = p + 2
      BY <2>3
    <3>2. p < Len(c) => c[p + 1] = "\n" BY <1>3
    <3> HIDE DEF new, n, q
    <3>3. p \in 1 .. Len(c) BY <2>2 DEF n
    <3> QED BY <2>2, <3>1, <3>2, <3>3, LineIsCut
  <2>5. new.start = q + 1 /\ new.start \in 1 .. (q + 1) /\ ~(new.start <= q)
    BY <1>1, <2>3
  <2> HIDE DEF n, new
  <2> QED BY <1>3, <2>4, <2>5 DEF Cutting, new
<1> QED BY <1>2, <1>3

\* Without blank lines, the pieces are the lines, and each has a first character
\* that is no newline.
LEMMA SplitGivesLines ==
    ASSUME NEW A, NEW c \in Seq(A), ~HasBlankLine(c)
    PROVE  /\ string_split(c, "\n") = TextLines(c)
           /\ \A k \in DOMAIN TextLines(c) :
                 /\ TextLines(c)[k] \in Seq(A)
                 /\ TextLines(c)[k] # <<>> /\ TextLines(c)[k][1] # "\n"
<1> DEFINE n == Len(c)
<1>1. PICK acc : /\ acc[0] = Uncut
                 /\ \A p \in 0 .. n : acc[p + 1] = Cut(c, "\n", acc[p], p + 1)
                 /\ string_split(c, "\n") = acc[n + 1].pieces
  BY SplitRounds
<1>2. n \in Nat /\ DOMAIN c = 1 .. n /\ c \in Seq(A) OBVIOUS
<1>3. Starts(c) \subseteq 1 .. n /\ \A T \in SUBSET Starts(c) : Cardinality(T) \in Nat
  BY <1>2, StartsFinite
<1>4. Cutting(A, c, n, acc[n])
  <2> DEFINE S == {p \in Nat : p <= n => Cutting(A, c, p, acc[p])}
  <2>1. 0 \in S
    <3>1. acc[0].start = 1 /\ acc[0].pieces = <<>> BY <1>1 DEF Uncut
    <3>2. StartsBefore(c, 1) = {} BY <1>2, <1>3 DEF StartsBefore
    <3>3. Cutting(A, c, 0, acc[0])
      <4>1. Len(acc[0].pieces) = 0 /\ acc[0].pieces \in Seq(Seq(A)) BY <3>1
      <4>2. Cardinality(StartsBefore(c, acc[0].start)) = 0 BY <3>1, <3>2, FS_EmptySet
      <4> QED BY <3>1, <4>1, <4>2 DEF Cutting, Numbered
    <3> QED BY <3>3
  <2>2. ASSUME NEW p \in Nat, p \in S PROVE p + 1 \in S
    <3> SUFFICES ASSUME p + 1 <= n PROVE Cutting(A, c, p + 1, acc[p + 1])
      OBVIOUS
    <3>1. p \in 0 .. (n - 1) /\ p \in 0 .. n /\ Cutting(A, c, p, acc[p])
      BY <1>2, <2>2
    <3> QED BY <1>1, <3>1, CutKeeps
  <2>3. n \in S
    <3> HIDE DEF S
    <3> QED BY <1>2, <2>1, <2>2, InductionSet
  <2> QED BY <1>2, <2>3
<1>5. PICK last : last = acc[n + 1] /\ last = Cut(c, "\n", acc[n], n + 1)
  BY <1>1, <1>2
<1>6. \E m : StartsBefore(c, m) = Starts(c) /\ Numbered(A, c, m, last.pieces)
  <2>1. acc[n].start \in 1 .. (n + 1) BY <1>4 DEF Cutting
  <2>2. CASE acc[n].start = n + 1
    <3>1. last = acc[n] BY <1>5, <2>2 DEF Cut
    <3>2. StartsBefore(c, n + 1) = Starts(c) BY <1>2, <1>3 DEF StartsBefore
    <3> QED BY <1>4, <2>2, <3>1, <3>2 DEF Cutting
  <2>3. CASE acc[n].start <= n
    <3>1. last = [start |-> n + 2, pieces |-> Append(acc[n].pieces, SubSeq(c, acc[n].start, n))]
      BY <1>2, <1>5, <2>1, <2>3 DEF Cut
    <3>2. n \in 1 .. Len(c) BY <1>2, <2>1, <2>3
    <3>3. StartsBefore(c, n + 2) = Starts(c)
      BY <1>2, <1>3 DEF StartsBefore
    <3>4. n < Len(c) => c[n + 1] = "\n" BY <1>2
    <3>5. last.pieces = Append(acc[n].pieces, SubSeq(c, acc[n].start, n)) BY <3>1
    <3> HIDE DEF n
    <3>6. Numbered(A, c, n + 2, last.pieces)
      BY <1>4, <2>3, <3>2, <3>4, <3>5, LineIsCut
    <3> QED BY <3>3, <3>6
  <2> QED BY <1>2, <2>1, <2>2, <2>3
<1>7. /\ last.pieces \in Seq(Seq(A)) /\ Len(last.pieces) = Cardinality(Starts(c))
      /\ \A k \in 1 .. Len(last.pieces) :
            /\ last.pieces[k] = LineAt(c, StartOf(c, k))
            /\ last.pieces[k] # <<>> /\ last.pieces[k][1] # "\n"
  BY <1>6 DEF Numbered
<1>8. last.pieces = TextLines(c)
  <2> DEFINE pieces == last.pieces
  <2>1. pieces = [k \in 1 .. Len(pieces) |-> pieces[k]]
    <3> HIDE DEF pieces
    <3>1. pieces \in Seq(Seq(A)) BY <1>7 DEF pieces
    <3> QED BY <3>1
  <2>2. TextLines(c) = [k \in 1 .. Len(pieces) |-> LineAt(c, StartOf(c, k))]
    BY <1>7, TextLinesAre
  <2>3. [k \in 1 .. Len(pieces) |-> pieces[k]] = [k \in 1 .. Len(pieces) |-> LineAt(c, StartOf(c, k))]
    BY <1>7
  <2> QED BY <2>1, <2>2, <2>3
<1> QED
  <2>1. /\ DOMAIN last.pieces = 1 .. Len(last.pieces)
        /\ \A k \in DOMAIN last.pieces : last.pieces[k] \in Seq(A)
    BY <1>7
  <2> HIDE DEF n
  <2> QED BY <1>1, <1>5, <1>7, <1>8, <2>1

-----------------------------------------------------------------------------
(* The search.                                                              *)

\* What is below a directory, when one directory more leads on.
LEMMA BelowGrows ==
    ASSUME NEW d, NEW open, NEW wider, open \subseteq wider
    PROVE  Below(d, open) \subseteq Below(d, wider)
  BY DEF Below, Closed

\* A directory is below itself, and so are the entries of what is below it and open.
LEMMA BelowIncludes ==
    ASSUME NEW d \in Dirs, NEW open \in SUBSET Dirs
    PROVE  /\ d \in Below(d, open)
           /\ \A e \in Below(d, open) \cap open : Children[e] \subseteq Below(d, open)
<1>1. d \in Below(d, open)
  BY DEF Below
<1>2. ASSUME NEW e \in Below(d, open), e \in open, NEW x \in Children[e]
      PROVE  x \in Below(d, open)
  <2>1. x \in Dirs \cup Files
    BY <1>2, DotenvAssumption
  <2>2. ASSUME NEW S \in SUBSET (Dirs \cup Files), d \in S, Closed(S, open)
        PROVE  x \in S
    BY <1>2, <2>2 DEF Below, Closed
  <2> QED BY <2>1, <2>2 DEF Below
<1> QED BY <1>1, <1>2

Frame == [dir : Dirs, left : SUBSET (Dirs \cup Files)]
Lefts(s) == UNION {s[i].left : i \in DOMAIN s}

\* The calls without the last one.
LEMMA FrontIs ==
    ASSUME NEW F, NEW s \in Seq(F), s # <<>>
    PROVE  /\ Front(s) \in Seq(F) /\ Len(s) \in Nat \ {0} /\ Len(Front(s)) = Len(s) - 1
           /\ \A i \in 1 .. Len(s) - 1 : Front(s)[i] = s[i]
           /\ s[Len(s)] \in F
<1>1. Len(s) \in Nat \ {0}
  OBVIOUS
<1> DEFINE n == Len(s) - 1
<1>2. n \in 0 .. Len(s) /\ Front(s) = SubSeq(s, 1, n) /\ \A i \in 1 .. n : s[i] \in F
  BY <1>1 DEF Front
<1>3. Front(s) = [i \in 1 .. n |-> s[i]]
  BY <1>1, <1>2
<1>4. Front(s) \in Seq(F) /\ Len(Front(s)) = n /\ \A i \in 1 .. n : Front(s)[i] = s[i]
  <2> HIDE DEF n
  <2> QED BY <1>2, <1>3
<1> QED BY <1>1, <1>4

\* The calls when the last one has seen an entry: the others are as they were, and
\* only that entry is no longer left.
LEMMA EntrySeen ==
    ASSUME stack \in Seq(Frame), stack # <<>>, NEW e
    PROVE  /\ WithoutEntry(e) \in Seq(Frame) /\ Len(WithoutEntry(e)) = Len(stack)
           /\ \A i \in 1 .. Len(stack) :
                 /\ WithoutEntry(e)[i].dir = stack[i].dir
                 /\ WithoutEntry(e)[i].left \subseteq stack[i].left
           /\ Lefts(stack) \subseteq Lefts(WithoutEntry(e)) \cup {e}
<1> DEFINE n == Len(stack)
           last == [dir |-> Top.dir, left |-> Top.left \ {e}]
           new == WithoutEntry(e)
<1>1. /\ Front(stack) \in Seq(Frame) /\ n \in Nat \ {0} /\ Len(Front(stack)) = n - 1
      /\ \A i \in 1 .. n - 1 : Front(stack)[i] = stack[i]
      /\ Top \in Frame
  BY FrontIs DEF Top
<1>2. [Top EXCEPT !.left = @ \ {e}] = last /\ last \in Frame
  <2>1. PICK top : top = Top OBVIOUS
  <2>2. top \in [dir : Dirs, left : SUBSET (Dirs \cup Files)] BY <1>1, <2>1 DEF Frame
  <2>3. [top EXCEPT !.left = @ \ {e}] = [dir |-> top.dir, left |-> top.left \ {e}]
    BY <2>2
  <2> QED BY <2>1, <2>2, <2>3 DEF Frame
<1>3. new = Append(Front(stack), last)
  BY <1>2 DEF WithoutEntry
<1> HIDE DEF n, last, new
<1>4. /\ new \in Seq(Frame) /\ Len(new) = n /\ new[n] = last
      /\ \A i \in 1 .. n - 1 : new[i] = stack[i]
  BY <1>1, <1>2, <1>3
<1>5. stack[n] = Top
  BY DEF n, Top
<1>6. last.dir = Top.dir /\ last.left = Top.left \ {e}
  BY DEF last
<1>7. \A i \in 1 .. n : new[i].dir = stack[i].dir /\ new[i].left \subseteq stack[i].left
                        /\ stack[i].left \subseteq new[i].left \cup {e}
  <2>1. \A i \in 1 .. n : i = n \/ i \in 1 .. n - 1 BY <1>1
  <2> QED BY <1>4, <1>5, <1>6, <2>1
<1>8. DOMAIN stack = 1 .. n /\ DOMAIN new = 1 .. n
  BY <1>1, <1>4 DEF n
<1>9. Lefts(stack) \subseteq Lefts(new) \cup {e}
  BY <1>7, <1>8 DEF Lefts
<1> QED BY <1>4, <1>7, <1>9 DEF new, n

\* A call is added.
LEMMA CallAdded ==
    ASSUME NEW s \in Seq(Frame), NEW f \in Frame
    PROVE  /\ Append(s, f) \in Seq(Frame) /\ Len(Append(s, f)) = Len(s) + 1
           /\ Append(s, f)[Len(s) + 1] = f /\ \A i \in 1 .. Len(s) : Append(s, f)[i] = s[i]
           /\ Lefts(Append(s, f)) = Lefts(s) \cup f.left
<1>1. /\ Append(s, f) \in Seq(Frame) /\ Len(Append(s, f)) = Len(s) + 1 /\ Len(s) \in Nat
      /\ Append(s, f)[Len(s) + 1] = f /\ \A i \in 1 .. Len(s) : Append(s, f)[i] = s[i]
  OBVIOUS
<1>2. DOMAIN s = 1 .. Len(s) /\ DOMAIN Append(s, f) = 1 .. (Len(s) + 1)
  OBVIOUS
<1>3. DOMAIN Append(s, f) = DOMAIN s \cup {Len(s) + 1}
  BY <1>1, <1>2
<1>4. Lefts(Append(s, f)) = Lefts(s) \cup f.left
  <2> DEFINE t == Append(s, f)
             k == Len(s) + 1
  <2>1. DOMAIN t = DOMAIN s \cup {k} /\ t[k] = f /\ \A i \in DOMAIN s : t[i] = s[i]
    BY <1>1, <1>2, <1>3
  <2> HIDE DEF t, k
  <2>2. Lefts(t) = Lefts(s) \cup f.left BY <2>1 DEF Lefts
  <2> QED BY <2>2 DEF t
<1> QED BY <1>1, <1>4

\* What is left to the calls, when the last one has nothing left and returns.
LEMMA CallReturned ==
    ASSUME stack \in Seq(Frame), stack # <<>>
    PROVE  /\ Front(stack) \in Seq(Frame) /\ Len(stack) \in Nat \ {0}
           /\ Len(Front(stack)) = Len(stack) - 1
           /\ \A i \in DOMAIN Front(stack) : i \in DOMAIN stack /\ Front(stack)[i] = stack[i]
           /\ Len(stack) \in DOMAIN stack /\ Top = stack[Len(stack)]
           /\ Top.left = {} => Lefts(stack) \subseteq Lefts(Front(stack))
<1>1. /\ Front(stack) \in Seq(Frame) /\ Len(stack) \in Nat \ {0}
      /\ Len(Front(stack)) = Len(stack) - 1
      /\ \A i \in 1 .. Len(stack) - 1 : Front(stack)[i] = stack[i]
  BY FrontIs
<1>2. DOMAIN stack = 1 .. Len(stack) /\ DOMAIN Front(stack) = 1 .. Len(stack) - 1
  BY <1>1
<1>3. \A i \in DOMAIN stack : i \in DOMAIN Front(stack) \/ i = Len(stack)
  BY <1>1, <1>2
<1>4. Len(stack) \in DOMAIN stack /\ Top = stack[Len(stack)]
      /\ \A i \in DOMAIN Front(stack) : i \in DOMAIN stack /\ Front(stack)[i] = stack[i]
  BY <1>1, <1>2 DEF Top
<1>5. Top.left = {} => Lefts(stack) \subseteq Lefts(Front(stack))
  BY <1>3, <1>4 DEF Lefts
<1> QED BY <1>1, <1>4, <1>5

\* Before the call, nothing is searched.
LEMMA SearchInit == Init => SearchInv
<1> SUFFICES ASSUME Init PROVE SearchInv
  OBVIOUS
<1>1. /\ stack = <<>> /\ DOMAIN stack = {} /\ Len(stack) = 0 /\ stack \in Seq(Frame)
      /\ Len(lines) = 0 /\ IsSequence(lines)
  BY DEF Init, IsSequence
<1>2. HandlesClosed
  BY <1>1 DEF Init, HandlesClosed, TypeOK
<1>3. Phases
  BY <1>1 DEF Init, Phases, Frame
<1>4. CallsBelow /\ NothingMissed /\ FileBelow
  BY <1>1, DotenvAssumption DEF Init, CallsBelow, NothingMissed, FileBelow
<1> QED BY <1>2, <1>3, <1>4 DEF SearchInv

\* A step that leaves the search and the file as they are.
LEMMA Elsewhere ==
    ASSUME SearchInv, UNCHANGED <<search, file>>
    PROVE  /\ CallsBelow' /\ NothingMissed' /\ FileBelow'
           /\ handles' = Len(stack') /\ (stack = <<>> => handles' = 0)
<1>1. UNCHANGED <<stack, handles, opened, refused, root, file>>
  BY DEF search
<1>2. CallsBelow' /\ FileBelow'
  BY <1>1 DEF SearchInv, CallsBelow, FileBelow
<1>3. NothingMissed'
  BY <1>1 DEF SearchInv, NothingMissed, Seen
<1>4. handles' = Len(stack') /\ (stack = <<>> => handles' = 0)
  <2>1. handles' = Len(stack') BY <1>1 DEF SearchInv, HandlesClosed
  <2> QED BY <1>1, <2>1
<1> QED BY <1>2, <1>3, <1>4

\* The first call.
LEMMA SearchPathKeeps ==
    ASSUME SearchInv, SearchPath
    PROVE  SearchInv'
<1> USE DEF SearchInv
<1>1. PICK p \in PathArgs :
          /\ Node[p] # Null
          /\ root' = Node[p]
          /\ \/ /\ Node[p] \in Dirs
                /\ stack' = <<[dir |-> Node[p], left |-> Children[Node[p]]]>>
                /\ handles' = 1 /\ opened' = {Node[p]} /\ pc' = "search"
                /\ UNCHANGED <<refused, ret>>
             \/ /\ refused' = {Node[p]}
                /\ Return(0)
                /\ UNCHANGED <<stack, handles, opened>>
  BY DEF SearchPath
<1>2. /\ pc = "called" /\ stack = <<>> /\ file = Null /\ handles = 0
      /\ UNCHANGED <<file, contents, lines, next, matches, text, blank, env, before>>
      /\ lines = <<>> /\ text = <<>> /\ next = 1
  BY DEF SearchPath, Phases, HandlesClosed, loading
<1>3. Node[p] \in Dirs \cup Files /\ Node[p] # Null
  BY <1>1, DotenvAssumption
<1>4. CASE /\ Node[p] \in Dirs
           /\ stack' = <<[dir |-> Node[p], left |-> Children[Node[p]]]>>
           /\ handles' = 1 /\ opened' = {Node[p]} /\ pc' = "search"
           /\ UNCHANGED <<refused, ret>>
  <2> DEFINE d == Node[p]
  <2>1. Children[d] \in SUBSET (Dirs \cup Files) BY <1>4, DotenvAssumption
  <2>2. PICK f \in Frame : f = [dir |-> d, left |-> Children[d]]
    BY <1>4, <2>1 DEF Frame
  <2>3. /\ stack' = <<f>> /\ stack' \in Seq(Frame) /\ stack' # <<>> /\ Len(stack') = 1
        /\ DOMAIN stack' = {1} /\ stack'[1] = f
    BY <1>4, <2>2
  <2>4. HandlesClosed'
    BY <1>2, <1>3, <1>4, <2>2, <2>3 DEF HandlesClosed, TypeOK
  <2>5. Phases'
    BY <1>1, <1>2, <1>4, <2>3 DEF Phases, Frame
  <2>6. d \in Below(d, {d})
    BY <1>4, BelowIncludes
  <2>7. CallsBelow'
    BY <1>1, <1>4, <2>2, <2>3, <2>6 DEF CallsBelow
  <2>8. Seen({d})'
    <3>1. d \notin IsEnv BY <1>4, DotenvAssumption
    <3>2. Children[d] \subseteq UNION {stack'[i].left : i \in DOMAIN stack'}
      BY <2>2, <2>3
    <3> QED BY <1>1, <3>1, <3>2 DEF Seen
  <2>9. NothingMissed'
    BY <1>3, <2>8 DEF NothingMissed
  <2>10. FileBelow'
    BY <1>2 DEF FileBelow
  <2> QED BY <2>4, <2>5, <2>7, <2>9, <2>10
<1>5. CASE /\ refused' = {Node[p]}
           /\ Return(0)
           /\ UNCHANGED <<stack, handles, opened>>
  <2>1. HandlesClosed'
    BY <1>2, <1>3, <1>5 DEF HandlesClosed, TypeOK, Return
  <2>2. Phases'
    BY <1>1, <1>2, <1>5 DEF Phases, Return
  <2>3. CallsBelow' /\ FileBelow'
    <3>1. DOMAIN stack' = {} BY <1>2, <1>5
    <3> QED BY <1>2, <3>1 DEF CallsBelow, FileBelow
  <2>4. NothingMissed'
    <3> SUFFICES ASSUME Node[p] \in Dirs PROVE Seen({Node[p]})'
      BY <1>1, <1>3 DEF NothingMissed
    <3>1. Node[p] \notin IsEnv BY DotenvAssumption
    <3> QED BY <1>1, <1>5, <3>1 DEF Seen
  <2> QED BY <2>1, <2>2, <2>3, <2>4
<1> QED BY <1>1, <1>4, <1>5

\* What has been seen, when the last call has gone on with one entry more.
LEMMA OneMoreSeen ==
    ASSUME NothingMissed, root \in Dirs, file = Null, root' = root,
           stack \in Seq(Frame), stack # <<>>,
           NEW e, e \in Top.left, e \in Dirs \cup Files, e \notin IsEnv,
           refused \subseteq refused',
           Lefts(WithoutEntry(e)) \subseteq Lefts(stack'),
           e \in Dirs \ refused' => Children[e] \subseteq Lefts(stack')
    PROVE  NothingMissed'
<1>1. PICK S \in SUBSET (Dirs \cup Files) : Seen(S)
  BY DEF NothingMissed
<1>2. Lefts(stack) \subseteq Lefts(stack') \cup {e}
  BY EntrySeen
<1>3. Seen(S \cup {e})'
  <2>1. root' \in S \cup {e} /\ (S \cup {e}) \cap IsEnv = {}
    BY <1>1 DEF Seen
  <2>2. ASSUME NEW d \in (S \cup {e}) \cap (Dirs \ refused')
        PROVE  Children[d] \subseteq (S \cup {e}) \cup Lefts(stack')
    <3>1. CASE d \in S
      <4>1. d \in S \cap (Dirs \ refused) BY <3>1
      <4>2. Children[d] \subseteq S \cup Lefts(stack) BY <1>1, <4>1 DEF Seen, Lefts
      <4> QED BY <1>2, <4>2
    <3>2. CASE d = e
      BY <2>2, <3>2
    <3> QED BY <2>2, <3>1, <3>2
  <2> QED BY <2>1, <2>2 DEF Seen, Lefts
<1> QED BY <1>1, <1>3 DEF NothingMissed

\* What every step of the search starts from.
LEMMA Searching ==
    ASSUME SearchInv, Reading
    PROVE  /\ stack \in Seq(Frame) /\ stack # <<>> /\ root \in Dirs /\ root # Null /\ file = Null
           /\ Top.left \subseteq Children[Top.dir] /\ Top.left \subseteq Dirs \cup Files
           /\ Top.dir \in opened \cap Below(root, opened)
           /\ lines = <<>> /\ text = <<>> /\ next = 1 /\ opened \subseteq Dirs
<1>1. /\ stack \in Seq(Frame) /\ stack # <<>> /\ root \in Dirs /\ file = Null
      /\ lines = <<>> /\ text = <<>> /\ next = 1
  BY DEF SearchInv, Phases, Reading, Frame
<1>2. Len(stack) \in DOMAIN stack /\ Top = stack[Len(stack)] /\ Top \in Frame
  BY <1>1, CallReturned
<1>3. Top.left \subseteq Children[Top.dir] /\ opened \subseteq Dirs
  BY <1>2 DEF SearchInv, HandlesClosed, TypeOK
<1>4. Top.dir \in opened \cap Below(root, opened)
  BY <1>2 DEF SearchInv, CallsBelow
<1>5. Top.left \subseteq Dirs \cup Files
  BY <1>2 DEF Frame
<1>6. root # Null
  BY <1>1, DotenvAssumption
<1> QED BY <1>1, <1>3, <1>4, <1>5, <1>6

\* An entry that is no file to read and no directory.
LEMMA SkipEntryKeeps ==
    ASSUME SearchInv, SkipEntry
    PROVE  SearchInv'
<1> USE DEF SearchInv
<1>1. PICK e \in Top.left \ (Dirs \cup IsEnv) : stack' = WithoutEntry(e)
  BY DEF SkipEntry
<1>2. /\ Reading
      /\ UNCHANGED <<pc, file, handles, opened, refused, root, env, ret, before>>
      /\ UNCHANGED <<contents, lines, next, matches, text, blank>>
  BY DEF SkipEntry, loading
<1>3. /\ stack \in Seq(Frame) /\ stack # <<>> /\ root \in Dirs /\ root # Null /\ file = Null
      /\ Top.left \subseteq Dirs \cup Files
  BY <1>2, Searching
<1>4. /\ stack' \in Seq(Frame) /\ Len(stack') = Len(stack)
      /\ DOMAIN stack' = DOMAIN stack /\ stack' # <<>>
      /\ \A i \in DOMAIN stack : /\ stack'[i].dir = stack[i].dir
                                 /\ stack'[i].left \subseteq stack[i].left
  <2>1. /\ stack' \in Seq(Frame) /\ Len(stack') = Len(stack)
        /\ \A i \in 1 .. Len(stack) : /\ stack'[i].dir = stack[i].dir
                                      /\ stack'[i].left \subseteq stack[i].left
    BY <1>1, <1>3, EntrySeen
  <2>2. DOMAIN stack = 1 .. Len(stack) /\ DOMAIN stack' = 1 .. Len(stack') /\ Len(stack) # 0
    BY <1>3, <2>1
  <2>3. stack' # <<>> BY <2>1, <2>2
  <2> QED BY <2>1, <2>2, <2>3
<1>5. HandlesClosed'
  <2>1. \A i \in DOMAIN stack' : stack'[i].dir \in Dirs /\ stack'[i].left \subseteq Children[stack'[i].dir]
    BY <1>4 DEF HandlesClosed, TypeOK
  <2> QED BY <1>2, <1>4, <2>1 DEF HandlesClosed, TypeOK, Reading
<1>6. Phases'
  BY <1>2, <1>4 DEF Phases, Reading, Frame
<1>7. CallsBelow' /\ FileBelow'
  BY <1>2, <1>3, <1>4 DEF CallsBelow, FileBelow
<1>8. NothingMissed'
  BY <1>1, <1>2, <1>3, OneMoreSeen, DotenvAssumption
<1> QED BY <1>5, <1>6, <1>7, <1>8

\* The file that is found is an entry of an open directory below the path.
LEMMA FileFoundKeeps ==
    ASSUME SearchInv, FileFound
    PROVE  SearchInv'
<1> USE DEF SearchInv
<1>1. file' \in Top.left \cap IsEnv
  BY DEF FileFound
<1>2. /\ Reading /\ pc' = "found" /\ stack' = Front(stack) /\ handles' = handles - 1
      /\ UNCHANGED <<opened, refused, root, env, ret, before>>
      /\ UNCHANGED <<contents, lines, next, matches, text, blank>>
  BY DEF FileFound, loading
<1>3. /\ stack \in Seq(Frame) /\ stack # <<>> /\ root \in Dirs /\ file = Null
      /\ Top.left \subseteq Children[Top.dir] /\ Top.dir \in opened \cap Below(root, opened)
      /\ opened \in SUBSET Dirs
  BY <1>2, Searching
<1>4. /\ stack' \in Seq(Frame) /\ Len(stack) \in Nat \ {0} /\ Len(stack') = Len(stack) - 1
      /\ \A i \in DOMAIN stack' : i \in DOMAIN stack /\ stack'[i] = stack[i]
  BY <1>2, <1>3, CallReturned
<1>5. file' \in Files /\ file' # Null
  BY <1>1, DotenvAssumption
<1>6. HandlesClosed'
  BY <1>2, <1>4, <1>5 DEF HandlesClosed, TypeOK
<1>7. Phases'
  BY <1>2, <1>4, <1>5 DEF Phases, Reading, Frame
<1>8. CallsBelow'
  BY <1>2, <1>4 DEF CallsBelow
<1>9. NothingMissed'
  BY <1>5 DEF NothingMissed
<1>10. FileBelow'
  <2>1. file' \in Below(root, opened)
    BY <1>1, <1>3, BelowIncludes
  <2> QED BY <1>1, <1>2, <2>1 DEF FileBelow
<1> QED BY <1>6, <1>7, <1>8, <1>9, <1>10

\* A call with nothing left returns; what it was there for has been seen.
LEMMA DirExhaustedKeeps ==
    ASSUME SearchInv, DirExhausted
    PROVE  SearchInv'
<1> USE DEF SearchInv
<1>1. /\ Reading /\ Top.left = {} /\ stack' = Front(stack) /\ handles' = handles - 1
      /\ (IF Len(stack) = 1 THEN Return(0) ELSE UNCHANGED <<pc, ret>>)
      /\ UNCHANGED <<file, opened, refused, root, env, before>>
      /\ UNCHANGED <<contents, lines, next, matches, text, blank>>
  BY DEF DirExhausted, loading
<1>2. /\ stack \in Seq(Frame) /\ stack # <<>> /\ root \in Dirs /\ root # Null /\ file = Null
      /\ lines = <<>> /\ text = <<>> /\ next = 1
  BY <1>1, Searching
<1>3. /\ stack' \in Seq(Frame) /\ Len(stack) \in Nat \ {0} /\ Len(stack') = Len(stack) - 1
      /\ \A i \in DOMAIN stack' : i \in DOMAIN stack /\ stack'[i] = stack[i]
      /\ Lefts(stack) \subseteq Lefts(stack')
  BY <1>1, <1>2, CallReturned
<1>4. stack' = <<>> <=> Len(stack) = 1
  BY <1>3
<1>5. HandlesClosed'
  <2>1. \A i \in DOMAIN stack' : stack'[i].dir \in Dirs /\ stack'[i].left \subseteq Children[stack'[i].dir]
    BY <1>3 DEF HandlesClosed, TypeOK
  <2>2. handles' = Len(stack') /\ handles' \in Nat
    BY <1>1, <1>3 DEF HandlesClosed
  <2>3. \/ pc' = "returned" /\ ret' = 0 /\ Len(stack) = 1
        \/ pc' = pc /\ ret' = ret /\ Len(stack) # 1
    <3>1. CASE Len(stack) = 1 BY <1>1, <3>1 DEF Return
    <3>2. CASE Len(stack) # 1 BY <1>1, <3>2
    <3> QED BY <3>1, <3>2
  <2>4. TypeOK'
    BY <1>1, <2>1, <2>2, <2>3 DEF HandlesClosed, TypeOK
  <2> QED BY <1>1, <1>3, <2>2, <2>3, <2>4 DEF HandlesClosed, Reading
<1>6. Phases'
  BY <1>1, <1>2, <1>3, <1>4 DEF Phases, Reading, Frame, Return
<1>7. CallsBelow' /\ FileBelow'
  BY <1>1, <1>2, <1>3 DEF CallsBelow, FileBelow
<1>8. NothingMissed'
  BY <1>1, <1>2, <1>3 DEF NothingMissed, Seen, Lefts
<1> QED BY <1>5, <1>6, <1>7, <1>8

\* The calls above the one that found the file return.
LEMMA UnwindKeeps ==
    ASSUME SearchInv, Unwind
    PROVE  SearchInv'
<1> USE DEF SearchInv
<1>1. /\ pc = "found" /\ UNCHANGED <<file, opened, refused, root, env, ret, before>>
      /\ UNCHANGED <<contents, lines, next, matches, text, blank>>
      /\ stack \in Seq(Frame)
  BY DEF Unwind, loading, Phases, Frame
<1>2. \/ /\ pc' = "read" /\ stack = <<>> /\ UNCHANGED <<stack, handles>>
      \/ /\ pc' = pc /\ stack # <<>> /\ stack' = Front(stack) /\ handles' = handles - 1
  BY DEF Unwind
<1>3. /\ stack' \in Seq(Frame) /\ handles' = Len(stack') /\ handles' \in Nat
      /\ \A i \in DOMAIN stack' : i \in DOMAIN stack /\ stack'[i] = stack[i]
  <2>1. handles = Len(stack) BY DEF HandlesClosed
  <2>2. CASE stack = <<>> BY <1>1, <1>2, <2>1, <2>2
  <2>3. CASE stack # <<>>
    <3>1. /\ Front(stack) \in Seq(Frame) /\ Len(stack) \in Nat \ {0}
          /\ Len(Front(stack)) = Len(stack) - 1
          /\ \A i \in DOMAIN Front(stack) : i \in DOMAIN stack /\ Front(stack)[i] = stack[i]
      BY <1>1, <2>3, CallReturned
    <3> QED BY <1>2, <2>1, <2>3, <3>1
  <2> QED BY <2>2, <2>3
<1>4. HandlesClosed'
  <2>1. TypeOK'
    BY <1>1, <1>2, <1>3 DEF HandlesClosed, TypeOK
  <2>2. pc' = "read" => handles' = 0
    <3>1. Len(<<>>) = 0 OBVIOUS
    <3> QED BY <1>1, <1>2, <1>3, <3>1
  <2> QED BY <1>1, <1>2, <1>3, <2>1, <2>2 DEF HandlesClosed
<1>5. Phases'
  BY <1>1, <1>2, <1>3 DEF Phases, Frame
<1>6. CallsBelow' /\ FileBelow'
  BY <1>1, <1>3 DEF CallsBelow, FileBelow
<1>7. NothingMissed'
  BY <1>1 DEF NothingMissed, Phases
<1> QED BY <1>4, <1>5, <1>6, <1>7

\* A directory: one call more if it opens, one that is refused if not.
LEMMA EnterDirKeeps ==
    ASSUME SearchInv, EnterDir
    PROVE  SearchInv'
<1> USE DEF SearchInv
<1>1. PICK d \in Top.left \cap Dirs :
          \/ /\ stack' = Append(WithoutEntry(d), [dir |-> d, left |-> Children[d]])
             /\ handles' = handles + 1 /\ opened' = opened \cup {d}
             /\ UNCHANGED refused
          \/ /\ stack' = WithoutEntry(d)
             /\ refused' = refused \cup {d}
             /\ UNCHANGED <<handles, opened>>
  BY DEF EnterDir
<1>2. /\ Reading /\ UNCHANGED <<pc, file, root, env, ret, before>>
      /\ UNCHANGED <<contents, lines, next, matches, text, blank>>
  BY DEF EnterDir, loading
<1>3. /\ stack \in Seq(Frame) /\ stack # <<>> /\ root \in Dirs /\ root # Null /\ file = Null
      /\ Top.left \subseteq Children[Top.dir] /\ Top.dir \in opened \cap Below(root, opened)
      /\ opened \in SUBSET Dirs
  BY <1>2, Searching
<1>4. d \notin IsEnv /\ d \in Dirs /\ Children[d] \in SUBSET (Dirs \cup Files)
  BY DotenvAssumption
<1> DEFINE rest == WithoutEntry(d)
<1>5. /\ rest \in Seq(Frame) /\ Len(rest) = Len(stack) /\ Len(stack) \in Nat \ {0}
      /\ DOMAIN stack = 1 .. Len(stack)
      /\ \A i \in 1 .. Len(stack) : rest[i].dir = stack[i].dir /\ rest[i].left \subseteq stack[i].left
  <2>1. Len(stack) \in Nat \ {0} /\ DOMAIN stack = 1 .. Len(stack) BY <1>3
  <2> QED BY <1>3, <2>1, EntrySeen
<1>6. \A i \in 1 .. Len(stack) : rest[i].dir \in Dirs /\ rest[i].left \subseteq Children[rest[i].dir]
  BY <1>5 DEF HandlesClosed, TypeOK
<1>7. \A i \in 1 .. Len(stack) : rest[i].dir \in opened \cap Below(root, opened)
  BY <1>5 DEF CallsBelow
<1>8. CASE /\ stack' = Append(rest, [dir |-> d, left |-> Children[d]])
           /\ handles' = handles + 1 /\ opened' = opened \cup {d}
           /\ UNCHANGED refused
  <2>1. PICK f \in Frame : f = [dir |-> d, left |-> Children[d]]
    BY <1>4 DEF Frame
  <2> HIDE DEF rest
  <2>2. /\ stack' \in Seq(Frame) /\ Len(stack') = Len(stack) + 1
        /\ stack'[Len(stack) + 1] = f /\ \A i \in 1 .. Len(stack) : stack'[i] = rest[i]
        /\ Lefts(stack') = Lefts(rest) \cup Children[d]
    BY <1>5, <1>8, <2>1, CallAdded
  <2>3. \A i \in DOMAIN stack' : i \in 1 .. Len(stack) \/ i = Len(stack) + 1
    BY <1>5, <2>2
  <2>4. HandlesClosed'
    <3>1. \A i \in DOMAIN stack' : stack'[i].dir \in Dirs /\ stack'[i].left \subseteq Children[stack'[i].dir]
      BY <1>4, <1>6, <2>1, <2>2, <2>3
    <3> QED BY <1>2, <1>4, <1>8, <2>2, <3>1 DEF HandlesClosed, TypeOK, Reading
  <2>5. Phases'
    <3>1. stack' # <<>> BY <1>5, <2>2
    <3> QED BY <1>2, <2>2, <3>1 DEF Phases, Reading, Frame
  <2>6. Below(root, opened) \subseteq Below(root, opened')
    BY <1>8, BelowGrows
  <2>7. d \in Below(root, opened)
    BY <1>3, BelowIncludes
  <2>8. CallsBelow'
    <3>1. \A i \in 1 .. Len(stack) : stack'[i].dir \in opened' \cap Below(root, opened')
      BY <1>7, <1>8, <2>2, <2>6
    <3>2. stack'[Len(stack) + 1].dir \in opened' \cap Below(root, opened')
      <4>1. stack'[Len(stack) + 1].dir = d BY <2>1, <2>2
      <4>2. d \in opened' \cap Below(root, opened') BY <1>8, <2>6, <2>7
      <4> QED BY <4>1, <4>2
    <3> QED BY <1>2, <2>3, <3>1, <3>2 DEF CallsBelow
  <2>9. NothingMissed'
    <3>1. Lefts(WithoutEntry(d)) \subseteq Lefts(stack') /\ Children[d] \subseteq Lefts(stack')
      BY <2>2 DEF rest
    <3>2. refused \subseteq refused' BY <1>8
    <3> QED BY <1>1, <1>2, <1>3, <1>4, <3>1, <3>2, OneMoreSeen
  <2>10. FileBelow'
    BY <1>2, <1>3 DEF FileBelow
  <2> QED BY <2>4, <2>5, <2>8, <2>9, <2>10
<1>9. CASE /\ stack' = rest
           /\ refused' = refused \cup {d}
           /\ UNCHANGED <<handles, opened>>
  <2> HIDE DEF rest
  <2>1. DOMAIN stack' = 1 .. Len(stack) /\ stack' # <<>> BY <1>5, <1>9
  <2>2. HandlesClosed'
    BY <1>2, <1>4, <1>5, <1>6, <1>9, <2>1 DEF HandlesClosed, TypeOK, Reading
  <2>3. Phases'
    BY <1>2, <1>5, <1>9, <2>1 DEF Phases, Reading, Frame
  <2>4. CallsBelow' /\ FileBelow'
    BY <1>2, <1>3, <1>7, <1>9, <2>1 DEF CallsBelow, FileBelow
  <2>5. NothingMissed'
    <3>1. Lefts(WithoutEntry(d)) \subseteq Lefts(stack') /\ refused \subseteq refused' /\ d \in refused'
      BY <1>9 DEF rest
    <3> QED BY <1>1, <1>2, <1>3, <1>4, <3>1, OneMoreSeen
  <2> QED BY <2>2, <2>3, <2>4, <2>5
<1> QED BY <1>1, <1>8, <1>9

\* The histories of the search end when the file is read.
LEMMA ReadFileKeeps ==
    ASSUME SearchInv, ReadFile
    PROVE  SearchInv'
<1> USE DEF SearchInv
<1>1. /\ pc = "read" /\ pc' = "split" /\ contents' \in Contents \ {<<>>}
      /\ opened' = {} /\ refused' = {} /\ root' = Null
      /\ UNCHANGED <<file, stack, handles, lines, text, blank, next, matches, env, ret, before>>
  BY DEF ReadFile
<1>2. stack = <<>> /\ DOMAIN stack = {}
  BY <1>1 DEF Phases
<1>3. HandlesClosed'
  BY <1>1 DEF HandlesClosed, TypeOK
<1>4. Phases'
  BY <1>1 DEF Phases
<1>5. CallsBelow' /\ NothingMissed' /\ FileBelow'
  BY <1>1, <1>2, DotenvAssumption DEF CallsBelow, NothingMissed, FileBelow
<1> QED BY <1>3, <1>4, <1>5

\* string_split() gives a sequence of lines.
LEMMA SplitLinesKeeps ==
    ASSUME SearchInv, SplitLines
    PROVE  SearchInv'
<1> USE DEF SearchInv
<1>1. /\ pc = "split" /\ pc' = "lines" /\ lines' = string_split(contents, "\n")
      /\ UNCHANGED <<file, search, contents, next, matches, env, ret, before>>
  BY DEF SplitLines
<1>2. UNCHANGED <<stack, handles, opened, refused, root>>
  BY <1>1 DEF search
<1>3. Len(lines') \in Nat /\ IsSequence(lines')
  <2>1. contents \in Contents BY <1>1 DEF Phases
  <2>2. contents \in Seq({contents[i] : i \in DOMAIN contents}) BY <2>1, DotenvAssumption DEF IsSequence
  <2>3. PICK A : contents \in Seq(A) BY <2>2
  <2>4. lines' \in Seq(Seq(A)) BY <1>1, <2>3, PiecesAreStrings
  <2> QED BY <2>4 DEF IsSequence
<1>4. next' \in 1 .. Len(lines') + 1
  BY <1>1, <1>3 DEF Phases
<1>5. CallsBelow' /\ NothingMissed' /\ FileBelow' /\ handles' = Len(stack') /\ handles' = 0
  BY <1>1, Elsewhere DEF Phases
<1>6. HandlesClosed'
  BY <1>1, <1>2, <1>4, <1>5 DEF HandlesClosed, TypeOK
<1>7. Phases'
  BY <1>1, <1>2, <1>3 DEF Phases
<1> QED BY <1>5, <1>6, <1>7

\* The steps that look at the path, and those that end the call or parse a line.
LEMMA OtherStepsKeep ==
    ASSUME SearchInv,
           \/ PathMissing \/ BasenameExits \/ ReadPath \/ ReadFails
           \/ SkipLine \/ BadLine \/ SetLine \/ SetFails \/ LoadDone \/ UNCHANGED vars
    PROVE  SearchInv'
<1> USE DEF SearchInv
<1>1. CASE PathMissing \/ BasenameExits \/ ReadFails \/ BadLine \/ SetFails \/ LoadDone
  <2>1. /\ pc \notin {"search", "found"} /\ pc' \in {"returned", "exited"}
        /\ UNCHANGED <<file, search, loading, env, before>>
        /\ ret' \in {ret, -1, matches}
    BY <1>1 DEF PathMissing, BasenameExits, ReadFails, BadLine, SetFails, LoadDone,
                Return, Exit, AtLine
  <2>2. UNCHANGED <<stack, handles, opened, refused, root, contents, lines, next, matches, text, blank>>
    BY <2>1 DEF search, loading
  <2>3. CallsBelow' /\ NothingMissed' /\ FileBelow' /\ handles' = Len(stack') /\ handles' = 0
    BY <2>1, Elsewhere DEF Phases
  <2>4. HandlesClosed'
    BY <2>1, <2>2, <2>3 DEF HandlesClosed, TypeOK, Phases
  <2>5. Phases'
    BY <2>1, <2>2 DEF Phases
  <2> QED BY <2>3, <2>4, <2>5
<1>2. CASE ReadPath
  <2>1. /\ pc = "called" /\ pc' = "read" /\ file' \in Dirs \cup Files
        /\ UNCHANGED <<search, loading, env, ret, before>>
    BY <1>2, DotenvAssumption DEF ReadPath
  <2>2. UNCHANGED <<stack, handles, opened, refused, root, contents, lines, next, matches, text, blank>>
    BY <2>1 DEF search, loading
  <2>3. HandlesClosed' /\ Phases'
    BY <2>1, <2>2 DEF HandlesClosed, TypeOK, Phases
  <2>4. root' = Null /\ DOMAIN stack' = {}
    BY <2>1, <2>2 DEF Phases
  <2>5. CallsBelow' /\ NothingMissed' /\ FileBelow'
    BY <2>4, DotenvAssumption DEF CallsBelow, NothingMissed, FileBelow
  <2> QED BY <2>3, <2>5
<1>3. CASE SkipLine \/ SetLine
  <2>1. /\ pc = "lines" /\ next <= Len(lines) /\ next' = next + 1
        /\ matches' \in {matches, matches + 1}
        /\ UNCHANGED <<pc, file, search, contents, lines, text, blank, ret, before>>
    BY <1>3 DEF SkipLine, SetLine, AtLine
  <2>2. UNCHANGED <<stack, handles, opened, refused, root>>
    BY <2>1 DEF search
  <2>3. CallsBelow' /\ NothingMissed' /\ FileBelow' /\ handles' = Len(stack') /\ handles' = 0
    BY <2>1, Elsewhere DEF Phases
  <2>4. Len(lines) \in Nat /\ next \in 1 .. Len(lines) + 1
    BY DEF Phases, HandlesClosed, TypeOK, IsSequence
  <2>5. HandlesClosed'
    BY <2>1, <2>2, <2>3, <2>4 DEF HandlesClosed, TypeOK
  <2>6. Phases'
    BY <2>1, <2>2 DEF Phases
  <2> QED BY <2>3, <2>5, <2>6
<1>4. CASE UNCHANGED vars
  <2>1. UNCHANGED <<pc, file, search, loading, ret>>
    BY <1>4 DEF vars
  <2>2. UNCHANGED <<stack, handles, opened, refused, root, contents, lines, next, matches, text, blank>>
    BY <2>1 DEF search, loading
  <2>3. CallsBelow' /\ NothingMissed' /\ FileBelow'
    BY <2>1, Elsewhere
  <2>4. HandlesClosed' /\ Phases'
    BY <2>1, <2>2 DEF HandlesClosed, TypeOK, Phases
  <2> QED BY <2>3, <2>4
<1> QED BY <1>1, <1>2, <1>3, <1>4

\* Every step keeps what the search relies on.
LEMMA SearchNext == SearchInv /\ [Next]_vars => SearchInv'
<1> SUFFICES ASSUME SearchInv, [Next]_vars PROVE SearchInv'
  OBVIOUS
<1>1. CASE SearchPath BY <1>1, SearchPathKeeps
<1>2. CASE SkipEntry BY <1>2, SkipEntryKeeps
<1>3. CASE FileFound BY <1>3, FileFoundKeeps
<1>4. CASE EnterDir BY <1>4, EnterDirKeeps
<1>5. CASE DirExhausted BY <1>5, DirExhaustedKeeps
<1>6. CASE Unwind BY <1>6, UnwindKeeps
<1>7. CASE ReadFile BY <1>7, ReadFileKeeps
<1>8. CASE SplitLines BY <1>8, SplitLinesKeeps
<1>9. CASE \/ PathMissing \/ BasenameExits \/ ReadPath \/ ReadFails
           \/ SkipLine \/ BadLine \/ SetLine \/ SetFails \/ LoadDone \/ UNCHANGED vars
  BY <1>9, OtherStepsKeep
<1> QED BY <1>1, <1>2, <1>3, <1>4, <1>5, <1>6, <1>7, <1>8, <1>9 DEF Next, Over

\* The search keeps one open directory per call, and has seen or has left to a
\* call whatever it may have to look at.
THEOREM SearchInvariance == Spec => []SearchInv
<1>1. Init => SearchInv
  BY SearchInit
<1>2. SearchInv /\ [Next]_vars => SearchInv'
  BY SearchNext
<1> QED BY <1>1, <1>2, PTL DEF Spec

\* Every call of find_first_env_file() closes what it opened, in a tree of any
\* shape: none is open when the search has returned (dotenv.c:185-215).
THEOREM HandlesAlwaysClosed == Spec => []HandlesClosed
<1>1. SearchInv => HandlesClosed
  BY DEF SearchInv
<1> QED BY <1>1, SearchInvariance, PTL

\* The file that is found is below the path, through directories that opened; and
\* if none is found, there is none that can be reached without a directory that did
\* not open (dotenv.c:185-215).
THEOREM SearchFindsWhatIsThere == Spec => []SearchIsComplete
<1>1. SearchInv => SearchIsComplete
  <2> SUFFICES ASSUME SearchInv, root # Null PROVE
          /\ file # Null => file \in Below(root, opened) \cap IsEnv
          /\ pc = "returned" /\ file = Null /\ root \in Dirs =>
                Below(root, Dirs \ refused) \cap IsEnv = {}
    BY DEF SearchIsComplete
  <2>1. file # Null => file \in Below(root, opened) \cap IsEnv
    BY DEF SearchInv, FileBelow
  <2>2. ASSUME pc = "returned", file = Null, root \in Dirs
        PROVE  Below(root, Dirs \ refused) \cap IsEnv = {}
    <3>1. PICK S \in SUBSET (Dirs \cup Files) : Seen(S)
      BY <2>2 DEF SearchInv, NothingMissed
    <3>2. stack = <<>> /\ DOMAIN stack = {} BY <2>2 DEF SearchInv, Phases
    <3>3. root \in S /\ Closed(S, Dirs \ refused) /\ S \cap IsEnv = {}
      BY <3>1, <3>2 DEF Seen, Closed
    <3>4. Below(root, Dirs \ refused) \subseteq S
      BY <3>3 DEF Below
    <3> QED BY <3>3, <3>4
  <2> QED BY <2>1, <2>2
<1> QED BY <1>1, SearchInvariance, PTL

-----------------------------------------------------------------------------
(* The lines and the environment.                                           *)

\* The test of parse_line() says what a line is: the first character is looked at,
\* and a "=" is found where there is one.
LEMMA SkipsWhatAssignsNot ==
    ASSUME NEW line, IsSequence(line), line[1] # "\n"
    PROVE  Skips(line) <=> ~Assigns(line)
<1> DEFINE I == {i \in 1 .. Len(line) : line[i] = "="}
<1>1. Len(line) \in Nat /\ DOMAIN line = 1 .. Len(line)
  BY DEF IsSequence
<1>2. string_findc(line, "=") = (IF I # {} THEN Min(I) ELSE 0) - 1
  BY DEF string_findc, SelectInSeq, SelectInSubSeq
<1>3. I # {} <=> \E i \in DOMAIN line : line[i] = "="
  BY <1>1
<1>4. I \subseteq Nat \ {0} /\ I \subseteq Int /\ I \subseteq Nat
  BY <1>1
<1> HIDE DEF I
<1>5. I # {} => Min(I) \in Nat \ {0}
  <2> SUFFICES ASSUME I # {} PROVE Min(I) \in Nat \ {0}
    OBVIOUS
  <2>1. PICK m \in I : \A x \in I : m <= x BY <1>4, LeastNat
  <2>2. Min(I) = m BY <1>4, <2>1, MinIs
  <2> QED BY <1>4, <2>2
<1>6. string_findc(line, "=") < 0 <=> I = {}
  <2>1. CASE I = {} BY <1>2, <2>1
  <2>2. CASE I # {} BY <1>2, <1>5, <2>2
  <2> QED BY <2>1, <2>2
<1>7. Skips(line) <=> line[1] \in {"#", ";", "\n", "\r"} \/ I = {}
  BY <1>6, Zenon DEF Skips
<1>8. Assigns(line) <=> line[1] \notin {"#", ";", "\r"} /\ I # {}
  BY <1>3, Zenon DEF Assigns
<1> QED BY <1>7, <1>8, Zenon

\* Before the first line, the environment is that of the caller.
LEMMA AfterNone ==
    ASSUME IsSequence(text), before \in InitialEnvs
    PROVE  Assigned(0) = {} /\ After(0) = before
<1>1. Assigned(0) = {}
  <2>1. DOMAIN text = 1 .. Len(text) BY DEF IsSequence
  <2> QED BY <2>1 DEF Assigned
<1>2. \A k : SettingOf(0, k) = {}
  BY <1>1 DEF SettingOf
<1>3. {Key(text[i]) : i \in Assigned(0)} \cup DOMAIN before = DOMAIN before
  BY <1>1
<1>4. After(0) = [k \in DOMAIN before |-> before[k]]
  BY <1>2, <1>3 DEF After
<1>5. before = [k \in DOMAIN before |-> before[k]]
  BY DotenvAssumption
<1> QED BY <1>1, <1>4, <1>5

\* A line that assigns sets one variable in what the lines before it made, and is
\* one assignment more.
LEMMA AfterAssignment ==
    ASSUME IsSequence(text), NEW n \in 1 .. Len(text), Assigns(text[n])
    PROVE  /\ After(n) = SetEnv(After(n - 1), Key(text[n]), Value(text[n]))
           /\ Cardinality(Assigned(n)) = Cardinality(Assigned(n - 1)) + 1
<1> DEFINE name == Key(text[n])
<1>1. DOMAIN text = 1 .. Len(text) /\ Len(text) \in Nat /\ n \in Nat
  BY DEF IsSequence
<1>2. Assigned(n) = Assigned(n - 1) \cup {n} /\ n \notin Assigned(n - 1)
  BY <1>1 DEF Assigned
<1>3. Assigned(n - 1) \subseteq 1 .. Len(text) /\ Assigned(n) \subseteq 1 .. n
  BY <1>1 DEF Assigned
<1>4. Cardinality(Assigned(n)) = Cardinality(Assigned(n - 1)) + 1
  <2>1. IsFiniteSet(1 .. Len(text)) BY <1>1, FS_Interval
  <2>2. IsFiniteSet(Assigned(n - 1)) BY <1>3, <2>1, FS_Subset
  <2> QED BY <1>2, <2>2, FS_AddElement
<1>5. SettingOf(n, name) = SettingOf(n - 1, name) \cup {n} /\ SettingOf(n, name) \subseteq 1 .. n
  BY <1>2, <1>3 DEF SettingOf
<1>6. Max(SettingOf(n, name)) = n
  <2> DEFINE S == SettingOf(n, name)
  <2>1. S \subseteq Int /\ n \in S /\ \A x \in S : x <= n
    BY <1>1, <1>5
  <2> HIDE DEF S
  <2>2. Max(S) = n BY <1>1, <2>1, MaxIs
  <2> QED BY <2>2 DEF S
<1>7. \A k : k # name => SettingOf(n, k) = SettingOf(n - 1, k)
  BY <1>2 DEF SettingOf
<1> DEFINE D == {Key(text[i]) : i \in Assigned(n - 1)} \cup DOMAIN before
           old(k) == IF SettingOf(n - 1, k) = {} THEN before[k]
                     ELSE Value(text[Max(SettingOf(n - 1, k))])
           new(k) == IF SettingOf(n, k) = {} THEN before[k]
                     ELSE Value(text[Max(SettingOf(n, k))])
<1>8. After(n - 1) = [k \in D |-> old(k)] /\ After(n) = [k \in D \cup {name} |-> new(k)]
  <2>1. {Key(text[i]) : i \in Assigned(n)} = {Key(text[i]) : i \in Assigned(n - 1)} \cup {name}
    BY <1>2
  <2>2. {Key(text[i]) : i \in Assigned(n)} \cup DOMAIN before = D \cup {name}
    BY <2>1
  <2>3. After(n) = [k \in {Key(text[i]) : i \in Assigned(n)} \cup DOMAIN before |-> new(k)]
    BY DEF After
  <2>4. After(n - 1) = [k \in D |-> old(k)]
    BY DEF After
  <2> QED BY <2>2, <2>3, <2>4
<1>9. new(name) = Value(text[n]) /\ \A k \in D : k # name => new(k) = old(k)
  BY <1>5, <1>6, <1>7
<1> HIDE DEF D, old, new, name
<1>10. SetEnv(After(n - 1), name, Value(text[n]))
         = [k \in D \cup {name} |-> IF k = name THEN Value(text[n]) ELSE old(k)]
  <2>1. DOMAIN After(n - 1) = D /\ \A k \in D : After(n - 1)[k] = old(k)
    BY <1>8
  <2> QED BY <2>1 DEF SetEnv
<1>11. After(n) = SetEnv(After(n - 1), name, Value(text[n]))
  BY <1>8, <1>9, <1>10
<1> QED BY <1>4, <1>11 DEF name

\* Any other line changes nothing.
LEMMA AfterSkipped ==
    ASSUME IsSequence(text), NEW n \in 1 .. Len(text), ~Assigns(text[n])
    PROVE  After(n) = After(n - 1) /\ Assigned(n) = Assigned(n - 1)
<1>1. DOMAIN text = 1 .. Len(text) /\ Len(text) \in Nat
  BY DEF IsSequence
<1>2. Assigned(n) = Assigned(n - 1)
  BY <1>1 DEF Assigned
<1> QED BY <1>2 DEF After, SettingOf

\* Before the call, no line is parsed.
LEMMA LoadInit == Init => LoadInv
<1> SUFFICES ASSUME Init PROVE LoadInv
  OBVIOUS
<1>1. SearchInv
  BY SearchInit
<1>2. text = <<>> /\ lines = <<>> /\ next = 1 /\ matches = 0 /\ IsSequence(text) /\ DOMAIN text = {}
  BY DEF Init, IsSequence
<1>3. LinesRead
  BY <1>2 DEF Init, LinesRead
<1>4. Assigned(0) = {} /\ After(0) = before
  BY <1>2, <1>3, AfterNone DEF LinesRead
<1>5. LoadedSoFar
  <2>1. Cardinality({}) = 0 BY FS_EmptySet
  <2> QED BY <1>2, <1>4, <2>1 DEF Init, LoadedSoFar
<1> QED BY <1>1, <1>3, <1>5 DEF LoadInv

\* A text and an environment that stay have the same lines and settings.
LEMMA SameText ==
    ASSUME UNCHANGED <<text, before>>
    PROVE  \A n : After(n)' = After(n) /\ Assigned(n)' = Assigned(n)
  BY DEF After, SettingOf, Assigned

\* The steps before the lines are there, and the ones that parse no line.
LEMMA NothingParsed ==
    ASSUME LoadInv, SearchInv',
           UNCHANGED <<lines, next, env, matches, text, blank, before>>,
           pc' \notin {"returned", "exited"} => ret' = ret /\ pc \notin {"returned", "exited"},
           pc' = "returned" /\ lines # <<>> /\ ret' # -1 =>
               \/ pc = "returned" /\ ret' = ret
               \/ next = Len(lines) + 1 /\ ret' = matches
    PROVE  LoadInv'
<1>1. LinesRead'
  BY DEF LoadInv, LinesRead
<1>2. After(next - 1)' = After(next - 1) /\ Assigned(next - 1)' = Assigned(next - 1)
  BY SameText
<1>3. LoadedSoFar'
  <2> SUFFICES ASSUME ~blank
               PROVE  /\ env = After(next - 1) /\ matches = Cardinality(Assigned(next - 1))
                      /\ pc' = "returned" /\ lines # <<>> /\ ret' # -1 =>
                            ret' = Cardinality(Assigned(Len(text)))
    BY SameText DEF LoadedSoFar
  <2>1. /\ env = After(next - 1) /\ matches = Cardinality(Assigned(next - 1)) /\ lines = text
    BY DEF LoadInv, LinesRead, LoadedSoFar
  <2>2. Len(text) \in Nat
    BY <2>1 DEF LoadInv, SearchInv, Phases, IsSequence
  <2>3. ASSUME next = Len(lines) + 1, ret' = matches
        PROVE  ret' = Cardinality(Assigned(Len(text)))
    BY <2>1, <2>2, <2>3
  <2>4. pc = "returned" /\ lines # <<>> /\ ret # -1 => ret = Cardinality(Assigned(Len(text)))
    BY DEF LoadInv, LoadedSoFar
  <2> QED BY <2>1, <2>3, <2>4
<1> QED BY <1>1, <1>3 DEF LoadInv

\* The lines are those of the text, and none has been parsed.
LEMMA SplitLinesLoads ==
    ASSUME LoadInv, SplitLines, SearchInv'
    PROVE  LoadInv'
<1>1. /\ pc = "split" /\ pc' = "lines" /\ lines' = string_split(contents, "\n")
      /\ text' = TextLines(contents) /\ blank' = HasBlankLine(contents)
      /\ UNCHANGED <<file, search, contents, next, matches, env, ret, before>>
  BY DEF SplitLines
<1>2. /\ lines = <<>> /\ next = 1 /\ contents \in Contents
  BY <1>1 DEF LoadInv, SearchInv, Phases
<1>3. matches = 0 /\ env = before /\ before \in InitialEnvs
  BY <1>2 DEF LoadInv, LinesRead
<1>4. PICK A : contents \in Seq(A)
  BY <1>2, DotenvAssumption DEF IsSequence
<1>5. ~blank' => /\ lines' = text'
                 /\ \A k \in DOMAIN text' :
                       IsSequence(text'[k]) /\ text'[k] # <<>> /\ text'[k][1] # "\n"
  <2> SUFFICES ASSUME ~HasBlankLine(contents)
               PROVE  /\ lines' = text'
                      /\ \A k \in DOMAIN text' :
                            IsSequence(text'[k]) /\ text'[k] # <<>> /\ text'[k][1] # "\n"
    BY <1>1
  <2>1. lines' = text' /\ \A k \in DOMAIN text' : text'[k] \in Seq(A) /\ text'[k] # <<>> /\ text'[k][1] # "\n"
    BY <1>1, <1>4, SplitGivesLines
  <2> QED BY <2>1 DEF IsSequence
<1>6. ret' = Null
  BY <1>1 DEF LoadInv, LinesRead
<1>7. LinesRead'
  BY <1>1, <1>2, <1>3, <1>5, <1>6 DEF LinesRead
<1>8. LoadedSoFar'
  <2> SUFFICES ASSUME ~blank'
               PROVE  env' = After(0)' /\ matches' = Cardinality(Assigned(0)')
    BY <1>1, <1>2 DEF LoadedSoFar
  <2>1. IsSequence(text)'
    BY <1>5 DEF SearchInv, Phases
  <2>2. Assigned(0)' = {} /\ After(0)' = before'
    <3>1. (IsSequence(text) /\ before \in InitialEnvs => Assigned(0) = {} /\ After(0) = before)'
      BY AfterNone, PTL
    <3> QED BY <1>1, <1>3, <2>1, <3>1
  <2> QED BY <1>1, <1>3, <2>2, FS_EmptySet
<1> QED BY <1>7, <1>8 DEF LoadInv

\* The line that is parsed is the one of that number in the text.
LEMMA LineIsOfText ==
    ASSUME LoadInv, AtLine, ~blank
    PROVE  /\ IsSequence(text) /\ next \in 1 .. Len(text) /\ next + 1 - 1 = next
           /\ Line = text[next] /\ (Skips(Line) <=> ~Assigns(Line))
<1>1. lines = text /\ IsSequence(text) /\ next \in 1 .. Len(text)
  <2>1. lines = text /\ IsSequence(lines) /\ next \in 1 .. Len(lines) + 1 /\ next <= Len(lines)
    BY DEF LoadInv, LinesRead, SearchInv, Phases, HandlesClosed, TypeOK, AtLine
  <2>2. Len(lines) \in Nat BY <2>1 DEF IsSequence
  <2> QED BY <2>1, <2>2
<1>2. next \in DOMAIN text
  BY <1>1 DEF IsSequence
<1>3. IsSequence(Line) /\ Line[1] # "\n" /\ Line = text[next]
  BY <1>1, <1>2 DEF LoadInv, LinesRead, Line
<1> QED BY <1>1, <1>3, SkipsWhatAssignsNot

\* A comment, or a line without "=".
LEMMA SkipLineLoads ==
    ASSUME LoadInv, SkipLine, SearchInv'
    PROVE  LoadInv'
<1>1. /\ AtLine /\ Skips(Line) /\ next' = next + 1 /\ pc = "lines" /\ next <= Len(lines)
      /\ UNCHANGED <<pc, file, search, contents, lines, matches, text, blank, env, ret, before>>
  BY DEF SkipLine, AtLine
<1>2. lines # <<>>
  <2>1. next \in 1 .. Len(lines) + 1 BY DEF LoadInv, SearchInv, HandlesClosed, TypeOK
  <2>2. Len(<<>>) = 0 OBVIOUS
  <2> QED BY <1>1, <2>1, <2>2
<1>3. LinesRead'
  BY <1>1, <1>2 DEF LoadInv, LinesRead
<1>4. LoadedSoFar'
  <2> SUFFICES ASSUME ~blank
               PROVE  env' = After(next - 1)' /\ matches' = Cardinality(Assigned(next - 1)')
    BY <1>1 DEF LoadedSoFar
  <2>1. env = After(next - 1) /\ matches = Cardinality(Assigned(next - 1))
    BY DEF LoadInv, LoadedSoFar
  <2>2. After(next) = After(next - 1) /\ Assigned(next) = Assigned(next - 1)
    BY <1>1, LineIsOfText, AfterSkipped
  <2>3. next' - 1 = next
    BY <1>1, LineIsOfText
  <2>4. After(next - 1)' = After(next) /\ Assigned(next - 1)' = Assigned(next)
    BY <1>1, <2>3 DEF After, SettingOf, Assigned
  <2> QED BY <1>1, <2>1, <2>2, <2>4
<1> QED BY <1>3, <1>4 DEF LoadInv

\* A line that assigns.
LEMMA SetLineLoads ==
    ASSUME LoadInv, SetLine, SearchInv'
    PROVE  LoadInv'
<1>1. /\ AtLine /\ ~Skips(Line) /\ next' = next + 1 /\ matches' = matches + 1
      /\ env' = SetEnv(env, Key(Line), Value(Line)) /\ pc = "lines" /\ next <= Len(lines)
      /\ UNCHANGED <<pc, file, search, contents, lines, text, blank, ret, before>>
  BY DEF SetLine, AtLine
<1>2. lines # <<>>
  <2>1. next \in 1 .. Len(lines) + 1 BY DEF LoadInv, SearchInv, HandlesClosed, TypeOK
  <2>2. Len(<<>>) = 0 OBVIOUS
  <2> QED BY <1>1, <2>1, <2>2
<1>3. LinesRead'
  BY <1>1, <1>2 DEF LoadInv, LinesRead
<1>4. LoadedSoFar'
  <2> SUFFICES ASSUME ~blank
               PROVE  env' = After(next - 1)' /\ matches' = Cardinality(Assigned(next - 1)')
    BY <1>1 DEF LoadedSoFar
  <2>1. env = After(next - 1) /\ matches = Cardinality(Assigned(next - 1))
    BY DEF LoadInv, LoadedSoFar
  <2>2. /\ After(next) = SetEnv(After(next - 1), Key(Line), Value(Line))
        /\ Cardinality(Assigned(next)) = Cardinality(Assigned(next - 1)) + 1
    BY <1>1, LineIsOfText, AfterAssignment
  <2>3. next' - 1 = next
    BY <1>1, LineIsOfText
  <2>4. After(next - 1)' = After(next) /\ Assigned(next - 1)' = Assigned(next)
    BY <1>1, <2>3 DEF After, SettingOf, Assigned
  <2> QED BY <1>1, <2>1, <2>2, <2>4
<1> QED BY <1>3, <1>4 DEF LoadInv

\* Every step keeps what the loading relies on.
LEMMA LoadNext == LoadInv /\ [Next]_vars => LoadInv'
<1> SUFFICES ASSUME LoadInv, [Next]_vars PROVE LoadInv'
  OBVIOUS
<1>1. SearchInv'
  BY SearchNext DEF LoadInv
<1>2. CASE SplitLines BY <1>1, <1>2, SplitLinesLoads
<1>3. CASE SkipLine BY <1>1, <1>3, SkipLineLoads
<1>4. CASE SetLine BY <1>1, <1>4, SetLineLoads
<1>5. CASE \/ PathMissing \/ BasenameExits \/ ReadPath \/ SearchPath
           \/ SkipEntry \/ FileFound \/ EnterDir \/ DirExhausted \/ Unwind
           \/ ReadFails \/ ReadFile
  <2>1. /\ UNCHANGED <<lines, next, env, matches, text, blank, before>>
        /\ pc' \in {"returned", "exited"} \/ ret' = ret
    BY <1>5 DEF PathMissing, BasenameExits, ReadPath, SearchPath, SkipEntry, FileFound,
                EnterDir, DirExhausted, Unwind, ReadFails, ReadFile, Return, Exit, Reading, loading
  <2>2. pc \notin {"lines", "returned", "exited"}
    BY <1>5 DEF PathMissing, BasenameExits, ReadPath, SearchPath, SkipEntry, FileFound,
                EnterDir, DirExhausted, Unwind, ReadFails, ReadFile, Reading
  <2>3. lines = <<>> BY <2>2 DEF LoadInv, SearchInv, Phases
  <2> QED BY <1>1, <2>1, <2>2, <2>3, NothingParsed
<1>6. CASE BadLine \/ SetFails
  <2>1. /\ UNCHANGED <<lines, next, env, matches, text, blank, before>>
        /\ pc' = "exited" \/ (pc' = "returned" /\ ret' = -1)
    BY <1>6 DEF BadLine, SetFails, Return, Exit, loading
  <2> QED BY <1>1, <2>1, NothingParsed
<1>7. CASE LoadDone
  <2>1. /\ UNCHANGED <<lines, next, env, matches, text, blank, before>>
        /\ pc' = "returned" /\ ret' = matches /\ next > Len(lines)
    BY <1>7 DEF LoadDone, Return, loading
  <2>2. next \in 1 .. Len(lines) + 1 /\ Len(lines) \in Nat
    BY DEF LoadInv, SearchInv, HandlesClosed, TypeOK, Phases, IsSequence
  <2>3. next = Len(lines) + 1 BY <2>1, <2>2
  <2> QED BY <1>1, <2>1, <2>3, NothingParsed
<1>8. CASE UNCHANGED vars
  <2>1. UNCHANGED <<lines, next, env, matches, text, blank, before, pc, ret>>
    BY <1>8 DEF vars, loading
  <2> QED BY <1>1, <2>1, NothingParsed
<1> QED BY <1>2, <1>3, <1>4, <1>5, <1>6, <1>7, <1>8 DEF Next, Over

\* What has been parsed, in every state of a load.
THEOREM LoadInvariance == Spec => []LoadInv
<1>1. Init => LoadInv
  BY LoadInit
<1>2. LoadInv /\ [Next]_vars => LoadInv'
  BY LoadNext
<1> QED BY <1>1, <1>2, PTL DEF Spec

\* For every file without a blank line, and every environment: the variables are at
\* every moment what the lines so far make of them, and a load that succeeds returns
\* the number of assignments in the whole file (dotenv.h:15, :27).
THEOREM EnvironmentIsLoaded == Spec => []LoadedSoFar
<1>1. LoadInv => LoadedSoFar
  BY DEF LoadInv
<1> QED BY <1>1, LoadInvariance, PTL

-----------------------------------------------------------------------------
(* The laws of the string and path functions, for all strings.              *)

\* The dot of an extension, as a predicate.
Dot(c) == c = "."

\* The greatest and the least of a set of positions are in it.
LEMMA PositionsBounded ==
    ASSUME NEW n \in Nat, NEW S, S \subseteq 1 .. n, S # {}
    PROVE  /\ Max(S) \in S /\ \A x \in S : x <= Max(S)
           /\ Min(S) \in S /\ \A x \in S : Min(S) <= x
<1>1. PICK a \in S : \A x \in S : a <= x
  <2>1. S \subseteq Nat OBVIOUS
  <2> QED BY <2>1, LeastNat
<1>2. PICK b \in S : \A x \in S : x <= b
  <2> DEFINE T == {n - x : x \in S}
  <2>1. T \subseteq Nat /\ T # {} OBVIOUS
  <2>2. PICK m \in T : \A x \in T : m <= x BY <2>1, LeastNat
  <2>3. PICK x \in S : m = n - x BY <2>2
  <2>4. ASSUME NEW y \in S PROVE y <= x
    <3>1. n - y \in T OBVIOUS
    <3>2. n - x <= n - y BY <2>2, <2>3, <3>1
    <3> QED BY <3>2
  <2> QED BY <2>4
<1>3. S \subseteq Int OBVIOUS
<1>4. Min(S) = a BY <1>1, <1>3, MinIs
<1>5. Max(S) = b BY <1>2, <1>3, MaxIs
<1> QED BY <1>1, <1>2, <1>4, <1>5

\* The last separator or other character of a string, and 0 if it has none.
LEMMA LastIs ==
    ASSUME NEW A, NEW s \in Seq(A)
    PROVE  /\ LET n == SelectLastInSeq(s, is_sep) IN
              /\ n \in 0 .. Len(s) /\ (n # 0 => is_sep(s[n]))
              /\ \A i \in 1 .. Len(s) : i > n => ~is_sep(s[i])
           /\ LET n == SelectLastInSeq(s, LAMBDA c : ~is_sep(c)) IN
              /\ n \in 0 .. Len(s) /\ (n # 0 => ~is_sep(s[n]))
              /\ \A i \in 1 .. Len(s) : i > n => is_sep(s[i])
           /\ LET n == SelectLastInSeq(s, LAMBDA c : c = ".") IN
              /\ n \in 0 .. Len(s) /\ (n # 0 => Dot(s[n]))
              /\ \A i \in 1 .. Len(s) : i > n => ~Dot(s[i])
<1> DEFINE I == {i \in 1 .. Len(s) : is_sep(s[i])}
           J == {i \in 1 .. Len(s) : ~is_sep(s[i])}
           K == {i \in 1 .. Len(s) : s[i] = "."}
<1>0. Len(s) \in Nat OBVIOUS
<1>1. /\ I # {} => Max(I) \in I /\ \A x \in I : x <= Max(I)
      /\ J # {} => Max(J) \in J /\ \A x \in J : x <= Max(J)
      /\ K # {} => Max(K) \in K /\ \A x \in K : x <= Max(K)
  <2>1. I \subseteq 1 .. Len(s) /\ J \subseteq 1 .. Len(s) /\ K \subseteq 1 .. Len(s) OBVIOUS
  <2> HIDE DEF I, J, K
  <2> QED BY <1>0, <2>1, PositionsBounded
<1>2. /\ SelectLastInSeq(s, is_sep) = IF I # {} THEN Max(I) ELSE 0
      /\ SelectLastInSeq(s, LAMBDA c : ~is_sep(c)) = IF J # {} THEN Max(J) ELSE 0
      /\ SelectLastInSeq(s, LAMBDA c : c = ".") = IF K # {} THEN Max(K) ELSE 0
  BY DEF SelectLastInSeq
<1>3. \A i \in 1 .. Len(s) : (is_sep(s[i]) => i \in I) /\ (~is_sep(s[i]) => i \in J) /\ (Dot(s[i]) => i \in K)
  BY DEF Dot
<1>4. /\ \A i \in I : i \in 1 .. Len(s) /\ is_sep(s[i])
      /\ \A i \in J : i \in 1 .. Len(s) /\ ~is_sep(s[i])
      /\ \A i \in K : i \in 1 .. Len(s) /\ Dot(s[i])
  BY DEF Dot
<1> HIDE DEF I, J, K
<1>5. /\ SelectLastInSeq(s, is_sep) \in 0 .. Len(s)
      /\ SelectLastInSeq(s, is_sep) # 0 => is_sep(s[SelectLastInSeq(s, is_sep)])
      /\ \A i \in 1 .. Len(s) : i > SelectLastInSeq(s, is_sep) => ~is_sep(s[i])
  BY <1>0, <1>1, <1>2, <1>3, <1>4
<1> DEFINE j == SelectLastInSeq(s, LAMBDA c : ~is_sep(c))
           k == SelectLastInSeq(s, LAMBDA c : c = ".")
<1>6. /\ j = IF J # {} THEN Max(J) ELSE 0
      /\ k = IF K # {} THEN Max(K) ELSE 0
  BY <1>2
<1> HIDE DEF j, k
<1>7. j \in 0 .. Len(s) /\ (j # 0 => ~is_sep(s[j])) /\ \A i \in 1 .. Len(s) : i > j => is_sep(s[i])
  BY <1>0, <1>1, <1>3, <1>4, <1>6
<1>8. k \in 0 .. Len(s) /\ (k # 0 => Dot(s[k])) /\ \A i \in 1 .. Len(s) : i > k => ~Dot(s[i])
  BY <1>0, <1>1, <1>3, <1>4, <1>6
<1> QED BY <1>5, <1>7, <1>8 DEF j, k

\* The path without the separators at its end, its directory and its final name.
LEMMA PathParts ==
    ASSUME NEW A, NEW p \in Seq(A)
    PROVE  /\ Len(Stripped(p)) \in 0 .. Len(p) /\ Stripped(p) = SubSeq(p, 1, Len(Stripped(p)))
           /\ \A i \in 1 .. Len(p) : i > Len(Stripped(p)) => is_sep(p[i])
           /\ LastSep(p) \in 0 .. Len(Stripped(p)) /\ (LastSep(p) # 0 => is_sep(p[LastSep(p)]))
           /\ FinalName(p) \in Seq(A) /\ Len(FinalName(p)) = Len(Stripped(p)) - LastSep(p)
           /\ \A i \in 1 .. Len(FinalName(p)) : FinalName(p)[i] = p[LastSep(p) + i] /\ ~is_sep(FinalName(p)[i])
<1> DEFINE n == SelectLastInSeq(p, LAMBDA c : ~is_sep(c))
           s == Stripped(p)
           l == LastSep(p)
           f == FinalName(p)
<1>1. n \in 0 .. Len(p) /\ \A i \in 1 .. Len(p) : i > n => is_sep(p[i])
  BY LastIs
<1>2. s = SubSeq(p, 1, n) BY DEF Stripped
<1>3. l = SelectLastInSeq(s, is_sep) BY DEF LastSep
<1>4. f = SubSeq(s, l + 1, Len(s)) BY DEF FinalName
<1> HIDE DEF n, s, l, f
<1>5. s \in Seq(A) /\ Len(s) = n /\ \A i \in 1 .. n : s[i] = p[i]
  BY <1>1, <1>2
<1>6. l \in 0 .. Len(s) /\ (l # 0 => is_sep(s[l])) /\ \A i \in 1 .. Len(s) : i > l => ~is_sep(s[i])
  BY <1>3, <1>5, LastIs
<1>7. f \in Seq(A) /\ Len(f) = n - l /\ \A i \in 1 .. n - l : f[i] = s[l + i]
  <2>1. Len(s) \in Nat /\ l + 1 \in 1 .. Len(s) + 1 /\ Len(s) - (l + 1) + 1 = n - l BY <1>1, <1>5, <1>6
  <2>2. ASSUME NEW i \in 1 .. n - l PROVE f[i] = s[l + i]
    <3>1. f[i] = s[(l + 1) + i - 1] BY <1>4, <1>5, <2>1
    <3>2. (l + 1) + i - 1 = l + i BY <1>1, <1>6
    <3> QED BY <3>1, <3>2
  <2> QED BY <1>4, <1>5, <2>1, <2>2
<1>8. ASSUME NEW i \in 1 .. Len(f) PROVE f[i] = p[l + i] /\ ~is_sep(f[i])
  <2>1. i \in 1 .. n - l /\ l + i \in 1 .. n /\ l + i > l BY <1>1, <1>5, <1>6, <1>7
  <2> QED BY <1>5, <1>6, <1>7, <2>1
<1>9. l # 0 => is_sep(p[l])
  <2>1. l # 0 => l \in 1 .. n BY <1>5, <1>6
  <2> QED BY <1>5, <1>6, <2>1
<1> QED BY <1>1, <1>2, <1>5, <1>6, <1>7, <1>8, <1>9 DEF n, s, l, f

\* Stem and extension are what stands before and after a dot of the name.
LEMMA StemAndExtensionOf ==
    ASSUME NEW A, NEW p \in Seq(A), ~NameExits(p)
    PROVE  /\ path_stem(p) # <<>>
           /\ IF path_extension(p) = None THEN path_basename(p) \in {path_stem(p), Append(path_stem(p), ".")}
              ELSE \E e \in {path_extension(p), Tail(path_extension(p))} :
                      /\ e # <<>> /\ \A i \in DOMAIN e : e[i] # "."
                      /\ path_basename(p) = path_stem(p) \o <<".">> \o e
<1> DEFINE f == FinalName(p)
           k == LastDot(p)
           stem == path_stem(p)
           ext == path_extension(p)
<1>1. f \in Seq(A) /\ f # <<>> /\ path_basename(p) = f
  BY PathParts DEF NameExits, path_basename
<1>2. /\ k \in 0 .. Len(f) /\ (k # 0 => f[k] = ".")
      /\ \A i \in 1 .. Len(f) : i > k => f[i] # "."
  BY <1>1, LastIs DEF LastDot, Dot
<1>3. stem = IF k > 1 THEN SubSeq(f, 1, k - 1) ELSE f
  BY DEF path_stem
<1>4. ext = IF k > 1 /\ k < Len(f) THEN SubSeq(f, k, Len(f)) ELSE <<>>
  BY DEF path_extension, None
<1> HIDE DEF f, k, stem, ext
<1>5. CASE k > 1 /\ k < Len(f)
  <2>1. stem = SubSeq(f, 1, k - 1) /\ ext = SubSeq(f, k, Len(f)) BY <1>3, <1>4, <1>5
  <2>2. stem # <<>> /\ ext # <<>>
    <3>1. Len(stem) > 0 /\ Len(ext) > 0 BY <1>1, <1>2, <1>5, <2>1
    <3> QED BY <3>1
  <2>3. stem \o ext = f
    <3>1. /\ 1 \in 1 .. Len(f) + 1 /\ k - 1 \in 1 - 1 .. Len(f) /\ Len(f) \in k - 1 .. Len(f)
          /\ (k - 1) + 1 = k
      BY <1>1, <1>2, <1>5
    <3>2. SubSeq(f, 1, k - 1) \o SubSeq(f, (k - 1) + 1, Len(f)) = SubSeq(f, 1, Len(f))
      BY ONLY <1>1, <3>1, ConcatAdjacentSubSeq
    <3> QED BY <1>1, <2>1, <3>1, <3>2, SubSeqFull
  <2>4. /\ Len(f) \in Nat /\ k \in Nat
        /\ ext \in Seq(A) /\ Len(ext) = Len(f) - k + 1
        /\ \A i \in 1 .. Len(ext) : ext[i] = f[k + i - 1]
    BY <1>1, <1>2, <1>5, <2>1
  <2> DEFINE e == Tail(ext)
  <2>5. /\ Len(ext) > 1 /\ e \in Seq(A) /\ Len(e) = Len(ext) - 1 /\ DOMAIN e = 1 .. Len(ext) - 1
        /\ \A i \in 1 .. Len(ext) - 1 : e[i] = ext[i + 1]
    BY <1>5, <2>4
  <2> HIDE DEF e
  <2>6. ASSUME NEW i \in DOMAIN e PROVE e[i] # "."
    <3>1. i + 1 \in 1 .. Len(ext) /\ k + (i + 1) - 1 = k + i /\ k + i \in 1 .. Len(f) /\ k + i > k
      <4>1. Len(f) \in Nat /\ k \in Nat /\ k >= 1 /\ Len(ext) = Len(f) - k + 1 BY <1>5, <2>4
      <4>2. i \in 1 .. Len(ext) - 1 BY <2>5
      <4>3. i \in Nat /\ 1 <= i /\ i + 1 <= Len(ext) BY ONLY <4>1, <4>2
      <4>4. i + 1 \in 1 .. Len(ext) BY ONLY <4>1, <4>3
      <4>5. k + i \in 1 .. Len(f) /\ k + i > k BY ONLY <4>1, <4>3
      <4>6. k + (i + 1) - 1 = k + i BY ONLY <4>1, <4>3
      <4> QED BY <4>4, <4>5, <4>6
    <3>2. e[i] = f[k + i] BY <2>4, <2>5, <3>1
    <3> QED BY <1>2, <3>1, <3>2
  <2>7. e # <<>>
    <3>1. Len(ext) \in Nat BY <2>4
    <3>2. Len(e) # 0 BY ONLY <3>1, <2>5
    <3> QED BY <3>2
  <2>8. ext = <<".">> \o e
    <3>1. ext[1] = "."
      <4>1. 1 \in 1 .. Len(ext) /\ k + 1 - 1 = k BY <2>4, <2>5
      <4> QED BY <1>2, <1>5, <2>4, <4>1
    <3> QED BY <2>4, <2>5, <3>1 DEF e
  <2>9. f = stem \o <<".">> \o e
    <3>1. stem \in Seq(A) BY <1>1, <1>2, <1>5, <2>1
    <3>2. ext[1] \in A /\ ext[1] = "." BY <2>4, <2>5, <2>8
    <3>3. "." \in A BY <3>2
    <3>4. <<".">> \in Seq(A) BY <3>3
    <3>5. stem \o (<<".">> \o e) = (stem \o <<".">>) \o e
      BY ONLY <2>5, <3>1, <3>4, ConcatAssociative
    <3> QED BY <2>3, <2>8, <3>5
  <2> QED BY <1>1, <2>2, <2>6, <2>7, <2>9 DEF None, stem, ext, e
<1>6. CASE k > 1 /\ k = Len(f)
  <2>1. stem = SubSeq(f, 1, k - 1) /\ ext = <<>> BY <1>3, <1>4, <1>6
  <2>2. stem # <<>>
    <3>1. Len(stem) > 0 BY <1>1, <1>2, <1>6, <2>1
    <3> QED BY <3>1
  <2>3. stem \in Seq(A) /\ f[k] \in A BY <1>1, <1>2, <1>6, <2>1
  <2>4. Append(stem, f[k]) = f
    <3>1. 1 \in 1 .. Len(f) /\ k \in 1 .. Len(f) BY <1>1, <1>2, <1>6
    <3>2. SubSeq(f, 1, k) = SubSeq(f, 1, k - 1) \o <<f[k]>>
      BY ONLY <1>1, <3>1, SubSeqRecursiveSecond
    <3> QED BY <1>1, <1>6, <2>1, <2>3, <3>2, SubSeqFull, AppendIsConcat
  <2>5. f[k] = "." BY <1>2, <1>6
  <2> QED BY <1>1, <2>1, <2>2, <2>4, <2>5 DEF None, stem, ext
<1>7. CASE ~(k > 1)
  <2>1. ext = <<>> /\ stem = f BY <1>3, <1>4, <1>7
  <2> QED BY <1>1, <2>1 DEF None, stem, ext
<1> QED
  <2>1. Len(f) \in Nat /\ k \in 0 .. Len(f) BY <1>1, <1>2
  <2>2. (k > 1 /\ k < Len(f)) \/ (k > 1 /\ k = Len(f)) \/ ~(k > 1) BY <2>1
  <2> QED BY <1>5, <1>6, <1>7, <2>2, Zenon

\* The recursive function of FlattenSeq(), up to the n-th sequence.
Flat(s, n, g) == g = [i \in 1 .. n |-> IF i = 1 THEN s[i] ELSE g[i - 1] \o s[i]]

\* Such a function exists, by induction on n.
LEMMA FlatExists ==
    ASSUME NEW s, NEW n \in Nat
    PROVE  \E g : Flat(s, n, g)
<1> DEFINE S == {k \in Nat : \E g : Flat(s, k, g)}
<1>1. 0 \in S
  <2>1. Flat(s, 0, [i \in 1 .. 0 |-> s[i]]) BY DEF Flat
  <2> QED BY <2>1
<1>2. ASSUME NEW k \in Nat, k \in S PROVE k + 1 \in S
  <2>1. PICK g : Flat(s, k, g) BY <1>2
  <2> DEFINE h == [i \in 1 .. k + 1 |-> IF i <= k THEN g[i] ELSE IF i = 1 THEN s[i] ELSE g[i - 1] \o s[i]]
  <2>2. ASSUME NEW i \in 1 .. k + 1 PROVE h[i] = IF i = 1 THEN s[i] ELSE h[i - 1] \o s[i]
    <3>1. CASE i <= k
      <4>1. i \in 1 .. k /\ h[i] = g[i] BY <3>1
      <4>2. i # 1 => i - 1 \in 1 .. k /\ h[i - 1] = g[i - 1] BY <3>1
      <4>3. g[i] = IF i = 1 THEN s[i] ELSE g[i - 1] \o s[i] BY <2>1, <4>1 DEF Flat
      <4> HIDE DEF h
      <4> QED BY <4>1, <4>2, <4>3
    <3>2. CASE i = k + 1
      <4>1. h[i] = IF i = 1 THEN s[i] ELSE g[i - 1] \o s[i] BY <3>2
      <4>2. i # 1 => h[i - 1] = g[i - 1] BY <3>2
      <4> HIDE DEF h
      <4> QED BY <4>1, <4>2
    <3> QED BY <3>1, <3>2
  <2>3. h = [i \in 1 .. k + 1 |-> h[i]] OBVIOUS
  <2> HIDE DEF h
  <2>4. Flat(s, k + 1, h) BY <2>2, <2>3 DEF Flat
  <2> QED BY <2>4
<1>3. Nat \subseteq S
  <2> HIDE DEF S
  <2> QED BY <1>1, <1>2, InductionSet
<1> QED BY <1>3

\* The two have the same first n elements.
SameUpTo(s, t, n) == \A i \in 1 .. n : s[i] = t[i]

\* It is the same for sequences that begin alike.
LEMMA FlatAlike ==
    ASSUME NEW s, NEW t, NEW n \in Nat, NEW m \in Nat, NEW g, NEW h, Flat(s, n, g), Flat(t, m, h),
           n <= m, SameUpTo(s, t, n)
    PROVE  SameUpTo(g, h, n)
<1> DEFINE S == {i \in Nat : i \in 1 .. n => g[i] = h[i]}
<1>1. 0 \in S OBVIOUS
<1>2. ASSUME NEW i \in Nat, i \in S PROVE i + 1 \in S
  <2> SUFFICES ASSUME i + 1 \in 1 .. n PROVE g[i + 1] = h[i + 1] OBVIOUS
  <2>1. i + 1 \in 1 .. n /\ i + 1 \in 1 .. m /\ (i + 1) - 1 = i /\ s[i + 1] = t[i + 1]
    BY DEF SameUpTo
  <2>2. g[i + 1] = IF i + 1 = 1 THEN s[i + 1] ELSE g[i] \o s[i + 1] BY <2>1 DEF Flat
  <2>3. h[i + 1] = IF i + 1 = 1 THEN t[i + 1] ELSE h[i] \o t[i + 1] BY <2>1 DEF Flat
  <2>4. i + 1 # 1 => g[i] = h[i] BY <1>2
  <2> QED BY <2>1, <2>2, <2>3, <2>4
<1>3. Nat \subseteq S
  <2> HIDE DEF S
  <2> QED BY <1>1, <1>2, InductionSet
<1> QED BY <1>3 DEF SameUpTo

\* FlattenSeq() is its last value.
LEMMA FlattenIs ==
    ASSUME NEW A, NEW s \in Seq(A), s # <<>>
    PROVE  \E g : Flat(s, Len(s), g) /\ FlattenSeq(s) = g[Len(s)]
<1> DEFINE g == CHOOSE f : f = [i \in 1 .. Len(s) |-> IF i = 1 THEN s[i] ELSE f[i - 1] \o s[i]]
<1>1. Len(s) \in Nat /\ Len(s) # 0 OBVIOUS
<1>2. \E f : Flat(s, Len(s), f) BY <1>1, FlatExists
<1>3. Flat(s, Len(s), g) BY <1>2 DEF Flat
<1>4. FlattenSeq(s) = g[Len(s)] BY <1>1 DEF FlattenSeq
<1> HIDE DEF g
<1> QED BY <1>3, <1>4

\* One sequence more.
LEMMA FlattenAppend ==
    ASSUME NEW A, NEW s \in Seq(Seq(A)), NEW x \in Seq(A), s = <<>> \/ FlattenSeq(s) \in Seq(A)
    PROVE  FlattenSeq(Append(s, x)) = IF s = <<>> THEN x ELSE FlattenSeq(s) \o x
<1> DEFINE t == Append(s, x)
           n == Len(s)
<1>1. t \in Seq(Seq(A)) /\ Len(t) = n + 1 /\ t[n + 1] = x /\ \A i \in 1 .. n : t[i] = s[i]
  BY AppendProperties
<1>1a. t # <<>> BY AppendProperties, Zenon
<1>2. n \in Nat /\ (s = <<>> <=> n = 0) OBVIOUS
<1> HIDE DEF t
<1>3. PICK h : Flat(t, n + 1, h) /\ FlattenSeq(t) = h[n + 1]
  BY <1>1, <1>1a, FlattenIs
<1>4. h[n + 1] = IF n + 1 = 1 THEN x ELSE h[n] \o x
  <2>1. n + 1 \in 1 .. n + 1 /\ (n + 1) - 1 = n BY <1>2
  <2> QED BY <1>1, <1>3, <2>1 DEF Flat
<1>5. CASE s # <<>>
  <2>1. PICK g : Flat(s, n, g) /\ FlattenSeq(s) = g[n] BY <1>5, FlattenIs
  <2>2. n + 1 \in Nat /\ n <= n + 1 /\ n \in 1 .. n /\ n + 1 # 1 BY <1>2, <1>5
  <2>3. SameUpTo(s, t, n) BY <1>1 DEF SameUpTo
  <2>4. SameUpTo(g, h, n)
    <3>1. Flat(t, Len(t), h) BY <1>1, <1>3
    <3>2. n \in Nat /\ Len(t) \in Nat /\ n <= Len(t) BY <1>1, <1>2
    <3> HIDE DEF n
    <3> QED BY ONLY <2>1, <2>3, <3>1, <3>2, FlatAlike
  <2> HIDE DEF n
  <2>5. FlattenSeq(t) = FlattenSeq(s) \o x BY <1>3, <1>4, <2>1, <2>2, <2>4 DEF SameUpTo
  <2> QED BY <1>5, <2>5 DEF t
<1> QED BY <1>2, <1>3, <1>4, <1>5 DEF t

\* The pieces with delimiters between them.
Spaced(pieces, d) == [i \in DOMAIN pieces |-> IF i = 1 THEN pieces[i] ELSE <<d>> \o pieces[i]]
Joined(pieces, d) == FlattenSeq(Spaced(pieces, d))

\* One piece more.
LEMMA JoinedAppend ==
    ASSUME NEW A, NEW d \in A, NEW P \in Seq(Seq(A)), NEW x \in Seq(A), P = <<>> \/ Joined(P, d) \in Seq(A)
    PROVE  Joined(Append(P, x), d) = IF P = <<>> THEN x ELSE Joined(P, d) \o (<<d>> \o x)
<1> DEFINE n == Len(P)
           y == IF P = <<>> THEN x ELSE <<d>> \o x
           s == Spaced(P, d)
           t == Append(P, x)
<1>1. /\ n \in Nat /\ DOMAIN P = 1 .. n /\ (P = <<>> <=> n = 0)
      /\ <<d>> \in Seq(A)
  OBVIOUS
<1>2. /\ t \in Seq(Seq(A)) /\ Len(t) = n + 1 /\ DOMAIN t = 1 .. n + 1 /\ t[n + 1] = x
      /\ \A i \in 1 .. n : t[i] = P[i]
  BY AppendProperties
<1>3. y \in Seq(A) BY <1>1, ConcatProperties
<1>4. s \in Seq(Seq(A)) /\ Len(s) = n /\ \A i \in 1 .. n : s[i] = IF i = 1 THEN P[i] ELSE <<d>> \o P[i]
  <2>1. ASSUME NEW i \in 1 .. n PROVE P[i] \in Seq(A) /\ <<d>> \o P[i] \in Seq(A)
    BY <1>1, ConcatProperties, ElementOfSeq
  <2>2. s = [i \in 1 .. n |-> IF i = 1 THEN P[i] ELSE <<d>> \o P[i]] BY <1>1 DEF Spaced
  <2>3. s \in [1 .. n -> Seq(A)] BY <2>1, <2>2
  <2> QED BY <1>1, <2>2, <2>3
<1>5. Spaced(t, d) = Append(s, y)
  <2>1. /\ Append(s, y) \in Seq(Seq(A)) /\ Len(Append(s, y)) = n + 1 /\ Append(s, y)[n + 1] = y
        /\ \A i \in 1 .. n : Append(s, y)[i] = s[i]
    BY <1>3, <1>4, AppendProperties
  <2>2. ASSUME NEW i \in 1 .. n + 1
        PROVE  Append(s, y)[i] = IF i = 1 THEN t[i] ELSE <<d>> \o t[i]
    <3>1. CASE i \in 1 .. n BY <1>2, <1>4, <2>1, <3>1
    <3>2. CASE i = n + 1
      <4>1. i = 1 <=> P = <<>> BY <1>1, <3>2
      <4> QED BY <1>2, <2>1, <3>2, <4>1
    <3>3. i \in 1 .. n \/ i = n + 1 BY <1>1
    <3> HIDE DEF s, y, t, n
    <3> QED BY <3>1, <3>2, <3>3
  <2>3. DOMAIN Append(s, y) = 1 .. n + 1 /\ Append(s, y) = [i \in 1 .. n + 1 |-> Append(s, y)[i]]
    <3> DEFINE z == Append(s, y)
    <3>1. z \in Seq(Seq(A)) /\ Len(z) = n + 1 BY <2>1
    <3> HIDE DEF z
    <3>2. DOMAIN z = 1 .. n + 1 /\ z = [i \in DOMAIN z |-> z[i]] BY <3>1
    <3> QED BY <3>2 DEF z
  <2> HIDE DEF s, y, t
  <2> QED BY <1>2, <2>2, <2>3 DEF Spaced
<1>6. s = <<>> <=> P = <<>> BY <1>1, <1>4
<1> HIDE DEF s, y, t, n
<1>7. FlattenSeq(Append(s, y)) = IF s = <<>> THEN y ELSE FlattenSeq(s) \o y
  BY <1>3, <1>4, <1>6, FlattenAppend DEF Joined, s
<1> QED BY <1>5, <1>6, <1>7 DEF Joined, s, y, t

\* After p positions: what has been cut is the text up to the delimiter in front
\* of the piece that is read.
CutSoFar(A, c, d, p, acc) ==
    /\ acc.start \in 1 .. p + 1 /\ acc.pieces \in Seq(Seq(A))
    /\ acc.start = 1 <=> acc.pieces = <<>>
    /\ acc.start > 1 => Joined(acc.pieces, d) = SubSeq(c, 1, acc.start - 2)
    /\ acc.start > 1 /\ acc.start <= Len(c) + 1 => c[acc.start - 1] = d
    /\ p = Len(c) + 1 => acc.start >= Len(c) + 1

\* A round keeps this.
LEMMA CutLosesNothing ==
    ASSUME NEW A, NEW c \in Seq(A), NEW d \in A, NEW p \in 0 .. Len(c), NEW acc, CutSoFar(A, c, d, p, acc)
    PROVE  CutSoFar(A, c, d, p + 1, Cut(c, d, acc, p + 1))
<1> DEFINE n == Len(c)
           q == p + 1
           m == acc.start
           x == SubSeq(c, m, q - 1)
           new == Cut(c, d, acc, q)
<1>1. n \in Nat /\ p \in 0 .. n /\ q \in 1 .. n + 1 OBVIOUS
<1>1a. m \in 1 .. q /\ acc.pieces \in Seq(Seq(A)) BY <1>1 DEF CutSoFar
<1>2. CASE (q <= n /\ c[q] # d) \/ q = m
  <2>1. new = acc BY <1>2 DEF Cut
  <2>2. q = n + 1 => m = n + 1 BY <1>1, <1>2
  <2> QED BY <1>1, <1>1a, <2>1, <2>2 DEF CutSoFar
<1>3. CASE ~((q <= n /\ c[q] # d) \/ q = m)
  <2>1. new = [start |-> q + 1, pieces |-> Append(acc.pieces, x)] BY <1>3 DEF Cut
  <2>2. m \in 1 .. q - 1 /\ q - 1 \in 1 .. n /\ (q <= n => c[q] = d) BY <1>1, <1>1a, <1>3
  <2>3. x \in Seq(A) BY <1>1, <2>2
  <2>4. /\ m = 1 <=> acc.pieces = <<>>
        /\ m > 1 => Joined(acc.pieces, d) = SubSeq(c, 1, m - 2) /\ c[m - 1] = d
    BY <1>1, <2>2 DEF CutSoFar
  <2>5. SubSeq(c, 1, m - 2) \in Seq(A) BY <1>1, <2>2
  <2> HIDE DEF x, m, q
  <2>6. Joined(Append(acc.pieces, x), d)
            = IF acc.pieces = <<>> THEN x ELSE Joined(acc.pieces, d) \o (<<d>> \o x)
    <3>1. acc.pieces = <<>> \/ Joined(acc.pieces, d) \in Seq(A)
      BY <2>2, <2>4, <2>5
    <3> QED BY <1>1a, <2>3, <3>1, JoinedAppend
  <2>7. Joined(Append(acc.pieces, x), d) = SubSeq(c, 1, q - 1)
    <3>1. CASE m = 1 BY <2>4, <2>6, <3>1 DEF x
    <3>2. CASE m > 1
      <4>1. /\ m - 1 \in 1 .. n /\ q - 1 \in m - 1 .. n /\ (m - 1) + 1 = m /\ 1 \in 1 .. n + 1
            /\ m - 2 \in 1 - 1 .. n /\ q - 1 \in m - 2 .. n /\ (m - 2) + 1 = m - 1
        BY <1>1, <2>2, <3>2
      <4>2. SubSeq(c, m - 1, q - 1) = <<c[m - 1]>> \o SubSeq(c, m, q - 1)
        BY <4>1, SubSeqRecursiveFirst
      <4>3. SubSeq(c, 1, m - 2) \o SubSeq(c, m - 1, q - 1) = SubSeq(c, 1, q - 1)
        BY <4>1, ConcatAdjacentSubSeq
      <4>4. m # 1 BY <2>2, <3>2
      <4> QED BY <2>4, <2>6, <3>2, <4>2, <4>3, <4>4 DEF x
    <3> QED BY <2>2, <3>1, <3>2
  <2>8. Append(acc.pieces, x) \in Seq(Seq(A)) /\ Append(acc.pieces, x) # <<>>
    BY <1>1a, <2>3, AppendProperties
  <2>9. new.start = q + 1 /\ new.pieces = Append(acc.pieces, x) BY <2>1
  <2>10. /\ q + 1 \in 1 .. q + 1 /\ q + 1 # 1 /\ (q + 1) - 2 = q - 1 /\ (q + 1) - 1 = q
         /\ (q + 1 <= n + 1 => q <= n) /\ (q = n + 1 => q + 1 >= n + 1)
    BY <1>1, <2>2
  <2> HIDE DEF new
  <2>11. CutSoFar(A, c, d, q, new)
    BY <2>2, <2>7, <2>8, <2>9, <2>10 DEF CutSoFar
  <2> QED BY <2>11 DEF new, q
<1> QED BY <1>2, <1>3

\* No character of a text is lost, but for one delimiter at its end.
LEMMA SplitLosesNothingOf ==
    ASSUME NEW A, NEW c \in Seq(A), c # <<>>, NEW d \in A
    PROVE  c \in {Joined(string_split(c, d), d), Append(Joined(string_split(c, d), d), d)}
<1>1. PICK acc : /\ acc[0] = Uncut
                 /\ \A p \in 0 .. Len(c) : acc[p + 1] = Cut(c, d, acc[p], p + 1)
                 /\ string_split(c, d) = acc[Len(c) + 1].pieces
  BY SplitRounds
<1> DEFINE n == Len(c)
           S == {p \in Nat : p <= n + 1 => CutSoFar(A, c, d, p, acc[p])}
<1>2. n \in Nat /\ n # 0 OBVIOUS
<1>3. 0 \in S
  <2>1. acc[0].start = 1 /\ acc[0].pieces = <<>> BY <1>1 DEF Uncut
  <2>2. CutSoFar(A, c, d, 0, acc[0]) BY <1>2, <2>1 DEF CutSoFar
  <2> QED BY <2>2
<1>4. ASSUME NEW p \in Nat, p \in S PROVE p + 1 \in S
  <2> SUFFICES ASSUME p + 1 <= n + 1 PROVE CutSoFar(A, c, d, p + 1, acc[p + 1]) OBVIOUS
  <2>1. p \in 0 .. n /\ CutSoFar(A, c, d, p, acc[p]) BY <1>2, <1>4
  <2>2. acc[p + 1] = Cut(c, d, acc[p], p + 1) BY <1>1, <2>1
  <2> QED BY <2>1, <2>2, CutLosesNothing
<1>5. CutSoFar(A, c, d, n + 1, acc[n + 1])
  <2>1. n + 1 \in S
    <3> HIDE DEF S
    <3> QED BY <1>2, <1>3, <1>4, InductionSet
  <2> QED BY <1>2, <2>1
<1> DEFINE m == acc[n + 1].start
           w == Joined(string_split(c, d), d)
<1>6. /\ m \in {n + 1, n + 2} /\ w = SubSeq(c, 1, m - 2) /\ (m = n + 1 => c[n] = d)
  <2>1. m \in 1 .. n + 2 /\ m >= n + 1 BY <1>2, <1>5 DEF CutSoFar
  <2>2. m > 1 /\ (m = n + 1 => m - 1 = n) BY <1>2, <2>1
  <2> QED BY <1>1, <1>2, <1>5, <2>1, <2>2 DEF CutSoFar
<1> HIDE DEF m, w
<1>7. CASE m = n + 2
  <2>1. m - 2 = n BY <1>2, <1>7
  <2> QED BY <1>6, <2>1, SubSeqFull DEF w
<1>8. CASE m = n + 1
  <2>1. m - 2 = n - 1 /\ 1 \in 1 .. n /\ n \in 1 .. n BY <1>2, <1>8
  <2>2. SubSeq(c, 1, n) = SubSeq(c, 1, n - 1) \o <<c[n]>>
    BY <2>1, SubSeqRecursiveSecond
  <2>3. w \in Seq(A) /\ c[n] = d BY <1>2, <1>6, <1>8, <2>1
  <2>4. Append(w, d) = c BY <1>6, <2>1, <2>2, <2>3, SubSeqFull, AppendIsConcat
  <2> QED BY <2>4 DEF w
<1> QED BY <1>6, <1>7, <1>8

\* The elements of S up to i, and the k-th element.
UpTo(S, i) == {j \in S : j <= i}
Nth(S, k) == CHOOSE i \in S : Cardinality(UpTo(S, i)) = k
Shift(a, S) == {a + i : i \in S}

\* The sets of positions up to n.
Positions(n) == SUBSET (1 .. n)

\* Positions are numbers.
LEMMA PositionsAre ==
    ASSUME NEW n \in Nat, NEW S \in Positions(n)
    PROVE  \A x \in S : x \in 1 .. n /\ x \in Nat /\ x \in Int
  BY DEF Positions

\* What is among positions is positions.
LEMMA SubPositions ==
    ASSUME NEW n \in Nat, NEW S \in Positions(n)
    PROVE  /\ \A X : X \subseteq S => X \in Positions(n)
           /\ S \subseteq 1 .. n
           /\ \A i : UpTo(S, i) \in Positions(n) /\ UpTo(S, i) \subseteq S
  BY DEF Positions, UpTo

\* Sets of positions are finite.
LEMMA PositionsFinite ==
    ASSUME NEW n \in Nat, NEW S \in Positions(n)
    PROVE  IsFiniteSet(S) /\ Cardinality(S) \in Nat
<1>1. IsFiniteSet(1 .. n) BY FS_Interval
<1> QED BY <1>1, FS_Subset, FS_CardinalityType DEF Positions

\* A later element has a greater number.
LEMMA UpToGrows ==
    ASSUME NEW n \in Nat, NEW S \in Positions(n), NEW i \in S, NEW j \in S, i < j
    PROVE  Cardinality(UpTo(S, i)) < Cardinality(UpTo(S, j))
<1>0. \A x \in S : x \in Int BY PositionsAre
<1>1. UpTo(S, i) \subseteq UpTo(S, j) /\ j \in UpTo(S, j) /\ j \notin UpTo(S, i)
  BY <1>0 DEF UpTo
<1>2. UpTo(S, i) \in Positions(n) /\ UpTo(S, j) \in Positions(n)
  BY SubPositions
<1>3. /\ IsFiniteSet(UpTo(S, j)) /\ Cardinality(UpTo(S, j)) \in Nat
      /\ Cardinality(UpTo(S, i)) \in Nat
  BY <1>2, PositionsFinite
<1> QED BY <1>1, <1>3, FS_Subset

\* There is a k-th element, for every k up to the number of all.
LEMMA NthExists ==
    ASSUME NEW n \in Nat, NEW S \in Positions(n), NEW k \in 1 .. Cardinality(S)
    PROVE  \E i \in S : Cardinality(UpTo(S, i)) = k
<1> DEFINE T == {i \in S : k <= Cardinality(UpTo(S, i))}
<1>1. \A i : /\ UpTo(S, i) \in Positions(n) /\ IsFiniteSet(UpTo(S, i))
             /\ Cardinality(UpTo(S, i)) \in Nat
  <2>1. \A i : UpTo(S, i) \in Positions(n) BY SubPositions
  <2> QED BY <2>1, PositionsFinite
<1>2. IsFiniteSet(S) /\ Cardinality(S) \in Nat BY PositionsFinite
<1>3. S # {} BY <1>2, FS_EmptySet
<1>3a. \A x \in S : x \in Nat /\ x \in Int BY PositionsAre
<1>4. T # {}
  <2>1. Max(S) \in S /\ \A x \in S : x <= Max(S) BY <1>3, PositionsBounded DEF Positions
  <2>2. UpTo(S, Max(S)) = S BY <2>1 DEF UpTo
  <2>3. Max(S) \in T BY <1>2, <2>1, <2>2
  <2> QED BY <2>3
<1>5. PICK i \in T : \A x \in T : i <= x
  <2>1. T \subseteq Nat BY <1>3a
  <2> HIDE DEF T
  <2> QED BY <1>4, <2>1, LeastNat
<1>6. ASSUME Cardinality(UpTo(S, i)) > k PROVE FALSE
  <2> DEFINE U == UpTo(S, i) \ {i}
  <2>1. i \in UpTo(S, i)
    <3>1. i \in S /\ i <= i BY <1>3a
    <3> QED BY <3>1 DEF UpTo
  <2>2. Cardinality(U) = Cardinality(UpTo(S, i)) - 1
    BY <1>1, <2>1, FS_RemoveElement
  <2>3. U \in Positions(n) /\ IsFiniteSet(U)
    <3>1. U \in Positions(n) BY SubPositions DEF UpTo
    <3> HIDE DEF U
    <3> QED BY <3>1, PositionsFinite
  <2>4. Cardinality(U) \in Nat /\ k <= Cardinality(U) BY <1>1, <1>6, <2>2, <2>3, PositionsFinite
  <2>5. U # {} BY <2>4, FS_EmptySet
  <2>6. Max(U) \in U /\ \A x \in U : x <= Max(U)
    <3> HIDE DEF U
    <3> QED BY <2>3, <2>5, PositionsBounded DEF Positions
  <2>7. Max(U) \in S /\ Max(U) < i
    <3>1. \A x \in U : x \in S /\ x <= i /\ x # i BY DEF UpTo
    <3>2. i \in S OBVIOUS
    <3> HIDE DEF U
    <3> QED BY <1>3a, <2>6, <3>1, <3>2
  <2>8. UpTo(S, Max(U)) = U
    <3>1. ASSUME NEW x \in U PROVE x \in UpTo(S, Max(U)) BY <2>6, <3>1 DEF UpTo
    <3>2. ASSUME NEW x \in UpTo(S, Max(U)) PROVE x \in U
      <4>1. x \in S /\ x <= Max(U) BY <3>2 DEF UpTo
      <4>2. i \in S OBVIOUS
      <4> HIDE DEF U
      <4>3. x \in S /\ x <= i /\ x # i BY <1>3a, <2>7, <4>1, <4>2
      <4> QED BY <4>3 DEF U, UpTo
    <3> QED BY <3>1, <3>2
  <2>9. Max(U) \in T BY <2>4, <2>7, <2>8
  <2>10. i <= Max(U)
    <3> HIDE DEF T, U
    <3> QED BY <1>5, <2>9
  <2>11. i \in S OBVIOUS
  <2> HIDE DEF T, U
  <2> QED BY <1>3a, <2>7, <2>10, <2>11
<1>7. Cardinality(UpTo(S, i)) = k
  <2>1. Cardinality(UpTo(S, i)) \in Nat BY <1>1
  <2>2. k <= Cardinality(UpTo(S, i)) OBVIOUS
  <2> QED BY <1>6, <2>1, <2>2
<1> QED BY <1>7

\* It is the one that Nth() chooses.
LEMMA NthIs ==
    ASSUME NEW n \in Nat, NEW S \in Positions(n), NEW k \in 1 .. Cardinality(S)
    PROVE  /\ Nth(S, k) \in S /\ Cardinality(UpTo(S, Nth(S, k))) = k
           /\ \A i \in S : Cardinality(UpTo(S, i)) = k => Nth(S, k) = i
<1>1. Nth(S, k) \in S /\ Cardinality(UpTo(S, Nth(S, k))) = k
  BY NthExists DEF Nth
<1>2. ASSUME NEW i \in S, Cardinality(UpTo(S, i)) = k PROVE Nth(S, k) = i
  <2>0. \A x \in S : x \in Int BY PositionsAre
  <2>1. i \in Int /\ Nth(S, k) \in Int BY <1>1, <2>0
  <2>1a. \A x, y \in S : x < y => Cardinality(UpTo(S, x)) < Cardinality(UpTo(S, y)) BY UpToGrows
  <2>2. ~(i < Nth(S, k)) BY <1>1, <1>2, <2>1a
  <2>3. ~(Nth(S, k) < i) BY <1>1, <1>2, <2>1a
  <2> QED BY <2>1, <2>2, <2>3
<1> QED BY <1>1, <1>2

\* A shift changes no number.
LEMMA ShiftCounts ==
    ASSUME NEW n \in Nat, NEW S \in Positions(n), NEW a \in Nat
    PROVE  IsFiniteSet(Shift(a, S)) /\ Cardinality(Shift(a, S)) = Cardinality(S)
<1> DEFINE f == [i \in S |-> a + i]
<1>1. f \in [S -> Shift(a, S)] BY DEF Shift
<1>2. \A i, j \in S : f[i] = f[j] => i = j
  <2> SUFFICES ASSUME NEW i \in S, NEW j \in S, f[i] = f[j] PROVE i = j OBVIOUS
  <2>1. i \in Int /\ j \in Int BY PositionsAre
  <2>2. a + i = a + j OBVIOUS
  <2> QED BY <2>1, <2>2
<1>3. \A t \in Shift(a, S) : \E i \in S : f[i] = t BY DEF Shift
<1>4. ExistsBijection(S, Shift(a, S))
  <2> HIDE DEF f
  <2> QED BY <1>1, <1>2, <1>3 DEF ExistsBijection, Bijection, Injection, Surjection, IsInjective
<1>5. IsFiniteSet(S) BY PositionsFinite
<1> QED BY <1>4, <1>5, FS_Bijection

\* The elements of S come first in S and the elements of T behind the position a.
LEMMA NthOfBoth ==
    ASSUME NEW a \in Nat, NEW S \in Positions(a), NEW b \in Nat, NEW T \in Positions(b)
    PROVE  LET Q == S \cup Shift(a, T) IN
           /\ Cardinality(Q) = Cardinality(S) + Cardinality(T)
           /\ \A k \in 1 .. Cardinality(S) : Nth(Q, k) = Nth(S, k)
           /\ \A k \in 1 .. Cardinality(T) : Nth(Q, Cardinality(S) + k) = a + Nth(T, k)
<1> DEFINE Q == S \cup Shift(a, T)
<1>1. /\ IsFiniteSet(S) /\ Cardinality(S) \in Nat /\ IsFiniteSet(T) /\ Cardinality(T) \in Nat
  BY PositionsFinite
<1>2. a + b \in Nat /\ Q \in Positions(a + b)
  <2>1. ASSUME NEW x \in Shift(a, T) PROVE x \in 1 .. a + b
    <3>1. PICK i \in T : x = a + i BY DEF Shift
    <3>2. i \in 1 .. b BY PositionsAre
    <3> QED BY <3>1, <3>2
  <2>2. \A x \in S : x \in 1 .. a BY PositionsAre
  <2>3. \A x \in S : x \in 1 .. a + b BY <2>2
  <2>4. Q \subseteq 1 .. a + b BY <2>1, <2>3
  <2>5. a + b \in Nat OBVIOUS
  <2> HIDE DEF Q
  <2> QED BY <2>4, <2>5 DEF Positions
<1>3. ASSUME NEW X, X \subseteq T
      PROVE  Cardinality(S \cup Shift(a, X)) = Cardinality(S) + Cardinality(X)
  <2>1. X \in Positions(b) BY <1>3, SubPositions
  <2>2. IsFiniteSet(Shift(a, X)) /\ Cardinality(Shift(a, X)) = Cardinality(X)
    BY <2>1, ShiftCounts
  <2>3. S \cap Shift(a, X) = {}
    <3> SUFFICES ASSUME NEW x \in S, x \in Shift(a, X) PROVE FALSE OBVIOUS
    <3>1. PICK i \in X : x = a + i BY DEF Shift
    <3>2. x \in 1 .. a /\ i \in 1 .. b BY <2>1, PositionsAre
    <3> QED BY <3>1, <3>2
  <2>4. Cardinality(X) \in Nat BY <2>1, PositionsFinite
  <2>5. Cardinality(S \cap Shift(a, X)) = 0 BY <2>3, FS_EmptySet
  <2>6. Cardinality(S \cup Shift(a, X)) = Cardinality(S) + Cardinality(Shift(a, X)) - Cardinality(S \cap Shift(a, X))
    BY <1>1, <2>2, FS_Union
  <2> QED BY <1>1, <2>2, <2>4, <2>5, <2>6
<1>4. Cardinality(Q) = Cardinality(S) + Cardinality(T) BY <1>3
<1>5. ASSUME NEW k \in 1 .. Cardinality(S) PROVE Nth(Q, k) = Nth(S, k)
  <2>1. Nth(S, k) \in S /\ Cardinality(UpTo(S, Nth(S, k))) = k BY NthIs
  <2>2. UpTo(Q, Nth(S, k)) = UpTo(S, Nth(S, k))
    <3>1. ASSUME NEW x \in Shift(a, T), x <= Nth(S, k) PROVE FALSE
      <4>1. PICK i \in T : x = a + i BY DEF Shift
      <4>2. Nth(S, k) \in 1 .. a /\ i \in 1 .. b BY <2>1, PositionsAre
      <4> QED BY <3>1, <4>1, <4>2
    <3> QED BY <3>1 DEF UpTo
  <2>3. k \in 1 .. Cardinality(Q) BY <1>1, <1>4
  <2>4. Nth(S, k) \in Q /\ Cardinality(UpTo(Q, Nth(S, k))) = k BY <2>1, <2>2
  <2> HIDE DEF Q
  <2> QED BY <1>2, <2>3, <2>4, NthIs
<1>6. ASSUME NEW k \in 1 .. Cardinality(T) PROVE Nth(Q, Cardinality(S) + k) = a + Nth(T, k)
  <2> DEFINE i == Nth(T, k)
  <2>1. i \in T /\ Cardinality(UpTo(T, i)) = k BY NthIs
  <2> HIDE DEF i
  <2>2. UpTo(Q, a + i) = S \cup Shift(a, UpTo(T, i))
    <3>1. ASSUME NEW x \in UpTo(Q, a + i) PROVE x \in S \cup Shift(a, UpTo(T, i))
      <4>1. x \in S \/ x \in Shift(a, T) BY DEF UpTo
      <4>2. CASE x \in Shift(a, T)
        <5>1. PICK j \in T : x = a + j BY <4>2 DEF Shift
        <5>2. j <= i BY <2>1, <5>1 DEF UpTo
        <5> QED BY <5>1, <5>2 DEF UpTo, Shift
      <4> QED BY <4>1, <4>2
    <3>2. ASSUME NEW x \in S PROVE x \in UpTo(Q, a + i)
      <4>0. x \in 1 .. a /\ i \in 1 .. b BY <2>1, PositionsAre
      <4>1. x <= a + i BY <4>0
      <4> QED BY <4>1 DEF UpTo
    <3>3. ASSUME NEW x \in Shift(a, UpTo(T, i)) PROVE x \in UpTo(Q, a + i)
      <4>1. PICK j \in T : x = a + j /\ j <= i BY DEF UpTo, Shift
      <4>2. i \in 1 .. b /\ j \in 1 .. b BY <2>1, <4>1, PositionsAre
      <4>3. x <= a + i BY <4>1, <4>2
      <4>4. x \in Q BY <4>1 DEF Shift
      <4> QED BY <4>3, <4>4 DEF UpTo
    <3> QED BY <3>1, <3>2, <3>3
  <2>3. Cardinality(UpTo(Q, a + i)) = Cardinality(S) + k
    <3>1. UpTo(T, i) \subseteq T BY DEF UpTo
    <3> QED BY <1>3, <2>1, <2>2, <3>1
  <2>4. Cardinality(S) + k \in 1 .. Cardinality(Q) BY <1>1, <1>4
  <2>5. a + i \in Q BY <2>1 DEF Shift
  <2> HIDE DEF Q
  <2>7. Nth(Q, Cardinality(S) + k) = a + i BY <1>2, <2>3, <2>4, <2>5, NthIs
  <2> QED BY <2>7 DEF i
<1> QED BY <1>4, <1>5, <1>6

\* The names of a path, by where they start and where they end.
NameStarts(p) == {i \in DOMAIN p : ~is_sep(p[i]) /\ (i = 1 \/ is_sep(p[i - 1]))}
EndsAt(p, j) == j = Len(p) \/ is_sep(p[j + 1])
NameEnd(p, i) == Min({j \in i .. Len(p) : EndsAt(p, j)})
NameAt(p, i) == SubSeq(p, i, NameEnd(p, i))

\* The names of a path, in these words.
LEMMA NamesAre ==
    ASSUME NEW p
    PROVE  NamesOf(p) = [k \in 1 .. Cardinality(NameStarts(p)) |-> NameAt(p, Nth(NameStarts(p), k))]
  BY DEF NamesOf, NameStarts, NameAt, NameEnd, EndsAt, Nth, UpTo

\* Where names start.
LEMMA StartsAre ==
    ASSUME NEW A, NEW p \in Seq(A)
    PROVE  /\ NameStarts(p) \in Positions(Len(p)) /\ Len(p) \in Nat
           /\ \A i \in 1 .. Len(p) :
                 i \in NameStarts(p) <=> ~is_sep(p[i]) /\ (i = 1 \/ is_sep(p[i - 1]))
<1>1. Len(p) \in Nat /\ DOMAIN p = 1 .. Len(p) OBVIOUS
<1> QED BY <1>1 DEF NameStarts, Positions

\* A name ends in front of the first separator behind its start, or with the path.
LEMMA EndIs ==
    ASSUME NEW A, NEW p \in Seq(A), NEW i \in 1 .. Len(p)
    PROVE  /\ NameEnd(p, i) \in i .. Len(p) /\ EndsAt(p, NameEnd(p, i))
           /\ \A j \in i .. NameEnd(p, i) - 1 : ~EndsAt(p, j)
           /\ \A e \in i .. Len(p) :
                 EndsAt(p, e) /\ (\A j \in i .. e - 1 : ~EndsAt(p, j)) => NameEnd(p, i) = e
<1> DEFINE S == {j \in i .. Len(p) : EndsAt(p, j)}
<1>1. Len(p) \in Nat /\ Len(p) \in S BY DEF EndsAt
<1>2. S \subseteq 1 .. Len(p) /\ S # {} BY <1>1
<1>3. \A x \in S : x \in i .. Len(p) /\ EndsAt(p, x) OBVIOUS
<1>4. \A x \in i .. Len(p) : EndsAt(p, x) => x \in S OBVIOUS
<1>5. NameEnd(p, i) = Min(S) BY DEF NameEnd
<1> HIDE DEF S
<1>6. Min(S) \in S /\ \A x \in S : Min(S) <= x BY <1>1, <1>2, PositionsBounded
<1>7. Min(S) \in i .. Len(p) /\ EndsAt(p, Min(S)) BY <1>3, <1>6
<1>8. ASSUME NEW j \in i .. Min(S) - 1, EndsAt(p, j) PROVE FALSE
  <2>1. j \in i .. Len(p) BY <1>1, <1>7
  <2>2. j \in S BY <1>4, <1>8, <2>1
  <2>3. Min(S) <= j BY <1>6, <2>2
  <2> QED BY <1>7, <2>3
<1>9. ASSUME NEW e \in i .. Len(p), EndsAt(p, e), \A j \in i .. e - 1 : ~EndsAt(p, j)
      PROVE  Min(S) = e
  <2>1. e \in S BY <1>4, <1>9
  <2>2. Min(S) <= e BY <1>6, <2>1
  <2>3. ~(Min(S) \in i .. e - 1) BY <1>7, <1>9
  <2> QED BY <1>7, <2>2, <2>3
<1> QED BY <1>5, <1>7, <1>8, <1>9

\* Between the two paths a name can only end.
Seam(u, w) == u = <<>> \/ w = <<>> \/ is_sep(u[Len(u)]) \/ is_sep(w[1])

\* The starts of both are those of the first and, behind it, those of the second.
LEMMA StartsOfBoth ==
    ASSUME NEW A, NEW u \in Seq(A), NEW w \in Seq(A), Seam(u, w)
    PROVE  NameStarts(u \o w) = NameStarts(u) \cup Shift(Len(u), NameStarts(w))
<1> DEFINE a == Len(u)
           b == Len(w)
           q == u \o w
<1>1. /\ q \in Seq(A) /\ Len(q) = a + b /\ a \in Nat /\ b \in Nat
      /\ \A i \in 1 .. a : q[i] = u[i]
      /\ \A i \in 1 .. b : q[a + i] = w[i]
  BY ConcatProperties
<1>2. (u = <<>> <=> a = 0) /\ (w = <<>> <=> b = 0) OBVIOUS
<1>3. /\ NameStarts(q) \in Positions(a + b)
      /\ \A i \in 1 .. a + b : i \in NameStarts(q) <=> ~is_sep(q[i]) /\ (i = 1 \/ is_sep(q[i - 1]))
  <2> HIDE DEF q
  <2> QED BY <1>1, StartsAre
<1>4. /\ NameStarts(u) \in Positions(a)
      /\ \A i \in 1 .. a : i \in NameStarts(u) <=> ~is_sep(u[i]) /\ (i = 1 \/ is_sep(u[i - 1]))
  BY StartsAre
<1>5. /\ NameStarts(w) \in Positions(b)
      /\ \A i \in 1 .. b : i \in NameStarts(w) <=> ~is_sep(w[i]) /\ (i = 1 \/ is_sep(w[i - 1]))
  BY StartsAre
<1> HIDE DEF q, a, b
<1>6. ASSUME NEW i \in 1 .. a PROVE i \in NameStarts(q) <=> i \in NameStarts(u)
  <2>1. i \in 1 .. a + b BY <1>1
  <2>2. i = 1 \/ i - 1 \in 1 .. a BY <1>1
  <2>3. q[i] = u[i] /\ (i = 1 \/ q[i - 1] = u[i - 1]) BY <1>1, <2>2
  <2> QED BY <1>3, <1>4, <2>1, <2>3
<1>7. ASSUME NEW i \in 1 .. b PROVE a + i \in NameStarts(q) <=> i \in NameStarts(w)
  <2>1. a + i \in 1 .. a + b /\ q[a + i] = w[i] BY <1>1
  <2>2. CASE i = 1 /\ a = 0
    <3>1. a + i = 1 BY <2>2
    <3> QED BY <1>3, <1>5, <2>1, <2>2, <3>1
  <2>3. CASE i = 1 /\ a # 0
    <3>1. a + i # 1 /\ (a + i) - 1 = a /\ a \in 1 .. a BY <1>1, <2>3
    <3>2. is_sep(u[a]) \/ is_sep(w[1])
      <4>1. b # 0 BY <1>1
      <4> QED BY <1>2, <2>3, <4>1 DEF Seam, a
    <3>3. q[(a + i) - 1] = u[a] BY <1>1, <3>1
    <3> QED BY <1>3, <1>5, <2>1, <2>3, <3>1, <3>2, <3>3
  <2>4. CASE i # 1
    <3>1. a + i # 1 /\ (a + i) - 1 = a + (i - 1) /\ i - 1 \in 1 .. b BY <1>1, <2>4
    <3>2. q[(a + i) - 1] = w[i - 1] BY <1>1, <3>1
    <3> QED BY <1>3, <1>5, <2>1, <2>4, <3>1, <3>2
  <2> QED BY <2>2, <2>3, <2>4
<1>8. ASSUME NEW x \in NameStarts(q) PROVE x \in NameStarts(u) \cup Shift(a, NameStarts(w))
  <2>1. x \in 1 .. a + b /\ x \in Int /\ a + b \in Nat BY <1>1, <1>3, PositionsAre
  <2>2. CASE x \in 1 .. a BY <1>6, <2>2
  <2>3. CASE x > a
    <3>1. x - a \in 1 .. b /\ a + (x - a) = x BY <1>1, <2>1, <2>3
    <3>2. x - a \in NameStarts(w) BY <1>7, <3>1
    <3>3. a + (x - a) \in Shift(a, NameStarts(w)) BY <3>2 DEF Shift
    <3> QED BY <3>1, <3>3
  <2> QED BY <1>1, <2>1, <2>2, <2>3
<1>9. ASSUME NEW x \in NameStarts(u) PROVE x \in NameStarts(q)
  <2>1. x \in 1 .. a BY <1>1, <1>4, PositionsAre
  <2> QED BY <1>6, <2>1
<1>10. ASSUME NEW x \in Shift(a, NameStarts(w)) PROVE x \in NameStarts(q)
  <2>1. PICK i \in NameStarts(w) : x = a + i BY DEF Shift
  <2>2. i \in 1 .. b BY <1>1, <1>5, PositionsAre
  <2> QED BY <1>7, <2>1, <2>2
<1>11. NameStarts(q) = NameStarts(u) \cup Shift(a, NameStarts(w)) BY <1>8, <1>9, <1>10
<1> QED BY <1>11 DEF q, a

\* Each name of the first ends where it ended, and so does each of the second.
LEMMA NameOfBoth ==
    ASSUME NEW A, NEW u \in Seq(A), NEW w \in Seq(A), Seam(u, w)
    PROVE  /\ \A i \in NameStarts(u) : NameAt(u \o w, i) = NameAt(u, i)
           /\ \A i \in NameStarts(w) : NameAt(u \o w, Len(u) + i) = NameAt(w, i)
<1> DEFINE a == Len(u)
           b == Len(w)
           q == u \o w
<1>1. /\ q \in Seq(A) /\ Len(q) = a + b /\ a \in Nat /\ b \in Nat
      /\ \A i \in 1 .. a : q[i] = u[i]
      /\ \A i \in 1 .. b : q[a + i] = w[i]
  BY ConcatProperties
<1>2. (u = <<>> <=> a = 0) /\ (w = <<>> <=> b = 0) OBVIOUS
<1>3. ASSUME NEW i \in NameStarts(u) PROVE NameAt(q, i) = NameAt(u, i)
  <2> DEFINE e == NameEnd(u, i)
  <2>1. i \in 1 .. a /\ ~is_sep(u[i]) BY <1>1, StartsAre, PositionsAre
  <2>2. e \in i .. a /\ EndsAt(u, e) /\ \A j \in i .. e - 1 : ~EndsAt(u, j)
    BY <2>1, EndIs
  <2> HIDE DEF a, b, q, e
  <2>3. EndsAt(q, e)
    <3>1. CASE e # a
      <4>1. is_sep(u[e + 1]) BY <2>2, <3>1 DEF EndsAt, a
      <4>2. e + 1 \in 1 .. a BY <1>1, <2>1, <2>2, <3>1
      <4> QED BY <1>1, <4>1, <4>2 DEF EndsAt
    <3>2. CASE e = a /\ b # 0
      <4>1. ~is_sep(u[a])
        <5>1. CASE i = e BY <2>1, <3>2, <5>1
        <5>2. CASE i # e
          <6>1. e - 1 \in i .. e - 1 /\ (e - 1) + 1 = e BY <1>1, <2>1, <2>2, <5>2
          <6> QED BY <2>2, <3>2, <6>1 DEF EndsAt
        <5> QED BY <5>1, <5>2
      <4>2. a # 0 BY <1>1, <2>1
      <4>3. is_sep(w[1]) BY <1>2, <3>2, <4>1, <4>2 DEF Seam, a
      <4>4. q[a + 1] = w[1] BY <1>1, <3>2
      <4> QED BY <3>2, <4>3, <4>4 DEF EndsAt
    <3>3. CASE e = a /\ b = 0
      <4>1. e = Len(q) BY <1>1, <3>3
      <4> QED BY <4>1 DEF EndsAt
    <3> QED BY <3>1, <3>2, <3>3
  <2>4. ASSUME NEW j \in i .. e - 1 PROVE ~EndsAt(q, j)
    <3>1. j + 1 \in 1 .. a /\ j # a + b BY <1>1, <2>1, <2>2
    <3>2. ~is_sep(u[j + 1]) BY <2>2 DEF EndsAt
    <3> QED BY <1>1, <3>1, <3>2 DEF EndsAt
  <2>5. NameEnd(q, i) = e
    <3>1. i \in 1 .. Len(q) /\ e \in i .. Len(q) BY <1>1, <2>1, <2>2
    <3> QED BY <1>1, <2>3, <2>4, <3>1, EndIs
  <2>6. SubSeq(q, i, e) = SubSeq(u, i, e)
    <3>1. i \in 1 .. a /\ e \in 1 .. a BY <1>1, <2>1, <2>2
    <3> QED BY <3>1, SubSeqOfConcat1 DEF q, a
  <2> QED BY <2>5, <2>6 DEF NameAt, e
<1>4. ASSUME NEW i \in NameStarts(w) PROVE NameAt(q, a + i) = NameAt(w, i)
  <2> DEFINE e == NameEnd(w, i)
  <2>1. i \in 1 .. b BY <1>1, StartsAre, PositionsAre
  <2>2. e \in i .. b /\ EndsAt(w, e) /\ \A j \in i .. e - 1 : ~EndsAt(w, j)
    BY <2>1, EndIs
  <2>3. \A j \in i .. b : EndsAt(w, j) <=> EndsAt(q, a + j)
    <3> SUFFICES ASSUME NEW j \in i .. b PROVE EndsAt(w, j) <=> EndsAt(q, a + j) OBVIOUS
    <3> HIDE DEF q, a, b
    <3>1. j = b <=> a + j = a + b BY <1>1, <2>1
    <3>2. CASE j = b BY <1>1, <3>1, <3>2 DEF EndsAt, b
    <3>3. CASE j # b
      <4>1. j + 1 \in 1 .. b /\ (a + j) + 1 = a + (j + 1) BY <1>1, <2>1, <3>3
      <4>2. q[(a + j) + 1] = w[j + 1] BY <1>1, <4>1
      <4> QED BY <1>1, <3>1, <3>3, <4>2 DEF EndsAt, b
    <3> QED BY <3>2, <3>3
  <2> HIDE DEF a, b, q, e
  <2>4. NameEnd(q, a + i) = a + e
    <3>1. a + i \in 1 .. Len(q) /\ a + e \in a + i .. Len(q) BY <1>1, <2>1, <2>2
    <3>2. EndsAt(q, a + e) /\ e \in i .. b BY <2>2, <2>3
    <3>3. ASSUME NEW j \in a + i .. (a + e) - 1 PROVE ~EndsAt(q, j)
      <4>1. j - a \in i .. e - 1 /\ j - a \in i .. b /\ a + (j - a) = j BY <1>1, <2>1, <2>2
      <4>2. ~EndsAt(q, a + (j - a)) BY <2>2, <2>3, <4>1
      <4> QED BY <4>1, <4>2
    <3> QED BY <1>1, <3>1, <3>2, <3>3, EndIs
  <2>5. SubSeq(q, a + i, a + e) = SubSeq(w, i, e)
    <3>1. /\ a + i \in a + 1 .. a + b /\ a + e \in a + 1 .. a + b
          /\ (a + i) - a = i /\ (a + e) - a = e
      BY <1>1, <2>1, <2>2
    <3>2. SubSeq(q, a + i, a + e) = SubSeq(w, (a + i) - a, (a + e) - a)
      BY <3>1, SubSeqOfConcat2 DEF q, a, b
    <3> QED BY <3>1, <3>2
  <2> QED BY <2>4, <2>5 DEF NameAt, e
<1> QED BY <1>3, <1>4

\* A name is a string.
LEMMA NamesAreStrings ==
    ASSUME NEW A, NEW p \in Seq(A)
    PROVE  NamesOf(p) \in Seq(Seq(A)) /\ Len(NamesOf(p)) = Cardinality(NameStarts(p))
<1> DEFINE S == NameStarts(p)
<1>1. S \in Positions(Len(p)) /\ Len(p) \in Nat /\ Cardinality(S) \in Nat
  BY StartsAre, PositionsFinite
<1>2. ASSUME NEW k \in 1 .. Cardinality(S) PROVE NameAt(p, Nth(S, k)) \in Seq(A)
  <2>1. Nth(S, k) \in 1 .. Len(p)
    <3> HIDE DEF S
    <3> QED BY <1>1, NthIs, PositionsAre
  <2>2. NameEnd(p, Nth(S, k)) \in Nth(S, k) .. Len(p) BY <2>1, EndIs
  <2> DEFINE i == Nth(S, k)
             e == NameEnd(p, i)
  <2>3. i \in 1 .. Len(p) /\ e \in i .. Len(p) BY <2>1, <2>2
  <2> HIDE DEF i, e
  <2>4. SubSeq(p, i, e) \in Seq(A) BY <1>1, <2>3
  <2> QED BY <2>4 DEF NameAt, i, e
<1>3. NamesOf(p) = [k \in 1 .. Cardinality(S) |-> NameAt(p, Nth(S, k))] BY NamesAre
<1> HIDE DEF S
<1>4. NamesOf(p) \in Seq(Seq(A)) /\ Len(NamesOf(p)) = Cardinality(S) BY <1>1, <1>2, <1>3
<1> QED BY <1>4 DEF S

\* The names of both are the names of the first and those of the second.
LEMMA NamesOfBoth ==
    ASSUME NEW A, NEW u \in Seq(A), NEW w \in Seq(A), Seam(u, w)
    PROVE  NamesOf(u \o w) = NamesOf(u) \o NamesOf(w)
<1> DEFINE S == NameStarts(u)
           T == NameStarts(w)
           Q == NameStarts(u \o w)
           m == Cardinality(S)
           n == Cardinality(T)
<1>1. /\ Len(u) \in Nat /\ S \in Positions(Len(u)) /\ m \in Nat
      /\ Len(w) \in Nat /\ T \in Positions(Len(w)) /\ n \in Nat
  BY StartsAre, PositionsFinite
<1>2. Q = S \cup Shift(Len(u), T) BY StartsOfBoth
<1>3. /\ Cardinality(Q) = m + n
      /\ \A k \in 1 .. m : Nth(Q, k) = Nth(S, k)
      /\ \A k \in 1 .. n : Nth(Q, m + k) = Len(u) + Nth(T, k)
  <2> HIDE DEF S, T, Q
  <2>1. LET R == S \cup Shift(Len(u), T) IN
        /\ Cardinality(R) = Cardinality(S) + Cardinality(T)
        /\ \A k \in 1 .. Cardinality(S) : Nth(R, k) = Nth(S, k)
        /\ \A k \in 1 .. Cardinality(T) : Nth(R, Cardinality(S) + k) = Len(u) + Nth(T, k)
    BY <1>1, NthOfBoth, Zenon
  <2> QED BY <1>2, <2>1, Zenon
<1>4. /\ \A k \in 1 .. m : Nth(S, k) \in S
      /\ \A k \in 1 .. n : Nth(T, k) \in T
  <2> HIDE DEF S, T
  <2> QED BY <1>1, NthIs
<1>5. /\ NamesOf(u \o w) = [k \in 1 .. m + n |-> NameAt(u \o w, Nth(Q, k))]
      /\ NamesOf(u) = [k \in 1 .. m |-> NameAt(u, Nth(S, k))]
      /\ NamesOf(w) = [k \in 1 .. n |-> NameAt(w, Nth(T, k))]
  BY <1>3, NamesAre
<1>6. /\ \A i \in S : NameAt(u \o w, i) = NameAt(u, i)
      /\ \A i \in T : NameAt(u \o w, Len(u) + i) = NameAt(w, i)
  BY NameOfBoth
<1> HIDE DEF S, T, Q, m, n
<1>7. ASSUME NEW k \in 1 .. m + n
      PROVE  NameAt(u \o w, Nth(Q, k)) = IF k <= m THEN NamesOf(u)[k] ELSE NamesOf(w)[k - m]
  <2>1. CASE k <= m
    <3>1. k \in 1 .. m BY <1>1, <2>1
    <3> QED BY <1>3, <1>4, <1>5, <1>6, <2>1, <3>1
  <2>2. CASE ~(k <= m)
    <3>1. k - m \in 1 .. n /\ m + (k - m) = k BY <1>1, <2>2
    <3>2. Nth(Q, k) = Len(u) + Nth(T, k - m) /\ Nth(T, k - m) \in T BY <1>3, <1>4, <3>1
    <3>3. NamesOf(w)[k - m] = NameAt(w, Nth(T, k - m)) BY <1>5, <3>1
    <3> QED BY <1>6, <2>2, <3>2, <3>3
  <2> QED BY <2>1, <2>2
<1>8. /\ NamesOf(u) \in Seq(Seq(A)) /\ Len(NamesOf(u)) = m
      /\ NamesOf(w) \in Seq(Seq(A)) /\ Len(NamesOf(w)) = n
      /\ NamesOf(u \o w) \in Seq(Seq(A)) /\ Len(NamesOf(u \o w)) = m + n
  <2>1. u \o w \in Seq(A) BY ConcatProperties
  <2> QED BY <1>3, <2>1, NamesAreStrings DEF S, T, Q, m, n
<1> DEFINE both == NamesOf(u) \o NamesOf(w)
<1>9. /\ both \in Seq(Seq(A)) /\ Len(both) = m + n
      /\ \A k \in 1 .. m + n : both[k] = IF k <= m THEN NamesOf(u)[k] ELSE NamesOf(w)[k - m]
  BY <1>8, ConcatProperties
<1> HIDE DEF both
<1>10. \A k \in 1 .. m + n : NamesOf(u \o w)[k] = both[k]
  BY <1>5, <1>7, <1>9
<1>11. NamesOf(u \o w) = both BY <1>8, <1>9, <1>10, SeqEqual
<1> QED BY <1>11 DEF both

\* A string of separators has no names.
LEMMA NoNames ==
    ASSUME NEW A, NEW s \in Seq(A), \A i \in 1 .. Len(s) : is_sep(s[i])
    PROVE  NamesOf(s) = <<>>
<1>1. NameStarts(s) = {} BY StartsAre, PositionsAre
<1>2. Cardinality(NameStarts(s)) = 0 BY <1>1, FS_EmptySet
<1>3. NamesOf(s) \in Seq(Seq(A)) /\ Len(NamesOf(s)) = 0 BY <1>2, NamesAreStrings
<1> QED BY <1>3, EmptySeq

\* A string without separators is a name.
LEMMA OneName ==
    ASSUME NEW A, NEW s \in Seq(A), s # <<>>, \A i \in 1 .. Len(s) : ~is_sep(s[i])
    PROVE  NamesOf(s) = <<s>>
<1>1. Len(s) \in Nat /\ Len(s) # 0 /\ 1 \in 1 .. Len(s) OBVIOUS
<1>2. NameStarts(s) = {1}
  <2>1. \A i \in 1 .. Len(s) : i # 1 => i - 1 \in 1 .. Len(s) BY <1>1
  <2>2. \A i \in 1 .. Len(s) : i \in NameStarts(s) <=> i = 1 BY <2>1, StartsAre
  <2>3. \A i \in NameStarts(s) : i \in 1 .. Len(s) BY StartsAre, PositionsAre
  <2> QED BY <1>1, <2>2, <2>3
<1>3. Cardinality({1}) = 1 BY FS_Singleton
<1>4. Nth({1}, 1) = 1
  <2>1. {1} \in Positions(1) /\ 1 \in Nat BY DEF Positions
  <2>2. 1 \in 1 .. Cardinality({1}) BY <1>3
  <2>3. Nth({1}, 1) \in {1} BY <2>1, <2>2, NthIs
  <2> QED BY <2>3
<1>5. NameEnd(s, 1) = Len(s)
  <2>1. Len(s) \in 1 .. Len(s) /\ EndsAt(s, Len(s)) BY <1>1 DEF EndsAt
  <2>2. ASSUME NEW j \in 1 .. Len(s) - 1 PROVE ~EndsAt(s, j)
    <3>1. j + 1 \in 1 .. Len(s) /\ j # Len(s) BY <1>1
    <3> QED BY <3>1 DEF EndsAt
  <2> QED BY <1>1, <2>1, <2>2, EndIs
<1>6. NameAt(s, 1) = s BY <1>5, SubSeqFull DEF NameAt
<1>7. NamesOf(s) = [k \in 1 .. 1 |-> NameAt(s, Nth({1}, k))] BY <1>2, <1>3, NamesAre
<1>8. NamesOf(s) \in Seq(Seq(A)) /\ Len(NamesOf(s)) = 1 /\ NamesOf(s)[1] = s
  <2>1. NamesOf(s) \in Seq(Seq(A)) /\ Len(NamesOf(s)) = 1 BY <1>2, <1>3, NamesAreStrings
  <2>2. 1 \in 1 .. 1 OBVIOUS
  <2> QED BY <1>4, <1>6, <1>7, <2>1, <2>2
<1>9. <<s>> \in Seq(Seq(A)) /\ Len(<<s>>) = 1 /\ <<s>>[1] = s OBVIOUS
<1> QED
  <2> DEFINE one == <<s>>
  <2>1. one \in Seq(Seq(A)) /\ Len(one) = 1 /\ one[1] = s BY <1>9
  <2> HIDE DEF one
  <2>2. \A i \in 1 .. 1 : NamesOf(s)[i] = one[i] BY <1>8, <2>1
  <2>3. NamesOf(s) = one BY <1>8, <2>1, <2>2, SeqEqual
  <2> QED BY <2>3 DEF one

\* The two paths are seen by their ends.
LEMMA EndsOfPath ==
    ASSUME NEW A, NEW p \in Seq(A), p # <<>>
    PROVE  /\ Head(p) = p[1] /\ Last(p) = p[Len(p)] /\ Len(p) \in Nat /\ Len(p) # 0
           /\ p[1] \in A /\ <<p[1]>> \in Seq(A) /\ Tail(p) \in Seq(A)
           /\ p = <<p[1]>> \o Tail(p)
<1>1. Len(p) \in Nat /\ Len(p) # 0 /\ 1 \in 1 .. Len(p) /\ Len(p) \in 1 .. Len(p) OBVIOUS
<1>2. Head(p) = p[1] /\ Last(p) = p[Len(p)] BY DEF Last
<1>3. p[1] \in A /\ Tail(p) = SubSeq(p, 2, Len(p)) /\ Tail(p) \in Seq(A)
  BY <1>1, TailIsSubSeq, HeadTailProperties
<1>4. SubSeq(p, 1, Len(p)) = <<p[1]>> \o SubSeq(p, 1 + 1, Len(p)) BY <1>1, SubSeqRecursiveFirst
<1>5. p = <<p[1]>> \o Tail(p) BY <1>3, <1>4, SubSeqFull
<1> QED BY <1>1, <1>2, <1>3, <1>5

\* What a separator in front of a path, or behind it, does to its names.
LEMMA SeparatorAdded ==
    ASSUME NEW A, NEW p \in Seq(A), NEW c \in A, is_sep(c)
    PROVE  /\ NamesOf(<<c>> \o p) = NamesOf(p) /\ NamesOf(p \o <<c>>) = NamesOf(p)
           /\ <<c>> \o p \in Seq(A) /\ p \o <<c>> \in Seq(A)
<1> DEFINE one == <<c>>
<1>1. one \in Seq(A) /\ Len(one) = 1 /\ one[1] = c OBVIOUS
<1> HIDE DEF one
<1>2. NamesOf(one) = <<>>
  <2>1. \A i \in 1 .. Len(one) : is_sep(one[i]) BY <1>1
  <2> QED BY <1>1, <2>1, NoNames
<1>3. Seam(one, p) /\ Seam(p, one) BY <1>1 DEF Seam
<1>4. NamesOf(p) \in Seq(Seq(A)) BY NamesAreStrings
<1>5. NamesOf(one \o p) = NamesOf(p)
  <2>1. NamesOf(one \o p) = NamesOf(one) \o NamesOf(p) BY <1>1, <1>3, NamesOfBoth
  <2> QED BY <1>2, <1>4, <2>1, ConcatEmptySeq
<1>6. NamesOf(p \o one) = NamesOf(p)
  <2>1. NamesOf(p \o one) = NamesOf(p) \o NamesOf(one) BY <1>1, <1>3, NamesOfBoth
  <2> QED BY <1>2, <1>4, <2>1, ConcatEmptySeq
<1>7. one \o p \in Seq(A) /\ p \o one \in Seq(A) BY <1>1, ConcatProperties
<1> QED BY <1>5, <1>6, <1>7 DEF one

\* A join neither merges nor splits a name, and begins where the first begins.
LEMMA JoinKeepsNamesOf ==
    ASSUME NEW A, NEW u \in Seq(A), u # <<>>, NEW w \in Seq(A), w # <<>>
    PROVE  /\ NamesOf(path_join(u, w)) = NamesOf(u) \o NamesOf(w)
           /\ Rooted(path_join(u, w)) <=> Rooted(u)
<1> DEFINE a == Len(u)
           B == A \cup {"/"}
<1>1. /\ Head(u) = u[1] /\ Last(u) = u[a] /\ a \in Nat /\ a # 0
      /\ Head(w) = w[1] /\ w[1] \in A /\ Tail(w) \in Seq(A) /\ w = <<w[1]>> \o Tail(w)
  BY EndsOfPath
<1>2. u \in Seq(B) /\ w \in Seq(B) /\ "/" \in B BY SeqMonotonic
<1>3. ASSUME NEW s \in Seq(B) PROVE u \o s # <<>> /\ Head(u \o s) = u[1]
  <2>1. /\ u \o s \in Seq(B) /\ Len(u \o s) = a + Len(s) /\ Len(s) \in Nat
        /\ \A i \in 1 .. a + Len(s) : (u \o s)[i] = IF i <= a THEN u[i] ELSE s[i - a]
    BY <1>2, ConcatProperties
  <2>2. 1 \in 1 .. a + Len(s) /\ 1 <= a BY <1>1, <2>1
  <2>3. (u \o s)[1] = u[1] BY <2>1, <2>2
  <2>4. u \o s # <<>>
    <3> DEFINE q == u \o s
    <3>1. Len(q) # 0 BY <1>1, <2>1
    <3> HIDE DEF q
    <3>2. q # <<>> BY <3>1
    <3> QED BY <3>2 DEF q
  <2> QED BY <2>1, <2>3, <2>4, EndsOfPath
<1>4. CASE is_sep(u[a]) /\ is_sep(w[1])
  <2>1. path_join(u, w) = u \o Tail(w) BY <1>1, <1>4 DEF path_join
  <2>2. Seam(u, Tail(w)) BY <1>4 DEF Seam
  <2>3. NamesOf(u \o Tail(w)) = NamesOf(u) \o NamesOf(Tail(w)) BY <1>1, <2>2, NamesOfBoth
  <2>4. NamesOf(<<w[1]>> \o Tail(w)) = NamesOf(Tail(w)) BY <1>1, <1>4, SeparatorAdded
  <2>5. Tail(w) \in Seq(B) BY <1>1, SeqMonotonic
  <2>6. Rooted(u \o Tail(w)) <=> Rooted(u) BY <1>1, <1>3, <2>5 DEF Rooted
  <2> QED BY <1>1, <2>1, <2>3, <2>4, <2>6
<1>5. CASE ~is_sep(u[a]) /\ ~is_sep(w[1])
  <2> DEFINE slash == "/"
  <2>1. path_join(u, w) = u \o <<slash>> \o w BY <1>1, <1>5 DEF path_join
  <2>2. slash \in B /\ is_sep(slash) BY DEF is_sep
  <2> HIDE DEF B, slash
  <2>3. /\ NamesOf(<<slash>> \o w) = NamesOf(w) /\ <<slash>> \o w \in Seq(B)
        /\ NamesOf(u \o <<slash>>) = NamesOf(u) /\ u \o <<slash>> \in Seq(B)
    BY <1>2, <2>2, SeparatorAdded
  <2> DEFINE v == u \o <<slash>>
  <2>4. Seam(v, w)
    <3>1. <<slash>> \in Seq(B) /\ Len(<<slash>>) = 1 /\ <<slash>>[1] = slash BY <2>2
    <3>2. Len(v) = a + 1 /\ v[a + 1] = slash
      <4>1. /\ Len(v) = a + 1
            /\ \A i \in 1 .. a + 1 : v[i] = IF i <= a THEN u[i] ELSE <<slash>>[i - a]
        BY <1>2, <3>1, ConcatProperties
      <4>2. a + 1 \in 1 .. a + 1 /\ ~(a + 1 <= a) /\ (a + 1) - a = 1 BY <1>1
      <4> QED BY <3>1, <4>1, <4>2
    <3> QED BY <2>2, <3>2 DEF Seam
  <2>5. NamesOf(v \o w) = NamesOf(v) \o NamesOf(w)
    <3> HIDE DEF v
    <3>1. v \in Seq(B) BY <2>3 DEF v
    <3> QED BY <1>2, <2>4, <3>1, NamesOfBoth
  <2>6. Rooted(u \o <<slash>> \o w) <=> Rooted(u)
    <3>1. <<slash>> \in Seq(B) BY <2>2
    <3>2. u \o <<slash>> \o w = u \o (<<slash>> \o w) BY <1>2, <3>1, ConcatAssociative
    <3> QED BY <1>1, <1>3, <2>3, <3>2 DEF Rooted
  <2> QED BY <2>1, <2>3, <2>5, <2>6
<1>6. CASE (is_sep(u[a]) /\ ~is_sep(w[1])) \/ (~is_sep(u[a]) /\ is_sep(w[1]))
  <2>1. path_join(u, w) = u \o w BY <1>1, <1>6 DEF path_join
  <2>2. Seam(u, w) BY <1>6 DEF Seam
  <2>3. NamesOf(u \o w) = NamesOf(u) \o NamesOf(w) BY <2>2, NamesOfBoth
  <2>4. Rooted(u \o w) <=> Rooted(u) BY <1>1, <1>2, <1>3 DEF Rooted
  <2> QED BY <2>1, <2>3, <2>4
<1> QED BY <1>4, <1>5, <1>6

\* The names of a path are those in front of its last separator and the final one.
LEMMA NamesByParts ==
    ASSUME NEW A, NEW p \in Seq(A), ~NameExits(p)
    PROVE  LET l == LastSep(p)
               front == IF l = 0 THEN <<>> ELSE SubSeq(p, 1, l - 1)
           IN  /\ l \in 0 .. Len(p) - 1 /\ (l # 0 => is_sep(p[l])) /\ (l = 0 => ~is_sep(p[1]))
               /\ front \in Seq(A) /\ NamesOf(p) = NamesOf(front) \o <<FinalName(p)>>
               /\ FinalName(p) \in Seq(A) /\ FinalName(p) # <<>>
               /\ NamesOf(FinalName(p)) = <<FinalName(p)>>
               /\ Stripped(p) # <<>>
<1> DEFINE l == LastSep(p)
           n == Len(Stripped(p))
           f == FinalName(p)
           front == IF l = 0 THEN <<>> ELSE SubSeq(p, 1, l - 1)
           dir == SubSeq(p, 1, l)
           s == SubSeq(p, 1, n)
           rest == SubSeq(p, n + 1, Len(p))
<1>1. /\ Len(p) \in Nat /\ n \in 0 .. Len(p) /\ s = Stripped(p)
      /\ \A i \in 1 .. Len(p) : i > n => is_sep(p[i])
      /\ l \in 0 .. n /\ (l # 0 => is_sep(p[l]))
      /\ f \in Seq(A) /\ Len(f) = n - l
      /\ \A i \in 1 .. Len(f) : f[i] = p[l + i] /\ ~is_sep(f[i])
  BY PathParts
<1>2. f # <<>> BY DEF NameExits
<1> HIDE DEF l, n, f
<1>3. n - l \in Nat /\ n - l # 0 /\ l \in 0 .. Len(p) - 1 /\ n # 0
  <2>1. Len(f) # 0 BY <1>1, <1>2
  <2> QED BY <1>1, <2>1
<1>4. NamesOf(f) = <<f>> BY <1>1, <1>2, OneName
<1>5. f = SubSeq(p, l + 1, n)
  <2> DEFINE g == SubSeq(p, l + 1, n)
  <2>1. g \in Seq(A) /\ Len(g) = n - l /\ \A i \in 1 .. n - l : g[i] = p[l + i]
    <3>1. \A i \in l + 1 .. n : p[i] \in A BY <1>1
    <3>2. l + 1 \in Int /\ n \in Int /\ l + 1 <= n BY <1>1, <1>3
    <3>3. /\ g \in Seq(A) /\ Len(g) = n - (l + 1) + 1
          /\ \A i \in 1 .. n - (l + 1) + 1 : g[i] = p[(l + 1) + i - 1]
      BY <3>1, <3>2, SubSeqProperties
    <3>4. n - (l + 1) + 1 = n - l BY <1>1
    <3>5. \A i \in 1 .. n - l : (l + 1) + i - 1 = l + i BY <1>1
    <3> HIDE DEF g
    <3> QED BY <3>3, <3>4, <3>5
  <2> HIDE DEF g
  <2>2. \A i \in 1 .. Len(f) : f[i] = g[i] BY <1>1, <2>1
  <2>3. f = g BY <1>1, <2>1, <2>2, SeqEqual
  <2> QED BY <2>3 DEF g
<1>6. s \in Seq(A) /\ rest \in Seq(A) /\ p = s \o rest
  <2>1. 1 \in 1 .. Len(p) + 1 /\ n \in 1 - 1 .. Len(p) /\ Len(p) \in n .. Len(p) BY <1>1
  <2>2. SubSeq(p, 1, n) \o SubSeq(p, n + 1, Len(p)) = SubSeq(p, 1, Len(p))
    BY <2>1, ConcatAdjacentSubSeq
  <2>3. SubSeq(p, 1, Len(p)) = p BY SubSeqFull
  <2>4. s \in Seq(A)
    <3>1. \A i \in 1 .. n : p[i] \in A BY <1>1
    <3> QED BY <1>1, <3>1, SubSeqProperties
  <2>5. rest \in Seq(A)
    <3>1. \A i \in n + 1 .. Len(p) : p[i] \in A BY <1>1
    <3>2. n + 1 \in Int /\ Len(p) \in Int BY <1>1
    <3> QED BY <3>1, <3>2, SubSeqProperties
  <2> QED BY <2>2, <2>3, <2>4, <2>5
<1>7. NamesOf(p) = NamesOf(s)
  <2>1. \A i \in 1 .. Len(rest) : is_sep(rest[i])
    <3>1. Len(rest) = Len(p) - n /\ \A i \in 1 .. Len(p) - n : rest[i] = p[n + i]
      <4>1. \A i \in n + 1 .. Len(p) : p[i] \in A BY <1>1
      <4>2. n + 1 \in Int /\ Len(p) \in Int BY <1>1
      <4>3. /\ Len(rest) = IF n + 1 <= Len(p) THEN Len(p) - (n + 1) + 1 ELSE 0
            /\ \A i \in 1 .. Len(p) - (n + 1) + 1 : rest[i] = p[(n + 1) + i - 1]
        BY <4>1, <4>2, SubSeqProperties
      <4>4. /\ Len(p) - (n + 1) + 1 = Len(p) - n
            /\ (n + 1 <= Len(p) \/ Len(p) - n = 0)
            /\ \A i \in 1 .. Len(p) - n : (n + 1) + i - 1 = n + i
        BY <1>1
      <4> HIDE DEF rest
      <4> QED BY <1>1, <4>3, <4>4
    <3>2. ASSUME NEW i \in 1 .. Len(p) - n PROVE is_sep(p[n + i])
      <4>1. n + i \in 1 .. Len(p) /\ n + i > n BY <1>1
      <4> QED BY <1>1, <4>1
    <3> HIDE DEF rest
    <3> QED BY <3>1, <3>2
  <2> HIDE DEF s, rest
  <2>2. NamesOf(rest) = <<>> BY <1>6, <2>1, NoNames
  <2>3. Seam(s, rest)
    <3>1. rest = <<>> \/ 1 \in 1 .. Len(rest) BY <1>6
    <3> QED BY <2>1, <3>1 DEF Seam
  <2>4. NamesOf(s \o rest) = NamesOf(s) \o NamesOf(rest) BY <1>6, <2>3, NamesOfBoth
  <2>5. NamesOf(s) \in Seq(Seq(A)) BY <1>6, NamesAreStrings
  <2> QED BY <1>6, <2>2, <2>4, <2>5, ConcatEmptySeq
<1>8. dir \in Seq(A) /\ s = dir \o f /\ Len(dir) = l /\ (l # 0 => dir[l] = p[l])
  <2>1. 1 \in 1 .. Len(p) + 1 /\ l \in 1 - 1 .. Len(p) /\ n \in l .. Len(p) BY <1>1
  <2>2. dir \o SubSeq(p, l + 1, n) = s BY <2>1, ConcatAdjacentSubSeq
  <2>3. dir \in Seq(A) /\ Len(dir) = l /\ (l # 0 => dir[l] = p[l]) BY <1>1, <2>1
  <2> QED BY <1>5, <2>2, <2>3
<1>9. NamesOf(s) = NamesOf(dir) \o <<f>>
  <2> HIDE DEF dir, s
  <2>1. Seam(dir, f)
    <3>1. l = 0 => dir = <<>> BY <1>8, EmptySeq
    <3> QED BY <1>1, <1>8, <3>1 DEF Seam
  <2>2. NamesOf(dir \o f) = NamesOf(dir) \o NamesOf(f) BY <1>1, <1>8, <2>1, NamesOfBoth
  <2> QED BY <1>4, <1>8, <2>2
<1>10. front \in Seq(A) /\ NamesOf(dir) = NamesOf(front)
  <2>1. CASE l = 0
    <3>1. front = <<>> /\ dir = <<>> BY <1>8, <2>1, EmptySeq
    <3> QED BY <3>1, EmptySeq
  <2>2. CASE l # 0
    <3>1. 1 \in 1 .. Len(p) /\ l \in 1 .. Len(p) /\ l \in 1 .. l BY <1>1, <2>2
    <3>2. dir = SubSeq(p, 1, l - 1) \o <<p[l]>> BY <3>1, SubSeqRecursiveSecond
    <3>3. front = SubSeq(p, 1, l - 1) /\ front \in Seq(A) /\ p[l] \in A
      <4>1. \A i \in 1 .. l - 1 : p[i] \in A BY <1>1
      <4>2. SubSeq(p, 1, l - 1) \in Seq(A) BY <1>1, <4>1, SubSeqProperties
      <4> QED BY <2>2, <3>1, <4>2
    <3> HIDE DEF front, dir
    <3> QED BY <1>1, <2>2, <3>2, <3>3, SeparatorAdded
  <2> QED BY <2>1, <2>2
<1>11. l = 0 => ~is_sep(p[1])
  <2>1. 1 \in 1 .. Len(f) BY <1>1, <1>3
  <2>2. l = 0 => l + 1 = 1 BY <1>1
  <2> QED BY <1>1, <2>1, <2>2
<1>12. Stripped(p) # <<>>
  <2>1. Len(<<>>) = 0 OBVIOUS
  <2> QED BY <1>3, <2>1 DEF n
<1>13. NamesOf(p) = NamesOf(front) \o <<f>> BY <1>7, <1>9, <1>10
<1> QED BY <1>1, <1>2, <1>3, <1>4, <1>10, <1>11, <1>12, <1>13 DEF l, f

\* The directory and the name join to the same names, from the same root.
LEMMA DirAndBaseRejoinOf ==
    ASSUME NEW A, NEW p \in Seq(A), ~NameExits(p)
    PROVE  LET again == path_join(path_dirname(p), path_basename(p))
           IN  /\ Rooted(again) <=> Rooted(p)
               /\ NamesOf(again) \in {NamesOf(p), <<<<".">>>> \o NamesOf(p)}
<1> DEFINE l == LastSep(p)
           f == FinalName(p)
           d == path_dirname(p)
           B == A \cup {"."}
<1>1. /\ l \in 0 .. Len(p) - 1 /\ (l # 0 => is_sep(p[l])) /\ (l = 0 => ~is_sep(p[1]))
      /\ l = 0 => NamesOf(p) = NamesOf(<<>>) \o <<f>>
      /\ l # 0 => SubSeq(p, 1, l - 1) \in Seq(A) /\ NamesOf(p) = NamesOf(SubSeq(p, 1, l - 1)) \o <<f>>
      /\ f \in Seq(A) /\ f # <<>> /\ NamesOf(f) = <<f>>
      /\ Stripped(p) # <<>>
  BY NamesByParts
<1>2. d = IF l > 1 THEN SubSeq(p, 1, l - 1) ELSE IF l = 1 THEN <<p[1]>> ELSE <<".">>
  BY <1>1 DEF path_dirname
<1>3. Len(p) \in Nat /\ p # <<>> BY <1>1
<1>4. Head(p) = p[1] /\ p[1] \in A BY <1>3, EndsOfPath
<1>5. f \in Seq(B) BY <1>1, SeqMonotonic
<1>6. path_basename(p) = f BY DEF path_basename
<1>7. NamesOf(<<>>) = <<>>
  <2>1. <<>> \in Seq(A) /\ \A i \in 1 .. Len(<<>>) : is_sep(<<>>[i]) OBVIOUS
  <2> QED BY <2>1, NoNames
<1>8. <<f>> \in Seq(Seq(A)) BY <1>1
<1>9. ASSUME d \in Seq(B), d # <<>>, NamesOf(d) \o <<f>> \in {NamesOf(p), <<<<".">>>> \o NamesOf(p)},
             is_sep(d[1]) <=> is_sep(p[1])
      PROVE  /\ Rooted(path_join(d, f)) <=> Rooted(p)
             /\ NamesOf(path_join(d, f)) \in {NamesOf(p), <<<<".">>>> \o NamesOf(p)}
  <2> HIDE DEF d, f, B
  <2>1. NamesOf(path_join(d, f)) = NamesOf(d) \o NamesOf(f) /\ (Rooted(path_join(d, f)) <=> Rooted(d))
    BY <1>1, <1>5, <1>9, JoinKeepsNamesOf
  <2>2. Rooted(d) <=> Rooted(p)
    <3>1. Head(d) = d[1] BY <1>9, EndsOfPath
    <3> QED BY <1>4, <1>9, <3>1 DEF Rooted
  <2> QED BY <1>1, <1>9, <2>1, <2>2
<1>10. CASE l > 1
  <2>0. l # 0 BY <1>1, <1>10
  <2>1. d = SubSeq(p, 1, l - 1) /\ d \in Seq(A) /\ l # 0
    <3> HIDE DEF d, l, f
    <3> QED BY <1>1, <1>2, <1>10, <2>0
  <2>2. Len(d) = l - 1 /\ d[1] = p[1]
    <3>1. \A i \in 1 .. l - 1 : p[i] \in A BY <1>1
    <3>2. 1 \in Int /\ l - 1 \in Int /\ 1 <= l - 1 /\ (l - 1) - 1 + 1 = l - 1 BY <1>1, <1>10
    <3>3. /\ Len(d) = (l - 1) - 1 + 1
          /\ \A i \in 1 .. (l - 1) - 1 + 1 : d[i] = p[1 + i - 1]
      BY <2>1, <3>1, <3>2, SubSeqProperties
    <3>4. 1 \in 1 .. (l - 1) - 1 + 1 /\ 1 + 1 - 1 = 1 BY <3>2
    <3> HIDE DEF d
    <3> QED BY <3>2, <3>3, <3>4
  <2> HIDE DEF d, f
  <2>3. d # <<>>
    <3>1. Len(d) # 0 BY <1>1, <1>10, <2>2
    <3> QED BY <3>1
  <2>4. d \in Seq(B) BY <2>1, SeqMonotonic
  <2>5. NamesOf(d) \o <<f>> = NamesOf(p) BY <1>1, <2>1
  <2> QED BY <1>6, <1>9, <2>2, <2>3, <2>4, <2>5 DEF d
<1>11. CASE l = 1
  <2>1. d = <<p[1]>> /\ is_sep(p[1]) BY <1>1, <1>2, <1>11
  <2>2. d \in Seq(A) /\ Len(d) = 1 /\ d[1] = p[1] BY <1>4, <2>1
  <2> HIDE DEF d, f
  <2>3. d # <<>> /\ d \in Seq(B)
    <3>0. Len(d) # 0 BY <2>2
    <3>1. d # <<>> BY <3>0
    <3> QED BY <2>2, <3>1, SeqMonotonic
  <2>4. NamesOf(d) = <<>>
    <3>1. \A i \in 1 .. Len(d) : is_sep(d[i]) BY <2>1, <2>2
    <3> QED BY <2>2, <3>1, NoNames
  <2>5. SubSeq(p, 1, l - 1) = <<>>
    <3>1. 1 \in Int /\ l - 1 \in Int /\ l - 1 < 1 BY <1>11
    <3> QED BY <3>1, SubSeqEmpty
  <2>6. NamesOf(d) \o <<f>> = NamesOf(p) BY <1>1, <1>7, <1>11, <2>4, <2>5
  <2> QED BY <1>6, <1>9, <2>2, <2>3, <2>6 DEF d
<1>12. CASE l = 0
  <2> DEFINE dot == "."
  <2>1. d = <<dot>> BY <1>2, <1>12
  <2>2. dot \in B /\ ~is_sep(dot) BY DEF is_sep
  <2> HIDE DEF d, f, dot, B
  <2>3. d \in Seq(B) /\ Len(d) = 1 /\ d[1] = dot BY <2>1, <2>2
  <2>4. d # <<>>
    <3>1. Len(d) # 0 BY <2>3
    <3> QED BY <3>1
  <2>5. NamesOf(d) = <<d>>
    <3>1. \A i \in 1 .. Len(d) : ~is_sep(d[i]) BY <2>2, <2>3
    <3> QED BY <2>3, <2>4, <3>1, OneName
  <2>6. NamesOf(p) = <<f>> BY <1>1, <1>7, <1>8, <1>12, ConcatEmptySeq
  <2>7. NamesOf(d) \o <<f>> = <<<<dot>>>> \o NamesOf(p) BY <2>1, <2>5, <2>6
  <2>8. is_sep(d[1]) <=> is_sep(p[1]) BY <1>1, <1>12, <2>2, <2>3
  <2>9. NamesOf(d) \o <<f>> = <<<<".">>>> \o NamesOf(p) BY <2>7 DEF dot
  <2> QED BY <1>6, <1>9, <2>3, <2>4, <2>8, <2>9 DEF d
<1> QED
  <2>1. l = 0 \/ l = 1 \/ l > 1 BY <1>1
  <2> QED BY <1>10, <1>11, <1>12, <2>1

-----------------------------------------------------------------------------
(* The laws as invariants.                                                  *)

\* The two strings are strings.
TextType == first \in Seq(Chars) /\ second \in Seq(Chars)

\* They are so from the start, and each step appends a character to one.
LEMMA TextTypeKept ==
    /\ TextInit => TextType
    /\ TextType /\ [TextNext]_<<first, second>> => TextType'
<1>1. TextInit => TextType
  BY EmptySeq DEF TextInit, TextType
<1>2. ASSUME TextType, [TextNext]_<<first, second>> PROVE TextType'
  <2>1. CASE TextNext
    <3>1. PICK c \in Chars : \/ first' = Append(first, c) /\ second' = second
                             \/ second' = Append(second, c) /\ first' = first
      BY <2>1 DEF TextNext
    <3>2. first \in Seq(Chars) /\ second \in Seq(Chars) BY <1>2 DEF TextType
    <3>3. Append(first, c) \in Seq(Chars) /\ Append(second, c) \in Seq(Chars)
      BY <3>2, AppendProperties
    <3>4. first' \in Seq(Chars) /\ second' \in Seq(Chars) BY <3>1, <3>2, <3>3
    <3> QED BY <3>4 DEF TextType
  <2>2. CASE UNCHANGED <<first, second>>
    BY <1>2, <2>2 DEF TextType
  <2> QED BY <1>2, <2>1, <2>2
<1> QED BY <1>1, <1>2

\* For any text and any delimiter, the pieces that string_split() makes and the
\* delimiters between them are the text, up to one delimiter at its end.
THEOREM PiecesAreTheText == TextSpec => []SplitLosesNothing
<1>1. TextType => SplitLosesNothing
  <2> SUFFICES ASSUME TextType, first # <<>> PROVE SplitLosesNothing
    BY DEF SplitLosesNothing
  <2> DEFINE w == Joined(string_split(first, Delimiter), Delimiter)
  <2>1. first \in {w, Append(w, Delimiter)}
    BY TextAssumption, SplitLosesNothingOf DEF TextAssumption, TextType
  <2> QED BY <2>1 DEF SplitLosesNothing, Joined, Spaced
<1> QED BY <1>1, TextTypeKept, PTL DEF TextSpec

\* path_join() keeps the names of any two paths, and the root of the first.
THEOREM JoinsKeepNames == TextSpec => []JoinKeepsNames
<1>1. TextType => JoinKeepsNames
  <2> SUFFICES ASSUME TextType, first # <<>>, second # <<>>
               PROVE  /\ NamesOf(path_join(first, second)) = NamesOf(first) \o NamesOf(second)
                      /\ Rooted(path_join(first, second)) = Rooted(first)
    BY DEF JoinKeepsNames
  <2>1. /\ NamesOf(path_join(first, second)) = NamesOf(first) \o NamesOf(second)
        /\ Rooted(path_join(first, second)) <=> Rooted(first)
    BY JoinKeepsNamesOf DEF TextType
  <2> QED BY <2>1 DEF Rooted, is_sep
<1> QED BY <1>1, TextTypeKept, PTL DEF TextSpec

\* path_dirname() and path_basename() denote, together, the path they come from.
THEOREM PartsRejoin == TextSpec => []DirAndBaseRejoin
<1>1. TextType => DirAndBaseRejoin
  <2> SUFFICES ASSUME TextType, first # <<>>, ~NameExits(first)
               PROVE  LET again == path_join(path_dirname(first), path_basename(first))
                      IN  /\ Rooted(again) = Rooted(first)
                          /\ NamesOf(again) \in {NamesOf(first), <<<<".">>>> \o NamesOf(first)}
    BY DEF DirAndBaseRejoin
  <2> DEFINE again == path_join(path_dirname(first), path_basename(first))
  <2>1. /\ Rooted(again) <=> Rooted(first)
        /\ NamesOf(again) \in {NamesOf(first), <<<<".">>>> \o NamesOf(first)}
    BY DirAndBaseRejoinOf DEF TextType
  <2> HIDE DEF again
  <2>2. Rooted(again) = Rooted(first) BY <2>1 DEF Rooted, is_sep
  <2> QED BY <2>1, <2>2 DEF again
<1> QED BY <1>1, TextTypeKept, PTL DEF TextSpec

\* path_stem() and path_extension() divide the name at a dot, the last one, and
\* neither is empty.
THEOREM NameIsDivided == TextSpec => []StemAndExtension
<1>1. TextType => StemAndExtension
  BY StemAndExtensionOf DEF TextType, StemAndExtension
<1> QED BY <1>1, TextTypeKept, PTL DEF TextSpec
=============================================================================
