------------------------- MODULE ArenaLayoutProofs -------------------------
(***************************************************************************)
(* Facts about the address arithmetic of ArenaLayout, for every header     *)
(* size, alignment, page size and word: what alignment rounds to, and that *)
(* one growth of the commit always covers the allocation that asked for it.*)
(***************************************************************************)
EXTENDS ArenaLayout, TLAPS

\* Division with remainder, in the form the other lemmas use.
LEMMA DivMod ==
    ASSUME NEW a \in Nat, NEW p \in Nat \ {0}
    PROVE  /\ a \div p \in Nat
           /\ a % p \in 0 .. (p - 1)
           /\ a = p * (a \div p) + (a % p)
  OBVIOUS

\* A multiple of p leaves no remainder.
LEMMA MultipleMod ==
    ASSUME NEW k \in Nat, NEW p \in Nat \ {0}
    PROVE  (p * k) % p = 0
  OBVIOUS

\* A number below the modulus is its own remainder: no wrap.
LEMMA ModSmall ==
    ASSUME NEW a \in Nat, NEW w \in Nat \ {0}, a < w
    PROVE  a % w = a
  OBVIOUS

\* Two multiples of p that are less than p apart are the same.
LEMMA MultiplesApart ==
    ASSUME NEW a \in Nat, NEW b \in Nat, NEW p \in Nat \ {0},
           a % p = 0, b % p = 0, a < b + p
    PROVE  a <= b
<1> DEFINE i == a \div p
           j == b \div p
<1>1. i \in Nat /\ j \in Nat /\ a = p * i /\ b = p * j
  BY DivMod
<1> HIDE DEF i, j
<1>2. SUFFICES ASSUME i >= j + 1 PROVE FALSE
  <2>1. i <= j => p * i <= p * j BY <1>1
  <2> QED BY <1>1, <1>2, <2>1
<1>3. p * i >= p * (j + 1) BY <1>1, <1>2
<1>4. p * (j + 1) = b + p BY <1>1
<1> QED BY <1>1, <1>3, <1>4

\* The sum of two multiples of p is one.
LEMMA SumOfMultiples ==
    ASSUME NEW a \in Nat, NEW b \in Nat, NEW p \in Nat \ {0},
           a % p = 0, b % p = 0
    PROVE  (a + b) % p = 0
<1> DEFINE i == a \div p
           j == b \div p
<1>1. i \in Nat /\ j \in Nat /\ a = p * i /\ b = p * j
  BY DivMod
<1> HIDE DEF i, j
<1>2. a + b = p * (i + j) BY <1>1
<1>3. (p * (i + j)) % p = 0 BY <1>1, MultipleMod
<1> QED BY <1>2, <1>3

\* Any number of chunks, each a multiple of p, is a multiple of p.
LEMMA ChunksAreMultiple ==
    ASSUME NEW n \in Nat, NEW c \in Nat, NEW p \in Nat \ {0}, c % p = 0
    PROVE  (n * c) % p = 0
<1> DEFINE i == c \div p
<1>1. i \in Nat /\ c = p * i BY DivMod
<1> HIDE DEF i
<1>2. n * c = p * (n * i) BY <1>1
<1>3. n * i \in Nat BY <1>1
<1>4. (p * (n * i)) % p = 0 BY <1>3, MultipleMod
<1> QED BY <1>2, <1>4

\* ALIGN_POW2 rounds up to the nearest multiple, as long as the sum does not
\* wrap around the word.
LEMMA AlignUp ==
    ASSUME LayoutAssumption, NEW n \in Nat, NEW p \in Nat \ {0}, n + p <= Word
    PROVE  /\ AlignPow2(n, p) \in Nat
           /\ n <= AlignPow2(n, p)
           /\ AlignPow2(n, p) < n + p
           /\ AlignPow2(n, p) % p = 0
<1> DEFINE m == n + p - 1
           q == m \div p
<1>1. m \in Nat /\ m < Word /\ Word \in Nat \ {0}
  BY DEF LayoutAssumption
<1>2. m % Word = m BY <1>1, ModSmall
<1>3. q \in Nat /\ m % p \in 0 .. (p - 1) /\ m = p * q + (m % p)
  BY <1>1, DivMod
<1>4. AlignPow2(n, p) = m - (m % p) BY <1>2 DEF AlignPow2
<1>5. AlignPow2(n, p) = p * q /\ p * q \in Nat
  <2> HIDE DEF m, q
  <2> QED BY <1>3, <1>4, <1>1
<1>6. (p * q) % p = 0 BY <1>3, MultipleMod
<1> QED BY <1>1, <1>3, <1>4, <1>5, <1>6

\* A multiple is left alone.
LEMMA AlignMultiple ==
    ASSUME LayoutAssumption, NEW n \in Nat, NEW p \in Nat \ {0}, n + p <= Word,
           n % p = 0
    PROVE  AlignPow2(n, p) = n
<1>1. /\ AlignPow2(n, p) \in Nat /\ n <= AlignPow2(n, p)
      /\ AlignPow2(n, p) < n + p /\ AlignPow2(n, p) % p = 0
  BY AlignUp
<1>2. AlignPow2(n, p) <= n BY <1>1, MultiplesApart
<1> QED BY <1>1, <1>2

\* A larger request is never rounded to less.
LEMMA AlignMonotone ==
    ASSUME LayoutAssumption, NEW a \in Nat, NEW b \in Nat, NEW p \in Nat \ {0},
           a <= b, b + p <= Word
    PROVE  AlignPow2(a, p) <= AlignPow2(b, p)
<1>1. /\ AlignPow2(a, p) \in Nat /\ AlignPow2(a, p) < a + p
      /\ AlignPow2(a, p) % p = 0
  BY AlignUp
<1>2. /\ AlignPow2(b, p) \in Nat /\ b <= AlignPow2(b, p)
      /\ AlignPow2(b, p) % p = 0
  BY AlignUp
<1>3. AlignPow2(a, p) < AlignPow2(b, p) + p BY <1>1, <1>2
<1> QED BY <1>1, <1>2, <1>3, MultiplesApart

\* The growth of the commit covers the new position, although chunks_needed
\* is counted from the first commit, and it ends on a page or at the limit.
LEMMA GrowthCovers ==
    ASSUME LayoutAssumption, NEW new_pos \in Nat, NEW commit_pos \in Nat,
           NEW committed \in Nat \ {0}, NEW limit \in Nat,
           committed <= commit_pos, commit_pos < new_pos, new_pos <= limit,
           commit_pos % Page = 0, committed % Page = 0
    PROVE  LET grown == GrownCommitPos(new_pos, commit_pos, committed, limit)
           IN /\ grown \in Nat
              /\ new_pos <= grown /\ grown <= limit
              /\ grown % Page = 0 \/ grown = limit
<1> DEFINE m == new_pos - committed + committed - 1
           n == m \div committed
<1>0. Page \in Nat \ {0} BY DEF LayoutAssumption
<1>1. m \in Nat /\ m = new_pos - 1 OBVIOUS
<1>2. n \in Nat /\ m % committed \in 0 .. (committed - 1)
      /\ m = committed * n + (m % committed)
  <2> HIDE DEF m
  <2> QED BY <1>1, DivMod
<1>3. ChunksNeeded(new_pos, committed) = n BY DEF ChunksNeeded
<1> HIDE DEF m, n
<1>4. n * committed \in Nat /\ n * committed >= new_pos - committed
  BY <1>1, <1>2
<1>5. commit_pos + n * committed >= new_pos BY <1>4
<1>6. (n * committed) % Page = 0 BY <1>2, <1>0, ChunksAreMultiple
<1>7. (commit_pos + n * committed) % Page = 0 BY <1>4, <1>0, <1>6, SumOfMultiples
<1> QED BY <1>3, <1>4, <1>5, <1>7 DEF GrownCommitPos, Least
=============================================================================
