---------------------------- MODULE BuffersProofs ----------------------------
(***************************************************************************)
(* Proofs about Buffers, for any number of strings and arrays, any texts,  *)
(* any size of the arena and any order of calls: what the caller's         *)
(* variables lead to lies in allocated blocks, and no two objects share a  *)
(* cell.  The first part is about a heap and references, the second takes  *)
(* the calls one by one.  The third shows that each call changes the       *)
(* values of the objects as module Objects allows.                         *)
(***************************************************************************)
EXTENDS Buffers, ArenaLayoutProofs, WellFoundedInduction

\* Only callers that terminate no string without a spare byte: with the others,
\* the terminator may be written over a header.
SpareOnly == ~TerminatesTight

-----------------------------------------------------------------------------
(* Blocks. *)

\* What lies in a block lies below the position.
LEMMA InBlockBelow ==
    ASSUME NEW h, HeapInv(h), NEW S, InBlock(h, S)
    PROVE  S \subseteq 0 .. h.pos - 1
<1>1. PICK b \in h.blocks : S \subseteq Bytes(b)
  BY DEF InBlock
<1>2. b.from \in Nat /\ b.to \in Nat /\ b.to <= h.pos /\ h.pos \in Nat
  BY DEF HeapInv, BuffersAssumption
<1>3. Bytes(b) \subseteq 0 .. h.pos - 1
  BY <1>2 DEF Bytes
<1> QED BY <1>1, <1>3

\* The heap h2 is h after the blocks of N have been allocated above its position.
Extends(h, h2, N) ==
    /\ h2 = [pos |-> h2.pos, mem |-> h2.mem, blocks |-> h2.blocks]
    /\ h2.pos \in 0 .. Reserved - 1 /\ h.pos <= h2.pos
    /\ DOMAIN h2.mem = DOMAIN h.mem
    /\ h2.blocks = h.blocks \union N
    /\ \A b \in N : b.from \in Nat /\ b.to \in Nat /\ h.pos <= b.from /\ b.to <= h2.pos
    /\ \A b, c \in N : b = c \/ Bytes(b) \intersect Bytes(c) = {}

\* New blocks have no cell below the position, and old ones none above it.
LEMMA BlocksOf ==
    ASSUME NEW h, HeapInv(h), NEW h2, NEW N, Extends(h, h2, N)
    PROVE  /\ \A b \in h.blocks : Bytes(b) \subseteq 0 .. h.pos - 1
           /\ \A b \in N : Bytes(b) \intersect (0 .. h.pos - 1) = {}
<1>1. h.pos \in Int
  BY DEF HeapInv
<1>2. ASSUME NEW b \in h.blocks PROVE Bytes(b) \subseteq 0 .. h.pos - 1
  <2>1. b.from \in Nat /\ b.to \in Nat /\ b.to <= h.pos BY DEF HeapInv
  <2> QED BY <1>1, <2>1 DEF Bytes
<1>3. ASSUME NEW b \in N PROVE Bytes(b) \intersect (0 .. h.pos - 1) = {}
  <2>1. b.from \in Nat /\ b.to \in Nat /\ h.pos <= b.from BY DEF Extends
  <2> QED BY <1>1, <2>1 DEF Bytes
<1> QED BY <1>2, <1>3

\* An allocation keeps what is known of the blocks.
LEMMA ExtendedHeap ==
    ASSUME NEW h, HeapInv(h), NEW h2, NEW N, Extends(h, h2, N)
    PROVE  /\ HeapInv(h2)
           /\ \A S : InBlock(h, S) => InBlock(h2, S)
           /\ \A S, T : S \subseteq 0 .. h.pos - 1 /\ T \subseteq 0 .. h.pos - 1 /\ Apart(h, S, T)
                           => Apart(h2, S, T)
           /\ \A S, T : S \subseteq 0 .. h.pos - 1 /\ T \intersect (0 .. h.pos - 1) = {}
                           => Apart(h2, S, T) /\ Apart(h2, T, S)
<1>1. /\ \A b \in h.blocks : Bytes(b) \subseteq 0 .. h.pos - 1
      /\ \A b \in N : Bytes(b) \intersect (0 .. h.pos - 1) = {}
  BY BlocksOf
<1>2. h2.blocks = h.blocks \union N
  BY DEF Extends
<1>3. HeapInv(h2)
  <2>1. ASSUME NEW b \in h2.blocks
        PROVE  b.from \in Nat /\ b.to \in Nat /\ b.to <= h2.pos
    <3>1. CASE b \in h.blocks
      <4>1. b.from \in Nat /\ b.to \in Nat /\ b.to <= h.pos /\ h.pos \in Int /\ h2.pos \in Int /\ h.pos <= h2.pos
        BY <3>1 DEF HeapInv, Extends
      <4> QED BY <4>1
    <3>2. CASE b \in N BY <3>2 DEF Extends
    <3> QED BY <1>2, <3>1, <3>2
  <2>2. ASSUME NEW b \in h2.blocks, NEW c \in h2.blocks, b # c
        PROVE  Bytes(b) \intersect Bytes(c) = {}
    <3>1. CASE b \in h.blocks /\ c \in h.blocks BY <2>2, <3>1 DEF HeapInv
    <3>2. CASE b \in N /\ c \in N BY <2>2, <3>2 DEF Extends
    <3>3. CASE b \in h.blocks /\ c \in N BY <1>1, <3>3
    <3>4. CASE b \in N /\ c \in h.blocks BY <1>1, <3>4
    <3> QED BY <1>2, <3>1, <3>2, <3>3, <3>4
  <2>3. /\ h2 = [pos |-> h2.pos, mem |-> h2.mem, blocks |-> h2.blocks]
        /\ h2.pos \in 0 .. Reserved - 1 /\ DOMAIN h2.mem = 0 .. Reserved - 1
    BY DEF HeapInv, Extends
  <2> QED BY <2>1, <2>2, <2>3 DEF HeapInv
<1>4. ASSUME NEW S, InBlock(h, S) PROVE InBlock(h2, S)
  BY <1>2, <1>4 DEF InBlock
<1>5. ASSUME NEW S, NEW T, S \subseteq 0 .. h.pos - 1, T \subseteq 0 .. h.pos - 1, Apart(h, S, T)
      PROVE  Apart(h2, S, T)
  <2>1. ASSUME NEW b \in h2.blocks
        PROVE  Bytes(b) \intersect S = {} \/ Bytes(b) \intersect T = {}
    <3>1. CASE b \in h.blocks BY <1>5, <3>1 DEF Apart
    <3>2. CASE b \in N BY <1>1, <1>5, <3>2
    <3> QED BY <1>2, <3>1, <3>2
  <2> QED BY <2>1 DEF Apart
<1>6. ASSUME NEW S, NEW T, S \subseteq 0 .. h.pos - 1, T \intersect (0 .. h.pos - 1) = {}
      PROVE  Apart(h2, S, T) /\ Apart(h2, T, S)
  <2>1. ASSUME NEW b \in h2.blocks
        PROVE  Bytes(b) \intersect S = {} \/ Bytes(b) \intersect T = {}
    <3>1. CASE b \in h.blocks BY <1>1, <1>6, <3>1
    <3>2. CASE b \in N BY <1>1, <1>6, <3>2
    <3> QED BY <1>2, <3>1, <3>2
  <2> QED BY <2>1 DEF Apart
<1> QED BY <1>3, <1>4, <1>5, <1>6

\* An object, cell by cell: it lies below the position, and its header is in it.
LEMMA ObjectIn ==
    ASSUME NEW h, NEW r, Placed(h, r), NEW x \in Handles, r[x] # Null
    PROVE  /\ r[x] \in Nat /\ {r[x], r[x] + 1} \subseteq ObjectAt(h, r, x)
           /\ ObjectAt(h, r, x) \subseteq 0 .. h.pos - 1
           /\ \A c \in ObjectAt(h, r, x) : \E b \in h.blocks : c \in Bytes(b)
<1> DEFINE a == r[x]
<1>1. HeapInv(h)
  BY DEF Placed
<1>2. CASE x \in Strings
  <2>1. StringIn(h, a) BY <1>2 DEF Placed
  <2>2. ObjectAt(h, r, x) = HeaderAt(a) \union TextAt(h, a) BY <1>2 DEF ObjectAt
  <2>3. a \in Nat /\ {a, a + 1} \subseteq HeaderAt(a)
    BY <2>1 DEF StringIn, HeaderAt, HeaderSize
  <2>4. HeaderAt(a) \subseteq 0 .. h.pos - 1 /\ TextAt(h, a) \subseteq 0 .. h.pos - 1
    BY <1>1, <2>1, InBlockBelow DEF StringIn
  <2>5. \A c \in HeaderAt(a) \union TextAt(h, a) : \E b \in h.blocks : c \in Bytes(b)
    BY <2>1 DEF StringIn, InBlock
  <2> QED BY <2>2, <2>3, <2>4, <2>5
<1>3. CASE x \in Arrays /\ x \notin Strings
  <2>1. ArrayIn(h, a) BY <1>3 DEF Placed
  <2>2. ObjectAt(h, r, x) = ArrayAt(h, a) BY <1>3 DEF ObjectAt
  <2>3. a \in Nat /\ {a, a + 1} \subseteq ArrayAt(h, a)
    BY <2>1 DEF ArrayIn, ArrayAt, HeaderSize
  <2>4. ArrayAt(h, a) \subseteq 0 .. h.pos - 1
    BY <1>1, <2>1, InBlockBelow DEF ArrayIn
  <2>5. \A c \in ArrayAt(h, a) : \E b \in h.blocks : c \in Bytes(b)
    BY <2>1 DEF ArrayIn, InBlock
  <2> QED BY <2>2, <2>3, <2>4, <2>5
<1> QED BY <1>2, <1>3 DEF Handles

\* Two objects have no cell in common.
LEMMA ObjectsApart ==
    ASSUME NEW h, NEW r, Placed(h, r), NEW x \in Handles, NEW y \in Handles, r[x] # r[y]
    PROVE  ObjectAt(h, r, x) \intersect ObjectAt(h, r, y) = {}
<1>1. CASE r[x] = Null BY <1>1 DEF ObjectAt
<1>2. CASE r[x] # Null
  <2>1. Apart(h, ObjectAt(h, r, x), ObjectAt(h, r, y)) BY DEF Placed
  <2>2. \A c \in ObjectAt(h, r, x) : \E b \in h.blocks : c \in Bytes(b) BY <1>2, ObjectIn
  <2> QED BY <2>1, <2>2 DEF Apart
<1> QED BY <1>1, <1>2

\* The heaps h and h2 have the same header at a.
SameHeader(h, h2, a) == h2.mem[a] = h.mem[a] /\ h2.mem[a + 1] = h.mem[a + 1]

\* Every object of r2 is one of r, and nobody has written into its cells.
AllKept(h, r, h2, r2) ==
    \A x \in Handles : r2[x] # Null => r2[x] = r[x] /\ \A c \in ObjectAt(h, r, x) : h2.mem[c] = h.mem[c]

\* The text of the string at s, and the elements of the array at d.
TextOf(h, s) == [i \in 1 .. h.mem[s + 1] |-> h.mem[h.mem[s] + i - 1]]
ElementsOf(h, d) == [i \in 1 .. h.mem[d + 1] |-> h.mem[d + HeaderSize + i - 1]]

\* Behind the k-th of the cells stand those of s.
Behind(cells, k, s) == IsSequence(s) /\ \A i \in 1 .. Len(s) : cells[k + i] = s[i]

\* There is a byte behind the characters of the string at s, in their block.
Spare(h, s) == \E b \in h.blocks : {h.mem[s], h.mem[s] + h.mem[s + 1]} \subseteq Bytes(b)
SpareAll(h, r) == \A v \in Strings : r[v] # Null => Spare(h, r[v])

\* From the heap h and the references r to h2 and r2 no object is torn, and no
\* string loses its spare byte.
Keeps(h, r, h2, r2) == Placed(h2, r2) /\ (SpareAll(h, r) => SpareAll(h2, r2))

\* A string that was there, with the same header, has the spare byte it had.
LEMMA SpareKept ==
    ASSUME NEW h, NEW h2, h.blocks \subseteq h2.blocks, NEW a, SameHeader(h, h2, a), Spare(h, a)
    PROVE  Spare(h2, a)
  BY DEF Spare, SameHeader

\* An object whose header nobody wrote is where it was.
LEMMA ObjectKept ==
    ASSUME NEW h, NEW h2, NEW r, NEW r2, NEW x, r2[x] = r[x], SameHeader(h, h2, r[x])
    PROVE  ObjectAt(h2, r2, x) = ObjectAt(h, r, x)
  BY DEF ObjectAt, TextAt, ArrayAt, SameHeader

\* ... and so are its blocks, after an allocation.
LEMMA InKept ==
    ASSUME NEW h, HeapInv(h), NEW h2, NEW N, Extends(h, h2, N), NEW a, SameHeader(h, h2, a)
    PROVE  /\ StringIn(h, a) => StringIn(h2, a)
           /\ ArrayIn(h, a) => ArrayIn(h2, a)
<1>1. TextAt(h2, a) = TextAt(h, a) /\ ArrayAt(h2, a) = ArrayAt(h, a)
  BY DEF TextAt, ArrayAt, SameHeader
<1>2. ASSUME StringIn(h, a) PROVE StringIn(h2, a)
  <2>1. InBlock(h, HeaderAt(a)) /\ InBlock(h, TextAt(h, a)) /\ Apart(h, HeaderAt(a), TextAt(h, a))
    BY <1>2 DEF StringIn
  <2>2. HeaderAt(a) \subseteq 0 .. h.pos - 1 /\ TextAt(h, a) \subseteq 0 .. h.pos - 1
    BY <2>1, InBlockBelow
  <2>3. InBlock(h2, HeaderAt(a)) /\ InBlock(h2, TextAt(h, a)) /\ Apart(h2, HeaderAt(a), TextAt(h, a))
    BY <2>1, <2>2, ExtendedHeap
  <2>4. {a, h2.mem[a], h2.mem[a + 1]} \subseteq Nat BY <1>2 DEF StringIn, SameHeader
  <2> QED BY <1>1, <2>3, <2>4 DEF StringIn
<1>3. ASSUME ArrayIn(h, a) PROVE ArrayIn(h2, a)
  <2>1. InBlock(h2, ArrayAt(h, a)) BY <1>3, ExtendedHeap DEF ArrayIn
  <2>2. a \in Nat /\ h2.mem[a] \in Nat \ {0} /\ h2.mem[a + 1] \in 0 .. h2.mem[a]
    BY <1>3 DEF ArrayIn, SameHeader
  <2> QED BY <1>1, <2>1, <2>2 DEF ArrayIn
<1> QED BY <1>2, <1>3

\* A new object above the position, for the variable v.
LEMMA Received ==
    ASSUME NEW h, NEW r, Placed(h, r), NEW h2, NEW N, Extends(h, h2, N),
           \A c \in 0 .. h.pos - 1 : h2.mem[c] = h.mem[c],
           NEW v \in Handles, NEW a \in Nat, h.pos <= a, NEW r2, r2 = [r EXCEPT ![v] = a],
           v \in Strings => StringIn(h2, a) /\ Spare(h2, a), v \in Arrays => ArrayIn(h2, a),
           ObjectAt(h2, r2, v) \intersect (0 .. h.pos - 1) = {}
    PROVE  Keeps(h, r, h2, r2)
<1>1. HeapInv(h) /\ HeapInv(h2) /\ h.pos \in Nat
  BY ExtendedHeap DEF Placed, HeapInv
<1>2. r2 = [x \in Handles |-> r2[x]] /\ r2[v] = a /\ \A x \in Handles \ {v} : r2[x] = r[x]
  BY DEF Placed
<1>3. ASSUME NEW x \in Handles \ {v}, r[x] # Null
      PROVE  /\ SameHeader(h, h2, r[x]) /\ ObjectAt(h2, r2, x) = ObjectAt(h, r, x)
             /\ ObjectAt(h, r, x) \subseteq 0 .. h.pos - 1 /\ r[x] < h.pos
  <2>1. /\ r[x] \in Nat /\ {r[x], r[x] + 1} \subseteq ObjectAt(h, r, x)
        /\ ObjectAt(h, r, x) \subseteq 0 .. h.pos - 1
    BY <1>3, ObjectIn
  <2>2. SameHeader(h, h2, r[x]) BY <2>1 DEF SameHeader
  <2>3. r[x] \in 0 .. h.pos - 1 BY <2>1
  <2>4. ObjectAt(h2, r2, x) = ObjectAt(h, r, x)
    <3>1. r2[x] = r[x] BY <1>2
    <3> QED BY <2>2, <3>1 DEF ObjectAt, TextAt, ArrayAt, SameHeader
  <2>5. r[x] < h.pos BY <1>1, <2>3
  <2> QED BY <2>1, <2>2, <2>4, <2>5
<1>4. ASSUME NEW x \in Strings, r2[x] # Null PROVE StringIn(h2, r2[x])
  <2>1. CASE x = v BY <1>2, <2>1
  <2>2. CASE x # v
    <3>1. x \in Handles \ {v} /\ r2[x] = r[x] BY <1>2, <2>2 DEF Handles
    <3>2. StringIn(h, r[x]) BY <1>4, <3>1 DEF Placed
    <3> QED BY <1>1, <1>3, <1>4, <3>1, <3>2, InKept
  <2> QED BY <2>1, <2>2
<1>5. ASSUME NEW x \in Arrays, r2[x] # Null PROVE ArrayIn(h2, r2[x])
  <2>1. CASE x = v BY <1>2, <2>1
  <2>2. CASE x # v
    <3>1. x \in Handles \ {v} /\ r2[x] = r[x] BY <1>2, <2>2 DEF Handles
    <3>2. ArrayIn(h, r[x]) BY <1>5, <3>1 DEF Placed
    <3> QED BY <1>1, <1>3, <1>5, <3>1, <3>2, InKept
  <2> QED BY <2>1, <2>2
<1>6. ASSUME NEW x \in Strings, NEW w \in Arrays, r2[x] # Null PROVE r2[x] # r2[w]
  <2>1. x \in Handles /\ w \in Handles /\ x # w BY BuffersAssumption DEF Handles, BuffersAssumption
  <2>2. CASE x # v /\ w # v BY <1>2, <1>6, <2>1, <2>2 DEF Placed
  <2>3. CASE x = v
    <3>1. r2[x] = a /\ r2[w] = r[w] BY <1>2, <2>1, <2>3
    <3>2. CASE r[w] = Null BY <1>6, <3>1, <3>2
    <3>3. CASE r[w] # Null
      <4>1. r[w] < h.pos /\ r[w] \in Nat BY <1>3, <2>1, <2>3, <3>3, ObjectIn
      <4> QED BY <1>1, <3>1, <4>1
    <3> QED BY <3>2, <3>3
  <2>4. CASE w = v
    <3>1. r2[w] = a /\ r2[x] = r[x] /\ r[x] # Null BY <1>2, <1>6, <2>1, <2>4
    <3>2. r[x] < h.pos /\ r[x] \in Nat BY <1>3, <2>1, <2>4, <3>1, ObjectIn
    <3> QED BY <1>1, <3>1, <3>2
  <2> QED BY <2>2, <2>3, <2>4
<1>7. ASSUME NEW x \in Handles, NEW y \in Handles, r2[x] # r2[y]
      PROVE  Apart(h2, ObjectAt(h2, r2, x), ObjectAt(h2, r2, y))
  <2>1. CASE r2[x] = Null \/ r2[y] = Null BY <2>1 DEF ObjectAt, Apart
  <2>2. CASE x # v /\ y # v /\ r2[x] # Null /\ r2[y] # Null
    <3>1. r2[x] = r[x] /\ r2[y] = r[y] BY <1>2, <2>2
    <3>2. Apart(h, ObjectAt(h, r, x), ObjectAt(h, r, y)) BY <1>7, <3>1 DEF Placed
    <3>3. /\ ObjectAt(h2, r2, x) = ObjectAt(h, r, x) /\ ObjectAt(h, r, x) \subseteq 0 .. h.pos - 1
          /\ ObjectAt(h2, r2, y) = ObjectAt(h, r, y) /\ ObjectAt(h, r, y) \subseteq 0 .. h.pos - 1
      BY <1>3, <2>2, <3>1
    <3> QED BY <1>1, <3>2, <3>3, ExtendedHeap
  <2>3. CASE x = v /\ y # v /\ r2[y] # Null
    <3>1. ObjectAt(h2, r2, y) \subseteq 0 .. h.pos - 1 BY <1>2, <1>3, <2>3
    <3> QED BY <1>1, <2>3, <3>1, ExtendedHeap
  <2>4. CASE y = v /\ x # v /\ r2[x] # Null
    <3>1. ObjectAt(h2, r2, x) \subseteq 0 .. h.pos - 1 BY <1>2, <1>3, <2>4
    <3> QED BY <1>1, <2>4, <3>1, ExtendedHeap
  <2> QED BY <1>7, <2>1, <2>2, <2>3, <2>4
<1>8. Placed(h2, r2)
  BY <1>1, <1>2, <1>4, <1>5, <1>6, <1>7 DEF Placed
<1>9. ASSUME SpareAll(h, r), NEW x \in Strings, r2[x] # Null PROVE Spare(h2, r2[x])
  <2>1. CASE x = v BY <1>2, <2>1
  <2>2. CASE x # v
    <3>1. x \in Handles \ {v} /\ r2[x] = r[x] BY <1>2, <2>2 DEF Handles
    <3>2. Spare(h, r[x]) BY <1>9, <3>1 DEF SpareAll
    <3>3. h.blocks \subseteq h2.blocks BY DEF Extends
    <3> QED BY <1>3, <1>9, <3>1, <3>2, <3>3, SpareKept
  <2> QED BY <2>1, <2>2
<1> QED BY <1>8, <1>9 DEF Keeps, SpareAll

\* A part of a cell set keeps apart from what the whole does.
LEMMA ApartOfParts ==
    ASSUME NEW h, NEW S, NEW T, NEW S2, NEW T2, Apart(h, S, T), S2 \subseteq S, T2 \subseteq T
    PROVE  Apart(h, S2, T2) /\ Apart(h, T2, S2)
  BY DEF Apart

\* The string at a is given new characters, in a block above the position.
LEMMA Rebased ==
    ASSUME NEW h, NEW r, Placed(h, r), NEW h2, NEW N, Extends(h, h2, N),
           NEW v \in Strings, r[v] # Null,
           \A c \in 0 .. h.pos - 1 : c \notin {r[v], r[v] + 1} => h2.mem[c] = h.mem[c],
           {h2.mem[r[v]], h2.mem[r[v] + 1]} \subseteq Nat,
           InBlock(h2, TextAt(h2, r[v])), TextAt(h2, r[v]) \intersect (0 .. h.pos - 1) = {}
    PROVE  Placed(h2, r) /\ (Spare(h2, r[v]) => Keeps(h, r, h2, r))
<1> DEFINE a == r[v]
<1>1. HeapInv(h) /\ HeapInv(h2) /\ h.pos \in Nat /\ v \in Handles /\ StringIn(h, a)
  BY ExtendedHeap DEF Placed, HeapInv, Handles
<1>2. HeaderAt(a) = {a, a + 1} /\ a \in Nat /\ HeaderAt(a) \subseteq 0 .. h.pos - 1
  BY <1>1, InBlockBelow DEF StringIn, HeaderAt, HeaderSize
<1>3. HeaderAt(a) \subseteq ObjectAt(h, r, v)
  BY DEF ObjectAt
<1>4. StringIn(h2, a)
  <2>1. InBlock(h2, HeaderAt(a)) BY <1>1, ExtendedHeap DEF StringIn
  <2>2. Apart(h2, HeaderAt(a), TextAt(h2, a)) BY <1>1, <1>2, ExtendedHeap
  <2> QED BY <1>2, <2>1, <2>2 DEF StringIn
<1>5. ASSUME NEW x \in Handles, r[x] # Null, r[x] # a
      PROVE  /\ SameHeader(h, h2, r[x]) /\ ObjectAt(h2, r, x) = ObjectAt(h, r, x)
             /\ ObjectAt(h, r, x) \subseteq 0 .. h.pos - 1
             /\ Apart(h, ObjectAt(h, r, x), HeaderAt(a))
  <2>1. /\ r[x] \in Nat /\ {r[x], r[x] + 1} \subseteq ObjectAt(h, r, x)
        /\ ObjectAt(h, r, x) \subseteq 0 .. h.pos - 1
    BY <1>5, ObjectIn
  <2>2. ObjectAt(h, r, x) \intersect ObjectAt(h, r, v) = {}
    BY <1>1, <1>5, ObjectsApart
  <2>3. SameHeader(h, h2, r[x]) BY <1>2, <1>3, <2>1, <2>2 DEF SameHeader
  <2>4. Apart(h, ObjectAt(h, r, x), ObjectAt(h, r, v)) BY <1>1, <1>5 DEF Placed
  <2>5. Apart(h, ObjectAt(h, r, x), HeaderAt(a)) BY <1>3, <2>4, ApartOfParts
  <2>6. ObjectAt(h2, r, x) = ObjectAt(h, r, x) BY <2>3, ObjectKept
  <2> QED BY <2>1, <2>3, <2>5, <2>6
<1>6. ASSUME NEW x \in Strings, r[x] # Null PROVE StringIn(h2, r[x])
  <2>1. x \in Handles /\ StringIn(h, r[x]) BY <1>6 DEF Placed, Handles
  <2> QED BY <1>1, <1>4, <1>5, <1>6, <2>1, InKept
<1>7. ASSUME NEW x \in Arrays, r[x] # Null PROVE ArrayIn(h2, r[x])
  <2>1. x \in Handles /\ ArrayIn(h, r[x]) /\ r[x] # a BY <1>7 DEF Placed, Handles
  <2> QED BY <1>1, <1>5, <1>7, <2>1, InKept
<1>8. ASSUME NEW x \in Handles, r[x] = a
      PROVE  ObjectAt(h2, r, x) = HeaderAt(a) \union TextAt(h2, a)
  <2>1. x \in Strings BY <1>8 DEF Placed, Handles
  <2> QED BY <1>8, <2>1 DEF ObjectAt
<1>9. ASSUME NEW x \in Handles, r[x] # Null, r[x] # a
      PROVE  /\ Apart(h2, ObjectAt(h2, r, x), HeaderAt(a) \union TextAt(h2, a))
             /\ Apart(h2, HeaderAt(a) \union TextAt(h2, a), ObjectAt(h2, r, x))
  <2> DEFINE S == ObjectAt(h, r, x)
  <2>1. ObjectAt(h2, r, x) = S /\ S \subseteq 0 .. h.pos - 1 /\ Apart(h, S, HeaderAt(a))
    BY <1>5, <1>9
  <2>2. Apart(h2, S, HeaderAt(a)) BY <1>1, <1>2, <2>1, ExtendedHeap
  <2>3. Apart(h2, S, TextAt(h2, a)) BY <1>1, <2>1, ExtendedHeap
  <2>4. Apart(h2, S, HeaderAt(a) \union TextAt(h2, a))
        /\ Apart(h2, HeaderAt(a) \union TextAt(h2, a), S)
    BY <2>2, <2>3 DEF Apart
  <2> QED BY <2>1, <2>4
<1>10. ASSUME NEW x \in Handles, NEW y \in Handles, r[x] # r[y]
       PROVE  Apart(h2, ObjectAt(h2, r, x), ObjectAt(h2, r, y))
  <2>1. CASE r[x] = Null \/ r[y] = Null BY <2>1 DEF ObjectAt, Apart
  <2>2. CASE r[x] # Null /\ r[y] # Null /\ r[x] # a /\ r[y] # a
    <3>1. Apart(h, ObjectAt(h, r, x), ObjectAt(h, r, y)) BY <1>10 DEF Placed
    <3>2. /\ ObjectAt(h2, r, x) = ObjectAt(h, r, x) /\ ObjectAt(h, r, x) \subseteq 0 .. h.pos - 1
          /\ ObjectAt(h2, r, y) = ObjectAt(h, r, y) /\ ObjectAt(h, r, y) \subseteq 0 .. h.pos - 1
      BY <1>5, <2>2
    <3> QED BY <1>1, <3>1, <3>2, ExtendedHeap
  <2>3. CASE r[x] = a /\ r[y] # Null BY <1>8, <1>9, <1>10, <2>3
  <2>4. CASE r[y] = a /\ r[x] # Null BY <1>8, <1>9, <1>10, <2>4
  <2> QED BY <2>1, <2>2, <2>3, <2>4
<1>11. r = [x \in Handles |-> r[x]] /\ \A x \in Strings, w \in Arrays : r[x] # Null => r[x] # r[w]
  BY DEF Placed
<1>12. Placed(h2, r)
  BY <1>1, <1>6, <1>7, <1>10, <1>11 DEF Placed
<1>13. ASSUME Spare(h2, a), SpareAll(h, r), NEW x \in Strings, r[x] # Null, r[x] # a PROVE Spare(h2, r[x])
  <2>1. SameHeader(h, h2, r[x]) BY <1>5, <1>13 DEF Handles
  <2>2. Spare(h, r[x]) /\ h.blocks \subseteq h2.blocks BY <1>13 DEF SpareAll, Extends
  <2> QED BY <2>1, <2>2, SpareKept
<1> QED BY <1>12, <1>13 DEF Keeps, SpareAll

\* A write in place: the blocks stay, headers other than that at a keep their
\* cells, and the object at a is part of what it was.
LEMMA InPlace ==
    ASSUME NEW h, NEW r, Placed(h, r), NEW h2, NEW v \in Handles, r[v] # Null,
           h2 = [pos |-> h.pos, mem |-> h2.mem, blocks |-> h.blocks],
           DOMAIN h2.mem = DOMAIN h.mem,
           \A x \in Handles : r[x] \notin {Null, r[v]} => SameHeader(h, h2, r[x]),
           ObjectAt(h2, r, v) \subseteq ObjectAt(h, r, v),
           v \in Strings => StringIn(h2, r[v]), v \in Arrays => ArrayIn(h2, r[v])
    PROVE  Placed(h2, r)
<1> DEFINE a == r[v]
<1>1. HeapInv(h)
  BY DEF Placed
<1>2. h2.pos = h.pos /\ h2.blocks = h.blocks
  OBVIOUS
<1>3. HeapInv(h2) /\ Extends(h, h2, {})
  BY <1>1, <1>2 DEF HeapInv, Extends
<1>4. \A S, T : Apart(h, S, T) => Apart(h2, S, T)
  BY <1>2 DEF Apart
<1>5. \A x \in Handles : x \in Strings \/ x \in Arrays
  BY DEF Handles
<1>6. ASSUME NEW x \in Handles, r[x] # Null PROVE ObjectAt(h2, r, x) \subseteq ObjectAt(h, r, x)
  <2>1. CASE r[x] # a BY <1>6, <2>1, ObjectKept
  <2>2. CASE r[x] = a
    <3>1. x \in Strings <=> v \in Strings BY <1>5, <2>2 DEF Placed
    <3>2. ObjectAt(h2, r, x) = ObjectAt(h2, r, v) /\ ObjectAt(h, r, x) = ObjectAt(h, r, v)
      BY <2>2, <3>1 DEF ObjectAt
    <3> QED BY <3>2
  <2> QED BY <2>1, <2>2
<1>7. ASSUME NEW x \in Strings, r[x] # Null PROVE StringIn(h2, r[x])
  <2>1. x \in Handles /\ StringIn(h, r[x]) BY <1>7 DEF Placed, Handles
  <2>2. CASE r[x] # a BY <1>1, <1>3, <1>7, <2>1, <2>2, InKept
  <2>3. CASE r[x] = a
    <3>1. v \in Strings BY <1>5, <1>7, <2>3 DEF Placed
    <3> QED BY <2>3, <3>1
  <2> QED BY <2>2, <2>3
<1>8. ASSUME NEW x \in Arrays, r[x] # Null PROVE ArrayIn(h2, r[x])
  <2>1. x \in Handles /\ ArrayIn(h, r[x]) BY <1>8 DEF Placed, Handles
  <2>2. CASE r[x] # a BY <1>1, <1>3, <1>8, <2>1, <2>2, InKept
  <2>3. CASE r[x] = a
    <3>1. v \in Arrays BY <1>5, <1>8, <2>3 DEF Placed
    <3> QED BY <2>3, <3>1
  <2> QED BY <2>2, <2>3
<1>9. ASSUME NEW x \in Handles, NEW y \in Handles, r[x] # r[y]
      PROVE  Apart(h2, ObjectAt(h2, r, x), ObjectAt(h2, r, y))
  <2>1. CASE r[x] = Null \/ r[y] = Null BY <2>1 DEF ObjectAt, Apart
  <2>2. CASE r[x] # Null /\ r[y] # Null
    <3>1. Apart(h2, ObjectAt(h, r, x), ObjectAt(h, r, y)) BY <1>4, <1>9 DEF Placed
    <3> QED BY <1>6, <2>2, <3>1, ApartOfParts
  <2> QED BY <2>1, <2>2
<1>10. r = [x \in Handles |-> r[x]] /\ \A x \in Strings, w \in Arrays : r[x] # Null => r[x] # r[w]
  BY DEF Placed
<1> QED BY <1>3, <1>7, <1>8, <1>9, <1>10 DEF Placed

\* The caller forgets an object, or shares it with a variable of the same kind.
LEMMA Renamed ==
    ASSUME NEW h, NEW r, Placed(h, r), NEW r2, r2 = [x \in Handles |-> r2[x]],
           \A x \in Handles : \/ r2[x] = Null
                              \/ \E y \in Handles : r2[x] = r[y] /\ (x \in Strings <=> y \in Strings)
    PROVE  Keeps(h, r, h, r2)
<1>1. ASSUME NEW x \in Handles, r2[x] # Null
      PROVE  \E y \in Handles : /\ r2[x] = r[y] /\ (x \in Strings <=> y \in Strings)
                                /\ ObjectAt(h, r2, x) = ObjectAt(h, r, y)
  <2>1. PICK y \in Handles : r2[x] = r[y] /\ (x \in Strings <=> y \in Strings) BY <1>1
  <2>2. ObjectAt(h, r2, x) = ObjectAt(h, r, y) BY <2>1 DEF ObjectAt
  <2> QED BY <2>1, <2>2
<1>2. Strings \intersect Arrays = {}
  BY BuffersAssumption DEF BuffersAssumption
<1>3. ASSUME NEW x \in Strings, r2[x] # Null PROVE StringIn(h, r2[x])
  <2>1. PICK y \in Handles : r2[x] = r[y] /\ (x \in Strings <=> y \in Strings) BY <1>1, <1>3 DEF Handles
  <2> QED BY <1>3, <2>1 DEF Placed
<1>4. ASSUME NEW x \in Arrays, r2[x] # Null PROVE ArrayIn(h, r2[x])
  <2>1. PICK y \in Handles : r2[x] = r[y] /\ (x \in Strings <=> y \in Strings) BY <1>1, <1>4 DEF Handles
  <2>2. y \in Arrays BY <1>2, <2>1 DEF Handles
  <2> QED BY <1>4, <2>1, <2>2 DEF Placed
<1>5. ASSUME NEW x \in Strings, NEW w \in Arrays, r2[x] # Null, r2[x] = r2[w] PROVE FALSE
  <2>1. PICK y \in Handles : r2[x] = r[y] /\ (x \in Strings <=> y \in Strings) BY <1>1, <1>5 DEF Handles
  <2>2. PICK z \in Handles : r2[w] = r[z] /\ (w \in Strings <=> z \in Strings) BY <1>1, <1>5 DEF Handles
  <2>3. y \in Strings /\ z \in Arrays BY <1>2, <2>1, <2>2 DEF Handles
  <2> QED BY <1>5, <2>1, <2>2, <2>3 DEF Placed
<1>6. ASSUME NEW x \in Handles, NEW y \in Handles, r2[x] # r2[y]
      PROVE  Apart(h, ObjectAt(h, r2, x), ObjectAt(h, r2, y))
  <2>1. CASE r2[x] = Null \/ r2[y] = Null BY <2>1 DEF ObjectAt, Apart
  <2>2. CASE r2[x] # Null /\ r2[y] # Null
    <3>1. PICK u \in Handles : r2[x] = r[u] /\ ObjectAt(h, r2, x) = ObjectAt(h, r, u) BY <1>1, <2>2
    <3>2. PICK w \in Handles : r2[y] = r[w] /\ ObjectAt(h, r2, y) = ObjectAt(h, r, w) BY <1>1, <2>2
    <3>3. Apart(h, ObjectAt(h, r, u), ObjectAt(h, r, w)) BY <1>6, <3>1, <3>2 DEF Placed
    <3> QED BY <3>1, <3>2, <3>3
  <2> QED BY <2>1, <2>2
<1>7. HeapInv(h)
  BY DEF Placed
<1>8. Placed(h, r2)
  BY <1>3, <1>4, <1>5, <1>6, <1>7 DEF Placed
<1>9. ASSUME SpareAll(h, r), NEW x \in Strings, r2[x] # Null PROVE Spare(h, r2[x])
  <2>1. PICK y \in Handles : r2[x] = r[y] /\ (x \in Strings <=> y \in Strings) BY <1>1, <1>9 DEF Handles
  <2> QED BY <1>9, <2>1 DEF SpareAll
<1> QED BY <1>8, <1>9 DEF Keeps, SpareAll

\* The block that has one cell of a set has them all, when some block does.
LEMMA TheBlockOf ==
    ASSUME NEW h, HeapInv(h), NEW S, InBlock(h, S), NEW b \in h.blocks, NEW c \in S, c \in Bytes(b)
    PROVE  S \subseteq Bytes(b)
  BY DEF HeapInv, InBlock

\* The heap h2 is h rolled back to the position target.
RolledBack(h, h2, target) ==
    /\ h2 = [pos |-> h2.pos, mem |-> h2.mem, blocks |-> h2.blocks]
    /\ h2.pos = target /\ DOMAIN h2.mem = DOMAIN h.mem
    /\ h2.blocks = {b \in h.blocks : b.to <= target}
    /\ \A c \in 0 .. target - 1 : h2.mem[c] = h.mem[c]

\* A rollback keeps the objects whose cells lie in what is left.
LEMMA RollBackKeeps ==
    ASSUME NEW h, NEW r, Placed(h, r), NEW h2, NEW target \in Nat, target <= h.pos,
           RolledBack(h, h2, target), NEW r2, r2 = [x \in Handles |-> r2[x]],
           \A x \in Handles : r2[x] \in {Null, r[x]},
           \A x \in Handles : r2[x] # Null => \E b \in h2.blocks : r[x] \in Bytes(b),
           \A x \in Strings : r2[x] # Null => \E b \in h2.blocks : h.mem[r[x]] \in Bytes(b)
    PROVE  Keeps(h, r, h2, r2)
<1>1. Placed(h, r2) /\ (SpareAll(h, r) => SpareAll(h, r2))
  BY Renamed DEF Keeps
<1>2. HeapInv(h)
  BY DEF Placed
<1>3. HeapInv(h2)
  <2>1. h.pos \in 0 .. Reserved - 1 /\ DOMAIN h.mem = 0 .. Reserved - 1 BY <1>2 DEF HeapInv
  <2>2. h2.pos \in 0 .. Reserved - 1
    BY <2>1, BuffersAssumption DEF BuffersAssumption, RolledBack
  <2>3. h2 = [pos |-> h2.pos, mem |-> h2.mem, blocks |-> h2.blocks] BY DEF RolledBack
  <2>4. DOMAIN h2.mem = 0 .. Reserved - 1 BY <2>1 DEF RolledBack
  <2>5. \A b \in h2.blocks : b.from \in Nat /\ b.to \in Nat /\ b.to <= h2.pos
    BY <1>2 DEF HeapInv, RolledBack
  <2>6. \A b, c \in h2.blocks : b = c \/ Bytes(b) \intersect Bytes(c) = {}
    BY <1>2 DEF HeapInv, RolledBack
  <2> QED BY <2>2, <2>3, <2>4, <2>5, <2>6 DEF HeapInv
<1>4. \A b \in h2.blocks : b \in h.blocks
  BY DEF RolledBack
<1>5. \A S, T : Apart(h, S, T) => Apart(h2, S, T)
  BY <1>4 DEF Apart
<1>6. ASSUME NEW S, InBlock(h, S), NEW c \in S, \E b \in h2.blocks : c \in Bytes(b)
      PROVE  InBlock(h2, S) /\ S \subseteq 0 .. target - 1
  <2>1. PICK b \in h2.blocks : c \in Bytes(b) BY <1>6
  <2>2. S \subseteq Bytes(b) BY <1>2, <1>4, <1>6, <2>1, TheBlockOf
  <2>3. InBlock(h2, S) BY <2>2 DEF InBlock
  <2>4. h2.pos = target BY DEF RolledBack
  <2> QED BY <1>3, <2>3, <2>4, InBlockBelow
<1>7. ASSUME NEW x \in Handles, r2[x] # Null
      PROVE  /\ SameHeader(h, h2, r2[x]) /\ ObjectAt(h2, r2, x) = ObjectAt(h, r2, x)
             /\ x \in Strings => StringIn(h2, r2[x])
             /\ x \in Arrays => ArrayIn(h2, r2[x])
  <2> DEFINE a == r2[x]
  <2>1. a = r[x] /\ \E b \in h2.blocks : a \in Bytes(b) BY <1>7
  <2>2. CASE x \in Strings
    <3>1. StringIn(h, a) BY <1>1, <1>7, <2>2 DEF Placed
    <3>2. a \in HeaderAt(a) /\ a + 1 \in HeaderAt(a) BY <3>1 DEF StringIn, HeaderAt, HeaderSize
    <3>3. InBlock(h2, HeaderAt(a)) /\ HeaderAt(a) \subseteq 0 .. target - 1
      BY <1>6, <2>1, <3>1, <3>2 DEF StringIn
    <3>4. SameHeader(h, h2, a) BY <3>2, <3>3 DEF SameHeader, RolledBack
    <3>5. TextAt(h2, a) = TextAt(h, a) BY <3>4 DEF TextAt, SameHeader
    <3>6. InBlock(h2, TextAt(h, a))
      <4>1. CASE TextAt(h, a) = {} BY <2>1, <4>1 DEF InBlock
      <4>2. CASE TextAt(h, a) # {}
        <5>1. h.mem[a] \in TextAt(h, a) BY <3>1, <4>2 DEF TextAt, StringIn
        <5>2. \E b \in h2.blocks : h.mem[a] \in Bytes(b) BY <1>7, <2>1, <2>2
        <5> QED BY <1>6, <3>1, <5>1, <5>2 DEF StringIn
      <4> QED BY <4>1, <4>2
    <3>7. StringIn(h2, a)
      <4>1. {a, h2.mem[a], h2.mem[a + 1]} \subseteq Nat BY <3>1, <3>4 DEF StringIn, SameHeader
      <4>2. Apart(h2, HeaderAt(a), TextAt(h2, a)) BY <1>5, <3>1, <3>5 DEF StringIn
      <4> QED BY <3>3, <3>5, <3>6, <4>1, <4>2 DEF StringIn
    <3>8. x \notin Arrays BY <2>2, BuffersAssumption DEF BuffersAssumption
    <3> QED BY <3>4, <3>7, <3>8, ObjectKept
  <2>3. CASE x \in Arrays /\ x \notin Strings
    <3>1. ArrayIn(h, a) BY <1>1, <1>7, <2>3 DEF Placed
    <3>2. a \in ArrayAt(h, a) /\ a + 1 \in ArrayAt(h, a) BY <3>1 DEF ArrayIn, ArrayAt, HeaderSize
    <3>3. InBlock(h2, ArrayAt(h, a)) /\ ArrayAt(h, a) \subseteq 0 .. target - 1
      BY <1>6, <2>1, <3>1, <3>2 DEF ArrayIn
    <3>4. SameHeader(h, h2, a) BY <3>2, <3>3 DEF SameHeader, RolledBack
    <3>5. ArrayAt(h2, a) = ArrayAt(h, a) BY <3>4 DEF ArrayAt, SameHeader
    <3>6. ArrayIn(h2, a) BY <3>1, <3>3, <3>4, <3>5 DEF ArrayIn, SameHeader
    <3> QED BY <2>3, <3>4, <3>6, ObjectKept
  <2> QED BY <2>2, <2>3 DEF Handles
<1>8. ASSUME NEW x \in Handles, NEW y \in Handles, r2[x] # r2[y]
      PROVE  Apart(h2, ObjectAt(h2, r2, x), ObjectAt(h2, r2, y))
  <2>1. CASE r2[x] = Null \/ r2[y] = Null BY <2>1 DEF ObjectAt, Apart
  <2>2. CASE r2[x] # Null /\ r2[y] # Null
    <3>1. Apart(h2, ObjectAt(h, r2, x), ObjectAt(h, r2, y)) BY <1>1, <1>5, <1>8 DEF Placed
    <3> QED BY <1>7, <2>2, <3>1
  <2> QED BY <2>1, <2>2
<1>9. \A x \in Strings, w \in Arrays : r2[x] # Null => r2[x] # r2[w]
  BY <1>1 DEF Placed
<1>10. Placed(h2, r2)
  BY <1>3, <1>7, <1>8, <1>9 DEF Placed, Handles
<1>11. ASSUME SpareAll(h, r), NEW x \in Strings, r2[x] # Null PROVE Spare(h2, r2[x])
  <2> DEFINE S == {h.mem[r[x]], h.mem[r[x]] + h.mem[r[x] + 1]}
  <2>1. x \in Handles /\ r2[x] = r[x] BY <1>11 DEF Handles
  <2>2. InBlock(h, S) BY <1>1, <1>11, <2>1 DEF SpareAll, Spare, InBlock
  <2>3. \E b \in h2.blocks : h.mem[r[x]] \in Bytes(b) BY <1>11
  <2>4. InBlock(h2, S) BY <1>6, <2>2, <2>3
  <2>5. SameHeader(h, h2, r[x]) BY <1>7, <1>11, <2>1
  <2> QED BY <2>1, <2>4, <2>5 DEF InBlock, Spare, SameHeader
<1> QED BY <1>10, <1>11 DEF Keeps, SpareAll

-----------------------------------------------------------------------------
(* Writes. *)

\* A heap is a record of these three fields.
IsHeap(h) == h = [pos |-> h.pos, mem |-> h.mem, blocks |-> h.blocks]

\* Put() writes cells and moves nothing.
LEMMA PutIs ==
    ASSUME NEW h, IsHeap(h), NEW at, NEW cells
    PROVE  /\ Put(h, at, cells) = [pos |-> h.pos, mem |-> Put(h, at, cells).mem, blocks |-> h.blocks]
           /\ DOMAIN Put(h, at, cells).mem = DOMAIN h.mem
           /\ \A a \in DOMAIN h.mem :
                 Put(h, at, cells).mem[a] =
                     IF a \in at .. (at + Len(cells) - 1) THEN cells[a - at + 1] ELSE h.mem[a]
  BY DEF Put, IsHeap

\* Writing one cell ...
LEMMA PutOne ==
    ASSUME NEW h, IsHeap(h), NEW at \in Int, NEW c
    PROVE  \A a \in DOMAIN h.mem \intersect Int :
               Put(h, at, <<c>>).mem[a] = IF a = at THEN c ELSE h.mem[a]
<1> DEFINE s == <<c>>
<1>1. Len(s) = 1 /\ s[1] = c
  OBVIOUS
<1> HIDE DEF s
<1>2. SUFFICES ASSUME NEW a \in DOMAIN h.mem, a \in Int
               PROVE  Put(h, at, s).mem[a] = IF a = at THEN c ELSE h.mem[a]
  BY DEF s
<1>3. Put(h, at, s).mem[a] = IF a \in at .. (at + Len(s) - 1) THEN s[a - at + 1] ELSE h.mem[a]
  BY PutIs
<1>4. a \in at .. (at + Len(s) - 1) <=> a = at
  BY <1>1, <1>2
<1>5. a = at => a - at + 1 = 1
  BY <1>2
<1> QED BY <1>1, <1>3, <1>4, <1>5

\* ... or two.
LEMMA PutTwo ==
    ASSUME NEW h, IsHeap(h), NEW at \in Int, NEW c, NEW d
    PROVE  \A a \in DOMAIN h.mem \intersect Int :
               Put(h, at, <<c, d>>).mem[a] =
                   IF a = at THEN c ELSE IF a = at + 1 THEN d ELSE h.mem[a]
<1> DEFINE s == <<c, d>>
<1>1. Len(s) = 2 /\ s[1] = c /\ s[2] = d
  OBVIOUS
<1> HIDE DEF s
<1>2. SUFFICES ASSUME NEW a \in DOMAIN h.mem, a \in Int
               PROVE  Put(h, at, s).mem[a] =
                          IF a = at THEN c ELSE IF a = at + 1 THEN d ELSE h.mem[a]
  BY DEF s
<1>3. Put(h, at, s).mem[a] = IF a \in at .. (at + Len(s) - 1) THEN s[a - at + 1] ELSE h.mem[a]
  BY PutIs
<1>4. a \in at .. (at + Len(s) - 1) <=> (a = at \/ a = at + 1)
  BY <1>1, <1>2
<1>5. (a = at => a - at + 1 = 1) /\ (a = at + 1 => a - at + 1 = 2)
  BY <1>2
<1> QED BY <1>1, <1>3, <1>4, <1>5

\* The terminator of a string is written behind its last character, in its
\* block, where no other object and no header is.
LEMMA TerminatedKeeps ==
    ASSUME SpareOnly, Placed(heap, ref), NEW v \in Strings, CanTerminate(v)
    PROVE  /\ Keeps(heap, ref, Terminated(ref[v]), ref)
           /\ AllKept(heap, ref, Terminated(ref[v]), ref)
           /\ Terminated(ref[v]).pos = heap.pos
           /\ Terminated(ref[v]) = [pos |-> heap.pos, mem |-> Terminated(ref[v]).mem, blocks |-> heap.blocks]
<1> DEFINE a == ref[v]
           t == heap.mem[a]
           n == heap.mem[a + 1]
           h2 == Terminated(a)
<1>1. HeapInv(heap) /\ IsHeap(heap) /\ v \in Handles
  BY DEF Placed, HeapInv, IsHeap, Handles
<1>2. a # Null /\ n > 0 /\ HasSpareByte(a)
  BY DEF CanTerminate, HasText, StrLen, SpareOnly
<1>3. StringIn(heap, a)
  BY <1>2 DEF Placed
<1>4. a \in Nat /\ t \in Nat /\ n \in Nat
  BY <1>3 DEF StringIn
<1>5. h2 = Put(heap, t + n, <<Nul>>)
  BY DEF Terminated, StrBase, StrLen
<1>6. /\ h2 = [pos |-> heap.pos, mem |-> h2.mem, blocks |-> heap.blocks]
      /\ DOMAIN h2.mem = DOMAIN heap.mem
      /\ \A c \in DOMAIN heap.mem \intersect Int : c # t + n => h2.mem[c] = heap.mem[c]
  <2> HIDE DEF h2, t, n
  <2>1. t + n \in Int BY <1>4
  <2>2. /\ Put(heap, t + n, <<Nul>>)
              = [pos |-> heap.pos, mem |-> Put(heap, t + n, <<Nul>>).mem, blocks |-> heap.blocks]
        /\ DOMAIN Put(heap, t + n, <<Nul>>).mem = DOMAIN heap.mem
    BY <1>1, PutIs
  <2>3. \A c \in DOMAIN heap.mem \intersect Int :
            c # t + n => Put(heap, t + n, <<Nul>>).mem[c] = heap.mem[c]
    BY <1>1, <2>1, PutOne
  <2> QED BY <1>5, <2>2, <2>3
<1>7. PICK b \in heap.blocks : t \in Bytes(b) /\ t + n \in Bytes(b)
  BY <1>2 DEF HasSpareByte, StrBase, StrLen
<1>8. t \in TextAt(heap, a) /\ TextAt(heap, a) \subseteq ObjectAt(heap, ref, v)
  BY <1>2, <1>4 DEF TextAt, ObjectAt
<1>9. ASSUME NEW x \in Handles, ref[x] # Null
      PROVE  /\ SameHeader(heap, h2, ref[x])
             /\ \A c \in ObjectAt(heap, ref, x) : h2.mem[c] = heap.mem[c]
  <2>1. /\ ref[x] \in Nat /\ {ref[x], ref[x] + 1} \subseteq ObjectAt(heap, ref, x)
        /\ ObjectAt(heap, ref, x) \subseteq 0 .. heap.pos - 1
    BY <1>9, ObjectIn
  <2>2. t + n \notin ObjectAt(heap, ref, x)
    <3>1. CASE ref[x] # a
      <4>1. Apart(heap, ObjectAt(heap, ref, x), ObjectAt(heap, ref, v)) BY <1>1, <3>1 DEF Placed
      <4>2. Bytes(b) \intersect ObjectAt(heap, ref, x) = {} BY <1>7, <1>8, <4>1 DEF Apart
      <4> QED BY <1>7, <4>2
    <3>2. CASE ref[x] = a
      <4>1. Bytes(b) \intersect HeaderAt(a) = {} BY <1>3, <1>7, <1>8 DEF StringIn, Apart
      <4>2. ObjectAt(heap, ref, x) = HeaderAt(a) \union TextAt(heap, a)
        BY <1>2, <3>2 DEF ObjectAt, Placed, Handles
      <4>3. t + n \notin TextAt(heap, a) BY <1>4 DEF TextAt
      <4> QED BY <1>7, <4>1, <4>2, <4>3
    <3> QED BY <3>1, <3>2
  <2>3. DOMAIN heap.mem = 0 .. Reserved - 1 /\ heap.pos \in 0 .. Reserved - 1 BY <1>1 DEF HeapInv
  <2>4. ObjectAt(heap, ref, x) \subseteq DOMAIN heap.mem \intersect Int
    <3>1. heap.pos \in Int /\ Reserved \in Int /\ heap.pos <= Reserved - 1
      BY <2>3, BuffersAssumption DEF BuffersAssumption
    <3> QED BY <2>1, <2>3, <3>1
  <2>5. \A c \in ObjectAt(heap, ref, x) : h2.mem[c] = heap.mem[c]
    <3> HIDE DEF h2, t, n
    <3> QED BY <1>6, <2>2, <2>4
  <2> QED BY <2>1, <2>5 DEF SameHeader
<1>10. SameHeader(heap, h2, a)
  BY <1>1, <1>2, <1>9
<1>11. ObjectAt(h2, ref, v) = ObjectAt(heap, ref, v) /\ TextAt(h2, a) = TextAt(heap, a)
  BY <1>10 DEF ObjectAt, TextAt, ArrayAt, SameHeader
<1>12. h2.blocks = heap.blocks
  BY <1>6
<1>13. StringIn(h2, a)
  BY <1>3, <1>10, <1>11, <1>12 DEF StringIn, InBlock, Apart, SameHeader
<1>14. v \notin Arrays
  BY BuffersAssumption DEF BuffersAssumption
<1>15. Placed(h2, ref)
  <2> HIDE DEF h2, t, n
  <2> QED BY <1>1, <1>2, <1>6, <1>9, <1>11, <1>13, <1>14, InPlace
<1>16. ASSUME SpareAll(heap, ref), NEW x \in Strings, ref[x] # Null PROVE Spare(h2, ref[x])
  <2>1. SameHeader(heap, h2, ref[x]) BY <1>9, <1>16 DEF Handles
  <2>2. Spare(heap, ref[x]) BY <1>16 DEF SpareAll
  <2> HIDE DEF h2
  <2> QED BY <1>12, <2>1, <2>2, SpareKept
<1>17. Keeps(heap, ref, h2, ref)
  BY <1>15, <1>16 DEF Keeps, SpareAll
<1>18. AllKept(heap, ref, h2, ref)
  BY <1>9 DEF AllKept
<1> QED BY <1>6, <1>17, <1>18

-----------------------------------------------------------------------------
(* Allocations. *)

\* An allocation rounds the position up and adds one block; without a wrap.
LEMMA AllocIs ==
    ASSUME NEW h, IsHeap(h), h.pos \in Nat, h.pos + Align <= Word, NEW size \in Nat
    PROVE  LET a == AllocFrom(h) IN
           /\ a \in Nat /\ h.pos <= a /\ a < h.pos + Align
           /\ Alloc(h, size) = [pos |-> a + size, mem |-> h.mem,
                                blocks |-> h.blocks \union {[from |-> a, to |-> a + size]}]
<1>1. AllocFrom(h) \in Nat /\ h.pos <= AllocFrom(h) /\ AllocFrom(h) < h.pos + Align
  BY LayoutAssumption, AlignUp DEF AllocFrom, LayoutAssumption
<1> DEFINE b == [from |-> AllocFrom(h), to |-> AllocFrom(h) + size]
<1>2. Alloc(h, size) = [h EXCEPT !.pos = b.to, !.blocks = @ \union {b}]
  BY DEF Alloc
<1>3. b.to = AllocFrom(h) + size
  OBVIOUS
<1>4. Alloc(h, size) = [pos |-> AllocFrom(h) + size, mem |-> h.mem, blocks |-> h.blocks \union {b}]
  <2> HIDE DEF b
  <2> QED BY <1>2, <1>3 DEF IsHeap
<1> QED BY <1>1, <1>4

\* The position leaves room to round up.
LEMMA RoomToAlign ==
    ASSUME NEW h, HeapInv(h)
    PROVE  IsHeap(h) /\ h.pos \in Nat /\ h.pos + 2 * Align + 2 < Word /\ h.pos < Reserved
  BY BuffersAssumption, LayoutAssumption DEF BuffersAssumption, LayoutAssumption, HeapInv, IsHeap

\* A sequence has a length.
LEMMA SequenceIs ==
    ASSUME NEW s, IsSequence(s)
    PROVE  Len(s) \in Nat /\ DOMAIN s = 1 .. Len(s) /\ s = [i \in 1 .. Len(s) |-> s[i]]
  BY DEF IsSequence

\* The heap g, after an allocation, has a new object at a, and nothing below the
\* position was written.
Above(h, g, a) == /\ h.pos <= a /\ a \in 0 .. Reserved - 1
                  /\ \A c \in 0 .. h.pos - 1 : g.mem[c] = h.mem[c]

\* string_new() allocates a header and a block for the characters and one more.
LEMMA StringReceived ==
    ASSUME NEW h, NEW r, Placed(h, r), NEW v \in Strings, NEW text, IsSequence(text),
           Fits(StringNew(h, text))
    PROVE  /\ Keeps(h, r, StringNew(h, text), [r EXCEPT ![v] = AllocFrom(h)])
           /\ Above(h, StringNew(h, text), AllocFrom(h))
           /\ TextOf(StringNew(h, text), AllocFrom(h)) = text
<1> DEFINE a == AllocFrom(h)
           g1 == Alloc(h, HeaderSize)
           t == AllocFrom(g1)
           n == Len(text)
           g2 == Alloc(g1, n + 1)
           g3 == Put(g2, a, <<t, n>>)
           g4 == Put(g3, t, text)
           b1 == [from |-> a, to |-> a + 2]
           b2 == [from |-> t, to |-> t + (n + 1)]
           N == {b1, b2}
<1>1. HeapInv(h) /\ IsHeap(h) /\ h.pos \in Nat /\ h.pos + 2 * Align + 2 < Word /\ h.pos < Reserved
  BY RoomToAlign DEF Placed
<1>2. Align \in Nat \ {0} /\ Word \in Nat /\ Reserved \in Nat
  BY LayoutAssumption, BuffersAssumption DEF LayoutAssumption, BuffersAssumption
<1>3. n \in Nat
  BY SequenceIs
<1>4. /\ a \in Nat /\ h.pos <= a /\ a < h.pos + Align
      /\ g1 = [pos |-> a + 2, mem |-> h.mem, blocks |-> h.blocks \union {b1}]
  BY <1>1, <1>2, AllocIs DEF HeaderSize
<1>5. IsHeap(g1) /\ g1.pos = a + 2 /\ g1.mem = h.mem /\ g1.blocks = h.blocks \union {b1}
  <2> HIDE DEF a
  <2> QED BY <1>4 DEF IsHeap
<1>6. g1.pos \in Nat /\ g1.pos + Align <= Word
  <2> HIDE DEF g1, a
  <2> QED BY <1>1, <1>2, <1>4, <1>5
<1> HIDE DEF g1
<1>7. /\ t \in Nat /\ a + 2 <= t
      /\ g2 = [pos |-> t + (n + 1), mem |-> h.mem, blocks |-> g1.blocks \union {b2}]
  <2>1. n + 1 \in Nat BY <1>3
  <2> HIDE DEF a, n
  <2>2. /\ AllocFrom(g1) \in Nat /\ g1.pos <= AllocFrom(g1)
        /\ Alloc(g1, n + 1) = [pos |-> AllocFrom(g1) + (n + 1), mem |-> g1.mem,
               blocks |-> g1.blocks \union {[from |-> AllocFrom(g1), to |-> AllocFrom(g1) + (n + 1)]}]
    BY <1>5, <1>6, <2>1, AllocIs
  <2> QED BY <1>5, <2>2
<1> HIDE DEF t
<1>8. g2 = [pos |-> t + (n + 1), mem |-> h.mem, blocks |-> h.blocks \union N]
  BY <1>5, <1>7
<1>9. IsHeap(g2) /\ g2.mem = h.mem /\ g2.pos = t + (n + 1) /\ g2.blocks = h.blocks \union N
  <2> HIDE DEF g2, N
  <2> QED BY <1>8 DEF IsHeap
<1> HIDE DEF g2
<1>10. /\ g3 = [pos |-> t + (n + 1), mem |-> g3.mem, blocks |-> h.blocks \union N]
       /\ DOMAIN g3.mem = DOMAIN h.mem
  <2> HIDE DEF N, a, n
  <2> DEFINE s == <<t, n>>
  <2> HIDE DEF s
  <2>1. /\ Put(g2, a, s) = [pos |-> g2.pos, mem |-> Put(g2, a, s).mem, blocks |-> g2.blocks]
        /\ DOMAIN Put(g2, a, s).mem = DOMAIN g2.mem
    BY <1>9, PutIs
  <2> QED BY <1>9, <2>1 DEF s
<1>11. \A c \in DOMAIN h.mem \intersect Int :
           g3.mem[c] = IF c = a THEN t ELSE IF c = a + 1 THEN n ELSE h.mem[c]
  BY <1>4, <1>9, PutTwo
<1> HIDE DEF g3
<1>12. IsHeap(g3) /\ g3.pos = t + (n + 1) /\ g3.blocks = h.blocks \union N
  <2> HIDE DEF N
  <2> QED BY <1>10 DEF IsHeap
<1>13. /\ g4 = [pos |-> t + (n + 1), mem |-> g4.mem, blocks |-> h.blocks \union N]
       /\ DOMAIN g4.mem = DOMAIN h.mem
       /\ \A c \in DOMAIN h.mem :
              g4.mem[c] = IF c \in t .. (t + n - 1) THEN text[c - t + 1] ELSE g3.mem[c]
  BY <1>10, <1>12, PutIs
<1>14. g4 = StringNew(h, text)
  BY DEF StringNew, g1, t, g2, g3
<1> HIDE DEF g4
<1>15. t + (n + 1) < Reserved
  <2>1. g4.pos = t + (n + 1)
    <3> HIDE DEF N
    <3> QED BY <1>13
  <2> QED BY <1>14, <2>1 DEF Fits
<1>16. DOMAIN h.mem = 0 .. Reserved - 1
  BY <1>1 DEF HeapInv
<1>17. \A c \in 0 .. a + 1 :
           g4.mem[c] = IF c = a THEN t ELSE IF c = a + 1 THEN n ELSE h.mem[c]
  <2> HIDE DEF a, n
  <2>1. ASSUME NEW c \in 0 .. a + 1
        PROVE  c \in DOMAIN h.mem \intersect Int /\ c \notin t .. (t + n - 1)
    BY <1>2, <1>3, <1>4, <1>7, <1>15, <1>16
  <2> QED BY <1>11, <1>13, <2>1
<1>18. g4.mem[a] = t /\ g4.mem[a + 1] = n /\ \A c \in 0 .. h.pos - 1 : g4.mem[c] = h.mem[c]
  <2> HIDE DEF a, n
  <2> QED BY <1>1, <1>4, <1>17
<1>19. Bytes(b1) = a .. a + 1 /\ Bytes(b2) = t .. t + n
  <2> HIDE DEF a, n
  <2> QED BY <1>3, <1>4, <1>7 DEF Bytes
<1>20. Extends(h, g4, N)
  <2> HIDE DEF a, n
  <2>1. \A b \in N : b.from \in Nat /\ b.to \in Nat /\ h.pos <= b.from /\ b.to <= t + (n + 1)
    BY <1>1, <1>3, <1>4, <1>7
  <2>2. Bytes(b1) \intersect Bytes(b2) = {}
    <3> HIDE DEF b1, b2
    <3> QED BY <1>3, <1>4, <1>7, <1>19
  <2>3. t + (n + 1) \in 0 .. Reserved - 1 /\ h.pos <= t + (n + 1)
    BY <1>1, <1>2, <1>3, <1>4, <1>7, <1>15
  <2>4. \A b, c \in N : b = c \/ Bytes(b) \intersect Bytes(c) = {}
    <3> HIDE DEF b1, b2
    <3> QED BY <2>2
  <2> HIDE DEF N
  <2>5. g4.pos = t + (n + 1) /\ g4.blocks = h.blocks \union N BY <1>13
  <2> QED BY <1>13, <2>1, <2>3, <2>4, <2>5 DEF Extends
<1>21. HeapInv(g4) /\ \A b \in h.blocks : Bytes(b) \subseteq 0 .. h.pos - 1
  BY <1>1, <1>20, ExtendedHeap, BlocksOf
<1>22. HeaderAt(a) = Bytes(b1) /\ TextAt(g4, a) = t .. t + n - 1
  BY <1>18, <1>19 DEF HeaderAt, HeaderSize, TextAt
<1>23. g4.blocks = h.blocks \union N /\ b1 \in g4.blocks /\ b2 \in g4.blocks
  <2>1. g4.blocks = h.blocks \union N
    <3> HIDE DEF N
    <3> QED BY <1>13
  <2> QED BY <2>1
<1>24. StringIn(g4, a)
  <2> HIDE DEF a, n, b1, b2
  <2>1. InBlock(g4, HeaderAt(a)) BY <1>22, <1>23 DEF InBlock
  <2>2. TextAt(g4, a) \subseteq Bytes(b2) BY <1>3, <1>7, <1>19, <1>22
  <2>3. InBlock(g4, TextAt(g4, a)) BY <1>23, <2>2 DEF InBlock
  <2>4. Bytes(b1) \intersect Bytes(b2) = {} BY <1>3, <1>4, <1>7, <1>19
  <2>5. \A b \in g4.blocks : b = b1 \/ Bytes(b) \intersect HeaderAt(a) = {}
    BY <1>21, <1>22, <1>23 DEF HeapInv
  <2>6. Apart(g4, HeaderAt(a), TextAt(g4, a)) BY <2>2, <2>4, <2>5 DEF Apart
  <2>7. {a, g4.mem[a], g4.mem[a + 1]} \subseteq Nat BY <1>3, <1>4, <1>7, <1>18
  <2> QED BY <2>1, <2>3, <2>6, <2>7 DEF StringIn
<1> DEFINE r2 == [r EXCEPT ![v] = a]
<1>25. v \in Handles /\ v \notin Arrays /\ r2[v] = a
  BY BuffersAssumption DEF BuffersAssumption, Handles, Placed
<1>26. ObjectAt(g4, r2, v) \intersect (0 .. h.pos - 1) = {}
  <2>1. ObjectAt(g4, r2, v) \subseteq HeaderAt(a) \union TextAt(g4, a) BY <1>25 DEF ObjectAt
  <2> HIDE DEF a, n, b1, b2, r2
  <2> QED BY <1>1, <1>3, <1>4, <1>7, <1>19, <1>22, <2>1
<1>27. Spare(g4, a)
  <2> HIDE DEF a, n, b1, b2, N
  <2>1. t \in Bytes(b2) /\ t + n \in Bytes(b2) BY <1>3, <1>7, <1>19
  <2> QED BY <1>18, <1>23, <2>1 DEF Spare
<1>28. Keeps(h, r, g4, r2)
  <2> HIDE DEF N
  <2> QED BY <1>4, <1>18, <1>20, <1>24, <1>25, <1>26, <1>27, Received
<1>29. Above(h, g4, a)
  <2> HIDE DEF a, n, N, b1, b2
  <2>1. a \in 0 .. Reserved - 1 BY <1>2, <1>3, <1>4, <1>7, <1>15
  <2> QED BY <1>4, <1>18, <2>1 DEF Above
<1>30. TextOf(g4, a) = text
  <2>1. ASSUME NEW i \in 1 .. n PROVE g4.mem[t + i - 1] = text[i]
    <3> DEFINE c == t + i - 1
    <3> HIDE DEF n, N, b1, b2
    <3>1. c \in t .. (t + n - 1) /\ c \in 0 .. Reserved - 1 /\ c - t + 1 = i
      BY <1>2, <1>3, <1>7, <1>15
    <3> QED BY <1>13, <1>16, <3>1
  <2>2. text = [i \in 1 .. n |-> text[i]] BY SequenceIs
  <2>3. TextOf(g4, a) = [i \in 1 .. n |-> g4.mem[t + i - 1]] BY <1>18 DEF TextOf
  <2> HIDE DEF n
  <2> QED BY <2>1, <2>2, <2>3
<1> QED BY <1>14, <1>28, <1>29, <1>30

\* A new array: one block for its header and its capacity.
LEMMA ArrayReceived ==
    ASSUME NEW h, NEW r, Placed(h, r), NEW v \in Arrays, NEW cap \in Nat \ {0}, NEW len \in 0 .. cap,
           NEW cells, Len(cells) \in Nat, Len(cells) >= 2 + len, cells[1] = cap, cells[2] = len,
           Fits(Put(Alloc(h, HeaderSize + cap), AllocFrom(h), cells))
    PROVE  LET g == Put(Alloc(h, HeaderSize + cap), AllocFrom(h), cells) IN
           /\ Keeps(h, r, g, [r EXCEPT ![v] = AllocFrom(h)])
           /\ Above(h, g, AllocFrom(h))
           /\ \A s : Len(s) = len /\ Behind(cells, 2, s) => ElementsOf(g, AllocFrom(h)) = s
<1> DEFINE a == AllocFrom(h)
           m == HeaderSize + cap
           g1 == Alloc(h, m)
           g == Put(g1, a, cells)
           b == [from |-> a, to |-> a + m]
           r2 == [r EXCEPT ![v] = a]
<1>1. HeapInv(h) /\ IsHeap(h) /\ h.pos \in Nat /\ h.pos + 2 * Align + 2 < Word /\ h.pos < Reserved
  BY RoomToAlign DEF Placed
<1>2. Align \in Nat \ {0} /\ Word \in Nat /\ Reserved \in Nat
  BY LayoutAssumption, BuffersAssumption DEF LayoutAssumption, BuffersAssumption
<1>3. m \in Nat /\ m = cap + 2
  BY DEF HeaderSize
<1>4. h.pos + Align <= Word
  BY <1>1, <1>2
<1>5. /\ a \in Nat /\ h.pos <= a
      /\ g1 = [pos |-> a + m, mem |-> h.mem, blocks |-> h.blocks \union {b}]
  <2> HIDE DEF m
  <2> QED BY <1>1, <1>3, <1>4, AllocIs
<1> HIDE DEF a, m, g1
<1>6. IsHeap(g1) /\ g1.pos = a + m /\ g1.mem = h.mem /\ g1.blocks = h.blocks \union {b}
  <2> HIDE DEF b
  <2> QED BY <1>5 DEF IsHeap
<1>7. /\ g = [pos |-> g1.pos, mem |-> g.mem, blocks |-> g1.blocks]
      /\ DOMAIN g.mem = DOMAIN g1.mem
      /\ \A c \in DOMAIN g1.mem :
             g.mem[c] = IF c \in a .. (a + Len(cells) - 1) THEN cells[c - a + 1] ELSE g1.mem[c]
  BY <1>6, PutIs
<1> HIDE DEF g
<1>8. g.pos = a + m /\ g.blocks = h.blocks \union {b} /\ IsHeap(g)
  <2> HIDE DEF b
  <2> QED BY <1>6, <1>7 DEF IsHeap
<1>9. a + m < Reserved
  BY <1>8 DEF Fits, g, g1, m, a
<1>10. DOMAIN h.mem = 0 .. Reserved - 1
  BY <1>1 DEF HeapInv
<1>11. g.mem[a] = cap /\ g.mem[a + 1] = len
  <2>1. a \in DOMAIN g1.mem /\ a + 1 \in DOMAIN g1.mem
    BY <1>2, <1>3, <1>5, <1>6, <1>9, <1>10
  <2>2. a \in a .. (a + Len(cells) - 1) /\ a + 1 \in a .. (a + Len(cells) - 1)
    BY <1>5
  <2>3. a - a + 1 = 1 /\ (a + 1) - a + 1 = 2
    BY <1>5
  <2> QED BY <1>7, <2>1, <2>2, <2>3
<1>12. \A c \in 0 .. h.pos - 1 : g.mem[c] = h.mem[c]
  <2>1. ASSUME NEW c \in 0 .. h.pos - 1 PROVE c \in DOMAIN g1.mem /\ c \notin a .. (a + Len(cells) - 1)
    <3>1. c \in 0 .. Reserved - 1 BY <1>1, <1>2
    <3>2. c < a BY <1>1, <1>5
    <3>3. c \in DOMAIN g1.mem BY <1>6, <1>10, <3>1
    <3>4. c \notin a .. (a + Len(cells) - 1) BY <1>5, <3>1, <3>2
    <3> QED BY <3>3, <3>4
  <2> QED BY <1>6, <1>7, <2>1
<1>13. Bytes(b) = a .. a + m - 1 /\ ArrayAt(g, a) = Bytes(b)
  <2>1. b.from = a /\ b.to = a + m OBVIOUS
  <2> HIDE DEF b
  <2>2. ArrayAt(g, a) = a .. a + m - 1 BY <1>3, <1>5, <1>11 DEF ArrayAt, HeaderSize
  <2>3. Bytes(b) = a .. a + m - 1 BY <1>3, <1>5, <2>1 DEF Bytes
  <2> QED BY <2>2, <2>3
<1>14. Extends(h, g, {b})
  <2>1. b.from \in Nat /\ b.to \in Nat /\ h.pos <= b.from /\ b.to <= g.pos
    BY <1>3, <1>5, <1>8
  <2> HIDE DEF b
  <2>2. g.pos \in 0 .. Reserved - 1 /\ h.pos <= g.pos
    BY <1>1, <1>2, <1>3, <1>5, <1>8, <1>9
  <2>3. DOMAIN g.mem = DOMAIN h.mem BY <1>6, <1>7
  <2> QED BY <1>8, <2>1, <2>2, <2>3 DEF Extends, IsHeap
<1>15. ArrayIn(g, a)
  <2>1. b \in g.blocks BY <1>8
  <2>2. InBlock(g, ArrayAt(g, a)) BY <1>13, <2>1 DEF InBlock
  <2> QED BY <1>5, <1>11, <2>2 DEF ArrayIn
<1>16. v \in Handles /\ v \notin Strings /\ r2[v] = a
  BY BuffersAssumption DEF BuffersAssumption, Handles, Placed
<1>17. ObjectAt(g, r2, v) \intersect (0 .. h.pos - 1) = {}
  <2>1. ObjectAt(g, r2, v) \subseteq Bytes(b) BY <1>13, <1>16 DEF ObjectAt
  <2> HIDE DEF b, r2
  <2> QED BY <1>1, <1>3, <1>5, <1>13, <2>1
<1>18. Keeps(h, r, g, r2)
  <2> HIDE DEF b
  <2> QED BY <1>5, <1>12, <1>14, <1>15, <1>16, <1>17, Received
<1>19. Above(h, g, a)
  <2>1. a \in 0 .. Reserved - 1 BY <1>2, <1>3, <1>5, <1>9
  <2> QED BY <1>5, <1>12, <2>1 DEF Above
<1>20. ASSUME NEW s, Len(s) = len, Behind(cells, 2, s) PROVE ElementsOf(g, a) = s
  <2>1. ASSUME NEW i \in 1 .. len PROVE g.mem[a + 2 + i - 1] = s[i]
    <3> DEFINE c == a + 2 + i - 1
    <3>1. c \in a .. (a + Len(cells) - 1) /\ c - a + 1 = 2 + i BY <1>5
    <3>2. c \in DOMAIN g1.mem BY <1>2, <1>3, <1>5, <1>6, <1>9, <1>10
    <3> QED BY <1>7, <1>20, <3>1, <3>2 DEF Behind
  <2>2. s = [i \in 1 .. len |-> s[i]] BY <1>20, SequenceIs DEF Behind
  <2>3. ElementsOf(g, a) = [i \in 1 .. len |-> g.mem[a + 2 + i - 1]] BY <1>11 DEF ElementsOf, HeaderSize
  <2> QED BY <2>1, <2>2, <2>3
<1> QED BY <1>18, <1>19, <1>20 DEF g, g1, m, a

\* The heap after Rebase().
RebasedHeap(dest, text, cells) ==
    Put(Put(Alloc(heap, Len(cells)), AllocFrom(heap), cells), dest, <<AllocFrom(heap), Len(text)>>)

\* A string is moved to a new block, that is at least as long as the text.
LEMMA RebaseKeeps ==
    ASSUME Placed(heap, ref), NEW v \in Strings, ref[v] # Null, NEW text, NEW cells,
           Len(text) \in Nat, Len(cells) \in Nat, Len(text) <= Len(cells),
           Fits(Alloc(heap, Len(cells)))
    PROVE  LET h2 == RebasedHeap(ref[v], text, cells) IN
           /\ Placed(h2, ref) /\ (Len(text) < Len(cells) => Keeps(heap, ref, h2, ref))
           /\ \A c \in 0 .. heap.pos - 1 : c \notin {ref[v], ref[v] + 1} => h2.mem[c] = heap.mem[c]
           /\ heap.pos <= h2.pos /\ (Behind(cells, 0, text) => TextOf(h2, ref[v]) = text)
<1> DEFINE d == ref[v]
           a == AllocFrom(heap)
           m == Len(cells)
           n == Len(text)
           g1 == Alloc(heap, m)
           g2 == Put(g1, a, cells)
           g == Put(g2, d, <<a, n>>)
           b == [from |-> a, to |-> a + m]
<1>1. /\ HeapInv(heap) /\ IsHeap(heap) /\ heap.pos \in Nat
      /\ heap.pos + 2 * Align + 2 < Word /\ heap.pos < Reserved
  BY RoomToAlign DEF Placed
<1>2. Align \in Nat \ {0} /\ Word \in Nat /\ Reserved \in Nat
  BY LayoutAssumption, BuffersAssumption DEF LayoutAssumption, BuffersAssumption
<1>3. StringIn(heap, d) /\ v \in Handles
  BY DEF Placed, Handles
<1>4. d \in Nat /\ {d, d + 1} \subseteq 0 .. heap.pos - 1
  <2>1. d \in Nat /\ HeaderAt(d) \subseteq 0 .. heap.pos - 1
    BY <1>1, <1>3, InBlockBelow DEF StringIn
  <2> QED BY <2>1 DEF HeaderAt, HeaderSize
<1>5. heap.pos + Align <= Word
  BY <1>1, <1>2
<1>6. /\ a \in Nat /\ heap.pos <= a
      /\ g1 = [pos |-> a + m, mem |-> heap.mem, blocks |-> heap.blocks \union {b}]
  <2> HIDE DEF m
  <2> QED BY <1>1, <1>5, AllocIs DEF m
<1> HIDE DEF d, a, m, n, g1
<1>7. IsHeap(g1) /\ g1.pos = a + m /\ g1.mem = heap.mem /\ g1.blocks = heap.blocks \union {b}
  <2> HIDE DEF b
  <2> QED BY <1>6 DEF IsHeap
<1>8. m \in Nat /\ n \in Nat /\ n <= m
  BY DEF m, n
<1>9. /\ g2 = [pos |-> g1.pos, mem |-> g2.mem, blocks |-> g1.blocks]
      /\ DOMAIN g2.mem = DOMAIN g1.mem
      /\ \A c \in DOMAIN g1.mem :
             g2.mem[c] = IF c \in a .. (a + m - 1) THEN cells[c - a + 1] ELSE g1.mem[c]
  BY <1>7, PutIs DEF m
<1> HIDE DEF g2
<1>10. IsHeap(g2) /\ g2.pos = a + m /\ g2.blocks = heap.blocks \union {b}
  <2> HIDE DEF b
  <2> QED BY <1>7, <1>9 DEF IsHeap
<1>11. /\ g = [pos |-> g2.pos, mem |-> g.mem, blocks |-> g2.blocks]
       /\ DOMAIN g.mem = DOMAIN g2.mem
  <2> DEFINE s == <<a, n>>
  <2> HIDE DEF s
  <2>1. /\ Put(g2, d, s) = [pos |-> g2.pos, mem |-> Put(g2, d, s).mem, blocks |-> g2.blocks]
        /\ DOMAIN Put(g2, d, s).mem = DOMAIN g2.mem
    BY <1>10, PutIs
  <2> QED BY <2>1 DEF s
<1>12. \A c \in DOMAIN g2.mem \intersect Int :
           g.mem[c] = IF c = d THEN a ELSE IF c = d + 1 THEN n ELSE g2.mem[c]
  BY <1>4, <1>10, PutTwo
<1> HIDE DEF g
<1>13. g.pos = a + m /\ g.blocks = heap.blocks \union {b} /\ IsHeap(g)
  <2> HIDE DEF b
  <2> QED BY <1>10, <1>11 DEF IsHeap
<1>14. a + m < Reserved
  BY <1>7 DEF Fits, g1, m
<1>15. DOMAIN heap.mem = 0 .. Reserved - 1
  BY <1>1 DEF HeapInv
<1>16. ASSUME NEW c \in 0 .. heap.pos - 1
       PROVE  g.mem[c] = IF c = d THEN a ELSE IF c = d + 1 THEN n ELSE heap.mem[c]
  <2>1. c \in DOMAIN heap.mem /\ c \in Int /\ c \notin a .. (a + m - 1)
    BY <1>1, <1>2, <1>6, <1>15
  <2> QED BY <1>7, <1>9, <1>12, <2>1
<1>17. g.mem[d] = a /\ g.mem[d + 1] = n
  BY <1>4, <1>16
<1>18. Bytes(b) = a .. a + m - 1 /\ TextAt(g, d) = a .. a + n - 1
  <2>1. b.from = a /\ b.to = a + m OBVIOUS
  <2> HIDE DEF b
  <2> QED BY <1>6, <1>8, <1>17, <2>1 DEF Bytes, TextAt
<1>19. Extends(heap, g, {b})
  <2>1. b.from \in Nat /\ b.to \in Nat /\ heap.pos <= b.from /\ b.to <= g.pos
    BY <1>6, <1>8, <1>13
  <2> HIDE DEF b
  <2>2. g.pos \in 0 .. Reserved - 1 /\ heap.pos <= g.pos
    BY <1>1, <1>2, <1>6, <1>8, <1>13, <1>14
  <2>3. DOMAIN g.mem = DOMAIN heap.mem BY <1>7, <1>9, <1>11
  <2> QED BY <1>13, <2>1, <2>2, <2>3 DEF Extends, IsHeap
<1>20. InBlock(g, TextAt(g, d)) /\ TextAt(g, d) \intersect (0 .. heap.pos - 1) = {}
  <2>1. b \in g.blocks BY <1>13
  <2> HIDE DEF b
  <2>2. TextAt(g, d) \subseteq Bytes(b) BY <1>6, <1>8, <1>18
  <2>3. Bytes(b) \intersect (0 .. heap.pos - 1) = {} BY <1>1, <1>6, <1>8, <1>18
  <2> QED BY <2>1, <2>2, <2>3 DEF InBlock
<1>21. Placed(g, ref) /\ (Spare(g, d) => Keeps(heap, ref, g, ref))
  <2> HIDE DEF b
  <2>1. {g.mem[d], g.mem[d + 1]} \subseteq Nat BY <1>6, <1>8, <1>17
  <2>2. \A c \in 0 .. heap.pos - 1 : c \notin {d, d + 1} => g.mem[c] = heap.mem[c] BY <1>16
  <2> QED BY <1>19, <1>20, <2>1, <2>2, Rebased DEF d
<1>22. g = RebasedHeap(ref[v], text, cells)
  BY DEF g, g2, g1, d, a, m, n, RebasedHeap
<1>23. ASSUME n < m PROVE Spare(g, d)
  <2>1. b \in g.blocks BY <1>13
  <2> HIDE DEF b
  <2>2. a \in Bytes(b) /\ a + n \in Bytes(b) BY <1>6, <1>8, <1>18, <1>23
  <2> QED BY <1>17, <2>1, <2>2 DEF Spare
<1>24. ASSUME Behind(cells, 0, text) PROVE TextOf(g, d) = text
  <2>1. ASSUME NEW i \in 1 .. n PROVE g.mem[a + i - 1] = text[i]
    <3> DEFINE c == a + i - 1
    <3>1. c \in a .. (a + m - 1) /\ c - a + 1 = 0 + i /\ c \in 0 .. Reserved - 1 /\ c # d /\ c # d + 1
      BY <1>1, <1>2, <1>4, <1>6, <1>8, <1>14
    <3>2. c \in DOMAIN g1.mem /\ c \in DOMAIN g2.mem \intersect Int BY <1>7, <1>9, <1>15, <3>1
    <3>3. cells[0 + i] = text[i] BY <1>24 DEF Behind, n
    <3> QED BY <1>9, <1>12, <3>1, <3>2, <3>3
  <2>2. text = [i \in 1 .. n |-> text[i]] BY <1>24, SequenceIs DEF Behind, n
  <2>3. TextOf(g, d) = [i \in 1 .. n |-> g.mem[a + i - 1]] BY <1>17 DEF TextOf
  <2> QED BY <2>1, <2>2, <2>3
<1>25. heap.pos <= g.pos
  BY <1>1, <1>6, <1>8, <1>13
<1>26. \A c \in 0 .. heap.pos - 1 : c \notin {d, d + 1} => g.mem[c] = heap.mem[c]
  BY <1>16
<1> QED BY <1>21, <1>22, <1>23, <1>24, <1>25, <1>26 DEF n, m, d

-----------------------------------------------------------------------------
(* Writes in place. *)

\* A string that a trim has shortened at either end.
LEMMA Trimmed ==
    ASSUME NEW h, NEW r, Placed(h, r), NEW v \in Strings, r[v] # Null, NEW h2,
           h2 = [pos |-> h.pos, mem |-> h2.mem, blocks |-> h.blocks],
           DOMAIN h2.mem = DOMAIN h.mem,
           \A c \in 0 .. h.pos - 1 : c \notin {r[v], r[v] + 1} => h2.mem[c] = h.mem[c],
           h2.mem[r[v]] \in Nat, h2.mem[r[v] + 1] \in Nat, h.mem[r[v]] <= h2.mem[r[v]],
           h2.mem[r[v]] + h2.mem[r[v] + 1] <= h.mem[r[v]] + h.mem[r[v] + 1]
    PROVE  Keeps(h, r, h2, r)
<1> DEFINE a == r[v]
<1>1. StringIn(h, a) /\ v \in Handles /\ v \notin Arrays
  BY BuffersAssumption DEF Placed, Handles, BuffersAssumption
<1>2. a \in Nat /\ HeaderAt(a) = {a, a + 1}
  BY <1>1 DEF StringIn, HeaderAt, HeaderSize
<1>3. TextAt(h2, a) \subseteq TextAt(h, a)
  BY <1>1 DEF StringIn, TextAt
<1>4. h2.blocks = h.blocks
  OBVIOUS
<1>5. StringIn(h2, a)
  <2>1. InBlock(h2, HeaderAt(a)) BY <1>1, <1>4 DEF StringIn, InBlock
  <2>2. InBlock(h2, TextAt(h2, a)) BY <1>1, <1>3, <1>4 DEF StringIn, InBlock
  <2>3. Apart(h2, HeaderAt(a), TextAt(h2, a)) BY <1>1, <1>3, <1>4 DEF StringIn, Apart
  <2> QED BY <1>2, <2>1, <2>2, <2>3 DEF StringIn
<1>6. ObjectAt(h2, r, v) \subseteq ObjectAt(h, r, v)
  BY <1>3 DEF ObjectAt
<1>7. ASSUME NEW x \in Handles, r[x] \notin {Null, a} PROVE SameHeader(h, h2, r[x])
  <2>1. /\ r[x] \in Nat /\ {r[x], r[x] + 1} \subseteq ObjectAt(h, r, x)
        /\ ObjectAt(h, r, x) \subseteq 0 .. h.pos - 1
    BY <1>7, ObjectIn
  <2>2. ObjectAt(h, r, x) \intersect ObjectAt(h, r, v) = {} BY <1>1, <1>7, ObjectsApart
  <2>3. HeaderAt(a) \subseteq ObjectAt(h, r, v) BY DEF ObjectAt
  <2> QED BY <1>2, <2>1, <2>2, <2>3 DEF SameHeader
<1>8. Placed(h2, r)
  BY <1>1, <1>5, <1>6, <1>7, InPlace
<1>9. ASSUME SpareAll(h, r), NEW x \in Strings, r[x] # Null PROVE Spare(h2, r[x])
  <2>1. PICK b \in h.blocks : {h.mem[r[x]], h.mem[r[x]] + h.mem[r[x] + 1]} \subseteq Bytes(b)
    BY <1>9 DEF SpareAll, Spare
  <2>2. CASE r[x] = a
    <3>1. b.from \in Nat /\ b.to \in Nat BY DEF Placed, HeapInv
    <3>2. {h2.mem[a], h2.mem[a] + h2.mem[a + 1]} \subseteq Bytes(b)
      BY <1>1, <2>1, <2>2, <3>1 DEF Bytes, StringIn
    <3> QED BY <1>4, <2>2, <3>2 DEF Spare
  <2>3. CASE r[x] # a BY <1>4, <1>7, <1>9, <2>1, <2>3 DEF Handles, Spare, SameHeader
  <2> QED BY <2>2, <2>3
<1> QED BY <1>8, <1>9 DEF Keeps, SpareAll

\* An array whose length and elements have been written, within its capacity.
LEMMA Refilled ==
    ASSUME NEW h, NEW r, Placed(h, r), NEW v \in Arrays, r[v] # Null, NEW h2,
           h2 = [pos |-> h.pos, mem |-> h2.mem, blocks |-> h.blocks],
           DOMAIN h2.mem = DOMAIN h.mem,
           \A c \in 0 .. h.pos - 1 : c \notin ArrayAt(h, r[v]) => h2.mem[c] = h.mem[c],
           h2.mem[r[v]] = h.mem[r[v]], h2.mem[r[v] + 1] \in 0 .. h.mem[r[v]]
    PROVE  Keeps(h, r, h2, r)
<1> DEFINE a == r[v]
<1>1. ArrayIn(h, a) /\ v \in Handles /\ v \notin Strings
  BY BuffersAssumption DEF Placed, Handles, BuffersAssumption
<1>2. ArrayAt(h2, a) = ArrayAt(h, a)
  BY DEF ArrayAt
<1>3. h2.blocks = h.blocks
  OBVIOUS
<1>4. ArrayIn(h2, a)
  BY <1>1, <1>2, <1>3 DEF ArrayIn, InBlock
<1>5. ObjectAt(h2, r, v) \subseteq ObjectAt(h, r, v)
  BY <1>1, <1>2 DEF ObjectAt
<1>6. ASSUME NEW x \in Handles, r[x] \notin {Null, a} PROVE SameHeader(h, h2, r[x])
  <2>1. /\ r[x] \in Nat /\ {r[x], r[x] + 1} \subseteq ObjectAt(h, r, x)
        /\ ObjectAt(h, r, x) \subseteq 0 .. h.pos - 1
    BY <1>6, ObjectIn
  <2>2. ObjectAt(h, r, x) \intersect ObjectAt(h, r, v) = {} BY <1>1, <1>6, ObjectsApart
  <2>3. ArrayAt(h, a) = ObjectAt(h, r, v) BY <1>1 DEF ObjectAt
  <2> QED BY <2>1, <2>2, <2>3 DEF SameHeader
<1>7. Placed(h2, r)
  BY <1>1, <1>4, <1>5, <1>6, InPlace
<1>8. ASSUME SpareAll(h, r), NEW x \in Strings, r[x] # Null PROVE Spare(h2, r[x])
  <2>1. x \in Handles /\ r[x] # a BY <1>8 DEF Placed, Handles
  <2>2. SameHeader(h, h2, r[x]) BY <1>6, <1>8, <2>1
  <2>3. Spare(h, r[x]) BY <1>8 DEF SpareAll
  <2> QED BY <1>3, <2>2, <2>3, SpareKept
<1> QED BY <1>7, <1>8 DEF Keeps, SpareAll

\* Every nonempty set of natural numbers has a least element.
LEMMA LeastNat ==
    ASSUME NEW S, S \subseteq Nat, S # {}
    PROVE  \E m \in S : \A n \in S : m <= n
<1> DEFINE R == {ss \in Nat \X Nat : ss[1] < ss[2]}
<1>0. IsWellFoundedOn(R, Nat)
  BY NatLessThanWellFounded, Zenon DEF OpToRel
<1>1. PICK m \in S : \A n \in S : ~ (<<n, m>> \in R)
  <2> HIDE DEF R
  <2> QED BY WFMin, <1>0
<1>2. ASSUME NEW n \in S, ~ (m <= n) PROVE FALSE
  <2>1. n \in Nat /\ m \in Nat /\ n < m BY <1>2
  <2>2. <<n, m>> \in R BY <2>1, SMT
  <2> QED BY <2>2, <1>1
<1> QED BY <1>2

\* What Min and Max choose from a set of positions in a sequence.
LEMMA Extremes ==
    ASSUME NEW n \in Nat, NEW I, I \subseteq 1 .. n, I # {}
    PROVE  /\ Min(I) \in I /\ Max(I) \in I /\ Min(I) <= Max(I)
           /\ \A x \in I : Min(I) <= x /\ x <= Max(I)
<1>1. I \subseteq Int /\ I \subseteq Nat
  OBVIOUS
<1>2. PICK m \in I : \A x \in I : m <= x
  BY <1>1, LeastNat
<1>3. PICK k \in I : \A x \in I : k >= x
  <2> DEFINE J == {n - i : i \in I}
  <2>1. J \subseteq Nat /\ J # {} OBVIOUS
  <2>2. PICK j \in J : \A x \in J : j <= x
    <3> HIDE DEF J
    <3> QED BY <2>1, LeastNat
  <2>3. PICK k \in I : j = n - k OBVIOUS
  <2>4. ASSUME NEW x \in I PROVE k >= x
    <3>1. n - x \in J OBVIOUS
    <3>2. n - k <= n - x BY <2>2, <2>3, <3>1
    <3> QED BY <1>1, <3>2
  <2> QED BY <2>4
<1>4. Min(I) \in I /\ \A x \in I : Min(I) <= x
  BY <1>2 DEF Min
<1>5. Max(I) \in I /\ \A x \in I : Max(I) >= x
  BY <1>3 DEF Max
<1>6. \A x \in I : x <= Max(I)
  BY <1>1, <1>5
<1> QED BY <1>1, <1>4, <1>5, <1>6

-----------------------------------------------------------------------------
(* The sequences of the calls. *)

\* Cells are a sequence.
LEMMA CellsAre ==
    ASSUME NEW at, NEW n \in Nat
    PROVE  IsSequence(Cells(at, n)) /\ Len(Cells(at, n)) = n
<1> DEFINE s == Cells(at, n)
<1>1. DOMAIN s = 1 .. n /\ s = [i \in 1 .. n |-> s[i]]
  BY DEF Cells
<1> HIDE DEF s
<1>2. s \in Seq({s[i] : i \in DOMAIN s})
  BY <1>1
<1>3. Len(s) = n
  BY <1>1, <1>2
<1> QED BY <1>2, <1>3 DEF s, IsSequence

\* Putting one text behind another.
LEMMA JoinIs ==
    ASSUME NEW s, NEW t, IsSequence(s), IsSequence(t)
    PROVE  IsSequence(s \o t) /\ Len(s \o t) = Len(s) + Len(t)
<1> DEFINE A == {s[i] : i \in DOMAIN s} \union {t[i] : i \in DOMAIN t}
           u == s \o t
<1>1. s \in Seq(A) /\ t \in Seq(A)
  BY DEF IsSequence
<1> HIDE DEF A
<1>2. u \in Seq(A) /\ Len(u) = Len(s) + Len(t)
  BY <1>1
<1> HIDE DEF u
<1>3. DOMAIN u = 1 .. Len(u) /\ Len(u) \in Nat /\ u = [i \in 1 .. Len(u) |-> u[i]]
  BY <1>2
<1>4. u \in Seq({u[i] : i \in DOMAIN u})
  BY <1>3
<1> QED BY <1>2, <1>4 DEF u, IsSequence

\* The first characters of a text.
LEMMA PrefixIs ==
    ASSUME NEW s, IsSequence(s), NEW n \in 1 .. Len(s)
    PROVE  IsSequence(SubSeq(s, 1, n)) /\ Len(SubSeq(s, 1, n)) = n
<1> DEFINE A == {s[i] : i \in DOMAIN s}
           u == SubSeq(s, 1, n)
<1>1. s \in Seq(A)
  BY DEF IsSequence
<1> HIDE DEF A
<1>2. u \in Seq(A) /\ Len(u) = n
  BY <1>1
<1> HIDE DEF u
<1>3. DOMAIN u = 1 .. Len(u) /\ Len(u) \in Nat /\ u = [i \in 1 .. Len(u) |-> u[i]]
  BY <1>2
<1>4. u \in Seq({u[i] : i \in DOMAIN u})
  BY <1>3
<1> QED BY <1>2, <1>4 DEF u, IsSequence

\* The text of a string is as long as its header says.
LEMMA TextIs ==
    ASSUME Placed(heap, ref), NEW v \in Strings, ref[v] # Null
    PROVE  /\ ref[v] \in Nat /\ StrBase(ref[v]) \in Nat /\ StrLen(ref[v]) \in Nat
           /\ IsSequence(Text(ref[v])) /\ Len(Text(ref[v])) = StrLen(ref[v])
<1>1. StringIn(heap, ref[v])
  BY DEF Placed
<1>2. ref[v] \in Nat /\ StrBase(ref[v]) \in Nat /\ StrLen(ref[v]) \in Nat
  BY <1>1 DEF StringIn, StrBase, StrLen
<1> QED BY <1>2, CellsAre DEF Text

\* The first and the last character that is not blank.
LEMMA TextEnds ==
    ASSUME Placed(heap, ref), NEW v \in Strings, ref[v] # Null
    PROVE  /\ FirstText(v) \in 0 .. StrLen(ref[v]) /\ LastText(v) \in 0 .. StrLen(ref[v])
           /\ FirstText(v) # 0 => FirstText(v) <= LastText(v)
           /\ \A i \in 1 .. StrLen(ref[v]) :
                 i < FirstText(v) \/ i > LastText(v) \/ FirstText(v) = 0 => Text(ref[v])[i] = Blank
           /\ FirstText(v) # 0 => Text(ref[v])[FirstText(v)] # Blank
           /\ LastText(v) # 0 => Text(ref[v])[LastText(v)] # Blank
           /\ FirstText(v) = 0 <=> LastText(v) = 0
<1> DEFINE s == Text(ref[v])
           I == {i \in 1 .. Len(s) : IsText(s[i])}
<1>1. Len(s) \in Nat /\ Len(s) = StrLen(ref[v])
  BY TextIs
<1>2. FirstText(v) = IF I # {} THEN Min(I) ELSE 0
  BY DEF FirstText, SelectInSeq
<1>3. LastText(v) = IF I # {} THEN Max(I) ELSE 0
  BY DEF LastText, SelectLastInSeq
<1>4. I # {} => /\ Min(I) \in I /\ Max(I) \in I /\ Min(I) <= Max(I)
                /\ \A x \in I : Min(I) <= x /\ x <= Max(I)
  <2>1. I \subseteq 1 .. Len(s) OBVIOUS
  <2> HIDE DEF I
  <2> QED BY <1>1, <2>1, Extremes
<1>5. I \subseteq 1 .. Len(s) /\ \A i \in 1 .. Len(s) : i \in I <=> s[i] # Blank
  BY DEF IsText
<1> HIDE DEF I
<1>6. CASE I = {}
  <2>1. FirstText(v) = 0 /\ LastText(v) = 0 /\ \A i \in 1 .. Len(s) : s[i] = Blank
    BY <1>2, <1>3, <1>5, <1>6
  <2> HIDE DEF s
  <2> QED BY <1>1, <2>1 DEF s
<1>7. CASE I # {}
  <2>1. FirstText(v) \in 1 .. Len(s) /\ LastText(v) \in 1 .. Len(s) /\ FirstText(v) <= LastText(v)
    BY <1>2, <1>3, <1>4, <1>5, <1>7
  <2>2. s[FirstText(v)] # Blank /\ s[LastText(v)] # Blank
    BY <1>2, <1>3, <1>4, <1>5, <1>7
  <2>3. ASSUME NEW i \in 1 .. Len(s), i < FirstText(v) \/ i > LastText(v) PROVE s[i] = Blank
    <3>1. i \notin I
      <4> HIDE DEF s
      <4> QED BY <1>1, <1>2, <1>3, <1>4, <1>5, <1>7, <2>1, <2>3
    <3> QED BY <1>5, <3>1
  <2>4. FirstText(v) # 0 /\ LastText(v) # 0
    BY <2>1
  <2>5. FirstText(v) \in 0 .. StrLen(ref[v]) /\ LastText(v) \in 0 .. StrLen(ref[v])
    <3> HIDE DEF s
    <3> QED BY <1>1, <2>1
  <2>6. \A i \in 1 .. StrLen(ref[v]) : i < FirstText(v) \/ i > LastText(v) \/ FirstText(v) = 0 => s[i] = Blank
    <3> HIDE DEF s
    <3> QED BY <1>1, <2>3, <2>4
  <2> QED BY <2>1, <2>2, <2>4, <2>5, <2>6
<1> QED BY <1>6, <1>7

\* The cells of a new array: its capacity, its length and its elements.
LEMMA ArrayCellsAre ==
    ASSUME NEW c, NEW d, NEW s, IsSequence(s)
    PROVE  LET u == <<c, d>> \o s
           IN  IsSequence(u) /\ Len(u) = 2 + Len(s) /\ u[1] = c /\ u[2] = d
<1> DEFINE h == <<c, d>>
           A == {h[i] : i \in DOMAIN h} \union {s[i] : i \in DOMAIN s}
<1>1. Len(h) = 2 /\ h[1] = c /\ h[2] = d /\ IsSequence(h)
  BY DEF IsSequence
<1> HIDE DEF h
<1>2. h \in Seq(A) /\ s \in Seq(A)
  BY <1>1 DEF IsSequence
<1> HIDE DEF A
<1>3. (h \o s)[1] = h[1] /\ (h \o s)[2] = h[2]
  <2>1. \A i \in 1 .. Len(h) : (h \o s)[i] = h[i] BY <1>2
  <2> QED BY <1>1, <2>1
<1>4. IsSequence(h \o s) /\ Len(h \o s) = 2 + Len(s)
  BY <1>1, JoinIs
<1> QED BY <1>1, <1>3, <1>4 DEF h

\* One more element.
LEMMA OneMore ==
    ASSUME NEW s, IsSequence(s), NEW x
    PROVE  LET u == s \o <<x>>
           IN  IsSequence(u) /\ Len(u) = Len(s) + 1 /\ \A i \in 1 .. Len(s) : u[i] = s[i]
<1> DEFINE t == <<x>>
           A == {s[i] : i \in DOMAIN s} \union {t[i] : i \in DOMAIN t}
<1>1. Len(t) = 1 /\ IsSequence(t)
  BY DEF IsSequence
<1> HIDE DEF t
<1>2. s \in Seq(A) /\ t \in Seq(A)
  BY <1>1 DEF IsSequence
<1> HIDE DEF A
<1>3. \A i \in 1 .. Len(s) : (s \o t)[i] = s[i]
  BY <1>2
<1>4. IsSequence(s \o t) /\ Len(s \o t) = Len(s) + 1
  BY <1>1, JoinIs
<1> QED BY <1>3, <1>4 DEF t

\* Growing by half, rounded up, makes room for at least one element.
LEMMA GrowsByOne ==
    ASSUME NEW cap \in Nat \ {0}
    PROVE  NewCapacity(cap) \in Nat /\ cap < NewCapacity(cap)
<1>1. cap \div 2 \in Nat /\ cap % 2 \in 0 .. 1 /\ cap = 2 * (cap \div 2) + (cap % 2)
  BY DivMod
<1> QED BY <1>1 DEF NewCapacity

-----------------------------------------------------------------------------
(* The calls on strings. *)

\* The disk holds directories, and texts.
DiskOK == \A name \in DOMAIN disk : disk[name] = Directory \/ IsSequence(disk[name])

\* A step takes no spare byte from a string.
KeepsSpare == SpareAll(heap, ref) => SpareAll(heap', ref')

\* What the calls leave to show.
LEMMA InvIs ==
    ASSUME Keeps(heap, ref, heap', ref'), temp' \in Nat, DiskOK'
    PROVE  Inv' /\ KeepsSpare
  BY DEF Inv, DiskOK, Keeps, KeepsSpare

\* Making a string of a text.
LEMMA FromCstrStep ==
    ASSUME Inv, NEW v \in Strings, NEW text \in Texts, string_from_cstr(v, text)
    PROVE  Inv' /\ KeepsSpare
<1>1. Placed(heap, ref) /\ IsSequence(text)
  BY BuffersAssumption DEF Inv, BuffersAssumption
<1>2. /\ Fits(StringNew(heap, text)) /\ heap' = StringNew(heap, text)
      /\ ref' = [ref EXCEPT ![v] = AllocFrom(heap)]
  BY DEF string_from_cstr, Receives
<1>3. Keeps(heap, ref, heap', ref')
  BY <1>1, <1>2, StringReceived
<1>4. UNCHANGED <<temp, disk>>
  BY DEF string_from_cstr
<1>5. temp' \in Nat /\ DiskOK'
  BY <1>4 DEF Inv, DiskOK
<1> QED BY <1>3, <1>5, InvIs

\* A copy of a string.
LEMMA DupStep ==
    ASSUME Inv, NEW v \in Strings, NEW w \in Strings, string_dup(v, w)
    PROVE  Inv' /\ KeepsSpare
<1>1. Placed(heap, ref) /\ ref[w] # Null
  BY DEF Inv, string_dup, HasText
<1>2. /\ Fits(StringNew(heap, Text(ref[w]))) /\ heap' = StringNew(heap, Text(ref[w]))
      /\ ref' = [ref EXCEPT ![v] = AllocFrom(heap)]
  BY DEF string_dup, Receives
<1>3. IsSequence(Text(ref[w]))
  BY <1>1, TextIs
<1>4. Keeps(heap, ref, heap', ref')
  BY <1>1, <1>2, <1>3, StringReceived
<1>5. UNCHANGED <<temp, disk>>
  BY DEF string_dup
<1>6. temp' \in Nat /\ DiskOK'
  BY <1>5 DEF Inv, DiskOK
<1> QED BY <1>4, <1>6, InvIs

\* Giving a string a new block.
LEMMA RebaseStep ==
    ASSUME Inv, NEW v \in Strings, ref[v] # Null, NEW text, NEW cells, Len(text) \in Nat,
           Len(cells) \in Nat, Len(text) <= Len(cells), Rebase(ref[v], text, cells)
    PROVE  Inv' /\ (Len(text) < Len(cells) => KeepsSpare)
<1>1. Placed(heap, ref)
  BY DEF Inv
<1>2. /\ Fits(Alloc(heap, Len(cells))) /\ heap' = RebasedHeap(ref[v], text, cells)
      /\ UNCHANGED <<ref, temp, disk>>
  BY DEF Rebase, RebasedHeap
<1>3. Placed(heap', ref') /\ (Len(text) < Len(cells) => Keeps(heap, ref, heap', ref'))
  BY <1>1, <1>2, RebaseKeeps
<1>4. temp' \in Nat /\ DiskOK'
  BY <1>2 DEF Inv, DiskOK
<1> QED BY <1>3, <1>4, InvIs DEF Inv, DiskOK

\* Putting a string, or the first part of it, behind another.
LEMMA ConcatStep ==
    ASSUME Inv, NEW v \in Strings, NEW w \in Strings, string_concat(v, w)
    PROVE  Inv'
<1>1. Placed(heap, ref) /\ ref[v] # Null /\ ref[w] # Null
  BY DEF Inv, string_concat, HasText
<1>2. PICK n \in 1 .. StrLen(ref[w]) :
          LET text == Text(ref[v]) \o SubSeq(Text(ref[w]), 1, n) IN Rebase(ref[v], text, text)
  BY DEF string_concat
<1>3. IsSequence(Text(ref[v])) /\ IsSequence(Text(ref[w])) /\ n \in 1 .. Len(Text(ref[w]))
  BY <1>1, TextIs
<1> DEFINE text == Text(ref[v]) \o SubSeq(Text(ref[w]), 1, n)
<1>4. IsSequence(SubSeq(Text(ref[w]), 1, n))
  BY <1>3, PrefixIs
<1>5. IsSequence(text)
  BY <1>3, <1>4, JoinIs
<1>6. Rebase(ref[v], text, text)
  BY <1>2
<1> HIDE DEF text
<1>7. Len(text) \in Nat
  BY <1>5, SequenceIs
<1> QED BY <1>1, <1>6, <1>7, RebaseStep

\* Putting a formatted text behind a string.
LEMMA ConcatfStep ==
    ASSUME Inv, NEW v \in Strings, NEW formatted \in Texts \union {<<>>},
           string_concatf(v, formatted)
    PROVE  Inv' /\ KeepsSpare
<1> DEFINE text == Text(ref[v]) \o formatted
           cells == Append(text, Nul)
<1>1. Placed(heap, ref) /\ ref[v] # Null /\ Rebase(ref[v], text, cells)
  BY DEF Inv, string_concatf, HasText
<1>2. IsSequence(Text(ref[v])) /\ IsSequence(formatted)
  <2>1. IsSequence(<<>>) BY DEF IsSequence
  <2>2. IsSequence(formatted) BY <2>1, BuffersAssumption DEF BuffersAssumption
  <2> QED BY <1>1, <2>2, TextIs
<1>3. IsSequence(text)
  BY <1>2, JoinIs
<1> HIDE DEF text
<1>4. Len(text) \in Nat
  BY <1>3, SequenceIs
<1>5. Len(cells) = Len(text) + 1
  <2> DEFINE A == {text[i] : i \in DOMAIN text} \union {Nul}
  <2>1. text \in Seq(A) /\ Nul \in A BY <1>3 DEF IsSequence
  <2> HIDE DEF A
  <2> QED BY <2>1
<1> HIDE DEF cells
<1>6. Len(cells) \in Nat /\ Len(text) < Len(cells)
  BY <1>4, <1>5
<1> QED BY <1>1, <1>4, <1>6, RebaseStep

\* Where the header of an object lies.
LEMMA HeaderBelow ==
    ASSUME Placed(heap, ref), NEW v \in Handles, ref[v] # Null
    PROVE  /\ IsHeap(heap) /\ ref[v] \in Nat
           /\ {ref[v], ref[v] + 1} \subseteq 0 .. heap.pos - 1
           /\ 0 .. heap.pos - 1 \subseteq DOMAIN heap.mem \intersect Int
<1>1. HeapInv(heap)
  BY DEF Placed
<1>2. ref[v] \in Nat /\ {ref[v], ref[v] + 1} \subseteq 0 .. heap.pos - 1
  BY ObjectIn
<1>3. heap.pos \in Int /\ heap.pos <= Reserved - 1 /\ Reserved \in Int
  BY <1>1, BuffersAssumption DEF HeapInv, BuffersAssumption
<1> QED BY <1>1, <1>2, <1>3 DEF HeapInv, IsHeap

\* Writing a header that cuts off characters at either end.
LEMMA HeaderWritten ==
    ASSUME Placed(heap, ref), NEW v \in Strings, ref[v] # Null, NEW t \in Nat, NEW n \in Nat,
           StrBase(ref[v]) <= t, t + n <= StrBase(ref[v]) + StrLen(ref[v])
    PROVE  Keeps(heap, ref, Put(heap, ref[v], <<t, n>>), ref)
<1> DEFINE a == ref[v]
           s == <<t, n>>
           h2 == Put(heap, a, s)
<1>1. /\ IsHeap(heap) /\ a \in Nat /\ {a, a + 1} \subseteq 0 .. heap.pos - 1
      /\ 0 .. heap.pos - 1 \subseteq DOMAIN heap.mem \intersect Int
  BY HeaderBelow DEF Handles
<1>2. \A c \in DOMAIN heap.mem \intersect Int :
          h2.mem[c] = IF c = a THEN t ELSE IF c = a + 1 THEN n ELSE heap.mem[c]
  BY <1>1, PutTwo
<1> HIDE DEF s
<1>3. /\ h2 = [pos |-> heap.pos, mem |-> h2.mem, blocks |-> heap.blocks]
      /\ DOMAIN h2.mem = DOMAIN heap.mem
  BY <1>1, PutIs
<1> HIDE DEF h2
<1>4. h2.mem[a] = t /\ h2.mem[a + 1] = n
      /\ \A c \in 0 .. heap.pos - 1 : c \notin {a, a + 1} => h2.mem[c] = heap.mem[c]
  BY <1>1, <1>2
<1>5. heap.mem[a] <= t /\ t + n <= heap.mem[a] + heap.mem[a + 1]
  BY DEF StrBase, StrLen
<1>6. Keeps(heap, ref, h2, ref)
  BY <1>3, <1>4, <1>5, Trimmed
<1> QED BY <1>6 DEF h2, s

\* A step that writes in place leaves the rest.
LEMMA WriteStep ==
    ASSUME Inv, Keeps(heap, ref, heap', ref), UNCHANGED <<ref, temp, disk>>
    PROVE  Inv' /\ KeepsSpare
<1>1. ref' = ref /\ temp' \in Nat /\ DiskOK'
  BY DEF Inv, DiskOK
<1> QED BY <1>1, InvIs

\* Trimming on the left.
LEMMA TrimLeftStep ==
    ASSUME Inv, NEW v \in Strings, string_trim_left(v)
    PROVE  Inv' /\ KeepsSpare
<1> DEFINE n == StrLen(ref[v])
           cut == IF FirstText(v) = 0 THEN n ELSE FirstText(v) - 1
<1>1. Placed(heap, ref) /\ ref[v] # Null
  BY DEF Inv, string_trim_left, HasText
<1>2. StrBase(ref[v]) \in Nat /\ n \in Nat
  BY <1>1, TextIs
<1>3. cut \in 0 .. n
  <2>1. FirstText(v) \in 0 .. n BY <1>1, TextEnds
  <2> HIDE DEF n
  <2> QED BY <1>2, <2>1
<1>4. heap' = Put(heap, ref[v], <<StrBase(ref[v]) + cut, n - cut>>) /\ UNCHANGED <<ref, temp, disk>>
  BY DEF string_trim_left
<1> HIDE DEF cut
<1>5. Keeps(heap, ref, heap', ref)
  <2>1. /\ StrBase(ref[v]) + cut \in Nat /\ n - cut \in Nat /\ StrBase(ref[v]) <= StrBase(ref[v]) + cut
        /\ (StrBase(ref[v]) + cut) + (n - cut) <= StrBase(ref[v]) + n
    <3> HIDE DEF n
    <3> QED BY <1>2, <1>3
  <2>2. Keeps(heap, ref, Put(heap, ref[v], <<StrBase(ref[v]) + cut, n - cut>>), ref)
    BY <1>1, <2>1, HeaderWritten
  <2> QED BY <1>4, <2>2
<1> QED BY <1>4, <1>5, WriteStep

\* Trimming on the right.
LEMMA TrimRightStep ==
    ASSUME Inv, NEW v \in Strings, string_trim_right(v)
    PROVE  Inv' /\ KeepsSpare
<1> DEFINE a == ref[v]
           k == LastText(v)
           s == <<k>>
           h2 == Put(heap, a + 1, s)
<1>1. Placed(heap, ref) /\ a # Null
  BY DEF Inv, string_trim_right, HasText
<1>2. StrBase(a) \in Nat /\ StrLen(a) \in Nat /\ k \in Nat /\ k <= StrLen(a)
  BY <1>1, TextIs, TextEnds
<1>3. heap' = h2 /\ UNCHANGED <<ref, temp, disk>>
  BY DEF string_trim_right
<1>4. /\ IsHeap(heap) /\ a \in Nat /\ {a, a + 1} \subseteq 0 .. heap.pos - 1
      /\ 0 .. heap.pos - 1 \subseteq DOMAIN heap.mem \intersect Int
  BY <1>1, HeaderBelow DEF Handles
<1>5. a + 1 \in Int
  BY <1>4
<1>6. \A c \in DOMAIN heap.mem \intersect Int : h2.mem[c] = IF c = a + 1 THEN k ELSE heap.mem[c]
  BY <1>4, <1>5, PutOne
<1> HIDE DEF s
<1>7. /\ h2 = [pos |-> heap.pos, mem |-> h2.mem, blocks |-> heap.blocks]
      /\ DOMAIN h2.mem = DOMAIN heap.mem
  BY <1>4, PutIs
<1> HIDE DEF h2, k
<1>8. h2.mem[a] = heap.mem[a] /\ h2.mem[a + 1] = k
      /\ \A c \in 0 .. heap.pos - 1 : c \notin {a, a + 1} => h2.mem[c] = heap.mem[c]
  <2>1. a # a + 1 BY <1>4
  <2> QED BY <1>4, <1>6, <2>1
<1>9. /\ heap.mem[a] \in Nat /\ heap.mem[a + 1] \in Nat /\ k <= heap.mem[a + 1]
  BY <1>2 DEF StrBase, StrLen
<1>10. Keeps(heap, ref, h2, ref)
  BY <1>1, <1>2, <1>7, <1>8, <1>9, Trimmed
<1> QED BY <1>3, <1>10, WriteStep

\* Trimming on both sides.
LEMMA TrimStep ==
    ASSUME Inv, NEW v \in Strings, string_trim(v)
    PROVE  Inv' /\ KeepsSpare
<1> DEFINE n == StrLen(ref[v])
           i == FirstText(v)
           k == LastText(v)
<1>1. Placed(heap, ref) /\ ref[v] # Null /\ i # 0
  BY DEF Inv, string_trim, HasText
<1>2. /\ StrBase(ref[v]) \in Nat /\ n \in Nat
      /\ i \in 0 .. n /\ k \in 0 .. n /\ i <= k
  BY <1>1, TextIs, TextEnds
<1>3. /\ heap' = Put(heap, ref[v], <<StrBase(ref[v]) + i - 1, k - i + 1>>)
      /\ UNCHANGED <<ref, temp, disk>>
  BY DEF string_trim
<1>4. Keeps(heap, ref, heap', ref)
  <2>1. /\ StrBase(ref[v]) + i - 1 \in Nat /\ k - i + 1 \in Nat
        /\ StrBase(ref[v]) <= StrBase(ref[v]) + i - 1
        /\ (StrBase(ref[v]) + i - 1) + (k - i + 1) <= StrBase(ref[v]) + n
    <3> HIDE DEF n, i, k
    <3> QED BY <1>1, <1>2
  <2> HIDE DEF i, k
  <2>2. Keeps(heap, ref, Put(heap, ref[v], <<StrBase(ref[v]) + i - 1, k - i + 1>>), ref)
    BY <1>1, <2>1, HeaderWritten
  <2> QED BY <1>3, <2>2
<1> QED BY <1>3, <1>4, WriteStep

\* Terminating a string.
LEMMA ToCstrStep ==
    ASSUME SpareOnly, Inv, NEW v \in Strings, string_to_cstr(v)
    PROVE  Inv' /\ KeepsSpare
<1>1. Placed(heap, ref) /\ CanTerminate(v) /\ heap' = Terminated(ref[v]) /\ UNCHANGED <<ref, temp, disk>>
  BY DEF Inv, string_to_cstr
<1>2. Keeps(heap, ref, heap', ref)
  BY <1>1, TerminatedKeeps
<1> QED BY <1>1, <1>2, WriteStep

-----------------------------------------------------------------------------
(* The calls on files. *)

\* A string made after the path has been terminated.
LEMMA MadeAfterPath ==
    ASSUME SpareOnly, Placed(heap, ref), NEW path \in Strings, CanTerminate(path), NEW v \in Strings,
           NEW text, IsSequence(text), Receives(v, StringNew(Terminated(ref[path]), text))
    PROVE  Keeps(heap, ref, heap', ref')
<1> DEFINE h == Terminated(ref[path])
<1>1. Keeps(heap, ref, h, ref) /\ Placed(h, ref) /\ h.pos = heap.pos
  BY TerminatedKeeps DEF Keeps
<1>2. AllocFrom(h) = AllocFrom(heap)
  BY <1>1 DEF AllocFrom
<1>3. Fits(StringNew(h, text)) /\ heap' = StringNew(h, text) /\ ref' = [ref EXCEPT ![v] = AllocFrom(heap)]
  BY DEF Receives
<1> HIDE DEF h
<1>4. Keeps(h, ref, StringNew(h, text), [ref EXCEPT ![v] = AllocFrom(h)])
  BY <1>1, <1>3, StringReceived
<1> QED BY <1>1, <1>2, <1>3, <1>4 DEF Keeps

\* What is written to a file is a text, or a directory.
LEMMA StoredIs ==
    ASSUME DiskOK, NEW name, NEW contents, contents = Directory \/ IsSequence(contents),
           disk' = Stored(name, contents)
    PROVE  DiskOK'
  BY DEF DiskOK, Stored

\* Reading a file.
LEMMA ReadFileStep ==
    ASSUME SpareOnly, Inv, NEW v \in Strings, NEW path \in Strings, read_file(v, path)
    PROVE  Inv' /\ KeepsSpare
<1> DEFINE name == Path(path)
<1>1. Placed(heap, ref) /\ DiskOK /\ CanTerminate(path) /\ IsFile(name) /\ temp' = temp
  BY DEF Inv, DiskOK, read_file
<1>2. PICK size \in 1 .. Len(disk[name]), now \in Texts \union {disk[name]} :
          /\ Len(now) >= size /\ disk' = Stored(name, now)
          /\ Receives(v, StringNew(Terminated(ref[path]), SubSeq(now, 1, size)))
  BY DEF read_file
<1>3. IsSequence(now)
  BY <1>1, BuffersAssumption DEF BuffersAssumption, DiskOK, IsFile
<1>4. IsSequence(SubSeq(now, 1, size))
  <2>1. IsSequence(disk[name]) BY <1>1 DEF DiskOK, IsFile
  <2>2. Len(now) \in Nat /\ Len(disk[name]) \in Nat BY <1>3, <2>1, SequenceIs
  <2>3. size \in 1 .. Len(now)
    <3> HIDE DEF name
    <3> QED BY <1>2, <2>2
  <2> QED BY <1>3, <2>3, PrefixIs
<1>5. Keeps(heap, ref, heap', ref')
  BY <1>1, <1>2, <1>4, MadeAfterPath
<1>6. DiskOK'
  BY <1>1, <1>2, <1>3, StoredIs
<1>7. temp' \in Nat
  BY <1>1 DEF Inv
<1> QED BY <1>5, <1>6, <1>7, InvIs

\* Writing a string, or the first part of it, to a file.
LEMMA WriteFileStep ==
    ASSUME SpareOnly, Inv, NEW v \in Strings, NEW path \in Strings, write_to_file(path, v)
    PROVE  Inv' /\ KeepsSpare
<1>1. /\ Placed(heap, ref) /\ DiskOK /\ CanTerminate(path) /\ ref[v] # Null
      /\ heap' = Terminated(ref[path]) /\ ref' = ref /\ temp' = temp
  BY DEF Inv, DiskOK, write_to_file
<1>2. PICK n \in 1 .. StrLen(ref[v]) : disk' = Stored(Path(path), SubSeq(Text(ref[v]), 1, n))
  BY DEF write_to_file
<1>3. IsSequence(Text(ref[v])) /\ n \in 1 .. Len(Text(ref[v]))
  BY <1>1, <1>2, TextIs
<1>4. IsSequence(SubSeq(Text(ref[v]), 1, n))
  BY <1>3, PrefixIs
<1>5. DiskOK'
  BY <1>1, <1>2, <1>4, StoredIs
<1>6. Keeps(heap, ref, heap', ref')
  BY <1>1, TerminatedKeeps
<1>7. temp' \in Nat
  BY <1>1 DEF Inv
<1> QED BY <1>5, <1>6, <1>7, InvIs

\* Making a directory.
LEMMA MakeDirStep ==
    ASSUME SpareOnly, Inv, NEW path \in Strings, make_dir(path)
    PROVE  Inv' /\ KeepsSpare
<1>1. /\ Placed(heap, ref) /\ DiskOK /\ CanTerminate(path)
      /\ heap' = Terminated(ref[path]) /\ ref' = ref /\ temp' = temp
      /\ disk' = Stored(Path(path), Directory) \/ disk' = disk
  BY DEF Inv, DiskOK, make_dir
<1>2. DiskOK'
  <2>1. CASE disk' = Stored(Path(path), Directory) BY <1>1, <2>1, StoredIs
  <2>2. CASE disk' = disk BY <1>1, <2>2 DEF DiskOK
  <2> QED BY <1>1, <2>1, <2>2
<1>3. Keeps(heap, ref, heap', ref')
  BY <1>1, TerminatedKeeps
<1>4. temp' \in Nat
  BY <1>1 DEF Inv
<1> QED BY <1>2, <1>3, <1>4, InvIs

\* Removing a file or a directory.
LEMMA RemoveStep ==
    ASSUME SpareOnly, Inv, NEW path \in Strings, path_remove(path)
    PROVE  Inv' /\ KeepsSpare
<1>1. /\ Placed(heap, ref) /\ DiskOK /\ CanTerminate(path)
      /\ heap' = Terminated(ref[path]) /\ ref' = ref /\ temp' = temp
      /\ disk' = [m \in DOMAIN disk \ {Path(path)} |-> disk[m]]
  BY DEF Inv, DiskOK, path_remove
<1>2. DiskOK'
  BY <1>1 DEF DiskOK
<1>3. Keeps(heap, ref, heap', ref')
  BY <1>1, TerminatedKeeps
<1>4. temp' \in Nat
  BY <1>1 DEF Inv
<1> QED BY <1>2, <1>3, <1>4, InvIs

\* Forgetting an object.
LEMMA Forgotten ==
    ASSUME NEW h, NEW r, Placed(h, r), NEW v \in Handles
    PROVE  Keeps(h, r, h, [r EXCEPT ![v] = Null])
<1> DEFINE r2 == [r EXCEPT ![v] = Null]
<1>1. r2 = [x \in Handles |-> r2[x]] /\ \A x \in Handles : r2[x] = Null \/ r2[x] = r[x]
  BY DEF Placed
<1> HIDE DEF r2
<1>2. Keeps(h, r, h, r2)
  BY <1>1, Renamed
<1> QED BY <1>2 DEF r2

\* Resolving a path.
LEMMA CanonicalStep ==
    ASSUME SpareOnly, Inv, NEW v \in Strings, NEW path \in Strings, NEW canonical \in Texts,
           path_canonical(v, path, canonical)
    PROVE  Inv' /\ KeepsSpare
<1>1. Placed(heap, ref) /\ DiskOK /\ CanTerminate(path) /\ UNCHANGED <<temp, disk>>
  BY DEF Inv, DiskOK, path_canonical
<1>2. Keeps(heap, ref, heap', ref')
  <2>1. CASE Path(path) \in DOMAIN disk
    <3>1. Receives(v, StringNew(Terminated(ref[path]), canonical)) BY <2>1 DEF path_canonical
    <3>2. IsSequence(canonical) BY BuffersAssumption DEF BuffersAssumption
    <3> QED BY <1>1, <3>1, <3>2, MadeAfterPath
  <2>2. CASE Path(path) \notin DOMAIN disk
    <3>1. heap' = Terminated(ref[path]) /\ ref' = [ref EXCEPT ![v] = Null]
      BY <2>2 DEF path_canonical
    <3>2. Keeps(heap, ref, heap', ref) BY <1>1, <3>1, TerminatedKeeps
    <3>3. Keeps(heap', ref, heap', ref') BY <3>1, <3>2, Forgotten DEF Handles, Keeps
    <3> QED BY <3>2, <3>3 DEF Keeps
  <2> QED BY <2>1, <2>2
<1>3. temp' \in Nat /\ DiskOK'
  BY <1>1 DEF Inv, DiskOK
<1> QED BY <1>2, <1>3, InvIs

-----------------------------------------------------------------------------
(* The calls on arrays. *)

\* The length and the capacity of an array.
LEMMA ArrayIs ==
    ASSUME Placed(heap, ref), NEW v \in Arrays, ref[v] # Null
    PROVE  ref[v] \in Nat /\ DaCap(ref[v]) \in Nat \ {0} /\ DaLen(ref[v]) \in 0 .. DaCap(ref[v])
  BY DEF Placed, ArrayIn, DaCap, DaLen

\* An array in a new block.
LEMMA ArrayStep ==
    ASSUME Inv, NEW v \in Arrays, NEW cap \in Nat \ {0}, NEW len \in 0 .. cap, NEW cells,
           Len(cells) \in Nat, Len(cells) >= 2 + len, cells[1] = cap, cells[2] = len,
           Receives(v, Put(Alloc(heap, HeaderSize + cap), AllocFrom(heap), cells)),
           UNCHANGED <<temp, disk>>
    PROVE  Inv' /\ KeepsSpare
<1> DEFINE g == Put(Alloc(heap, HeaderSize + cap), AllocFrom(heap), cells)
<1>1. Placed(heap, ref) /\ temp' \in Nat /\ DiskOK'
  BY DEF Inv, DiskOK
<1>2. Fits(g) /\ heap' = g /\ ref' = [ref EXCEPT ![v] = AllocFrom(heap)]
  BY DEF Receives
<1>3. Keeps(heap, ref, g, [ref EXCEPT ![v] = AllocFrom(heap)])
  BY <1>1, <1>2, ArrayReceived
<1> HIDE DEF g
<1>4. Keeps(heap, ref, heap', ref')
  BY <1>2, <1>3
<1> QED BY <1>1, <1>4, InvIs

\* Making an array.
LEMMA DaNewStep ==
    ASSUME Inv, NEW v \in Arrays, NEW capacity \in Capacities, da_new(v, capacity)
    PROVE  Inv' /\ KeepsSpare
<1> DEFINE zeros == [i \in 1 .. capacity |-> Nul]
           cells == <<capacity, 0>> \o zeros
<1>1. capacity \in Nat \ {0}
  BY BuffersAssumption DEF BuffersAssumption
<1>2. IsSequence(zeros) /\ Len(zeros) = capacity
  <2>1. zeros \in Seq({Nul}) /\ Len(zeros) = capacity BY <1>1
  <2>2. zeros \in Seq({zeros[i] : i \in DOMAIN zeros}) BY <1>1
  <2> QED BY <2>1, <2>2 DEF IsSequence
<1>3. /\ Receives(v, Put(Alloc(heap, HeaderSize + capacity), AllocFrom(heap), cells))
      /\ UNCHANGED <<temp, disk>>
  BY DEF da_new
<1> HIDE DEF zeros
<1>4. Len(cells) = 2 + capacity /\ cells[1] = capacity /\ cells[2] = 0
  BY <1>2, ArrayCellsAre
<1> HIDE DEF cells
<1>5. Len(cells) \in Nat /\ Len(cells) >= 2 + 0 /\ 0 \in 0 .. capacity
  BY <1>1, <1>4
<1> QED BY <1>1, <1>3, <1>4, <1>5, ArrayStep

\* Appending to a full array.
LEMMA AppendGrowsStep ==
    ASSUME Inv, NEW v \in Arrays, NEW item \in Items, AppendGrows(v, item)
    PROVE  Inv' /\ KeepsSpare
<1> DEFINE d == ref[v]
           cap == NewCapacity(DaCap(d))
           len == DaLen(d) + 1
           front == <<cap, len>> \o Elements(d)
           cells == front \o <<item>>
<1>1. Placed(heap, ref) /\ d # Null
  BY DEF Inv, AppendGrows
<1>2. DaCap(d) \in Nat \ {0} /\ DaLen(d) \in 0 .. DaCap(d)
  BY <1>1, ArrayIs
<1>3. /\ Receives(v, Put(Alloc(heap, HeaderSize + cap), AllocFrom(heap), cells))
      /\ UNCHANGED <<temp, disk>>
  BY DEF AppendGrows
<1>4. IsSequence(Elements(d)) /\ Len(Elements(d)) = DaLen(d)
  BY <1>2, CellsAre DEF Elements
<1>5. cap \in Nat /\ DaCap(d) < cap
  BY <1>2, GrowsByOne
<1>6. cap \in Nat \ {0} /\ len \in 0 .. cap
  <2> HIDE DEF cap, d
  <2> QED BY <1>2, <1>5
<1>11. len = Len(Elements(d)) + 1
  BY <1>4
<1> HIDE DEF cap, len, d
<1>7. IsSequence(front) /\ Len(front) = 2 + Len(Elements(d)) /\ front[1] = cap /\ front[2] = len
  BY <1>4, ArrayCellsAre
<1> HIDE DEF front
<1>8. Len(cells) = Len(front) + 1 /\ \A i \in 1 .. Len(front) : cells[i] = front[i]
  BY <1>7, OneMore
<1> HIDE DEF cells
<1>9. Len(Elements(d)) \in Nat
  BY <1>4, SequenceIs
<1>10. Len(cells) \in Nat /\ Len(cells) >= 2 + len /\ cells[1] = cap /\ cells[2] = len
  BY <1>7, <1>8, <1>9, <1>11
<1> QED BY <1>3, <1>6, <1>10, ArrayStep

\* Setting the length.
LEMMA SetLenIs ==
    ASSUME Placed(heap, ref), NEW v \in Arrays, ref[v] # Null, NEW len
    PROVE  LET h2 == SetLen(ref[v], len) IN
           /\ IsHeap(h2) /\ h2.pos = heap.pos /\ h2.blocks = heap.blocks
           /\ DOMAIN h2.mem = DOMAIN heap.mem
           /\ \A c \in DOMAIN heap.mem \intersect Int :
                  h2.mem[c] = IF c = ref[v] + 1 THEN len ELSE heap.mem[c]
<1> DEFINE a == ref[v]
           s == <<len>>
           h2 == Put(heap, a + 1, s)
<1>1. IsHeap(heap) /\ a \in Nat
  BY HeaderBelow DEF Handles
<1>2. a + 1 \in Int
  BY <1>1
<1>3. \A c \in DOMAIN heap.mem \intersect Int : h2.mem[c] = IF c = a + 1 THEN len ELSE heap.mem[c]
  BY <1>1, <1>2, PutOne
<1> HIDE DEF s
<1>4. /\ h2 = [pos |-> heap.pos, mem |-> h2.mem, blocks |-> heap.blocks]
      /\ DOMAIN h2.mem = DOMAIN heap.mem
  BY <1>1, PutIs
<1>5. h2 = SetLen(ref[v], len)
  BY DEF SetLen, s
<1> HIDE DEF h2
<1>6. IsHeap(h2) /\ h2.pos = heap.pos /\ h2.blocks = heap.blocks
  BY <1>4 DEF IsHeap
<1> QED BY <1>3, <1>4, <1>5, <1>6

\* Shortening an array.
LEMMA SetLenStep ==
    ASSUME Inv, NEW v \in Arrays, ref[v] # Null, NEW len \in 0 .. DaCap(ref[v]),
           heap' = SetLen(ref[v], len), UNCHANGED <<ref, temp, disk>>
    PROVE  Inv' /\ KeepsSpare
<1> DEFINE a == ref[v]
           h2 == SetLen(a, len)
<1>1. Placed(heap, ref)
  BY DEF Inv
<1>2. /\ a \in Nat /\ {a, a + 1} \subseteq 0 .. heap.pos - 1
      /\ 0 .. heap.pos - 1 \subseteq DOMAIN heap.mem \intersect Int
  BY <1>1, HeaderBelow DEF Handles
<1>3. heap.mem[a] \in Nat \ {0} /\ len \in 0 .. heap.mem[a]
  BY <1>1, ArrayIs DEF DaCap
<1>4. a # a + 1 /\ a + 1 \in ArrayAt(heap, a)
  BY <1>2, <1>3 DEF ArrayAt, HeaderSize
<1>5. /\ IsHeap(h2) /\ h2.pos = heap.pos /\ h2.blocks = heap.blocks
      /\ DOMAIN h2.mem = DOMAIN heap.mem
      /\ \A c \in DOMAIN heap.mem \intersect Int :
             h2.mem[c] = IF c = a + 1 THEN len ELSE heap.mem[c]
  BY <1>1, SetLenIs
<1> HIDE DEF h2
<1>6. h2 = [pos |-> heap.pos, mem |-> h2.mem, blocks |-> heap.blocks]
  BY <1>5 DEF IsHeap
<1>7. h2.mem[a] = heap.mem[a] /\ h2.mem[a + 1] \in 0 .. heap.mem[a]
      /\ \A c \in 0 .. heap.pos - 1 : c \notin ArrayAt(heap, a) => h2.mem[c] = heap.mem[c]
  BY <1>2, <1>3, <1>4, <1>5
<1>8. Keeps(heap, ref, h2, ref)
  BY <1>1, <1>5, <1>6, <1>7, Refilled
<1> QED BY <1>8, WriteStep DEF h2

\* Taking the last element, or all.
LEMMA PopStep ==
    ASSUME Inv, NEW v \in Arrays, da_pop(v) \/ da_clear(v)
    PROVE  Inv' /\ KeepsSpare
<1>1. ref[v] # Null /\ UNCHANGED <<ref, temp, disk>>
  BY DEF da_pop, da_clear
<1>2. DaCap(ref[v]) \in Nat \ {0} /\ DaLen(ref[v]) \in 0 .. DaCap(ref[v])
  BY <1>1, ArrayIs DEF Inv
<1>3. CASE da_pop(v)
  <2>1. DaLen(ref[v]) > 0 /\ heap' = SetLen(ref[v], DaLen(ref[v]) - 1) BY <1>3 DEF da_pop
  <2>2. DaLen(ref[v]) - 1 \in 0 .. DaCap(ref[v]) BY <1>2, <2>1
  <2> QED BY <1>1, <2>1, <2>2, SetLenStep
<1>4. CASE da_clear(v)
  <2>1. heap' = SetLen(ref[v], 0) BY <1>4 DEF da_clear
  <2>2. 0 \in 0 .. DaCap(ref[v]) BY <1>2
  <2> QED BY <1>1, <2>1, <2>2, SetLenStep
<1> QED BY <1>3, <1>4

\* Appending to an array that has room.
LEMMA AppendInPlaceStep ==
    ASSUME Inv, NEW v \in Arrays, NEW item \in Items, AppendInPlace(v, item)
    PROVE  Inv' /\ KeepsSpare
<1> DEFINE a == ref[v]
           len == heap.mem[a + 1]
           at == a + HeaderSize + len
           s == <<item>>
           h1 == SetLen(a, len + 1)
           h2 == Put(h1, at, s)
<1>1. Placed(heap, ref) /\ a # Null
  BY DEF Inv, AppendInPlace
<1>2. /\ a \in Nat /\ {a, a + 1} \subseteq 0 .. heap.pos - 1
      /\ 0 .. heap.pos - 1 \subseteq DOMAIN heap.mem \intersect Int
  BY <1>1, HeaderBelow DEF Handles
<1>3. heap.mem[a] \in Nat \ {0} /\ len \in Nat /\ len < heap.mem[a]
  BY <1>1, ArrayIs DEF DaCap, DaLen, AppendInPlace
<1>4. heap' = h2 /\ UNCHANGED <<ref, temp, disk>>
  BY DEF AppendInPlace, DaLen
<1>5. /\ IsHeap(h1) /\ h1.pos = heap.pos /\ h1.blocks = heap.blocks
      /\ DOMAIN h1.mem = DOMAIN heap.mem
      /\ \A c \in DOMAIN heap.mem \intersect Int :
             h1.mem[c] = IF c = a + 1 THEN len + 1 ELSE heap.mem[c]
  BY <1>1, SetLenIs
<1>6. at \in Int /\ at # a /\ at # a + 1 /\ at \in ArrayAt(heap, a) /\ a + 1 \in ArrayAt(heap, a)
  <2> HIDE DEF len
  <2> QED BY <1>2, <1>3 DEF ArrayAt, HeaderSize
<1> HIDE DEF h1, at, len
<1>7. \A c \in DOMAIN h1.mem \intersect Int : h2.mem[c] = IF c = at THEN item ELSE h1.mem[c]
  BY <1>5, <1>6, PutOne
<1> HIDE DEF s
<1>8. /\ h2 = [pos |-> h1.pos, mem |-> h2.mem, blocks |-> h1.blocks]
      /\ DOMAIN h2.mem = DOMAIN h1.mem
  BY <1>5, PutIs
<1> HIDE DEF h2
<1>9. /\ h2 = [pos |-> heap.pos, mem |-> h2.mem, blocks |-> heap.blocks]
      /\ DOMAIN h2.mem = DOMAIN heap.mem
  BY <1>5, <1>8
<1>10. h2.mem[a] = heap.mem[a] /\ h2.mem[a + 1] = len + 1
  BY <1>2, <1>5, <1>6, <1>7
<1>11. \A c \in 0 .. heap.pos - 1 : c \notin ArrayAt(heap, a) => h2.mem[c] = heap.mem[c]
  BY <1>2, <1>5, <1>6, <1>7
<1>12. h2.mem[a + 1] \in 0 .. heap.mem[a]
  BY <1>3, <1>10
<1>13. Keeps(heap, ref, h2, ref)
  BY <1>1, <1>9, <1>10, <1>11, <1>12, Refilled
<1> QED BY <1>4, <1>13, WriteStep

-----------------------------------------------------------------------------
(* The caller, and the arena. *)

\* A second variable for an object.
LEMMA AssignStep ==
    ASSUME Inv, NEW v \in Handles, NEW w \in Handles, v \in Strings <=> w \in Strings, Assign(v, w)
    PROVE  Inv' /\ KeepsSpare
<1> DEFINE r2 == [ref EXCEPT ![v] = ref[w]]
<1>1. Placed(heap, ref) /\ ref' = r2 /\ UNCHANGED <<heap, temp, disk>>
  BY DEF Inv, Assign
<1>2. r2 = [x \in Handles |-> r2[x]] /\ r2[v] = ref[w] /\ \A x \in Handles : x # v => r2[x] = ref[x]
  BY <1>1 DEF Placed
<1> HIDE DEF r2
<1>3. \A x \in Handles : \E y \in Handles : r2[x] = ref[y] /\ (x \in Strings <=> y \in Strings)
  BY <1>2
<1>4. Keeps(heap, ref, heap, r2)
  BY <1>1, <1>2, <1>3, Renamed
<1>5. temp' \in Nat /\ DiskOK'
  BY <1>1 DEF Inv, DiskOK
<1> QED BY <1>1, <1>4, <1>5, InvIs

\* Opening a temp arena.
LEMMA TempNewStep ==
    ASSUME Inv, temp_arena_new
    PROVE  Inv' /\ KeepsSpare
<1>1. temp' = heap.pos /\ heap' = heap /\ ref' = ref /\ disk' = disk /\ Placed(heap, ref)
  BY DEF Inv, temp_arena_new
<1>2. temp' \in Nat
  BY <1>1 DEF Placed, HeapInv
<1>3. DiskOK'
  BY <1>1 DEF Inv, DiskOK
<1>4. Keeps(heap, ref, heap', ref')
  BY <1>1 DEF Keeps
<1> QED BY <1>2, <1>3, <1>4, InvIs

\* Rolling back, to the start of the temp arena or to the header of the arena.
LEMMA RollBackStep ==
    ASSUME Inv, NEW target \in Nat, target < heap.pos, RollBack(target)
    PROVE  Inv' /\ KeepsSpare
<1> DEFINE left == {b \in heap.blocks : b.to <= target}
<1>1. /\ heap' = [pos |-> target, blocks |-> left,
                  mem |-> [a \in DOMAIN heap.mem |-> IF a < target THEN heap.mem[a] ELSE Junk]]
      /\ ref' = [h \in Handles |->
             IF /\ ref[h] # Null /\ \E b \in left : ref[h] \in Bytes(b)
                /\ h \in Strings => \E b \in left : StrBase(ref[h]) \in Bytes(b)
             THEN ref[h] ELSE Null]
      /\ temp' = 0 /\ disk' = disk
  BY DEF RollBack
<1>2. Placed(heap, ref) /\ HeapInv(heap) /\ heap.pos \in Nat /\ target <= heap.pos
  <2>1. Placed(heap, ref) BY DEF Inv
  <2>2. HeapInv(heap) BY <2>1 DEF Placed
  <2>3. heap.pos \in Nat BY <2>2 DEF HeapInv
  <2> QED BY <2>1, <2>2, <2>3
<1>3. heap.pos <= Reserved - 1 /\ Reserved \in Int /\ DOMAIN heap.mem = 0 .. Reserved - 1
  BY <1>2, BuffersAssumption DEF HeapInv, BuffersAssumption
<1>4. heap'.blocks = left
  BY <1>1
<1>5. RolledBack(heap, heap', target)
  <2>1. heap' = [pos |-> heap'.pos, mem |-> heap'.mem, blocks |-> heap'.blocks]
    <3> HIDE DEF left
    <3> QED BY <1>1
  <2>2. heap'.pos = target /\ DOMAIN heap'.mem = DOMAIN heap.mem BY <1>1
  <2>3. ASSUME NEW c \in 0 .. target - 1 PROVE heap'.mem[c] = heap.mem[c]
    <3>1. c \in DOMAIN heap.mem /\ c < target BY <1>2, <1>3
    <3> HIDE DEF left
    <3> QED BY <1>1, <3>1
  <2> QED BY <1>4, <2>1, <2>2, <2>3 DEF RolledBack
<1> HIDE DEF left
<1>6. ref' = [x \in Handles |-> ref'[x]] /\ \A x \in Handles : ref'[x] \in {Null, ref[x]}
  BY <1>1
<1>7. \A x \in Handles : ref'[x] # Null => \E b \in heap'.blocks : ref[x] \in Bytes(b)
  BY <1>1, <1>4
<1>8. \A x \in Strings : ref'[x] # Null => \E b \in heap'.blocks : heap.mem[ref[x]] \in Bytes(b)
  BY <1>1, <1>4 DEF StrBase, Handles
<1>9. Keeps(heap, ref, heap', ref')
  BY <1>2, <1>5, <1>6, <1>7, <1>8, RollBackKeeps
<1>10. temp' \in Nat /\ DiskOK'
  BY <1>1 DEF Inv, DiskOK
<1> QED BY <1>9, <1>10, InvIs

-----------------------------------------------------------------------------
(* The invariant of the specification, and what it says of the objects. *)

\* Nothing is allocated, and no variable leads anywhere.
LEMMA InitEstablishes ==
    ASSUME Init
    PROVE  Inv
<1>1. /\ heap = [pos |-> Base, mem |-> [a \in 0 .. Reserved - 1 |-> Junk], blocks |-> {}]
      /\ ref = [h \in Handles |-> Null] /\ temp = 0 /\ disk = <<>>
  BY DEF Init
<1>2. Base \in 0 .. Reserved - 1
  BY BuffersAssumption, LayoutAssumption DEF BuffersAssumption, LayoutAssumption
<1>3. HeapInv(heap)
  BY <1>1, <1>2 DEF HeapInv
<1>4. \A x \in Handles : ref[x] = Null
  BY <1>1
<1>5. ref = [x \in Handles |-> ref[x]]
  BY <1>1
<1>6. \A x, y \in Handles : ref[x] = ref[y]
  BY <1>4
<1>7. \A x \in Strings \union Arrays : x \in Handles
  BY DEF Handles
<1>8. Placed(heap, ref)
  BY <1>3, <1>4, <1>5, <1>6, <1>7 DEF Placed
<1>9. temp \in Nat /\ \A name \in DOMAIN disk : disk[name] = Directory \/ IsSequence(disk[name])
  BY <1>1
<1> QED BY <1>8, <1>9 DEF Inv

\* Every call keeps the invariant, and but for string_concat() the spare bytes.
LEMMA NextPreserves ==
    ASSUME SpareOnly, Inv, [Next]_vars
    PROVE  Inv' /\ (KeepsSpare \/ \E v, w \in Strings : string_concat(v, w))
<1>1. CASE StringCalls
  <2>1. PICK v \in Strings :
            \/ \E text \in Texts : string_from_cstr(v, text)
            \/ \E text \in Texts \union {<<>>} : string_concatf(v, text)
            \/ string_trim_left(v) \/ string_trim_right(v) \/ string_trim(v) \/ string_to_cstr(v)
            \/ \E w \in Strings : string_dup(v, w) \/ string_concat(v, w) \/ Assign(v, w)
    BY <1>1 DEF StringCalls
  <2>2. CASE \E text \in Texts : string_from_cstr(v, text) BY <2>2, FromCstrStep
  <2>3. CASE \E text \in Texts \union {<<>>} : string_concatf(v, text) BY <2>3, ConcatfStep
  <2>4. CASE string_trim_left(v) BY <2>4, TrimLeftStep
  <2>5. CASE string_trim_right(v) BY <2>5, TrimRightStep
  <2>6. CASE string_trim(v) BY <2>6, TrimStep
  <2>7. CASE string_to_cstr(v) BY <2>7, ToCstrStep
  <2>8. CASE \E w \in Strings : string_dup(v, w) BY <2>8, DupStep
  <2>9. CASE \E w \in Strings : string_concat(v, w) BY <2>9, ConcatStep
  <2>10. CASE \E w \in Strings : Assign(v, w) BY <2>10, AssignStep DEF Handles
  <2> QED BY <2>1, <2>2, <2>3, <2>4, <2>5, <2>6, <2>7, <2>8, <2>9, <2>10
<1>2. CASE FileCalls
  <2>1. PICK v \in Strings, path \in Strings :
            \/ read_file(v, path) \/ write_to_file(path, v)
            \/ does_path_exist(path) \/ make_dir(path) \/ path_remove(path)
            \/ \E canonical \in Texts : path_canonical(v, path, canonical)
    BY <1>2 DEF FileCalls
  <2>2. CASE read_file(v, path) BY <2>2, ReadFileStep
  <2>3. CASE write_to_file(path, v) BY <2>3, WriteFileStep
  <2>4. CASE does_path_exist(path) BY <2>4, ToCstrStep DEF does_path_exist
  <2>5. CASE make_dir(path) BY <2>5, MakeDirStep
  <2>6. CASE path_remove(path) BY <2>6, RemoveStep
  <2>7. CASE \E canonical \in Texts : path_canonical(v, path, canonical) BY <2>7, CanonicalStep
  <2> QED BY <2>1, <2>2, <2>3, <2>4, <2>5, <2>6, <2>7
<1>3. CASE ArrayCalls
  <2>1. PICK v \in Arrays :
            \/ \E capacity \in Capacities : da_new(v, capacity)
            \/ \E item \in Items : AppendGrows(v, item) \/ AppendInPlace(v, item)
            \/ da_pop(v) \/ da_clear(v)
            \/ \E w \in Arrays : Assign(v, w)
    BY <1>3 DEF ArrayCalls
  <2>2. CASE \E capacity \in Capacities : da_new(v, capacity) BY <2>2, DaNewStep
  <2>3. CASE \E item \in Items : AppendGrows(v, item) BY <2>3, AppendGrowsStep
  <2>4. CASE \E item \in Items : AppendInPlace(v, item) BY <2>4, AppendInPlaceStep
  <2>5. CASE da_pop(v) \/ da_clear(v) BY <2>5, PopStep
  <2>6. CASE \E w \in Arrays : Assign(v, w)
    <3>1. \A w \in Arrays : w \in Handles /\ w \notin Strings
      BY BuffersAssumption DEF BuffersAssumption, Handles
    <3> QED BY <2>6, <3>1, AssignStep
  <2> QED BY <2>1, <2>2, <2>3, <2>4, <2>5, <2>6
<1>4. CASE temp_arena_new
  BY <1>4, TempNewStep
<1>5. CASE temp_arena_free
  BY <1>5, RollBackStep DEF temp_arena_free, Inv
<1>6. CASE arena_clear
  <2>1. Base \in Nat /\ Base < heap.pos /\ RollBack(Base)
    <3>1. Base \in Nat /\ heap.pos > Base /\ RollBack(Base)
      BY <1>6, LayoutAssumption DEF arena_clear, LayoutAssumption
    <3>2. heap.pos \in Nat BY DEF Inv, Placed, HeapInv
    <3> QED BY <3>1, <3>2
  <2> QED BY <2>1, RollBackStep
<1>7. CASE UNCHANGED vars
  <2>1. heap' = heap /\ ref' = ref /\ temp' = temp /\ disk' = disk BY <1>7 DEF vars
  <2>2. temp' \in Nat /\ DiskOK' BY <2>1 DEF Inv, DiskOK
  <2>3. Keeps(heap, ref, heap', ref') BY <2>1 DEF Inv, Keeps
  <2> QED BY <2>2, <2>3, InvIs
<1> QED BY <1>1, <1>2, <1>3, <1>4, <1>5, <1>6, <1>7 DEF Next

\* Strings and arrays lie in allocated blocks and no block holds cells of two of
\* them, after any calls of a caller that terminates no string without a spare byte.
THEOREM BuffersInvariance == ASSUME SpareOnly PROVE Spec => []Inv
<1>1. Init => Inv
  BY InitEstablishes
<1>2. Inv /\ [Next]_vars => Inv'
  BY NextPreserves
<1> QED BY <1>1, <1>2, PTL DEF Spec

\* The invariant implies what the run checks: lengths within capacities, no cell
\* outside the blocks, no cell of two objects.
LEMMA InvSaysLayout == Inv => Layout
<1> SUFFICES ASSUME Inv PROVE Layout
  OBVIOUS
<1>1. Placed(heap, ref)
  BY DEF Inv
<1> DEFINE cells == [h \in Handles |-> IF ref[h] = Null THEN {}
                                      ELSE IF h \in Strings THEN StringCells(ref[h])
                                      ELSE ArrayCells(ref[h])]
           allocated == UNION {Bytes(b) : b \in heap.blocks}
<1>2. ASSUME NEW h \in Handles PROVE cells[h] = ObjectAt(heap, ref, h)
  <2>1. CASE h \in Strings /\ ref[h] # Null
    <3>1. ref[h] \in Nat BY <1>1, <2>1, TextIs
    <3>2. HeaderAt(ref[h]) = ref[h] .. ref[h] + 1 BY <3>1 DEF HeaderAt, HeaderSize
    <3> QED BY <2>1, <3>2 DEF StringCells, ObjectAt, TextAt, StrBase, StrLen
  <2>2. CASE h \notin Strings /\ ref[h] # Null
    BY <2>2 DEF ArrayCells, ObjectAt, ArrayAt, DaCap
  <2>3. CASE ref[h] = Null
    BY <2>3 DEF ObjectAt
  <2> QED BY <2>1, <2>2, <2>3
<1>3. ASSUME NEW d \in Live(Arrays) PROVE DaLen(d) <= DaCap(d)
  <2>1. PICK v \in Arrays : d = ref[v] /\ ref[v] # Null BY <1>3 DEF Live
  <2> QED BY <1>1, <2>1, ArrayIs
<1>4. ASSUME NEW h \in Handles PROVE cells[h] \subseteq allocated
  <2>1. CASE ref[h] = Null BY <2>1
  <2>2. CASE ref[h] # Null
    <3>1. \A c \in ObjectAt(heap, ref, h) : \E b \in heap.blocks : c \in Bytes(b)
      BY <1>1, <2>2, ObjectIn
    <3>2. ObjectAt(heap, ref, h) \subseteq allocated BY <3>1
    <3> QED BY <1>2, <3>2
  <2> QED BY <2>1, <2>2
<1>5. ASSUME NEW h \in Handles, NEW k \in Handles, ref[h] # ref[k]
      PROVE  cells[h] \intersect cells[k] = {}
  BY <1>1, <1>2, <1>5, ObjectsApart
<1> HIDE DEF cells, allocated
<1>6. /\ \A d \in Live(Arrays) : DaLen(d) <= DaCap(d)
      /\ \A h \in Handles : cells[h] \subseteq allocated
      /\ \A h, k \in Handles : ref[h] = ref[k] \/ cells[h] \intersect cells[k] = {}
  BY <1>3, <1>4, <1>5
<1> QED BY <1>6 DEF Layout, cells, allocated

\* What a live string or array may read or write is allocated and its own,
\* whatever was moved, trimmed, grown, terminated or rolled back before.
THEOREM ObjectsStayApart == ASSUME SpareOnly PROVE Spec => []Layout
<1>1. Spec => []Inv
  BY BuffersInvariance
<1>2. Inv => Layout
  BY InvSaysLayout
<1> QED BY <1>1, <1>2, PTL

\* A string loses the byte behind its characters only to string_concat(), in a
\* step of any other call every string that has one keeps it.
THEOREM SpareByteStays == ASSUME SpareOnly PROVE Spec => SpareByteKept
<1>1. Inv /\ [Next]_vars => Inv'
  BY NextPreserves
<1>2. Inv /\ [Next]_vars =>
          [ (\A s \in Live(Strings) : HasSpareByte(s))
            => \/ \A s \in Live(Strings)' : HasSpareByte(s)'
               \/ \E v, w \in Strings : string_concat(v, w) ]_vars
  <2> SUFFICES ASSUME Inv, [Next]_vars, \A s \in Live(Strings) : HasSpareByte(s),
                      ~ \E v, w \in Strings : string_concat(v, w)
               PROVE  \A s \in Live(Strings)' : HasSpareByte(s)'
    OBVIOUS
  <2>1. KeepsSpare
    BY NextPreserves
  <2>2. SpareAll(heap, ref)
    BY DEF SpareAll, Spare, Live, HasSpareByte, StrBase, StrLen
  <2>3. SpareAll(heap', ref')
    BY <2>1, <2>2 DEF KeepsSpare
  <2> QED BY <2>3 DEF SpareAll, Spare, Live, HasSpareByte, StrBase, StrLen
<1>3. Spec => []Inv
  BY BuffersInvariance
<1> QED BY <1>2, <1>3, PTL DEF Spec, SpareByteKept

-----------------------------------------------------------------------------
(* The refinement: what a step does to the values of the objects. *)

\* The objects that the references r lead to, and their values in the heap h.
LiveIn(r) == {r[x] : x \in Handles} \ {Null}
ValueOf(h, r, x) == IF x \in Strings THEN TextOf(h, r[x]) ELSE ElementsOf(h, r[x])
ValuesOf(h, r) ==
    [i \in LiveIn(r) |->
        IF i \in {r[x] : x \in Strings} \ {Null} THEN TextOf(h, i) ELSE ElementsOf(h, i)]

\* The values of the refinement, of this heap and of the next.
LEMMA ValuesAre ==
    /\ Values = ValuesOf(heap, ref) /\ Values' = ValuesOf(heap', ref')
    /\ Live(Handles) = LiveIn(ref) /\ Live(Handles)' = LiveIn(ref')
<1>1. ASSUME NEW i PROVE Text(i) = TextOf(heap, i) /\ Elements(i) = ElementsOf(heap, i)
  BY DEF Text, Elements, TextOf, ElementsOf, Cells, StrBase, StrLen, DaLen
<1>2. ASSUME NEW i PROVE Text(i)' = TextOf(heap', i) /\ Elements(i)' = ElementsOf(heap', i)
  BY DEF Text, Elements, TextOf, ElementsOf, Cells, StrBase, StrLen, DaLen
<1> QED BY <1>1, <1>2 DEF Values, ValuesOf, Live, LiveIn

\* The object of a variable has a value.
LEMMA ValueIs ==
    ASSUME NEW h, NEW r, Placed(h, r), NEW x \in Handles, r[x] # Null
    PROVE  r[x] \in LiveIn(r) /\ DOMAIN ValuesOf(h, r) = LiveIn(r) /\ ValuesOf(h, r)[r[x]] = ValueOf(h, r, x)
<1>1. r[x] \in LiveIn(r) /\ DOMAIN ValuesOf(h, r) = LiveIn(r)
  BY DEF ValuesOf, LiveIn
<1>2. r[x] \in {r[y] : y \in Strings} \ {Null} <=> x \in Strings
  BY DEF Placed, Handles
<1> QED BY <1>1, <1>2 DEF ValuesOf, ValueOf

\* The same cells are the same value.
LEMMA SameValue ==
    ASSUME NEW h, NEW r, Placed(h, r), NEW h2, NEW r2, NEW x \in Handles, r[x] # Null, r2[x] = r[x],
           \A c \in ObjectAt(h, r, x) : h2.mem[c] = h.mem[c]
    PROVE  ValueOf(h2, r2, x) = ValueOf(h, r, x)
<1> DEFINE a == r[x]
<1>1. h2.mem[a] = h.mem[a] /\ h2.mem[a + 1] = h.mem[a + 1]
  BY ObjectIn
<1>2. CASE x \in Strings
  <2>1. StringIn(h, a) /\ ObjectAt(h, r, x) = HeaderAt(a) \union TextAt(h, a)
    BY <1>2 DEF Placed, ObjectAt
  <2>2. ASSUME NEW i \in 1 .. h.mem[a + 1]
        PROVE  h2.mem[h.mem[a] + i - 1] = h.mem[h.mem[a] + i - 1]
    <3>1. h.mem[a] + i - 1 \in TextAt(h, a) BY <2>1 DEF StringIn, TextAt
    <3> QED BY <2>1, <3>1
  <2>3. TextOf(h2, a) = TextOf(h, a) BY <1>1, <2>2 DEF TextOf
  <2> QED BY <1>2, <2>3 DEF ValueOf
<1>3. CASE x \notin Strings
  <2>1. ArrayIn(h, a) /\ ObjectAt(h, r, x) = ArrayAt(h, a)
    BY <1>3 DEF Placed, ObjectAt, Handles
  <2>2. ASSUME NEW i \in 1 .. h.mem[a + 1]
        PROVE  h2.mem[a + HeaderSize + i - 1] = h.mem[a + HeaderSize + i - 1]
    <3>1. a + HeaderSize + i - 1 \in ArrayAt(h, a) BY <2>1 DEF ArrayIn, ArrayAt, HeaderSize
    <3> QED BY <2>1, <3>1
  <2>3. ElementsOf(h2, a) = ElementsOf(h, a) BY <1>1, <2>2 DEF ElementsOf
  <2> QED BY <1>3, <2>3 DEF ValueOf
<1> QED BY <1>2, <1>3

\* The variables of the objects other than that at a keep their objects, and
\* nobody writes into their cells.
OthersKept(h, r, h2, r2, a) ==
    \A x \in Handles : r2[x] \notin {Null, a} =>
        r2[x] = r[x] /\ \A c \in ObjectAt(h, r, x) : h2.mem[c] = h.mem[c]

\* Then only the value of that object is new.
LEMMA OneValueChanges ==
    ASSUME NEW h, NEW r, Placed(h, r), NEW h2, NEW r2, Placed(h2, r2), NEW a,
           OthersKept(h, r, h2, r2, a)
    PROVE  /\ DOMAIN ValuesOf(h2, r2) = LiveIn(r2)
           /\ \A i \in LiveIn(r2) \ {a} :
                 i \in DOMAIN ValuesOf(h, r) /\ ValuesOf(h2, r2)[i] = ValuesOf(h, r)[i]
<1>1. DOMAIN ValuesOf(h2, r2) = LiveIn(r2)
  BY DEF ValuesOf
<1>2. ASSUME NEW i \in LiveIn(r2) \ {a}
      PROVE  i \in DOMAIN ValuesOf(h, r) /\ ValuesOf(h2, r2)[i] = ValuesOf(h, r)[i]
  <2>1. PICK x \in Handles : i = r2[x] /\ i # Null BY DEF LiveIn
  <2>2. r2[x] = r[x] /\ \A c \in ObjectAt(h, r, x) : h2.mem[c] = h.mem[c]
    BY <1>2, <2>1 DEF OthersKept
  <2>3. ValueOf(h2, r2, x) = ValueOf(h, r, x) BY <2>1, <2>2, SameValue
  <2> QED BY <2>1, <2>2, <2>3, ValueIs
<1> QED BY <1>1, <1>2

\* No string has a zero.
NoZeros(h, r) == \A x \in Strings : r[x] # Null => NoZero(TextOf(h, r[x]))

\* A step that changes one object leaves the texts without zeros, if the new
\* value has none.
LEMMA ZerosKeptOut ==
    ASSUME NEW h, NEW r, Placed(h, r), NEW h2, NEW r2, Placed(h2, r2), NEW v \in Handles, r2[v] # Null,
           OthersKept(h, r, h2, r2, r2[v]), NoZeros(h, r),
           v \in Strings => NoZero(ValueOf(h2, r2, v))
    PROVE  NoZeros(h2, r2)
<1> SUFFICES ASSUME NEW x \in Strings, r2[x] # Null PROVE NoZero(TextOf(h2, r2[x]))
  BY DEF NoZeros
<1>1. x \in Handles
  BY DEF Handles
<1>2. CASE r2[x] = r2[v]
  <2>1. v \in Strings BY <1>2 DEF Placed, Handles
  <2> QED BY <1>2, <2>1 DEF ValueOf
<1>3. CASE r2[x] # r2[v]
  <2>1. r2[x] = r[x] /\ \A c \in ObjectAt(h, r, x) : h2.mem[c] = h.mem[c]
    BY <1>1, <1>3 DEF OthersKept
  <2>2. TextOf(h2, r2[x]) = TextOf(h, r[x]) BY <1>1, <2>1, SameValue DEF ValueOf
  <2> QED BY <2>1, <2>2 DEF NoZeros
<1> QED BY <1>2, <1>3

\* A step that gives the variable v a new object, above the position ...
NewObject(v, id) ==
    ref' = [ref EXCEPT ![v] = id] /\ heap.pos <= id /\ id \in Base .. Reserved - 1

\* ... makes that object, with what the heap then holds at it.
LEMMA MakesObject ==
    ASSUME Placed(heap, ref), Placed(heap', ref'), NEW v \in Handles, NEW id, NewObject(v, id),
           OthersKept(heap, ref, heap', ref', id)
    PROVE  Promise!Make(v, ValueOf(heap', ref', v))
<1>1. ref'[v] = id /\ id # Null
  BY LayoutAssumption, BuffersAssumption DEF LayoutAssumption, BuffersAssumption, Placed, NewObject
<1>2. Values = ValuesOf(heap, ref) /\ Values' = ValuesOf(heap', ref')
  BY ValuesAre
<1>3. /\ DOMAIN ValuesOf(heap', ref') = LiveIn(ref')
      /\ \A i \in LiveIn(ref') \ {id} :
            i \in DOMAIN ValuesOf(heap, ref) /\ ValuesOf(heap', ref')[i] = ValuesOf(heap, ref)[i]
  BY OneValueChanges
<1>4. ValuesOf(heap', ref')[id] = ValueOf(heap', ref', v)
  BY <1>1, ValueIs
<1>5. id \notin DOMAIN ValuesOf(heap, ref)
  <2>1. SUFFICES ASSUME NEW x \in Handles, ref[x] = id PROVE FALSE
    BY <1>1 DEF ValuesOf, LiveIn
  <2>2. id \in Nat /\ id \in 0 .. heap.pos - 1
    BY <1>1, <2>1, ObjectIn
  <2>3. heap.pos \in Nat BY DEF Placed, HeapInv
  <2> QED BY <2>2, <2>3 DEF NewObject
<1>6. Promise!Becomes(id, ValueOf(heap', ref', v))
  BY <1>2, <1>3, <1>4 DEF Promise!Becomes, Promise!Referred, LiveIn
<1>7. id \in {ref'[v]} \intersect (Base .. Reserved - 1)
  BY <1>1 DEF NewObject
<1> QED BY <1>2, <1>5, <1>6, <1>7 DEF Promise!Make, NewObject

\* ... that changes the value of one that it has ...
LEMMA SetsValue ==
    ASSUME Placed(heap, ref), Placed(heap', ref'), NEW v \in Handles, ref[v] # Null, ref' = ref,
           OthersKept(heap, ref, heap', ref', ref[v])
    PROVE  Promise!Set(v, ValueOf(heap', ref', v))
<1>1. Values = ValuesOf(heap, ref) /\ Values' = ValuesOf(heap', ref')
  BY ValuesAre
<1>2. /\ DOMAIN ValuesOf(heap', ref') = LiveIn(ref')
      /\ \A i \in LiveIn(ref') \ {ref[v]} :
            i \in DOMAIN ValuesOf(heap, ref) /\ ValuesOf(heap', ref')[i] = ValuesOf(heap, ref)[i]
  BY OneValueChanges
<1>3. ref'[v] = ref[v]
  OBVIOUS
<1>4. ValuesOf(heap', ref')[ref'[v]] = ValueOf(heap', ref', v)
  BY <1>3, ValueIs
<1> QED BY <1>1, <1>2, <1>3, <1>4 DEF Promise!Set, Promise!Becomes, Promise!Referred, LiveIn

\* ... that writes into no object and gives no variable a new one.
LEMMA AllKeptIs ==
    ASSUME NEW h, NEW r, NEW h2, NEW r2
    PROVE  AllKept(h, r, h2, r2) => \A a : OthersKept(h, r, h2, r2, a)
  BY DEF AllKept, OthersKept

\* A step that keeps the cells of every object it leaves keeps their values.
LEMMA KeepsValues ==
    ASSUME Placed(heap, ref), Placed(heap', ref'), AllKept(heap, ref, heap', ref')
    PROVE  /\ Values' = [i \in Promise!Referred(ref') |-> Values[i]]
           /\ NoZeros(heap, ref) => NoZeros(heap', ref')
           /\ ref' = ref => Values' = Values
<1>1. Values = ValuesOf(heap, ref) /\ Values' = ValuesOf(heap', ref')
  BY ValuesAre
<1>2. ASSUME NEW i \in LiveIn(ref')
      PROVE  i \in LiveIn(ref) /\ ValuesOf(heap', ref')[i] = ValuesOf(heap, ref)[i]
  <2>1. PICK x \in Handles : i = ref'[x] /\ i # Null BY DEF LiveIn
  <2>2. ref'[x] = ref[x] /\ \A c \in ObjectAt(heap, ref, x) : heap'.mem[c] = heap.mem[c]
    BY <2>1 DEF AllKept
  <2>3. ValueOf(heap', ref', x) = ValueOf(heap, ref, x) BY <2>1, <2>2, SameValue
  <2> QED BY <2>1, <2>2, <2>3, ValueIs
<1>3. ValuesOf(heap', ref') = [i \in LiveIn(ref') |-> ValuesOf(heap', ref')[i]]
  BY DEF ValuesOf
<1>4. ValuesOf(heap, ref) = [i \in LiveIn(ref) |-> ValuesOf(heap, ref)[i]]
  BY DEF ValuesOf
<1>5. Promise!Referred(ref') = LiveIn(ref')
  BY DEF Promise!Referred, LiveIn
<1>6. ASSUME NoZeros(heap, ref), NEW x \in Strings, ref'[x] # Null PROVE NoZero(TextOf(heap', ref'[x]))
  <2>1. x \in Handles /\ ref'[x] = ref[x] /\ \A c \in ObjectAt(heap, ref, x) : heap'.mem[c] = heap.mem[c]
    BY <1>6 DEF AllKept, Handles
  <2>2. TextOf(heap', ref'[x]) = TextOf(heap, ref[x]) BY <1>6, <2>1, SameValue DEF ValueOf
  <2> QED BY <1>6, <2>1, <2>2 DEF NoZeros
<1>7. ASSUME ref' = ref PROVE ValuesOf(heap', ref') = ValuesOf(heap, ref)
  BY <1>2, <1>3, <1>4, <1>7
<1>8. ValuesOf(heap', ref') = [i \in LiveIn(ref') |-> ValuesOf(heap, ref)[i]]
  BY <1>2, <1>3
<1>9. NoZeros(heap, ref) => NoZeros(heap', ref')
  BY <1>6 DEF NoZeros
<1> QED BY <1>1, <1>5, <1>7, <1>8, <1>9

\* An object made above the position leaves the others as they are.
LEMMA OthersBelow ==
    ASSUME Placed(heap, ref), Placed(heap', ref'), NEW v \in Handles, NEW id, NewObject(v, id),
           \A x \in Handles : ref[x] # Null => \A c \in ObjectAt(heap, ref, x) : heap'.mem[c] = heap.mem[c]
    PROVE  OthersKept(heap, ref, heap', ref', id) /\ ref'[v] = id /\ id # Null /\ heap.pos < heap'.pos
<1>1. ref'[v] = id /\ id \in Nat /\ id # Null /\ heap.pos <= id
  BY LayoutAssumption, BuffersAssumption DEF LayoutAssumption, BuffersAssumption, Placed, NewObject
<1>2. ASSUME NEW x \in Handles, ref'[x] \notin {Null, id} PROVE ref'[x] = ref[x]
  BY <1>2 DEF NewObject, Placed
<1>3. id \in 0 .. heap'.pos - 1 /\ heap'.pos \in Int /\ heap.pos \in Int
  <2>1. {id, id + 1} \subseteq ObjectAt(heap', ref', v) /\ ObjectAt(heap', ref', v) \subseteq 0 .. heap'.pos - 1
    BY <1>1, ObjectIn
  <2> QED BY <2>1 DEF Placed, HeapInv
<1>4. heap.pos < heap'.pos
  BY <1>1, <1>3
<1>5. OthersKept(heap, ref, heap', ref', id)
  BY <1>2 DEF OthersKept
<1> QED BY <1>1, <1>4, <1>5

\* A string is made in a heap h in which no object differs from the present one.
LEMMA StringMade ==
    ASSUME Placed(heap, ref), Placed(heap', ref'), Base <= heap.pos, NEW h, Placed(h, ref),
           h.pos = heap.pos, AllKept(heap, ref, h, ref), NEW v \in Strings, NEW text, IsSequence(text),
           Receives(v, StringNew(h, text))
    PROVE  /\ Promise!Make(v, text) /\ Base <= heap'.pos
           /\ NoZeros(heap, ref) /\ NoZero(text) => NoZeros(heap', ref')
<1> DEFINE a == AllocFrom(heap)
<1>1. a = AllocFrom(h) /\ heap' = StringNew(h, text) /\ Fits(StringNew(h, text)) /\ v \in Handles
  BY DEF AllocFrom, Receives, Handles
<1>2. Above(h, heap', a) /\ TextOf(heap', a) = text
  BY <1>1, StringReceived
<1>3. Base \in Nat /\ heap.pos \in Int /\ Reserved \in Int
  BY LayoutAssumption, BuffersAssumption DEF LayoutAssumption, BuffersAssumption, Placed, HeapInv
<1>4. NewObject(v, a)
  <2>1. ref' = [ref EXCEPT ![v] = a] BY DEF Receives
  <2>2. heap.pos <= a /\ a \in 0 .. Reserved - 1 BY <1>2 DEF Above
  <2> HIDE DEF a
  <2>3. a \in Base .. Reserved - 1 BY <1>3, <2>2
  <2> QED BY <2>1, <2>2, <2>3 DEF NewObject
<1>5. ASSUME NEW x \in Handles, ref[x] # Null, NEW c \in ObjectAt(heap, ref, x)
      PROVE  heap'.mem[c] = heap.mem[c]
  <2>1. c \in 0 .. heap.pos - 1 BY <1>5, ObjectIn
  <2>2. heap'.mem[c] = h.mem[c] BY <1>2, <2>1 DEF Above
  <2> QED BY <1>5, <2>2 DEF AllKept
<1> HIDE DEF a
<1>6. OthersKept(heap, ref, heap', ref', a) /\ ref'[v] = a /\ a # Null /\ heap.pos < heap'.pos
  BY <1>1, <1>4, <1>5, OthersBelow
<1>7. ValueOf(heap', ref', v) = text
  BY <1>2, <1>6 DEF ValueOf
<1>8. Promise!Make(v, text)
  <2>1. Promise!Make(v, ValueOf(heap', ref', v)) BY <1>1, <1>4, <1>6, MakesObject
  <2> QED BY <1>7, <2>1
<1>9. ASSUME NoZeros(heap, ref), NoZero(text) PROVE NoZeros(heap', ref')
  BY <1>1, <1>6, <1>7, <1>9, ZerosKeptOut
<1>10. Base <= heap'.pos
  BY <1>3, <1>6 DEF Placed, HeapInv
<1> QED BY <1>8, <1>9, <1>10

\* An array in a new block.
LEMMA ArrayMade ==
    ASSUME Placed(heap, ref), Placed(heap', ref'), Base <= heap.pos, NEW v \in Arrays,
           NEW cap \in Nat \ {0}, NEW len \in 0 .. cap, NEW cells, Len(cells) \in Nat, Len(cells) >= 2 + len,
           cells[1] = cap, cells[2] = len,
           Receives(v, Put(Alloc(heap, HeaderSize + cap), AllocFrom(heap), cells))
    PROVE  /\ Base <= heap'.pos /\ (NoZeros(heap, ref) => NoZeros(heap', ref'))
           /\ \A s : Len(s) = len /\ Behind(cells, 2, s) => Promise!Make(v, s)
<1> DEFINE a == AllocFrom(heap)
           g == Put(Alloc(heap, HeaderSize + cap), AllocFrom(heap), cells)
<1>1. heap' = g /\ Fits(g) /\ v \in Handles /\ v \notin Strings
  BY BuffersAssumption DEF Receives, Handles, BuffersAssumption
<1>2. /\ Above(heap, heap', a)
      /\ \A s : Len(s) = len /\ Behind(cells, 2, s) => ElementsOf(heap', a) = s
  <2>1. /\ Above(heap, g, a)
        /\ \A s : Len(s) = len /\ Behind(cells, 2, s) => ElementsOf(g, a) = s
    <3>1. Fits(g) BY <1>1
    <3>3. Above(heap, g, a) BY <3>1, ArrayReceived
    <3>4. \A s : Len(s) = len /\ Behind(cells, 2, s) => ElementsOf(g, a) = s BY <3>1, ArrayReceived
    <3> QED BY <3>3, <3>4
  <2> HIDE DEF g
  <2> QED BY <1>1, <2>1
<1>3. Base \in Nat /\ heap.pos \in Int /\ Reserved \in Int
  BY LayoutAssumption, BuffersAssumption DEF LayoutAssumption, BuffersAssumption, Placed, HeapInv
<1>4. NewObject(v, a)
  <2>1. ref' = [ref EXCEPT ![v] = a] BY DEF Receives
  <2>2. heap.pos <= a /\ a \in 0 .. Reserved - 1 BY <1>2 DEF Above
  <2> HIDE DEF a
  <2>3. a \in Base .. Reserved - 1 BY <1>3, <2>2
  <2> QED BY <2>1, <2>2, <2>3 DEF NewObject
<1> HIDE DEF g
<1>5. ASSUME NEW x \in Handles, ref[x] # Null, NEW c \in ObjectAt(heap, ref, x)
      PROVE  heap'.mem[c] = heap.mem[c]
  <2>1. c \in 0 .. heap.pos - 1 BY <1>5, ObjectIn
  <2> QED BY <1>2, <2>1 DEF Above
<1> HIDE DEF a
<1>6. OthersKept(heap, ref, heap', ref', a) /\ ref'[v] = a /\ a # Null /\ heap.pos < heap'.pos
  BY <1>1, <1>4, <1>5, OthersBelow
<1>7. ValueOf(heap', ref', v) = ElementsOf(heap', a)
  BY <1>1, <1>6 DEF ValueOf
<1>8. Promise!Make(v, ElementsOf(heap', a))
  <2>1. Promise!Make(v, ValueOf(heap', ref', v)) BY <1>1, <1>4, <1>6, MakesObject
  <2> QED BY <1>7, <2>1
<1>9. ASSUME NoZeros(heap, ref) PROVE NoZeros(heap', ref')
  BY <1>1, <1>6, <1>9, ZerosKeptOut
<1>10. Base <= heap'.pos
  BY <1>3, <1>6 DEF Placed, HeapInv
<1> QED BY <1>2, <1>8, <1>9, <1>10 DEF a

\* Zeros in a text that is joined, and in a part of one.
LEMMA NoZeroJoined ==
    ASSUME NEW s, NEW t, IsSequence(s), IsSequence(t), NoZero(s), NoZero(t)
    PROVE  NoZero(s \o t)
<1> DEFINE A == {s[i] : i \in DOMAIN s} \union {t[i] : i \in DOMAIN t}
           u == s \o t
<1>1. s \in Seq(A) /\ t \in Seq(A) /\ Nul \notin A
  BY DEF IsSequence, NoZero
<1> HIDE DEF A
<1>2. u \in Seq(A)
  BY <1>1
<1> HIDE DEF u
<1>3. \A i \in DOMAIN u : u[i] \in A
  BY <1>2
<1> QED BY <1>1, <1>3 DEF u, NoZero

\* A part of a text.
LEMMA PartIs ==
    ASSUME NEW s, IsSequence(s), NEW i \in 1 .. Len(s) + 1, NEW j \in 0 .. Len(s), i <= j + 1
    PROVE  /\ SubSeq(s, i, j) = [k \in 1 .. j - i + 1 |-> s[i + k - 1]]
           /\ IsSequence(SubSeq(s, i, j)) /\ Len(SubSeq(s, i, j)) = j - i + 1
           /\ NoZero(s) => NoZero(SubSeq(s, i, j))
<1> DEFINE A == {s[k] : k \in DOMAIN s}
           u == SubSeq(s, i, j)
<1>0. Len(s) \in Nat /\ DOMAIN s = 1 .. Len(s) /\ s \in Seq(A)
  BY SequenceIs DEF IsSequence
<1> HIDE DEF A
<1>1. u = [k \in 1 .. j - i + 1 |-> s[i + k - 1]]
  <2>1. ASSUME NEW k \in 1 .. j - i + 1 PROVE i + k - 1 = k + i - 1 OBVIOUS
  <2> QED BY <1>0, <2>1
<1>2. j - i + 1 \in Nat
  BY <1>0
<1> HIDE DEF u
<1>3. DOMAIN u = 1 .. j - i + 1 /\ \A k \in 1 .. j - i + 1 : u[k] = s[i + k - 1] /\ i + k - 1 \in DOMAIN s
  <2>1. ASSUME NEW k \in 1 .. j - i + 1 PROVE i + k - 1 \in DOMAIN s BY <1>0
  <2> QED BY <1>1, <2>1
<1>4. u \in Seq({u[k] : k \in DOMAIN u}) /\ Len(u) = j - i + 1
  <2> DEFINE m == j - i + 1
  <2>1. m \in Nat /\ DOMAIN u = 1 .. m /\ u = [k \in 1 .. m |-> u[k]] BY <1>1, <1>2, <1>3
  <2> HIDE DEF m
  <2>2. u \in Seq({u[k] : k \in DOMAIN u}) BY <2>1
  <2>3. Len(u) = m BY <2>1, <2>2
  <2> QED BY <2>2, <2>3 DEF m
<1>6. NoZero(s) => NoZero(u)
  BY <1>3 DEF NoZero
<1> QED BY <1>1, <1>4, <1>6 DEF u, IsSequence

\* A step that writes cells of the object of v, and above the position.
Writes(v) ==
    /\ ref' = ref /\ heap.pos <= heap'.pos
    /\ \A c \in 0 .. heap.pos - 1 : c \notin ObjectAt(heap, ref, v) => heap'.mem[c] = heap.mem[c]

\* Such a step sets the value of v, and of no other object.
LEMMA WritesOne ==
    ASSUME Placed(heap, ref), Placed(heap', ref'), NEW v \in Handles, ref[v] # Null, Writes(v)
    PROVE  /\ Promise!Set(v, ValueOf(heap', ref', v))
           /\ Base <= heap.pos => Base <= heap'.pos
           /\ NoZeros(heap, ref) /\ (v \in Strings => NoZero(ValueOf(heap', ref', v)))
                 => NoZeros(heap', ref')
<1>1. ref' = ref /\ ref'[v] = ref[v]
  BY DEF Writes
<1>2. OthersKept(heap, ref, heap', ref', ref[v])
  <2>1. SUFFICES ASSUME NEW x \in Handles, ref[x] \notin {Null, ref[v]}, NEW c \in ObjectAt(heap, ref, x)
                 PROVE  heap'.mem[c] = heap.mem[c]
    BY <1>1 DEF OthersKept
  <2>2. c \in 0 .. heap.pos - 1 BY <2>1, ObjectIn
  <2>3. c \notin ObjectAt(heap, ref, v) BY <2>1, ObjectsApart
  <2> QED BY <2>2, <2>3 DEF Writes
<1>3. Promise!Set(v, ValueOf(heap', ref', v))
  BY <1>1, <1>2, SetsValue
<1>4. ASSUME NoZeros(heap, ref), v \in Strings => NoZero(ValueOf(heap', ref', v))
      PROVE  NoZeros(heap', ref')
  BY <1>1, <1>2, <1>4, ZerosKeptOut
<1>5. Base <= heap.pos => Base <= heap'.pos
  <2>1. heap.pos \in Int /\ heap'.pos \in Int /\ Base \in Int
    BY LayoutAssumption DEF LayoutAssumption, Placed, HeapInv
  <2> QED BY <2>1 DEF Writes
<1> QED BY <1>3, <1>4, <1>5

\* The text of a string that gets a new block.
LEMMA TextMoved ==
    ASSUME Placed(heap, ref), NEW v \in Strings, ref[v] # Null, NEW text, NEW cells,
           Len(cells) \in Nat, Len(text) <= Len(cells), Behind(cells, 0, text),
           Rebase(ref[v], text, cells)
    PROVE  /\ Placed(heap', ref') /\ Promise!Set(v, text)
           /\ Base <= heap.pos => Base <= heap'.pos
           /\ NoZeros(heap, ref) /\ NoZero(text) => NoZeros(heap', ref')
<1>1. /\ Fits(Alloc(heap, Len(cells))) /\ heap' = RebasedHeap(ref[v], text, cells)
      /\ ref' = ref /\ v \in Handles
  BY DEF Rebase, RebasedHeap, Handles
<1>2. Len(text) \in Nat
  BY SequenceIs DEF Behind
<1>3. /\ Placed(heap', ref')
      /\ \A c \in 0 .. heap.pos - 1 : c \notin {ref[v], ref[v] + 1} => heap'.mem[c] = heap.mem[c]
      /\ heap.pos <= heap'.pos /\ TextOf(heap', ref[v]) = text
  BY <1>1, <1>2, RebaseKeeps
<1>4. {ref[v], ref[v] + 1} \subseteq ObjectAt(heap, ref, v)
  BY <1>1, ObjectIn
<1>5. Writes(v)
  BY <1>1, <1>3, <1>4 DEF Writes
<1>6. ValueOf(heap', ref', v) = text
  BY <1>1, <1>3 DEF ValueOf
<1>7. /\ Promise!Set(v, ValueOf(heap', ref', v)) /\ (Base <= heap.pos => Base <= heap'.pos)
      /\ NoZeros(heap, ref) /\ (v \in Strings => NoZero(ValueOf(heap', ref', v))) => NoZeros(heap', ref')
  BY <1>1, <1>3, <1>5, WritesOne
<1> QED BY <1>3, <1>6, <1>7

\* The text of a string that is cut off at the ends.
LEMMA TextCut ==
    ASSUME Placed(heap, ref), Placed(heap', ref'), NEW v \in Strings, ref[v] # Null, ref' = ref,
           heap'.pos = heap.pos,
           NEW i \in 1 .. StrLen(ref[v]) + 1, NEW j \in 0 .. StrLen(ref[v]), i <= j + 1,
           heap'.mem[ref[v]] = StrBase(ref[v]) + i - 1, heap'.mem[ref[v] + 1] = j - i + 1,
           \A c \in 0 .. heap.pos - 1 : c \notin {ref[v], ref[v] + 1} => heap'.mem[c] = heap.mem[c]
    PROVE  /\ Promise!Set(v, SubSeq(Text(ref[v]), i, j))
           /\ Base <= heap.pos => Base <= heap'.pos
           /\ NoZeros(heap, ref) => NoZeros(heap', ref')
<1> DEFINE a == ref[v]
           s == Text(a)
<1>1. StringIn(heap, a) /\ v \in Handles
  BY DEF Placed, Handles
<1>2. /\ a \in Nat /\ StrBase(a) \in Nat /\ StrLen(a) \in Nat
      /\ IsSequence(s) /\ Len(s) = StrLen(a)
  BY TextIs
<1>3. {a, a + 1} \subseteq ObjectAt(heap, ref, v) /\ ObjectAt(heap, ref, v) \subseteq 0 .. heap.pos - 1
  BY <1>1, ObjectIn
<1>4. heap.pos \in Int
  BY DEF Placed, HeapInv
<1>5. Writes(v)
  BY <1>3, <1>4 DEF Writes
<1>6. ASSUME NEW k \in 1 .. j - i + 1
      PROVE  heap'.mem[StrBase(a) + i - 1 + k - 1] = s[i + k - 1]
  <2> DEFINE c == StrBase(a) + (i + k - 1) - 1
  <2>1. i + k - 1 \in 1 .. StrLen(a) BY <1>2
  <2>2. c \in TextAt(heap, a) BY <1>2, <2>1 DEF TextAt, StrBase, StrLen
  <2>3. c \notin HeaderAt(a)
    <3>1. \E b \in heap.blocks : c \in Bytes(b) BY <1>1, <2>2 DEF StringIn, InBlock
    <3> QED BY <1>1, <2>2, <3>1 DEF StringIn, Apart
  <2>4. HeaderAt(a) = {a, a + 1} BY <1>2 DEF HeaderAt, HeaderSize
  <2>5. TextAt(heap, a) \subseteq 0 .. heap.pos - 1 BY <1>3 DEF ObjectAt
  <2>6. heap'.mem[c] = heap.mem[c] BY <2>2, <2>3, <2>4, <2>5
  <2>7. s[i + k - 1] = heap.mem[c] BY <2>1 DEF Text, Cells
  <2>8. StrBase(a) + i - 1 + k - 1 = c BY <1>2
  <2> QED BY <2>6, <2>7, <2>8
<1>7. TextOf(heap', a) = [k \in 1 .. j - i + 1 |-> heap'.mem[StrBase(a) + i - 1 + k - 1]]
  BY DEF TextOf
<1>8. i \in 1 .. Len(s) + 1 /\ j \in 0 .. Len(s)
  BY <1>2
<1> HIDE DEF s
<1>9. /\ SubSeq(s, i, j) = [k \in 1 .. j - i + 1 |-> s[i + k - 1]]
      /\ NoZero(s) => NoZero(SubSeq(s, i, j))
  BY <1>2, <1>8, PartIs
<1>10. ValueOf(heap', ref', v) = SubSeq(s, i, j)
  BY <1>6, <1>7, <1>9 DEF ValueOf
<1>11. NoZeros(heap, ref) => NoZero(s)
  BY DEF NoZeros, s, Text, TextOf, Cells, StrBase, StrLen
<1>12. /\ Promise!Set(v, ValueOf(heap', ref', v)) /\ (Base <= heap.pos => Base <= heap'.pos)
       /\ NoZeros(heap, ref) /\ (v \in Strings => NoZero(ValueOf(heap', ref', v))) => NoZeros(heap', ref')
  BY <1>1, <1>5, WritesOne
<1> QED BY <1>9, <1>10, <1>11, <1>12 DEF s

\* The disk of a program whose strings are legible.
DiskLegible ==
    /\ DOMAIN disk \subseteq Names
    /\ \A name \in DOMAIN disk : disk[name] = Directory \/ NoZero(disk[name])

\* What a step of a call leaves to show.
LEMMA LegibleIs ==
    /\ Legible <=> Base <= heap.pos /\ (temp # 0 => Base <= temp) /\ NoZeros(heap, ref) /\ DiskLegible
    /\ Legible' <=> Base <= heap'.pos /\ (temp' # 0 => Base <= temp') /\ NoZeros(heap', ref') /\ DiskLegible'
<1>1. ASSUME NEW s PROVE Text(s) = TextOf(heap, s) /\ Text(s)' = TextOf(heap', s)
  BY DEF Text, TextOf, Cells, StrBase, StrLen
<1> QED BY <1>1 DEF Legible, NoZeros, DiskLegible

\* Legible is kept by a step in memory that leaves the strings without zeros.
LEMMA LegibleKept ==
    ASSUME Legible, UNCHANGED <<temp, disk>>, Base <= heap.pos => Base <= heap'.pos,
           NoZeros(heap, ref) => NoZeros(heap', ref')
    PROVE  Legible'
  BY LegibleIs DEF DiskLegible

\* The value of a variable is its text, or its elements.
LEMMA ValueOfVariable ==
    ASSUME Placed(heap, ref), NEW v \in Handles, ref[v] # Null
    PROVE  /\ ref[v] \in DOMAIN Values
           /\ v \in Strings => Promise!Value(v) = Text(ref[v]) /\ Values[ref[v]] = Text(ref[v])
           /\ v \in Arrays => Promise!Value(v) = Elements(ref[v])
<1>1. ref[v] \in DOMAIN Values /\ Values[ref[v]] = ValueOf(heap, ref, v)
  BY ValuesAre, ValueIs
<1>2. Text(ref[v]) = TextOf(heap, ref[v]) /\ Elements(ref[v]) = ElementsOf(heap, ref[v])
  BY DEF Text, Elements, TextOf, ElementsOf, Cells, StrBase, StrLen, DaLen
<1>3. v \in Arrays => v \notin Strings
  BY BuffersAssumption DEF BuffersAssumption
<1>4. Promise!Value(v) = Values[ref[v]]
  BY DEF Promise!Value
<1> QED BY <1>1, <1>2, <1>3, <1>4 DEF ValueOf

\* A text that is not empty.
LEMMA HasTextIs ==
    ASSUME Inv, Legible, NEW v \in Strings, HasText(v)
    PROVE  /\ Placed(heap, ref) /\ ref[v] # Null /\ v \in Handles /\ Base <= heap.pos
           /\ IsSequence(Text(ref[v])) /\ NoZero(Text(ref[v]))
           /\ Len(Text(ref[v])) = StrLen(ref[v]) /\ StrLen(ref[v]) \in Nat \ {0}
<1>1. Placed(heap, ref) /\ ref[v] # Null /\ StrLen(ref[v]) > 0 /\ v \in Handles
  BY DEF Inv, HasText, Handles
<1>2. NoZero(Text(ref[v])) /\ Base <= heap.pos
  BY <1>1 DEF Legible
<1>3. IsSequence(Text(ref[v])) /\ Len(Text(ref[v])) = StrLen(ref[v]) /\ StrLen(ref[v]) \in Nat
  BY <1>1, TextIs
<1>4. StrLen(ref[v]) # 0
  BY <1>1, <1>3
<1> QED BY <1>1, <1>2, <1>3, <1>4

\* What a step of Buffers is in Objects.
Maps == [Promise!Next]_<<ref, Values, disk>>

\* Making an object with a value Objects allows is a step of Objects.
LEMMA MakeMaps ==
    ASSUME NEW v \in Handles, NEW text, Promise!Make(v, text), disk' = disk,
           text \in Texts \/ text = <<>> \/ \E i \in DOMAIN Values : text = Values[i]
    PROVE  Maps
<1>1. text \in Texts \union {<<>>} \union {Values[i] : i \in DOMAIN Values}
  OBVIOUS
<1> QED BY <1>1 DEF Maps, Promise!Next

\* So is changing the object of a variable in one of the ways of Objects.
LEMMA ChangeMaps ==
    ASSUME NEW v \in Handles, ref[v] # Null, Promise!Change(v), disk' = disk
    PROVE  Maps
  BY DEF Maps, Promise!Next

\* Making a string of a text.
LEMMA FromCstrMaps ==
    ASSUME Inv, Legible, NoZeroInTexts, NEW v \in Strings, NEW text \in Texts, string_from_cstr(v, text)
    PROVE  Maps /\ Legible'
<1>1. /\ Placed(heap, ref) /\ Placed(heap', ref') /\ Base <= heap.pos
      /\ IsSequence(text) /\ NoZero(text) /\ v \in Handles
  BY FromCstrStep, BuffersAssumption DEF Inv, BuffersAssumption, Legible, NoZeroInTexts, Handles
<1>2. Receives(v, StringNew(heap, text)) /\ UNCHANGED <<temp, disk>>
  BY DEF string_from_cstr
<1>3. AllKept(heap, ref, heap, ref)
  BY DEF AllKept
<1>4. /\ Promise!Make(v, text) /\ Base <= heap'.pos
      /\ NoZeros(heap, ref) /\ NoZero(text) => NoZeros(heap', ref')
  BY <1>1, <1>2, <1>3, StringMade
<1> QED BY <1>1, <1>2, <1>4, MakeMaps, LegibleKept

\* A copy of a string.
LEMMA DupMaps ==
    ASSUME Inv, Legible, NEW v \in Strings, NEW w \in Strings, string_dup(v, w)
    PROVE  Maps /\ Legible'
<1> DEFINE text == Text(ref[w])
<1>1. /\ Placed(heap, ref) /\ Base <= heap.pos /\ ref[w] # Null
      /\ IsSequence(text) /\ NoZero(text) /\ v \in Handles /\ w \in Handles
  BY HasTextIs DEF string_dup, Handles
<1>2. Placed(heap', ref')
  BY DupStep DEF Inv
<1>3. Receives(v, StringNew(heap, text)) /\ UNCHANGED <<temp, disk>>
  BY DEF string_dup
<1>4. AllKept(heap, ref, heap, ref)
  BY DEF AllKept
<1>5. ref[w] \in DOMAIN Values /\ text = Values[ref[w]]
  BY <1>1, ValueOfVariable
<1> HIDE DEF text
<1>6. /\ Promise!Make(v, text) /\ Base <= heap'.pos
      /\ NoZeros(heap, ref) /\ NoZero(text) => NoZeros(heap', ref')
  BY <1>1, <1>2, <1>3, <1>4, StringMade
<1> QED BY <1>1, <1>3, <1>5, <1>6, MakeMaps, LegibleKept

\* Putting a string, or the first part of it, behind another.
LEMMA ConcatMaps ==
    ASSUME Inv, Legible, NEW v \in Strings, NEW w \in Strings, string_concat(v, w)
    PROVE  Maps /\ Legible'
<1>1. /\ Placed(heap, ref) /\ Base <= heap.pos /\ ref[v] # Null /\ ref[w] # Null
      /\ IsSequence(Text(ref[w])) /\ NoZero(Text(ref[w])) /\ Len(Text(ref[w])) = StrLen(ref[w])
      /\ v \in Handles /\ w \in Handles
  BY HasTextIs DEF string_concat, Handles
<1>2. PICK n \in 1 .. StrLen(ref[w]) :
          LET text == Text(ref[v]) \o SubSeq(Text(ref[w]), 1, n) IN Rebase(ref[v], text, text)
  BY DEF string_concat
<1> DEFINE part == SubSeq(Text(ref[w]), 1, n)
           text == Text(ref[v]) \o part
<1>3. IsSequence(Text(ref[v])) /\ NoZero(Text(ref[v]))
  BY <1>1, TextIs DEF Legible
<1>4. IsSequence(part) /\ NoZero(part)
  <2>1. Len(Text(ref[w])) \in Nat BY <1>1, SequenceIs
  <2>2. 1 \in 1 .. Len(Text(ref[w])) + 1 /\ n \in 0 .. Len(Text(ref[w])) /\ 1 <= n + 1
    BY <1>1, <2>1
  <2> QED BY <1>1, <2>2, PartIs
<1>5. IsSequence(text) /\ NoZero(text)
  BY <1>3, <1>4, JoinIs, NoZeroJoined
<1>6. Rebase(ref[v], text, text)
  BY <1>2
<1>7. /\ Promise!Value(v) = Text(ref[v]) /\ Values[ref[w]] = Text(ref[w])
      /\ ref[w] \in DOMAIN Values
  BY <1>1, ValueOfVariable
<1>8. n \in 1 .. Len(Values[ref[w]])
  BY <1>1, <1>7
<1>9. text = Promise!Value(v) \o SubSeq(Values[ref[w]], 1, n)
  BY <1>7
<1> HIDE DEF text, part
<1>10. Len(text) \in Nat /\ Len(text) <= Len(text) /\ Behind(text, 0, text)
  BY <1>5, SequenceIs DEF Behind
<1>11. /\ Promise!Set(v, text) /\ (Base <= heap.pos => Base <= heap'.pos)
       /\ NoZeros(heap, ref) /\ NoZero(text) => NoZeros(heap', ref')
  BY <1>1, <1>6, <1>10, TextMoved
<1>12. Promise!Change(v)
  BY <1>7, <1>8, <1>9, <1>11 DEF Promise!Change
<1>13. UNCHANGED <<temp, disk>>
  BY <1>6 DEF Rebase
<1> QED BY <1>1, <1>5, <1>11, <1>12, <1>13, ChangeMaps, LegibleKept

\* Setting a value to what it is changes nothing.
LEMMA SetSame ==
    ASSUME Placed(heap, ref), NEW v \in Handles, ref[v] # Null, Promise!Set(v, Promise!Value(v)), disk' = disk
    PROVE  Maps
<1>1. ref' = ref /\ Promise!Referred(ref') = DOMAIN Values
  BY ValuesAre DEF Promise!Set, Promise!Referred, LiveIn, ValuesOf
<1>2. DOMAIN Values' = DOMAIN Values /\ \A i \in DOMAIN Values : Values'[i] = Values[i]
  BY <1>1 DEF Promise!Set, Promise!Becomes, Promise!Value
<1>3. Values = [i \in DOMAIN Values |-> Values[i]] /\ Values' = [i \in DOMAIN Values' |-> Values'[i]]
  BY ValuesAre DEF ValuesOf
<1>4. Values' = Values
  BY <1>2, <1>3
<1> QED BY <1>1, <1>4 DEF Maps

\* Nothing behind a text is that text.
LEMMA JoinedWithNone ==
    ASSUME NEW s, IsSequence(s)
    PROVE  s \o <<>> = s
<1> DEFINE A == {s[i] : i \in DOMAIN s}
<1>1. s \in Seq(A)
  BY DEF IsSequence
<1> HIDE DEF A
<1> QED BY <1>1

\* Putting a formatted text behind a string.
LEMMA ConcatfMaps ==
    ASSUME Inv, Legible, NoZeroInTexts, NEW v \in Strings, NEW formatted \in Texts \union {<<>>},
           string_concatf(v, formatted)
    PROVE  Maps /\ Legible'
<1> DEFINE text == Text(ref[v]) \o formatted
           cells == Append(text, Nul)
<1>1. /\ Placed(heap, ref) /\ Base <= heap.pos /\ ref[v] # Null /\ v \in Handles
      /\ IsSequence(Text(ref[v])) /\ NoZero(Text(ref[v]))
  BY HasTextIs DEF string_concatf
<1>2. Rebase(ref[v], text, cells)
  BY DEF string_concatf
<1>3. IsSequence(formatted) /\ NoZero(formatted)
  <2>1. IsSequence(<<>>) /\ NoZero(<<>>) BY DEF IsSequence, NoZero
  <2> QED BY <2>1, BuffersAssumption DEF BuffersAssumption, NoZeroInTexts
<1>4. IsSequence(text) /\ NoZero(text)
  BY <1>1, <1>3, JoinIs, NoZeroJoined
<1>5. Promise!Value(v) = Text(ref[v])
  BY <1>1, ValueOfVariable
<1>6. text = Promise!Value(v) \o formatted
  BY <1>5
<1>7. formatted = <<>> => text = Promise!Value(v)
  BY <1>1, <1>5, JoinedWithNone
<1> HIDE DEF text
<1>8. Len(text) \in Nat
  BY <1>4, SequenceIs
<1>9. Len(cells) = Len(text) + 1 /\ \A i \in 1 .. Len(text) : cells[i] = text[i]
  <2> DEFINE A == {text[i] : i \in DOMAIN text} \union {Nul}
  <2>1. text \in Seq(A) /\ Nul \in A BY <1>4 DEF IsSequence
  <2> HIDE DEF A
  <2> QED BY <2>1
<1> HIDE DEF cells
<1>10. Len(cells) \in Nat /\ Len(text) <= Len(cells) /\ Behind(cells, 0, text)
  BY <1>4, <1>8, <1>9 DEF Behind
<1>11. /\ Promise!Set(v, text) /\ (Base <= heap.pos => Base <= heap'.pos)
       /\ NoZeros(heap, ref) /\ NoZero(text) => NoZeros(heap', ref')
  BY <1>1, <1>2, <1>10, TextMoved
<1>12. UNCHANGED <<temp, disk>>
  BY <1>2 DEF Rebase
<1>13. Maps
  <2>1. CASE formatted = <<>> BY <1>1, <1>7, <1>11, <1>12, <2>1, SetSame
  <2>2. CASE formatted \in Texts
    <3>1. Promise!Change(v) BY <1>6, <1>11, <2>2 DEF Promise!Change
    <3> QED BY <1>1, <1>12, <3>1, ChangeMaps
  <2> QED BY <2>1, <2>2
<1> QED BY <1>4, <1>11, <1>12, <1>13, LegibleKept

\* Blanks, and the end of a text.
LEMMA BlankParts ==
    ASSUME NEW s, IsSequence(s), NEW i \in 1 .. Len(s), NEW j \in 1 .. Len(s),
           \A k \in 1 .. Len(s) : k < i \/ k > j => s[k] = Blank,
           i > 1 => s[i] # Blank, j < Len(s) => s[j] # Blank
    PROVE  Promise!Trimmed(s, i, j)
<1>1. Len(s) \in Nat
  BY SequenceIs
<1>2. SubSeq(s, 1, i - 1) = [k \in 1 .. (i - 1) - 1 + 1 |-> s[1 + k - 1]]
  <2>1. 1 \in 1 .. Len(s) + 1 /\ i - 1 \in 0 .. Len(s) /\ 1 <= (i - 1) + 1 BY <1>1
  <2> QED BY <2>1, PartIs
<1>3. SubSeq(s, j + 1, Len(s)) = [k \in 1 .. Len(s) - (j + 1) + 1 |-> s[(j + 1) + k - 1]]
  <2>1. j + 1 \in 1 .. Len(s) + 1 /\ Len(s) \in 0 .. Len(s) /\ j + 1 <= Len(s) + 1 BY <1>1
  <2> QED BY <2>1, PartIs
<1>4. Promise!Blanks(SubSeq(s, 1, i - 1))
  <2>1. SUFFICES ASSUME NEW k \in 1 .. (i - 1) - 1 + 1 PROVE s[1 + k - 1] = Blank
    BY <1>2 DEF Promise!Blanks
  <2>2. 1 + k - 1 \in 1 .. Len(s) /\ 1 + k - 1 < i BY <1>1
  <2> QED BY <2>2
<1>5. Promise!Blanks(SubSeq(s, j + 1, Len(s)))
  <2>1. SUFFICES ASSUME NEW k \in 1 .. Len(s) - (j + 1) + 1 PROVE s[(j + 1) + k - 1] = Blank
    BY <1>3 DEF Promise!Blanks
  <2>2. (j + 1) + k - 1 \in 1 .. Len(s) /\ (j + 1) + k - 1 > j BY <1>1
  <2> QED BY <2>2
<1> QED BY <1>4, <1>5 DEF Promise!Trimmed

\* A part that has nothing.
LEMMA EmptyPart ==
    ASSUME NEW s, IsSequence(s), NEW i \in 1 .. Len(s) + 1
    PROVE  SubSeq(s, i, i - 1) = <<>>
<1>1. Len(s) \in Nat
  BY SequenceIs
<1>2. i - 1 \in 0 .. Len(s) /\ i <= (i - 1) + 1
  BY <1>1
<1>3. IsSequence(SubSeq(s, i, i - 1)) /\ Len(SubSeq(s, i, i - 1)) = (i - 1) - i + 1
  BY <1>2, PartIs
<1>4. Len(SubSeq(s, i, i - 1)) = 0
  BY <1>1, <1>3
<1> QED BY <1>3, <1>4 DEF IsSequence

\* Blanks are cut off at one end or at both, or all of a blank text.
LEMMA CutMaps ==
    ASSUME Inv, Legible, Inv', NEW v \in Strings, HasText(v), UNCHANGED <<ref, temp, disk>>,
           heap'.pos = heap.pos,
           NEW i \in 1 .. StrLen(ref[v]) + 1, NEW j \in 0 .. StrLen(ref[v]), i <= j + 1,
           heap'.mem[ref[v]] = StrBase(ref[v]) + i - 1, heap'.mem[ref[v] + 1] = j - i + 1,
           \A c \in 0 .. heap.pos - 1 : c \notin {ref[v], ref[v] + 1} => heap'.mem[c] = heap.mem[c],
           \/ i = j + 1
           \/ FirstText(v) # 0 /\ i \in {1, FirstText(v)} /\ j \in {StrLen(ref[v]), LastText(v)}
    PROVE  Maps /\ Legible'
<1> DEFINE s == Text(ref[v])
<1>1. /\ Placed(heap, ref) /\ Placed(heap', ref') /\ ref[v] # Null /\ v \in Handles /\ ref' = ref
      /\ IsSequence(s) /\ Len(s) = StrLen(ref[v]) /\ StrLen(ref[v]) \in Nat \ {0}
  BY HasTextIs DEF Inv
<1>2. /\ Promise!Set(v, SubSeq(s, i, j)) /\ (Base <= heap.pos => Base <= heap'.pos)
      /\ NoZeros(heap, ref) => NoZeros(heap', ref')
  BY <1>1, TextCut
<1>3. Promise!Value(v) = s
  BY <1>1, ValueOfVariable
<1>4. Promise!Change(v)
  <2>1. CASE i = j + 1
    <3>1. j = i - 1 /\ i \in 1 .. Len(s) + 1 BY <1>1, <2>1
    <3>2. SubSeq(s, i, j) = <<>>
      <4> HIDE DEF s
      <4> QED BY <1>1, <3>1, EmptyPart
    <3> QED BY <1>2, <3>2 DEF Promise!Change
  <2>2. CASE FirstText(v) # 0 /\ i \in {1, FirstText(v)} /\ j \in {StrLen(ref[v]), LastText(v)}
    <3>1. /\ FirstText(v) \in 1 .. Len(s) /\ LastText(v) \in 1 .. Len(s) /\ FirstText(v) <= LastText(v)
          /\ s[FirstText(v)] # Blank /\ s[LastText(v)] # Blank
      <4>1. /\ FirstText(v) \in 0 .. StrLen(ref[v]) /\ LastText(v) \in 0 .. StrLen(ref[v])
            /\ FirstText(v) # 0 => FirstText(v) <= LastText(v)
            /\ FirstText(v) = 0 <=> LastText(v) = 0
            /\ FirstText(v) # 0 => s[FirstText(v)] # Blank
            /\ LastText(v) # 0 => s[LastText(v)] # Blank
        BY <1>1, TextEnds
      <4> HIDE DEF s
      <4> QED BY <1>1, <2>2, <4>1
    <3>2. \A k \in 1 .. StrLen(ref[v]) : k < FirstText(v) \/ k > LastText(v) => s[k] = Blank
      BY <1>1, TextEnds
    <3> HIDE DEF s
    <3>3. i \in 1 .. Len(s) /\ j \in 1 .. Len(s)
      BY <1>1, <2>2, <3>1
    <3>4. \A k \in 1 .. Len(s) : k < i \/ k > j => s[k] = Blank
      BY <1>1, <2>2, <3>1, <3>2
    <3>5. (i > 1 => s[i] # Blank) /\ (j < Len(s) => s[j] # Blank)
      BY <1>1, <2>2, <3>1
    <3>6. Promise!Trimmed(s, i, j)
      BY <1>1, <3>3, <3>4, <3>5, BlankParts
    <3> QED BY <1>2, <1>3, <3>3, <3>6 DEF Promise!Change
  <2> QED BY <2>1, <2>2
<1> QED BY <1>1, <1>2, <1>4, ChangeMaps, LegibleKept

\* The header of a string, or only the length in it, is written.
WritesHeader(v, t, n) ==
    \/ heap' = Put(heap, ref[v], <<t, n>>)
    \/ heap' = Put(heap, ref[v] + 1, <<n>>) /\ t = heap.mem[ref[v]]

\* Then the header holds t and n, and no other cell has changed.
LEMMA HeaderIs ==
    ASSUME Placed(heap, ref), NEW v \in Strings, ref[v] # Null, NEW t, NEW n, WritesHeader(v, t, n)
    PROVE  /\ heap'.pos = heap.pos /\ heap'.mem[ref[v]] = t /\ heap'.mem[ref[v] + 1] = n
           /\ \A c \in 0 .. heap.pos - 1 : c \notin {ref[v], ref[v] + 1} => heap'.mem[c] = heap.mem[c]
<1> DEFINE a == ref[v]
           two == <<t, n>>
           one == <<n>>
<1>1. /\ IsHeap(heap) /\ a \in Nat /\ {a, a + 1} \subseteq 0 .. heap.pos - 1
      /\ 0 .. heap.pos - 1 \subseteq DOMAIN heap.mem \intersect Int
  BY HeaderBelow DEF Handles
<1>2. a + 1 \in Int /\ a # a + 1
  BY <1>1
<1>3. CASE heap' = Put(heap, a, two)
  <2>1. \A c \in DOMAIN heap.mem \intersect Int :
            Put(heap, a, two).mem[c] = IF c = a THEN t ELSE IF c = a + 1 THEN n ELSE heap.mem[c]
    BY <1>1, PutTwo
  <2> HIDE DEF two
  <2>2. Put(heap, a, two) = [pos |-> heap.pos, mem |-> Put(heap, a, two).mem, blocks |-> heap.blocks]
    BY <1>1, PutIs
  <2>3. heap'.pos = heap.pos BY <1>3, <2>2
  <2> QED BY <1>1, <1>2, <1>3, <2>1, <2>3
<1>4. CASE heap' = Put(heap, a + 1, one) /\ t = heap.mem[a]
  <2>1. \A c \in DOMAIN heap.mem \intersect Int :
            Put(heap, a + 1, one).mem[c] = IF c = a + 1 THEN n ELSE heap.mem[c]
    BY <1>1, <1>2, PutOne
  <2> HIDE DEF one
  <2>2. Put(heap, a + 1, one) = [pos |-> heap.pos, mem |-> Put(heap, a + 1, one).mem, blocks |-> heap.blocks]
    BY <1>1, PutIs
  <2>3. heap'.pos = heap.pos BY <1>4, <2>2
  <2> QED BY <1>1, <1>2, <1>4, <2>1, <2>3
<1> QED BY <1>3, <1>4 DEF WritesHeader

\* Trimming on the left, ...
LEMMA TrimLeftMaps ==
    ASSUME Inv, Legible, NEW v \in Strings, string_trim_left(v)
    PROVE  Maps /\ Legible'
<1> DEFINE n == StrLen(ref[v])
           cut == IF FirstText(v) = 0 THEN n ELSE FirstText(v) - 1
<1>1. Placed(heap, ref) /\ ref[v] # Null /\ n \in Nat \ {0} /\ HasText(v) /\ Inv'
  BY HasTextIs, TrimLeftStep DEF string_trim_left
<1>2. StrBase(ref[v]) \in Nat /\ FirstText(v) \in 0 .. n
  BY <1>1, TextIs, TextEnds
<1>3. heap' = Put(heap, ref[v], <<StrBase(ref[v]) + cut, n - cut>>) /\ UNCHANGED <<ref, temp, disk>>
  BY DEF string_trim_left
<1>4. cut + 1 \in 1 .. n + 1 /\ n \in 0 .. n /\ cut + 1 <= n + 1
      /\ StrBase(ref[v]) + cut = StrBase(ref[v]) + (cut + 1) - 1 /\ n - cut = n - (cut + 1) + 1
  <2> HIDE DEF n
  <2> QED BY <1>1, <1>2
<1>5. \/ cut + 1 = n + 1
      \/ FirstText(v) # 0 /\ cut + 1 \in {1, FirstText(v)} /\ n \in {StrLen(ref[v]), LastText(v)}
  BY <1>2
<1> HIDE DEF cut
<1>6. /\ heap'.pos = heap.pos
      /\ heap'.mem[ref[v]] = StrBase(ref[v]) + cut /\ heap'.mem[ref[v] + 1] = n - cut
      /\ \A c \in 0 .. heap.pos - 1 : c \notin {ref[v], ref[v] + 1} => heap'.mem[c] = heap.mem[c]
  <2>1. WritesHeader(v, StrBase(ref[v]) + cut, n - cut) BY <1>3 DEF WritesHeader
  <2> QED BY <1>1, <2>1, HeaderIs
<1> QED BY <1>1, <1>3, <1>4, <1>5, <1>6, CutMaps

\* ... on the right ...
LEMMA TrimRightMaps ==
    ASSUME Inv, Legible, NEW v \in Strings, string_trim_right(v)
    PROVE  Maps /\ Legible'
<1> DEFINE n == StrLen(ref[v])
           k == LastText(v)
<1>1. Placed(heap, ref) /\ ref[v] # Null /\ n \in Nat \ {0} /\ HasText(v) /\ Inv'
  BY HasTextIs, TrimRightStep DEF string_trim_right
<1>2. StrBase(ref[v]) \in Nat /\ k \in 0 .. n /\ (FirstText(v) = 0 <=> k = 0)
  BY <1>1, TextIs, TextEnds
<1>3. heap' = Put(heap, ref[v] + 1, <<k>>) /\ UNCHANGED <<ref, temp, disk>>
  BY DEF string_trim_right
<1>4. 1 \in 1 .. n + 1 /\ 1 <= k + 1 /\ StrBase(ref[v]) = StrBase(ref[v]) + 1 - 1 /\ k = k - 1 + 1
  <2> HIDE DEF n, k
  <2> QED BY <1>1, <1>2
<1>5. \/ 1 = k + 1
      \/ FirstText(v) # 0 /\ 1 \in {1, FirstText(v)} /\ k \in {StrLen(ref[v]), LastText(v)}
  BY <1>2
<1> HIDE DEF k
<1>6. /\ heap'.pos = heap.pos
      /\ heap'.mem[ref[v]] = heap.mem[ref[v]] /\ heap'.mem[ref[v] + 1] = k
      /\ \A c \in 0 .. heap.pos - 1 : c \notin {ref[v], ref[v] + 1} => heap'.mem[c] = heap.mem[c]
  <2>1. WritesHeader(v, heap.mem[ref[v]], k) BY <1>3 DEF WritesHeader
  <2> QED BY <1>1, <2>1, HeaderIs
<1>7. heap'.mem[ref[v]] = StrBase(ref[v])
  BY <1>6 DEF StrBase
<1> QED BY <1>1, <1>2, <1>3, <1>4, <1>5, <1>6, <1>7, CutMaps

\* ... and on both sides.
LEMMA TrimMaps ==
    ASSUME Inv, Legible, NEW v \in Strings, string_trim(v)
    PROVE  Maps /\ Legible'
<1> DEFINE n == StrLen(ref[v])
           i == FirstText(v)
           k == LastText(v)
<1>1. Placed(heap, ref) /\ ref[v] # Null /\ n \in Nat \ {0} /\ HasText(v) /\ Inv' /\ i # 0
  BY HasTextIs, TrimStep DEF string_trim
<1>2. StrBase(ref[v]) \in Nat /\ i \in 0 .. n /\ k \in 0 .. n /\ i <= k
  BY <1>1, TextIs, TextEnds
<1>3. /\ heap' = Put(heap, ref[v], <<StrBase(ref[v]) + i - 1, k - i + 1>>)
      /\ UNCHANGED <<ref, temp, disk>>
  BY DEF string_trim
<1>4. i \in 1 .. n + 1 /\ i <= k + 1
  <2> HIDE DEF n, i, k
  <2> QED BY <1>1, <1>2
<1>5. FirstText(v) # 0 /\ i \in {1, FirstText(v)} /\ k \in {StrLen(ref[v]), LastText(v)}
  BY <1>1
<1> HIDE DEF i, k
<1>6. /\ heap'.pos = heap.pos
      /\ heap'.mem[ref[v]] = StrBase(ref[v]) + i - 1 /\ heap'.mem[ref[v] + 1] = k - i + 1
      /\ \A c \in 0 .. heap.pos - 1 : c \notin {ref[v], ref[v] + 1} => heap'.mem[c] = heap.mem[c]
  <2>1. WritesHeader(v, StrBase(ref[v]) + i - 1, k - i + 1) BY <1>3 DEF WritesHeader
  <2> QED BY <1>1, <2>1, HeaderIs
<1> QED BY <1>1, <1>2, <1>3, <1>4, <1>5, <1>6, CutMaps

\* The terminator is part of no value: a path that is terminated stays what it is.
LEMMA TerminatedMaps ==
    ASSUME SpareOnly, Inv, Legible, NEW v \in Strings, CanTerminate(v),
           heap' = Terminated(ref[v]), ref' = ref
    PROVE  /\ Values' = Values /\ NoZeros(heap', ref') /\ Base <= heap'.pos
<1>1. Placed(heap, ref) /\ NoZeros(heap, ref) /\ Base <= heap.pos
  BY LegibleIs DEF Inv
<1>2. Keeps(heap, ref, heap', ref') /\ AllKept(heap, ref, heap', ref') /\ heap'.pos = heap.pos
  BY <1>1, TerminatedKeeps
<1>3. Placed(heap', ref')
  BY <1>2 DEF Keeps
<1> QED BY <1>1, <1>2, <1>3, KeepsValues

\* string_to_cstr() changes no value: what it writes lies behind the text.
LEMMA ToCstrMaps ==
    ASSUME SpareOnly, Inv, Legible, NEW v \in Strings, string_to_cstr(v)
    PROVE  Maps /\ Legible'
<1>1. CanTerminate(v) /\ heap' = Terminated(ref[v]) /\ ref' = ref /\ temp' = temp /\ disk' = disk
  BY DEF string_to_cstr
<1>2. Values' = Values /\ NoZeros(heap', ref') /\ Base <= heap'.pos
  BY <1>1, TerminatedMaps
<1> QED BY <1>1, <1>2, LegibleKept DEF Maps

\* A second variable for an object.
LEMMA AssignMaps ==
    ASSUME Inv, Legible, NEW v \in Handles, NEW w \in Handles, v \in Strings <=> w \in Strings, Assign(v, w)
    PROVE  Maps /\ Legible'
<1>1. Placed(heap, ref) /\ Placed(heap', ref') /\ heap' = heap /\ temp' = temp /\ disk' = disk
  BY AssignStep DEF Inv, Assign
<1>2. ref' = [ref EXCEPT ![v] = ref[w]]
  BY DEF Assign
<1>3. ASSUME NEW x \in Handles
      PROVE  \E y \in Handles : ref'[x] = ref[y] /\ (x \in Strings <=> y \in Strings)
  BY <1>1, <1>2 DEF Placed
<1>4. Values = ValuesOf(heap, ref) /\ Values' = ValuesOf(heap, ref')
  BY <1>1, ValuesAre
<1> USE DEF LiveIn
<1>5. ASSUME NEW i \in LiveIn(ref')
      PROVE  i \in LiveIn(ref) /\ ValuesOf(heap, ref')[i] = ValuesOf(heap, ref)[i]
  <2>1. PICK x \in Handles : i = ref'[x] /\ i # Null OBVIOUS
  <2>2. PICK y \in Handles : ref'[x] = ref[y] /\ (x \in Strings <=> y \in Strings) BY <1>3
  <2>3. ValuesOf(heap, ref')[i] = ValueOf(heap, ref', x) BY <1>1, <2>1, ValueIs
  <2>4. ValuesOf(heap, ref)[i] = ValueOf(heap, ref, y) /\ i \in LiveIn(ref)
    BY <1>1, <2>1, <2>2, ValueIs
  <2> QED BY <2>2, <2>3, <2>4 DEF ValueOf
<1>6. ValuesOf(heap, ref') = [i \in LiveIn(ref') |-> ValuesOf(heap, ref)[i]]
  <2>1. ValuesOf(heap, ref') = [i \in LiveIn(ref') |-> ValuesOf(heap, ref')[i]] BY DEF ValuesOf
  <2> QED BY <1>5, <2>1
<1>7. Promise!Share(v, w)
  BY <1>2, <1>4, <1>6 DEF Promise!Share, Promise!Referred
<1>8. NoZeros(heap, ref) => NoZeros(heap', ref')
  BY <1>1, <1>3 DEF NoZeros, Handles
<1>9. Maps
  BY <1>1, <1>7 DEF Maps, Promise!Next
<1> QED BY <1>1, <1>8, <1>9, LegibleKept

\* A text that starts at a ends at e.
Ends(h, a, e) == h.mem[e] = Nul /\ \A c \in a .. e - 1 : h.mem[c] # Nul

\* The system reads a path that is terminated to its end, and no further.
LEMMA PathIs ==
    ASSUME SpareOnly, Inv, Legible, NEW v \in Strings, CanTerminate(v)
    PROVE  /\ Path(v) = Text(ref[v]) /\ Path(v) = Promise!Value(v)
           /\ Placed(heap, ref) /\ ref[v] # Null /\ v \in Handles
<1> DEFINE a == ref[v]
           b == StrBase(a)
           n == StrLen(a)
           h == Terminated(a)
<1>1. /\ Placed(heap, ref) /\ ref[v] # Null /\ v \in Handles /\ NoZero(Text(a))
      /\ n \in Nat \ {0} /\ HasSpareByte(a)
  BY HasTextIs DEF CanTerminate, SpareOnly
<1>2. b \in Nat /\ a \in Nat
  BY <1>1, TextIs
<1>3. b + n \in 0 .. Reserved - 1
  <2>1. PICK k \in heap.blocks : b + n \in Bytes(k) BY <1>1 DEF HasSpareByte
  <2>2. k.to \in Nat /\ k.to <= heap.pos /\ heap.pos \in 0 .. Reserved - 1 /\ Reserved \in Nat
    BY <1>1, BuffersAssumption DEF Placed, HeapInv, BuffersAssumption
  <2>3. k.from \in Nat BY <1>1 DEF Placed, HeapInv
  <2> HIDE DEF b, n
  <2> QED BY <2>1, <2>2, <2>3 DEF Bytes
<1>4. h.mem[b + n] = Nul
  <2> DEFINE end == b + n
  <2>1. DOMAIN heap.mem = 0 .. Reserved - 1 BY <1>1 DEF Placed, HeapInv
  <2>6. IsHeap(heap) BY <1>1, HeaderBelow
  <2>2. h = Put(heap, end, <<Nul>>) BY DEF Terminated
  <2>3. end \in DOMAIN heap.mem \intersect Int /\ end \in Int BY <1>3, <2>1
  <2> HIDE DEF end, h
  <2>4. \A c \in DOMAIN heap.mem \intersect Int :
            Put(heap, end, <<Nul>>).mem[c] = IF c = end THEN Nul ELSE heap.mem[c]
    BY <2>3, <2>6, PutOne
  <2>5. h.mem[end] = Nul BY <2>2, <2>3, <2>4
  <2> QED BY <2>5 DEF end
<1>5. ASSUME NEW i \in 1 .. n PROVE h.mem[b + i - 1] = Text(a)[i] /\ h.mem[b + i - 1] # Nul
  <2>1. AllKept(heap, ref, h, ref) BY <1>1, TerminatedKeeps
  <2>2. b + i - 1 \in ObjectAt(heap, ref, v) BY <1>1, <1>2 DEF ObjectAt, TextAt, StrBase, StrLen
  <2>3. h.mem[b + i - 1] = heap.mem[b + i - 1]
    <3> HIDE DEF h, b
    <3> QED BY <1>1, <2>1, <2>2 DEF AllKept
  <2>4. Text(a)[i] = heap.mem[b + i - 1] /\ i \in DOMAIN Text(a) BY DEF Text, Cells
  <2> QED BY <1>1, <2>3, <2>4 DEF NoZero
<1> HIDE DEF h, b, n
<1>6. ASSUME NEW c \in b .. b + n - 1 PROVE h.mem[c] # Nul
  <2>1. c - b + 1 \in 1 .. n /\ b + (c - b + 1) - 1 = c BY <1>1, <1>2
  <2> QED BY <1>5, <2>1
<1>7. Ends(h, b, b + n)
  BY <1>1, <1>2, <1>4, <1>6 DEF Ends
<1>8. ASSUME NEW e \in b .. Reserved - 1, Ends(h, b, e) PROVE e = b + n
  <2>1. e \in Int /\ b + n \in Int BY <1>1, <1>2
  <2>2. CASE e < b + n
    <3>1. e \in b .. b + n - 1 BY <1>1, <1>2, <2>2
    <3> QED BY <1>6, <1>8, <3>1 DEF Ends
  <2>3. CASE b + n < e
    <3>1. b + n \in b .. e - 1 BY <1>1, <1>2, <2>3
    <3> QED BY <1>4, <1>8, <3>1 DEF Ends
  <2> QED BY <2>1, <2>2, <2>3
<1>9. b + n \in b .. Reserved - 1
  BY <1>1, <1>2, <1>3
<1>10. (CHOOSE e \in b .. Reserved - 1 : Ends(h, b, e)) = b + n
  BY <1>7, <1>8, <1>9
<1>11. Path(v) = [i \in 1 .. (b + n) - b |-> h.mem[b + i - 1]]
  BY <1>10 DEF Path, CStr, Ends, h, b
<1>12. (b + n) - b = n
  BY <1>1, <1>2
<1>13. Text(a) = [i \in 1 .. n |-> Text(a)[i]]
  BY DEF Text, Cells, n
<1>14. Path(v) = Text(a)
  BY <1>5, <1>11, <1>12, <1>13
<1>15. Promise!Value(v) = Text(a)
  BY <1>1, ValueOfVariable
<1> QED BY <1>1, <1>14, <1>15

\* A string that is made after the path has been terminated.
LEMMA MadeAfterPathMaps ==
    ASSUME SpareOnly, Inv, Legible, Inv', NEW path \in Strings, CanTerminate(path), NEW v \in Strings,
           NEW text, IsSequence(text), NoZero(text), Receives(v, StringNew(Terminated(ref[path]), text))
    PROVE  Promise!Make(v, text) /\ Base <= heap'.pos /\ NoZeros(heap', ref')
<1> DEFINE h == Terminated(ref[path])
<1>1. Placed(heap, ref) /\ NoZeros(heap, ref) /\ Base <= heap.pos /\ Placed(heap', ref')
  BY LegibleIs DEF Inv
<1>2. Keeps(heap, ref, h, ref) /\ AllKept(heap, ref, h, ref) /\ h.pos = heap.pos
  BY <1>1, TerminatedKeeps
<1> HIDE DEF h
<1>3. Placed(h, ref)
  BY <1>2 DEF Keeps
<1>4. Receives(v, StringNew(h, text))
  BY DEF h
<1> QED BY <1>1, <1>2, <1>3, <1>4, StringMade

\* What a call stores on the disk.
LEMMA StoredLegible ==
    ASSUME DiskLegible, NEW name \in Names, NEW contents, contents = Directory \/ NoZero(contents),
           disk' = Stored(name, contents)
    PROVE  DiskLegible'
  BY DEF DiskLegible, Stored

\* Reading a file, of which another process may have changed the contents.
LEMMA ReadFileMaps ==
    ASSUME SpareOnly, Inv, Legible, NoZeroInTexts, NEW v \in Strings, NEW path \in Strings,
           read_file(v, path)
    PROVE  Maps /\ Legible'
<1> DEFINE name == Path(path)
<1>1. /\ Placed(heap, ref) /\ CanTerminate(path) /\ IsFile(name) /\ temp' = temp /\ Inv'
      /\ DiskOK /\ DiskLegible /\ (temp # 0 => Base <= temp) /\ v \in Handles
  BY ReadFileStep, LegibleIs DEF Inv, DiskOK, read_file, Handles
<1>2. PICK size \in 1 .. Len(disk[name]), now \in Texts \union {disk[name]} :
          /\ Len(now) >= size /\ disk' = Stored(name, now)
          /\ Receives(v, StringNew(Terminated(ref[path]), SubSeq(now, 1, size)))
  BY DEF read_file
<1>3. /\ name \in DOMAIN disk /\ name \in Names /\ disk[name] # Directory
      /\ IsSequence(disk[name]) /\ NoZero(disk[name])
  BY <1>1 DEF IsFile, DiskLegible, DiskOK
<1> HIDE DEF name
<1>4. IsSequence(now) /\ NoZero(now) /\ now # Directory
  BY <1>3, BuffersAssumption DEF BuffersAssumption, NoZeroInTexts
<1>5. size \in 1 .. Len(now)
  <2>1. Len(now) \in Nat /\ Len(disk[name]) \in Nat BY <1>3, <1>4, SequenceIs
  <2> QED BY <1>2, <2>1
<1>6. IsSequence(SubSeq(now, 1, size)) /\ NoZero(SubSeq(now, 1, size))
  <2>1. Len(now) \in Nat BY <1>4, SequenceIs
  <2>2. 1 \in 1 .. Len(now) + 1 /\ size \in 0 .. Len(now) /\ 1 <= size + 1 BY <1>5, <2>1
  <2> QED BY <1>4, <2>2, PartIs
<1>7. Promise!Make(v, SubSeq(now, 1, size)) /\ Base <= heap'.pos /\ NoZeros(heap', ref')
  BY <1>1, <1>2, <1>6, MadeAfterPathMaps
<1>8. /\ name \in DOMAIN disk' /\ disk'[name] = now
      /\ \A m \in Names \ {name} :
            (m \in DOMAIN disk <=> m \in DOMAIN disk') /\ (m \in DOMAIN disk => disk'[m] = disk[m])
  BY <1>2 DEF Stored
<1>9. Promise!Load(v, name)
  BY <1>3, <1>4, <1>5, <1>7, <1>8 DEF Promise!Load
<1>10. DiskLegible'
  BY <1>1, <1>2, <1>3, <1>4, StoredLegible
<1>11. Maps
  BY <1>1, <1>3, <1>9 DEF Maps, Promise!Next
<1> QED BY <1>1, <1>7, <1>10, <1>11, LegibleIs

\* Writing a string, or the first part of it, to a file.
LEMMA WriteFileMaps ==
    ASSUME SpareOnly, Inv, Legible, NEW v \in Strings, NEW path \in Strings, write_to_file(path, v)
    PROVE  Maps /\ Legible'
<1>1. /\ Placed(heap, ref) /\ CanTerminate(path) /\ heap' = Terminated(ref[path])
      /\ ref' = ref /\ temp' = temp /\ ref[v] # Null /\ v \in Handles
      /\ DiskLegible /\ (temp # 0 => Base <= temp)
      /\ Path(path) \in Names /\ (Path(path) \in DOMAIN disk => disk[Path(path)] # Directory)
  BY LegibleIs DEF Inv, write_to_file, IsFile, Handles
<1>2. PICK n \in 1 .. StrLen(ref[v]) : disk' = Stored(Path(path), SubSeq(Text(ref[v]), 1, n))
  BY DEF write_to_file
<1>3. Path(path) = Promise!Value(path) /\ ref[path] # Null /\ path \in Handles
  BY <1>1, PathIs
<1>4. Promise!Value(v) = Text(ref[v])
  BY <1>1, ValueOfVariable
<1>5. /\ IsSequence(Text(ref[v])) /\ NoZero(Text(ref[v]))
      /\ Len(Text(ref[v])) = StrLen(ref[v]) /\ StrLen(ref[v]) \in Nat
  BY <1>1, TextIs DEF Legible
<1>6. NoZero(SubSeq(Text(ref[v]), 1, n))
  <2>1. 1 \in 1 .. Len(Text(ref[v])) + 1 /\ n \in 0 .. Len(Text(ref[v])) /\ 1 <= n + 1
    BY <1>5
  <2> QED BY <1>5, <2>1, PartIs
<1>7. Values' = Values /\ NoZeros(heap', ref') /\ Base <= heap'.pos
  BY <1>1, TerminatedMaps
<1>8. Promise!Save(path, v)
  <2>1. n \in 1 .. Len(Promise!Value(v)) BY <1>4, <1>5
  <2>2. disk' = Promise!File(Promise!Value(path), SubSeq(Promise!Value(v), 1, n))
    BY <1>2, <1>3, <1>4 DEF Stored, Promise!File
  <2>3. Promise!Value(path) \in DOMAIN disk => disk[Promise!Value(path)] # Directory
    BY <1>1, <1>3
  <2> QED BY <1>1, <1>7, <2>1, <2>2, <2>3 DEF Promise!Save
<1>9. DiskLegible'
  BY <1>1, <1>2, <1>6, StoredLegible
<1>10. Maps
  BY <1>1, <1>3, <1>8 DEF Maps, Promise!Next
<1> QED BY <1>1, <1>7, <1>9, <1>10, LegibleIs

\* Making a directory.
LEMMA MakeDirMaps ==
    ASSUME SpareOnly, Inv, Legible, NEW path \in Strings, make_dir(path)
    PROVE  Maps /\ Legible'
<1>1. /\ CanTerminate(path) /\ heap' = Terminated(ref[path]) /\ ref' = ref /\ temp' = temp
      /\ DiskLegible /\ (temp # 0 => Base <= temp)
      /\ disk' = IF Path(path) \in Names \ DOMAIN disk THEN Stored(Path(path), Directory) ELSE disk
  BY LegibleIs DEF make_dir
<1>2. Path(path) = Promise!Value(path) /\ ref[path] # Null /\ path \in Handles
  BY <1>1, PathIs
<1>3. Values' = Values /\ NoZeros(heap', ref') /\ Base <= heap'.pos
  BY <1>1, TerminatedMaps
<1>4. CASE Path(path) \in Names \ DOMAIN disk
  <2>1. disk' = Stored(Path(path), Directory) BY <1>1, <1>4
  <2>2. DiskLegible' BY <1>1, <1>4, <2>1, StoredLegible
  <2>3. Promise!MakeDir(path)
    BY <1>1, <1>2, <1>3, <1>4, <2>1 DEF Promise!MakeDir, Promise!File, Stored
  <2>4. Maps BY <1>2, <2>3 DEF Maps, Promise!Next
  <2> QED BY <1>1, <1>3, <2>2, <2>4, LegibleIs
<1>5. CASE Path(path) \notin Names \ DOMAIN disk
  <2>1. disk' = disk BY <1>1, <1>5
  <2>2. DiskLegible' BY <1>1, <2>1 DEF DiskLegible
  <2>3. Maps BY <1>1, <1>3, <2>1 DEF Maps
  <2> QED BY <1>1, <1>3, <2>2, <2>3, LegibleIs
<1> QED BY <1>4, <1>5

\* Removing a file or a directory.
LEMMA RemoveMaps ==
    ASSUME SpareOnly, Inv, Legible, NEW path \in Strings, path_remove(path)
    PROVE  Maps /\ Legible'
<1>1. /\ CanTerminate(path) /\ heap' = Terminated(ref[path]) /\ ref' = ref /\ temp' = temp
      /\ DiskLegible /\ (temp # 0 => Base <= temp)
      /\ disk' = [m \in DOMAIN disk \ {Path(path)} |-> disk[m]]
  BY LegibleIs DEF path_remove
<1>2. Path(path) = Promise!Value(path) /\ ref[path] # Null /\ path \in Handles
  BY <1>1, PathIs
<1>3. Values' = Values /\ NoZeros(heap', ref') /\ Base <= heap'.pos
  BY <1>1, TerminatedMaps
<1>4. DiskLegible'
  BY <1>1 DEF DiskLegible
<1>5. Promise!Unlink(path)
  BY <1>1, <1>2, <1>3 DEF Promise!Unlink
<1>6. Maps
  BY <1>2, <1>5 DEF Maps, Promise!Next
<1> QED BY <1>1, <1>3, <1>4, <1>6, LegibleIs

\* Resolving a path.
LEMMA CanonicalMaps ==
    ASSUME SpareOnly, Inv, Legible, NoZeroInTexts, NEW v \in Strings, NEW path \in Strings,
           NEW canonical \in Texts, path_canonical(v, path, canonical)
    PROVE  Maps /\ Legible'
<1>1. /\ Placed(heap, ref) /\ Placed(heap', ref') /\ Inv' /\ CanTerminate(path) /\ v \in Handles
      /\ UNCHANGED <<temp, disk>>
  BY CanonicalStep DEF Inv, path_canonical, Handles
<1>2. CASE Path(path) \in DOMAIN disk
  <2>1. Receives(v, StringNew(Terminated(ref[path]), canonical)) BY <1>2 DEF path_canonical
  <2>2. IsSequence(canonical) /\ NoZero(canonical)
    BY BuffersAssumption DEF BuffersAssumption, NoZeroInTexts
  <2>3. Promise!Make(v, canonical) /\ Base <= heap'.pos /\ NoZeros(heap', ref')
    BY <1>1, <2>1, <2>2, MadeAfterPathMaps
  <2> QED BY <1>1, <2>3, MakeMaps, LegibleKept
<1>3. CASE Path(path) \notin DOMAIN disk
  <2>1. heap' = Terminated(ref[path]) /\ ref' = [ref EXCEPT ![v] = Null]
    BY <1>3 DEF path_canonical
  <2>2. AllKept(heap, ref, heap', ref) /\ heap'.pos = heap.pos
    BY <1>1, <2>1, TerminatedKeeps
  <2>3. ref' = [x \in Handles |-> IF x \in {v} THEN Null ELSE ref[x]]
    BY <1>1, <2>1 DEF Placed
  <2>4. AllKept(heap, ref, heap', ref')
    BY <2>2, <2>3 DEF AllKept
  <2>5. /\ Values' = [i \in Promise!Referred(ref') |-> Values[i]]
        /\ NoZeros(heap, ref) => NoZeros(heap', ref')
    BY <1>1, <2>4, KeepsValues
  <2>6. Promise!Drop({v})
    BY <2>3, <2>5 DEF Promise!Drop
  <2>7. Maps
    BY <1>1, <2>6 DEF Maps, Promise!Next
  <2> QED BY <1>1, <2>2, <2>5, <2>7, LegibleKept
<1> QED BY <1>2, <1>3

\* A sequence with one more element.
LEMMA AppendIs ==
    ASSUME NEW s, IsSequence(s), NEW x
    PROVE  /\ Append(s, x) = [k \in 1 .. Len(s) + 1 |-> IF k <= Len(s) THEN s[k] ELSE x]
           /\ IsSequence(Append(s, x)) /\ Len(Append(s, x)) = Len(s) + 1
<1> DEFINE A == {s[k] : k \in DOMAIN s} \union {x}
           u == Append(s, x)
<1>1. s \in Seq(A) /\ x \in A
  BY DEF IsSequence
<1> HIDE DEF A
<1>2. u \in Seq(A) /\ Len(u) = Len(s) + 1 /\ Len(s) \in Nat
  BY <1>1
<1>3. \A k \in 1 .. Len(s) + 1 : u[k] = IF k <= Len(s) THEN s[k] ELSE x
  BY <1>1
<1> HIDE DEF u
<1>4. DOMAIN u = 1 .. Len(s) + 1 /\ u = [k \in 1 .. Len(u) |-> u[k]]
  BY <1>2
<1>5. u \in Seq({u[k] : k \in DOMAIN u})
  BY <1>2, <1>4
<1>6. u = [k \in 1 .. Len(s) + 1 |-> IF k <= Len(s) THEN s[k] ELSE x]
  BY <1>2, <1>3, <1>4
<1> QED BY <1>2, <1>5, <1>6 DEF u, IsSequence

\* The cells of two sequences, one behind the other.
LEMMA JoinedCells ==
    ASSUME NEW s, NEW t, IsSequence(s), IsSequence(t)
    PROVE  /\ \A k \in 1 .. Len(s) : (s \o t)[k] = s[k]
           /\ \A k \in 1 .. Len(t) : (s \o t)[Len(s) + k] = t[k]
<1> DEFINE A == {s[i] : i \in DOMAIN s} \union {t[i] : i \in DOMAIN t}
<1>1. s \in Seq(A) /\ t \in Seq(A)
  BY DEF IsSequence
<1> HIDE DEF A
<1>2. Len(s) \in Nat /\ Len(t) \in Nat
  BY <1>1
<1>3. ASSUME NEW k \in 1 .. Len(t) PROVE (s \o t)[Len(s) + k] = t[k]
  <2>1. Len(s) + k \in 1 .. Len(s) + Len(t) /\ ~ (Len(s) + k <= Len(s)) /\ (Len(s) + k) - Len(s) = k
    BY <1>2
  <2> QED BY <1>1, <2>1
<1>4. ASSUME NEW k \in 1 .. Len(s) PROVE (s \o t)[k] = s[k]
  BY <1>1, <1>2
<1> QED BY <1>3, <1>4

\* The elements of an array.
LEMMA ElementsAre ==
    ASSUME Inv, Legible, NEW v \in Arrays, ref[v] # Null
    PROVE  /\ Placed(heap, ref) /\ Base <= heap.pos /\ v \in Handles /\ v \notin Strings
           /\ DaCap(ref[v]) \in Nat \ {0} /\ DaLen(ref[v]) \in 0 .. DaCap(ref[v])
           /\ IsSequence(Elements(ref[v])) /\ Len(Elements(ref[v])) = DaLen(ref[v])
           /\ Promise!Value(v) = Elements(ref[v])
<1>1. Placed(heap, ref) /\ Base <= heap.pos /\ v \in Handles /\ v \notin Strings
  BY BuffersAssumption DEF Inv, Legible, BuffersAssumption, Handles
<1>2. DaCap(ref[v]) \in Nat \ {0} /\ DaLen(ref[v]) \in 0 .. DaCap(ref[v])
  BY <1>1, ArrayIs
<1>3. DaLen(ref[v]) \in Nat
  BY <1>2
<1>4. IsSequence(Elements(ref[v])) /\ Len(Elements(ref[v])) = DaLen(ref[v])
  BY <1>3, CellsAre DEF Elements
<1> QED BY <1>1, <1>2, <1>4, ValueOfVariable

\* Making an array.
LEMMA DaNewMaps ==
    ASSUME Inv, Legible, NEW v \in Arrays, NEW capacity \in Capacities, da_new(v, capacity)
    PROVE  Maps /\ Legible'
<1> DEFINE zeros == [i \in 1 .. capacity |-> Nul]
           cells == <<capacity, 0>> \o zeros
<1>1. capacity \in Nat \ {0} /\ v \in Handles
  BY BuffersAssumption DEF BuffersAssumption, Handles
<1>2. IsSequence(zeros) /\ Len(zeros) = capacity
  <2>1. zeros \in Seq({Nul}) /\ Len(zeros) = capacity BY <1>1
  <2>2. zeros \in Seq({zeros[i] : i \in DOMAIN zeros}) BY <1>1
  <2> QED BY <2>1, <2>2 DEF IsSequence
<1>3. /\ Receives(v, Put(Alloc(heap, HeaderSize + capacity), AllocFrom(heap), cells))
      /\ UNCHANGED <<temp, disk>>
  BY DEF da_new
<1> HIDE DEF zeros
<1>4. Len(cells) = 2 + capacity /\ cells[1] = capacity /\ cells[2] = 0
  BY <1>2, ArrayCellsAre
<1> HIDE DEF cells
<1>5. Len(cells) \in Nat /\ Len(cells) >= 2 + 0 /\ 0 \in 0 .. capacity
  BY <1>1, <1>4
<1>6. Placed(heap, ref) /\ Placed(heap', ref') /\ Base <= heap.pos
  BY DaNewStep DEF Inv, Legible
<1>7. /\ Base <= heap'.pos /\ (NoZeros(heap, ref) => NoZeros(heap', ref'))
      /\ \A s : Len(s) = 0 /\ Behind(cells, 2, s) => Promise!Make(v, s)
  BY <1>1, <1>3, <1>4, <1>5, <1>6, ArrayMade
<1>8. Promise!Make(v, <<>>)
  <2>1. Len(<<>>) = 0 /\ IsSequence(<<>>) BY DEF IsSequence
  <2>2. Behind(cells, 2, <<>>) BY <2>1 DEF Behind
  <2> QED BY <1>7, <2>1, <2>2
<1>9. Maps
  BY <1>1, <1>3, <1>8, MakeMaps
<1> QED BY <1>3, <1>7, <1>9, LegibleKept

\* Appending to a full array: the variable has a new one, and the others that
\* shared the old one keep it.
LEMMA AppendGrowsMaps ==
    ASSUME Inv, Legible, NEW v \in Arrays, NEW item \in Items, AppendGrows(v, item)
    PROVE  Maps /\ Legible'
<1> DEFINE d == ref[v]
           cap == NewCapacity(DaCap(d))
           len == DaLen(d) + 1
           s == Elements(d)
           front == <<cap, len>> \o s
           cells == front \o <<item>>
           longer == Append(s, item)
<1>1. /\ Placed(heap, ref) /\ Placed(heap', ref') /\ Base <= heap.pos /\ d # Null /\ v \in Handles
      /\ DaCap(d) \in Nat \ {0} /\ DaLen(d) \in 0 .. DaCap(d)
      /\ IsSequence(s) /\ Len(s) = DaLen(d) /\ Promise!Value(v) = s
  BY ElementsAre, AppendGrowsStep DEF AppendGrows, Inv
<1>2. /\ Receives(v, Put(Alloc(heap, HeaderSize + cap), AllocFrom(heap), cells))
      /\ UNCHANGED <<temp, disk>>
  BY DEF AppendGrows
<1>3. cap \in Nat \ {0} /\ len \in 0 .. cap
  <2>1. cap \in Nat /\ DaCap(d) < cap BY <1>1, GrowsByOne
  <2> HIDE DEF cap, d
  <2> QED BY <1>1, <2>1
<1>4. Promise!Value(v) = s
  BY <1>1
<1> HIDE DEF cap, d, s
<1>5. len = Len(s) + 1 /\ Len(s) \in Nat
  BY <1>1, SequenceIs
<1>6. longer = [k \in 1 .. len |-> IF k <= Len(s) THEN s[k] ELSE item] /\ IsSequence(longer) /\ Len(longer) = len
  BY <1>1, <1>5, AppendIs
<1> HIDE DEF longer, len
<1>7. /\ Len(cells) = 2 + len /\ cells[1] = cap /\ cells[2] = len
      /\ \A k \in 1 .. Len(s) : cells[2 + k] = s[k]
      /\ cells[2 + len] = item
  <2> DEFINE header == <<cap, len>>
             last == <<item>>
  <2>1. /\ Len(header) = 2 /\ header[1] = cap /\ header[2] = len /\ IsSequence(header)
        /\ Len(last) = 1 /\ last[1] = item /\ IsSequence(last)
    BY DEF IsSequence
  <2> HIDE DEF header, last
  <2>2. /\ IsSequence(header \o s) /\ Len(header \o s) = 2 + Len(s)
        /\ \A k \in 1 .. 2 : (header \o s)[k] = header[k]
        /\ \A k \in 1 .. Len(s) : (header \o s)[2 + k] = s[k]
    <3>1. IsSequence(header \o s) /\ Len(header \o s) = Len(header) + Len(s)
      BY <1>1, <2>1, JoinIs
    <3>2. /\ \A k \in 1 .. Len(header) : (header \o s)[k] = header[k]
          /\ \A k \in 1 .. Len(s) : (header \o s)[Len(header) + k] = s[k]
      <4>1. IsSequence(header) /\ IsSequence(s) BY <1>1, <2>1
      <4> QED BY <4>1, JoinedCells
    <3>3. Len(header) = 2 BY <2>1
    <3> QED BY <3>1, <3>2, <3>3
  <2>3. front = header \o s /\ cells = front \o last BY DEF header, last
  <2> HIDE DEF front, cells
  <2>4. /\ Len(cells) = Len(front) + 1
        /\ \A k \in 1 .. Len(front) : cells[k] = front[k]
        /\ \A k \in 1 .. 1 : cells[Len(front) + k] = last[k]
    BY <2>1, <2>2, <2>3, JoinIs, JoinedCells
  <2>5. Len(front) = 2 + Len(s) BY <2>2, <2>3
  <2>6. Len(cells) = 2 + len /\ Len(front) + 1 = 2 + len BY <1>5, <2>4, <2>5
  <2>7. cells[1] = cap /\ cells[2] = len
    <3>1. 1 \in 1 .. Len(front) /\ 2 \in 1 .. Len(front) BY <1>5, <2>5
    <3> QED BY <2>1, <2>2, <2>3, <2>4, <3>1
  <2>8. ASSUME NEW k \in 1 .. Len(s) PROVE cells[2 + k] = s[k]
    <3>1. 2 + k \in 1 .. Len(front) BY <1>5, <2>5
    <3> QED BY <2>2, <2>3, <2>4, <3>1
  <2>9. cells[2 + len] = item
    <3>1. cells[Len(front) + 1] = last[1] BY <2>4
    <3> QED BY <2>1, <2>6, <3>1
  <2> QED BY <2>6, <2>7, <2>8, <2>9
<1> HIDE DEF cells, front
<1>8. Behind(cells, 2, longer)
  <2>1. ASSUME NEW k \in 1 .. len PROVE cells[2 + k] = longer[k]
    <3>1. longer[k] = IF k <= Len(s) THEN s[k] ELSE item BY <1>6
    <3>2. CASE k \in 1 .. Len(s) BY <1>5, <1>7, <3>1, <3>2
    <3>3. CASE k = len BY <1>5, <1>7, <3>1, <3>3
    <3> QED BY <1>5, <3>2, <3>3
  <2> QED BY <1>6, <2>1 DEF Behind
<1>9. Len(cells) \in Nat /\ Len(cells) >= 2 + len
  BY <1>5, <1>7
<1>10. /\ Base <= heap'.pos /\ (NoZeros(heap, ref) => NoZeros(heap', ref'))
       /\ \A t : Len(t) = len /\ Behind(cells, 2, t) => Promise!Make(v, t)
  BY <1>1, <1>2, <1>3, <1>7, <1>9, ArrayMade
<1>11. Promise!Make(v, Append(Promise!Value(v), item))
  BY <1>4, <1>6, <1>8, <1>10 DEF longer
<1>12. Promise!Change(v)
  BY <1>11 DEF Promise!Change
<1>13. ref[v] # Null
  BY <1>1 DEF d
<1> QED BY <1>1, <1>2, <1>10, <1>12, <1>13, ChangeMaps, LegibleKept

\* The cells of an array, and the elements among them.
LEMMA ArrayCellsOf ==
    ASSUME Inv, Legible, NEW v \in Arrays, ref[v] # Null
    PROVE  LET a == ref[v] IN
           /\ a \in Nat /\ {a, a + 1} \subseteq ArrayAt(heap, a)
           /\ ArrayAt(heap, a) = ObjectAt(heap, ref, v)
           /\ ArrayAt(heap, a) \subseteq DOMAIN heap.mem \intersect Int
           /\ 0 .. heap.pos - 1 \subseteq DOMAIN heap.mem \intersect Int
           /\ \A k \in 1 .. DaCap(a) : a + HeaderSize + k - 1 \in ArrayAt(heap, a)
           /\ \A k \in 1 .. DaLen(a) : Elements(a)[k] = heap.mem[a + HeaderSize + k - 1]
<1> DEFINE a == ref[v]
<1>1. Placed(heap, ref) /\ v \in Handles /\ v \notin Strings /\ DaCap(a) \in Nat \ {0}
  BY ElementsAre
<1>2. ArrayAt(heap, a) = ObjectAt(heap, ref, v)
  BY <1>1 DEF ObjectAt
<1>3. /\ a \in Nat /\ {a, a + 1} \subseteq ObjectAt(heap, ref, v)
      /\ ObjectAt(heap, ref, v) \subseteq 0 .. heap.pos - 1
  BY <1>1, ObjectIn
<1>4. 0 .. heap.pos - 1 \subseteq DOMAIN heap.mem \intersect Int
  BY <1>1, HeaderBelow
<1>5. ASSUME NEW k \in 1 .. DaCap(a) PROVE a + HeaderSize + k - 1 \in ArrayAt(heap, a)
  BY <1>1, <1>3 DEF ArrayAt, DaCap, HeaderSize
<1>6. \A k \in 1 .. DaLen(a) : Elements(a)[k] = heap.mem[a + HeaderSize + k - 1]
  BY DEF Elements, Cells
<1> QED BY <1>2, <1>3, <1>4, <1>5, <1>6

\* A step in place that leaves an array with the elements s.
LEMMA RefilledMaps ==
    ASSUME Inv, Legible, Inv', NEW v \in Arrays, ref[v] # Null, UNCHANGED <<ref, temp, disk>>,
           heap'.pos = heap.pos,
           \A c \in 0 .. heap.pos - 1 : c \notin ArrayAt(heap, ref[v]) => heap'.mem[c] = heap.mem[c],
           NEW s, ElementsOf(heap', ref[v]) = s
    PROVE  Promise!Set(v, s) /\ Legible'
<1>1. /\ Placed(heap, ref) /\ Placed(heap', ref') /\ v \in Handles /\ v \notin Strings
      /\ ArrayAt(heap, ref[v]) = ObjectAt(heap, ref, v) /\ heap.pos \in Int
  <2>1. Placed(heap, ref) /\ v \in Handles /\ v \notin Strings BY ElementsAre
  <2>2. Placed(heap', ref') BY DEF Inv
  <2>3. ArrayAt(heap, ref[v]) = ObjectAt(heap, ref, v) BY <2>1 DEF ObjectAt
  <2>4. heap.pos \in Int BY <2>1 DEF Placed, HeapInv
  <2> QED BY <2>1, <2>2, <2>3, <2>4
<1>2. Writes(v)
  BY <1>1 DEF Writes
<1>3. ValueOf(heap', ref', v) = s
  BY <1>1 DEF ValueOf
<1>4. /\ Promise!Set(v, ValueOf(heap', ref', v)) /\ (Base <= heap.pos => Base <= heap'.pos)
      /\ NoZeros(heap, ref) /\ (v \in Strings => NoZero(ValueOf(heap', ref', v))) => NoZeros(heap', ref')
  BY <1>1, <1>2, WritesOne
<1> QED BY <1>1, <1>3, <1>4, LegibleKept

\* Shortening an array.
LEMMA SetLenMaps ==
    ASSUME Inv, Legible, NEW v \in Arrays, ref[v] # Null, NEW len \in 0 .. DaLen(ref[v]),
           heap' = SetLen(ref[v], len), UNCHANGED <<ref, temp, disk>>
    PROVE  Promise!Set(v, SubSeq(Elements(ref[v]), 1, len)) /\ Legible'
<1> DEFINE a == ref[v]
           s == Elements(a)
<1>1. /\ Placed(heap, ref) /\ IsSequence(s) /\ Len(s) = DaLen(a)
      /\ DaCap(a) \in Nat \ {0} /\ DaLen(a) \in 0 .. DaCap(a)
  BY ElementsAre
<1>2. /\ a \in Nat /\ {a, a + 1} \subseteq ArrayAt(heap, a)
      /\ ArrayAt(heap, a) \subseteq DOMAIN heap.mem \intersect Int
      /\ 0 .. heap.pos - 1 \subseteq DOMAIN heap.mem \intersect Int
      /\ \A k \in 1 .. DaCap(a) : a + HeaderSize + k - 1 \in ArrayAt(heap, a)
      /\ \A k \in 1 .. DaLen(a) : s[k] = heap.mem[a + HeaderSize + k - 1]
  BY ArrayCellsOf
<1>3. /\ heap'.pos = heap.pos
      /\ \A c \in DOMAIN heap.mem \intersect Int : heap'.mem[c] = IF c = a + 1 THEN len ELSE heap.mem[c]
  BY <1>1, SetLenIs
<1>4. Inv'
  <2>1. len \in 0 .. DaCap(a) BY <1>1
  <2> QED BY <2>1, SetLenStep
<1>5. \A c \in 0 .. heap.pos - 1 : c \notin ArrayAt(heap, a) => heap'.mem[c] = heap.mem[c]
  BY <1>2, <1>3
<1> HIDE DEF s
<1>6. 1 \in 1 .. Len(s) + 1 /\ len \in 0 .. Len(s) /\ 1 <= len + 1 /\ len - 1 + 1 = len
  BY <1>1
<1>7. SubSeq(s, 1, len) = [k \in 1 .. len |-> s[1 + k - 1]]
  BY <1>1, <1>6, PartIs
<1>8. ASSUME NEW k \in 1 .. len PROVE heap'.mem[a + HeaderSize + k - 1] = s[1 + k - 1]
  <2>1. k \in 1 .. DaCap(a) /\ k \in 1 .. DaLen(a) /\ 1 + k - 1 = k BY <1>1
  <2>2. a + HeaderSize + k - 1 # a + 1 BY <1>2 DEF HeaderSize
  <2> QED BY <1>2, <1>3, <2>1, <2>2
<1>9. heap'.mem[a + 1] = len
  BY <1>2, <1>3
<1>10. ElementsOf(heap', a) = SubSeq(s, 1, len)
  BY <1>7, <1>8, <1>9 DEF ElementsOf
<1> QED BY <1>3, <1>4, <1>5, <1>10, RefilledMaps DEF s

\* Taking the last element, or all.
LEMMA PopMaps ==
    ASSUME Inv, Legible, NEW v \in Arrays, da_pop(v) \/ da_clear(v)
    PROVE  Maps /\ Legible'
<1> DEFINE s == Elements(ref[v])
<1>1. ref[v] # Null /\ UNCHANGED <<ref, temp, disk>>
  BY DEF da_pop, da_clear
<1>2. /\ IsSequence(s) /\ Len(s) = DaLen(ref[v]) /\ DaLen(ref[v]) \in Nat /\ v \in Handles
      /\ Promise!Value(v) = s
  BY <1>1, ElementsAre
<1> HIDE DEF s
<1>3. CASE da_pop(v)
  <2>1. DaLen(ref[v]) > 0 /\ heap' = SetLen(ref[v], DaLen(ref[v]) - 1) BY <1>3 DEF da_pop
  <2>2. DaLen(ref[v]) - 1 \in 0 .. DaLen(ref[v]) BY <1>2, <2>1
  <2>3. Promise!Set(v, SubSeq(s, 1, DaLen(ref[v]) - 1)) /\ Legible'
    BY <1>1, <2>1, <2>2, SetLenMaps DEF s
  <2>4. s # <<>> /\ Promise!Front(s) = SubSeq(s, 1, DaLen(ref[v]) - 1)
    BY <1>2, <2>1 DEF Promise!Front
  <2>5. Promise!Value(v) # <<>> /\ Promise!Set(v, Promise!Front(Promise!Value(v))) BY <1>2, <2>3, <2>4
  <2>6. Promise!Change(v) BY ONLY <2>5 DEF Promise!Change
  <2> QED BY <1>1, <1>2, <2>3, <2>6, ChangeMaps
<1>4. CASE da_clear(v)
  <2>1. heap' = SetLen(ref[v], 0) BY <1>4 DEF da_clear
  <2>2. 0 \in 0 .. DaLen(ref[v]) BY <1>2
  <2>3. Promise!Set(v, SubSeq(s, 1, 0)) /\ Legible'
    BY <1>1, <2>1, <2>2, SetLenMaps DEF s
  <2>4. SubSeq(s, 1, 0) = <<>>
    <3>1. 1 \in 1 .. Len(s) + 1 /\ 1 - 1 = 0 BY <1>2
    <3> QED BY <1>2, <3>1, EmptyPart
  <2>5. Promise!Change(v) BY <2>3, <2>4 DEF Promise!Change
  <2> QED BY <1>1, <1>2, <2>3, <2>5, ChangeMaps
<1> QED BY <1>3, <1>4

\* Appending to an array that has room.
LEMMA AppendInPlaceMaps ==
    ASSUME Inv, Legible, NEW v \in Arrays, NEW item \in Items, AppendInPlace(v, item)
    PROVE  Maps /\ Legible'
<1> DEFINE a == ref[v]
           len == DaLen(a)
           at == a + HeaderSize + len
           one == <<item>>
           h1 == SetLen(a, len + 1)
           s == Elements(a)
<1>1. /\ a # Null /\ Placed(heap, ref) /\ IsSequence(s) /\ Len(s) = len /\ v \in Handles
      /\ DaCap(a) \in Nat \ {0} /\ len \in Nat /\ len < DaCap(a) /\ Promise!Value(v) = s
  BY ElementsAre DEF AppendInPlace
<1>2. heap' = Put(h1, at, one) /\ UNCHANGED <<ref, temp, disk>> /\ Inv'
  BY AppendInPlaceStep DEF AppendInPlace
<1>3. /\ a \in Nat /\ {a, a + 1} \subseteq ArrayAt(heap, a)
      /\ ArrayAt(heap, a) \subseteq DOMAIN heap.mem \intersect Int
      /\ 0 .. heap.pos - 1 \subseteq DOMAIN heap.mem \intersect Int
      /\ \A k \in 1 .. DaCap(a) : a + HeaderSize + k - 1 \in ArrayAt(heap, a)
      /\ \A k \in 1 .. len : s[k] = heap.mem[a + HeaderSize + k - 1]
  BY <1>1, ArrayCellsOf
<1>4. /\ IsHeap(h1) /\ h1.pos = heap.pos /\ DOMAIN h1.mem = DOMAIN heap.mem
      /\ \A c \in DOMAIN heap.mem \intersect Int :
             h1.mem[c] = IF c = a + 1 THEN len + 1 ELSE heap.mem[c]
  BY <1>1, SetLenIs
<1> HIDE DEF h1
<1>5. at \in Int /\ at # a /\ at # a + 1 /\ at = a + HeaderSize + (len + 1) - 1 /\ at \in ArrayAt(heap, a)
  <2>1. len + 1 \in 1 .. DaCap(a) BY <1>1
  <2>2. at = a + HeaderSize + (len + 1) - 1 /\ at \in Int /\ at # a /\ at # a + 1
    BY <1>1, <1>3 DEF HeaderSize
  <2> HIDE DEF at
  <2> QED BY <1>3, <2>1, <2>2
<1> HIDE DEF at, len, s
<1>6. \A c \in DOMAIN h1.mem \intersect Int : heap'.mem[c] = IF c = at THEN item ELSE h1.mem[c]
  BY <1>2, <1>4, <1>5, PutOne
<1> HIDE DEF one
<1>7. heap'.pos = heap.pos
  <2>1. Put(h1, at, one) = [pos |-> h1.pos, mem |-> Put(h1, at, one).mem, blocks |-> h1.blocks]
    BY <1>4, PutIs
  <2> QED BY <1>2, <1>4, <2>1
<1>8. \A c \in DOMAIN heap.mem \intersect Int :
          heap'.mem[c] = IF c = at THEN item ELSE IF c = a + 1 THEN len + 1 ELSE heap.mem[c]
  BY <1>4, <1>6
<1>9. \A c \in 0 .. heap.pos - 1 : c \notin ArrayAt(heap, a) => heap'.mem[c] = heap.mem[c]
  BY <1>3, <1>5, <1>8
<1>10. heap'.mem[a + 1] = len + 1
  BY <1>3, <1>5, <1>8
<1>11. ASSUME NEW k \in 1 .. len + 1
       PROVE  heap'.mem[a + HeaderSize + k - 1] = IF k <= len THEN s[k] ELSE item
  <2>1. k \in 1 .. DaCap(a) BY <1>1
  <2>2. CASE k <= len
    <3>1. k \in 1 .. len BY <1>1, <2>2
    <3>2. a + HeaderSize + k - 1 # a + 1 /\ a + HeaderSize + k - 1 # at
      BY <1>1, <1>3, <2>2 DEF at, HeaderSize
    <3> QED BY <1>3, <1>8, <2>1, <2>2, <3>1, <3>2
  <2>3. CASE ~ (k <= len)
    <3>1. k = len + 1 BY <1>1, <2>3
    <3>2. a + HeaderSize + k - 1 = at BY <1>5, <3>1
    <3>3. at \in DOMAIN heap.mem \intersect Int BY <1>3, <1>5
    <3> QED BY <1>8, <2>3, <3>2, <3>3
  <2> QED BY <2>2, <2>3
<1>12. Append(s, item) = [k \in 1 .. len + 1 |-> IF k <= len THEN s[k] ELSE item]
  BY <1>1, AppendIs
<1>13. ElementsOf(heap', a) = Append(s, item)
  BY <1>10, <1>11, <1>12 DEF ElementsOf
<1>14. Promise!Set(v, Append(s, item)) /\ Legible'
  BY <1>1, <1>2, <1>7, <1>9, <1>13, RefilledMaps
<1>15. Promise!Change(v)
  BY <1>1, <1>14 DEF Promise!Change
<1> QED BY <1>1, <1>2, <1>14, <1>15, ChangeMaps

-----------------------------------------------------------------------------
(* The arena. *)

\* Opening a temp arena.
LEMMA TempNewMaps ==
    ASSUME Inv, Legible, temp_arena_new
    PROVE  Maps /\ Legible'
<1>1. temp' = heap.pos /\ heap' = heap /\ ref' = ref /\ disk' = disk /\ Placed(heap, ref)
  BY DEF Inv, temp_arena_new
<1>2. Values' = Values
  BY <1>1, ValuesAre
<1>3. Legible'
  BY <1>1, LegibleIs DEF DiskLegible
<1> QED BY <1>1, <1>2, <1>3 DEF Maps

\* Rolling back: the objects that are left keep their values.
LEMMA RollBackMaps ==
    ASSUME Inv, Legible, NEW target \in Nat, target < heap.pos, Base <= target, RollBack(target)
    PROVE  Maps /\ Legible'
<1> DEFINE left == {b \in heap.blocks : b.to <= target}
<1>1. /\ heap'.pos = target /\ temp' = 0 /\ disk' = disk
      /\ \A c \in DOMAIN heap.mem : c < target => heap'.mem[c] = heap.mem[c]
  BY DEF RollBack
<1>2. /\ ref' = [x \in Handles |-> ref'[x]] /\ \A x \in Handles : ref'[x] \in {Null, ref[x]}
  BY DEF RollBack
<1>3. Placed(heap, ref) /\ Placed(heap', ref')
  BY RollBackStep DEF Inv
<1>4. \A c \in 0 .. target - 1 : heap'.mem[c] = heap.mem[c]
  <2>1. DOMAIN heap.mem = 0 .. Reserved - 1 /\ heap.pos \in 0 .. Reserved - 1 /\ Reserved \in Int
    BY <1>3, BuffersAssumption DEF Placed, HeapInv, BuffersAssumption
  <2>2. ASSUME NEW c \in 0 .. target - 1 PROVE c \in DOMAIN heap.mem /\ c < target BY <2>1
  <2> QED BY <1>1, <2>2
<1>5. AllKept(heap, ref, heap', ref')
  <2>1. SUFFICES ASSUME NEW x \in Handles, ref'[x] # Null
                 PROVE  ref'[x] = ref[x] /\ \A c \in ObjectAt(heap, ref, x) : heap'.mem[c] = heap.mem[c]
    BY DEF AllKept
  <2>2. ref'[x] = ref[x] BY <1>2, <2>1
  <2>3. /\ {ref'[x], ref'[x] + 1} \subseteq ObjectAt(heap', ref', x)
        /\ ObjectAt(heap', ref', x) \subseteq 0 .. heap'.pos - 1
    BY <1>3, <2>1, ObjectIn
  <2>4. {ref[x], ref[x] + 1} \subseteq 0 .. target - 1 BY <1>1, <2>2, <2>3
  <2>5. SameHeader(heap, heap', ref[x]) BY <1>4, <2>4 DEF SameHeader
  <2>6. ObjectAt(heap', ref', x) = ObjectAt(heap, ref, x) BY <2>2, <2>5, ObjectKept
  <2>7. ObjectAt(heap, ref, x) \subseteq 0 .. target - 1 BY <1>1, <2>3, <2>6
  <2> QED BY <1>4, <2>2, <2>7
<1>6. /\ Values' = [i \in Promise!Referred(ref') |-> Values[i]]
      /\ NoZeros(heap, ref) => NoZeros(heap', ref')
      /\ ref' = ref => Values' = Values
  BY <1>3, <1>5, KeepsValues
<1>7. Legible'
  BY <1>1, <1>6, LegibleIs DEF DiskLegible
<1>8. Maps
  <2>1. CASE Handles = {}
    <3>1. ref = [x \in Handles |-> ref[x]] BY <1>3 DEF Placed
    <3>2. ref' = ref BY <1>2, <2>1, <3>1
    <3> QED BY <1>1, <1>6, <3>2 DEF Maps
  <2>2. CASE Handles # {}
    <3> DEFINE S == {x \in Handles : ref'[x] = Null}
    <3>1. ref' = [x \in Handles |-> IF x \in S THEN Null ELSE ref[x]] BY <1>2
    <3>2. S \in SUBSET Handles OBVIOUS
    <3> HIDE DEF S
    <3>3. Promise!Drop(S) BY <1>6, <3>1 DEF Promise!Drop
    <3> QED BY <1>1, <2>2, <3>2, <3>3 DEF Maps, Promise!Next
  <2> QED BY <2>1, <2>2
<1> QED BY <1>7, <1>8

-----------------------------------------------------------------------------
(* The refinement. *)

\* Nothing has a value at first.
LEMMA InitMaps ==
    ASSUME Init
    PROVE  Promise!Init /\ Legible
<1>1. /\ heap.pos = Base /\ ref = [h \in Handles |-> Null] /\ temp = 0 /\ disk = <<>>
  BY DEF Init
<1>2. LiveIn(ref) = {}
  BY <1>1 DEF LiveIn
<1>3. Values = <<>>
  BY <1>2, ValuesAre DEF ValuesOf
<1>4. \A x \in Strings : ref[x] = Null
  BY <1>1 DEF Handles
<1>5. Base <= heap.pos
  BY <1>1, LayoutAssumption DEF LayoutAssumption
<1>6. Legible
  BY <1>1, <1>4, <1>5 DEF Legible
<1> QED BY <1>1, <1>3, <1>6 DEF Promise!Init

\* Every call is a step of Objects, or changes nothing that Objects has.
LEMMA NextMaps ==
    ASSUME SpareOnly, NoZeroInTexts, Inv, Legible, [Next]_vars
    PROVE  Maps /\ Legible'
<1>1. CASE StringCalls
  <2>1. PICK v \in Strings :
            \/ \E text \in Texts : string_from_cstr(v, text)
            \/ \E text \in Texts \union {<<>>} : string_concatf(v, text)
            \/ string_trim_left(v) \/ string_trim_right(v) \/ string_trim(v) \/ string_to_cstr(v)
            \/ \E w \in Strings : string_dup(v, w) \/ string_concat(v, w) \/ Assign(v, w)
    BY <1>1 DEF StringCalls
  <2>2. CASE \E text \in Texts : string_from_cstr(v, text) BY <2>2, FromCstrMaps
  <2>3. CASE \E text \in Texts \union {<<>>} : string_concatf(v, text) BY <2>3, ConcatfMaps
  <2>4. CASE string_trim_left(v) BY <2>4, TrimLeftMaps
  <2>5. CASE string_trim_right(v) BY <2>5, TrimRightMaps
  <2>6. CASE string_trim(v) BY <2>6, TrimMaps
  <2>7. CASE string_to_cstr(v) BY <2>7, ToCstrMaps
  <2>8. CASE \E w \in Strings : string_dup(v, w) BY <2>8, DupMaps
  <2>9. CASE \E w \in Strings : string_concat(v, w) BY <2>9, ConcatMaps
  <2>10. CASE \E w \in Strings : Assign(v, w) BY <2>10, AssignMaps DEF Handles
  <2> QED BY <2>1, <2>2, <2>3, <2>4, <2>5, <2>6, <2>7, <2>8, <2>9, <2>10
<1>2. CASE FileCalls
  <2>1. PICK v \in Strings, path \in Strings :
            \/ read_file(v, path) \/ write_to_file(path, v)
            \/ does_path_exist(path) \/ make_dir(path) \/ path_remove(path)
            \/ \E canonical \in Texts : path_canonical(v, path, canonical)
    BY <1>2 DEF FileCalls
  <2>2. CASE read_file(v, path) BY <2>2, ReadFileMaps
  <2>3. CASE write_to_file(path, v) BY <2>3, WriteFileMaps
  <2>4. CASE does_path_exist(path) BY <2>4, ToCstrMaps DEF does_path_exist
  <2>5. CASE make_dir(path) BY <2>5, MakeDirMaps
  <2>6. CASE path_remove(path) BY <2>6, RemoveMaps
  <2>7. CASE \E canonical \in Texts : path_canonical(v, path, canonical) BY <2>7, CanonicalMaps
  <2> QED BY <2>1, <2>2, <2>3, <2>4, <2>5, <2>6, <2>7
<1>3. CASE ArrayCalls
  <2>1. PICK v \in Arrays :
            \/ \E capacity \in Capacities : da_new(v, capacity)
            \/ \E item \in Items : AppendGrows(v, item) \/ AppendInPlace(v, item)
            \/ da_pop(v) \/ da_clear(v)
            \/ \E w \in Arrays : Assign(v, w)
    BY <1>3 DEF ArrayCalls
  <2>2. CASE \E capacity \in Capacities : da_new(v, capacity) BY <2>2, DaNewMaps
  <2>3. CASE \E item \in Items : AppendGrows(v, item) BY <2>3, AppendGrowsMaps
  <2>4. CASE \E item \in Items : AppendInPlace(v, item) BY <2>4, AppendInPlaceMaps
  <2>5. CASE da_pop(v) \/ da_clear(v) BY <2>5, PopMaps
  <2>6. CASE \E w \in Arrays : Assign(v, w)
    <3>1. \A w \in Arrays : w \in Handles /\ w \notin Strings
      BY BuffersAssumption DEF BuffersAssumption, Handles
    <3> QED BY <2>6, <3>1, AssignMaps
  <2> QED BY <2>1, <2>2, <2>3, <2>4, <2>5, <2>6
<1>4. CASE temp_arena_new
  BY <1>4, TempNewMaps
<1>5. CASE temp_arena_free
  BY <1>5, RollBackMaps DEF temp_arena_free, Inv, Legible
<1>6. CASE arena_clear
  <2>1. Base \in Nat /\ heap.pos > Base /\ RollBack(Base)
    BY <1>6, LayoutAssumption DEF arena_clear, LayoutAssumption
  <2>2. heap.pos \in Nat BY DEF Inv, Placed, HeapInv
  <2>3. Base < heap.pos /\ Base <= Base BY <2>1, <2>2
  <2> QED BY <2>1, <2>3, RollBackMaps
<1>7. CASE UNCHANGED vars
  <2>1. heap' = heap /\ ref' = ref /\ temp' = temp /\ disk' = disk BY <1>7 DEF vars
  <2>2. Values' = Values BY <2>1, ValuesAre
  <2>3. Legible' BY <2>1, LegibleIs DEF DiskLegible
  <2> QED BY <2>1, <2>2, <2>3 DEF Maps
<1> QED BY <1>1, <1>2, <1>3, <1>4, <1>5, <1>6, <1>7 DEF Next

\* Moved, trimmed, shared and rolled back as they are in memory, strings, arrays
\* and files behave as the objects of module Objects: a call changes the value
\* that it names and no other.
THEOREM ObjectsRefinement ==
    ASSUME SpareOnly, NoZeroInTexts
    PROVE  Spec => ImplementsObjects
<1>1. Init => Inv /\ Legible /\ Promise!Init
  BY InitEstablishes, InitMaps
<1>2. Inv /\ Legible /\ [Next]_vars => Inv' /\ Legible' /\ [Promise!Next]_<<ref, Values, disk>>
  BY NextPreserves, NextMaps DEF Maps
<1> QED BY <1>1, <1>2, PTL DEF Spec, ImplementsObjects, Promise!Spec
=============================================================================
