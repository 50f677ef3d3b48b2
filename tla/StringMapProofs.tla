-------------------------- MODULE StringMapProofs --------------------------
(***************************************************************************)
(* Proofs about StringMap, for every set of keys and values, every hash    *)
(* function and every capacity: the counters, the probe chains through     *)
(* insert, growth and kill, and the dictionary that the table implements.  *)
(***************************************************************************)
EXTENDS StringMap, Integers, TLAPS, FiniteSetTheorems

-----------------------------------------------------------------------------
(* Numbers: least elements, induction over a set, remainders.               *)

\* The order of the naturals, in the form in which the library's facts want it.
LEMMA NatWellFounded == IsWellFoundedOn({ss \in Nat \X Nat : ss[1] < ss[2]}, Nat)
BY NatLessThanWellFounded, Zenon DEF OpToRel

\* Every non-empty set of naturals has a least element.
LEMMA LeastNat ==
    ASSUME NEW S, S \subseteq Nat, S # {}
    PROVE  \E m \in S : \A n \in S : m <= n
<1> DEFINE R == {ss \in Nat \X Nat : ss[1] < ss[2]}
<1>1. PICK m \in S : \A n \in S : ~ (<<n, m>> \in R)
  <2> HIDE DEF R
  <2>1. IsWellFoundedOn(R, Nat) BY NatWellFounded DEF R
  <2> QED BY WFMin, <2>1
<1>2. ASSUME NEW n \in S, ~ (m <= n) PROVE FALSE
  <2>1. n \in Nat /\ m \in Nat /\ n < m BY <1>2
  <2>2. <<n, m>> \in R BY <2>1, SMT
  <2> QED BY <2>2, <1>1
<1> QED BY <1>2

\* Induction, with the set of the numbers for which the claim holds in place of
\* the claim.
LEMMA InductionSet ==
    ASSUME NEW S, 0 \in S, \A n \in Nat : n \in S => n + 1 \in S
    PROVE  Nat \subseteq S
<1> SUFFICES ASSUME NEW b \in Nat, b \notin S PROVE FALSE
  OBVIOUS
<1>1. PICK m \in Nat \ S : \A n \in Nat \ S : m <= n
  BY LeastNat
<1>2. m - 1 \in Nat /\ m - 1 \in S
  BY <1>1
<1> QED BY <1>1, <1>2

\* Division with remainder.
LEMMA DivMod ==
    ASSUME NEW a \in Nat, NEW p \in Nat \ {0}
    PROVE  /\ a \div p \in Nat
           /\ a % p \in 0 .. (p - 1)
           /\ a = p * (a \div p) + (a % p)
  OBVIOUS

\* The quotient and the remainder are the only ones.
LEMMA ModUnique ==
    ASSUME NEW q \in Nat, NEW p \in Nat \ {0}, NEW r \in 0 .. (p - 1)
    PROVE  (p * q + r) % p = r
  OBVIOUS

\* The indices of a table of n entries.
LEMMA Indices ==
    ASSUME NEW n \in Nat
    PROVE  IsFiniteSet(0 .. (n - 1)) /\ Cardinality(0 .. (n - 1)) = n
<1>1. 0 \in Int /\ n - 1 \in Int /\ (IF 0 > n - 1 THEN 0 ELSE (n - 1) - 0 + 1) = n
  OBVIOUS
<1> QED BY <1>1, FS_Interval

-----------------------------------------------------------------------------
(* Probing: the probe of a key visits every slot.                           *)

\* A probe stays inside the table (stringmap.c:149, :186).
LEMMA SlotInTable ==
    ASSUME StringMapAssumption, NEW k \in Keys, NEW cap \in Nat \ {0}, NEW i \in Nat
    PROVE  Slot(k, i, cap) \in 0 .. (cap - 1)
<1>1. hash_key[k] + i \in Nat BY DEF StringMapAssumption
<1> QED BY <1>1, DivMod DEF Slot

\* A probe of as many steps as there are slots reaches every slot.
LEMMA SlotReached ==
    ASSUME StringMapAssumption, NEW k \in Keys, NEW cap \in Nat \ {0},
           NEW s \in 0 .. (cap - 1)
    PROVE  \E i \in 0 .. (cap - 1) : Slot(k, i, cap) = s
<1> DEFINE h == hash_key[k]
           q == h \div cap
           r == h % cap
<1>1. h \in Nat BY DEF StringMapAssumption
<1>2. q \in Nat /\ r \in 0 .. (cap - 1) /\ h = cap * q + r
  BY <1>1, DivMod
<1> HIDE DEF q, r
<1>3. CASE r <= s
  <2>1. s - r \in 0 .. (cap - 1) /\ h + (s - r) = cap * q + s
    BY <1>2, <1>3
  <2>2. Slot(k, s - r, cap) = s
    BY <1>2, <2>1, ModUnique DEF Slot
  <2> QED BY <2>1, <2>2
<1>4. CASE s < r
  <2>1. s - r + cap \in 0 .. (cap - 1)
    BY <1>2, <1>4
  <2>2. h + (s - r + cap) = cap * (q + 1) + s
    BY <1>2
  <2>3. Slot(k, s - r + cap, cap) = s
    <3>1. q + 1 \in Nat BY <1>2
    <3>2. (cap * (q + 1) + s) % cap = s BY <3>1, ModUnique
    <3> QED BY <3>2, <2>2 DEF Slot
  <2> QED BY <2>1, <2>3
<1> QED BY <1>2, <1>3, <1>4

\* A probe that can stop does, in the table, and where it first can.
LEMMA FirstStop ==
    ASSUME StringMapAssumption, NEW k \in Keys, NEW cap \in Nat \ {0}, NEW stop,
           \E s \in stop : s \in 0 .. (cap - 1)
    PROVE  LET p == Passed(cap, k, stop)
           IN  /\ p \in 0 .. (cap - 1)
               /\ Probe(cap, k, stop) = Slot(k, p, cap)
               /\ Slot(k, p, cap) \in stop
               /\ Slot(k, p, cap) \in 0 .. (cap - 1)
               /\ \A j \in 0 .. (p - 1) : Slot(k, j, cap) \notin stop
<1> DEFINE S == {i \in 0 .. (cap - 1) : Slot(k, i, cap) \in stop}
<1>1. S # {} /\ S \subseteq Nat
  <2>1. PICK s \in stop : s \in 0 .. (cap - 1) OBVIOUS
  <2>2. PICK i \in 0 .. (cap - 1) : Slot(k, i, cap) = s BY <2>1, SlotReached
  <2> QED BY <2>1, <2>2
<1>2. PICK m \in S : \A n \in S : m <= n
  <2> HIDE DEF S
  <2> QED BY <1>1, LeastNat
<1>3. /\ m \in 0 .. (cap - 1) /\ Slot(k, m, cap) \in stop
      /\ \A j \in 0 .. (m - 1) : Slot(k, j, cap) \notin stop
  BY <1>2
<1> DEFINE p == Passed(cap, k, stop)
<1>4. /\ p \in 0 .. (cap - 1) /\ Slot(k, p, cap) \in stop
      /\ \A j \in 0 .. (p - 1) : Slot(k, j, cap) \notin stop
  BY <1>3, Zenon DEF Passed
<1>5. Slot(k, p, cap) \in 0 .. (cap - 1)
  BY <1>4, SlotInTable
<1>6. Probe(cap, k, stop) = Slot(k, p, cap) BY DEF Probe
<1> QED BY <1>4, <1>5, <1>6

-----------------------------------------------------------------------------
(* Tables: the entries of a map of capacity cap, those of sm_grow() included. *)

\* Only occupied entries have a key and a value.
Sound(table, cap) ==
    /\ cap \in Nat \ {0}
    /\ table \in [0 .. (cap - 1) -> EntryType]
    /\ \A i \in 0 .. (cap - 1) :
          /\ table[i].state = "OCCUPIED" => table[i].key \in Keys /\ table[i].value \in Values
          /\ table[i].state # "OCCUPIED" => table[i].value = Null

\* ProbeChain, of any table.
Chained(table, cap) ==
    \A i \in InState(table, "OCCUPIED") :
        /\ Holding(table, table[i].key) = {i}
        /\ \A j \in 0 .. (cap - 1) :
              Slot(table[i].key, j, cap) \in InState(table, "EMPTY") =>
                  \E h \in 0 .. j : Slot(table[i].key, h, cap) = i

\* The value that a table holds for a key.
ValueOf(table, k) ==
    IF Holding(table, k) = {} THEN Null
    ELSE table[CHOOSE i \in Holding(table, k) : TRUE].value

\* A table with one entry written.
Written(table, s, entry) == [table EXCEPT ![s] = entry]

\* A slot that is not occupied, and that the probe of k reaches before any empty one.
Vacant(table, cap, k, s) ==
    /\ s \in 0 .. (cap - 1) /\ table[s].state # "OCCUPIED"
    /\ \E p \in 0 .. (cap - 1) :
          /\ Slot(k, p, cap) = s
          /\ \A j \in 0 .. (p - 1) : Slot(k, j, cap) \notin InState(table, "EMPTY")

\* A key is held by one slot, the one whose entry counts for it.
LEMMA HeldOnce ==
    ASSUME NEW table, NEW cap, Sound(table, cap), Chained(table, cap),
           NEW k \in Keys, NEW i \in Holding(table, k)
    PROVE  /\ i \in 0 .. (cap - 1) /\ table[i].state = "OCCUPIED" /\ table[i].key = k
           /\ Holding(table, k) = {i}
           /\ ValueOf(table, k) = table[i].value /\ ValueOf(table, k) \in Values
<1>1. /\ i \in DOMAIN table /\ table[i].state = "OCCUPIED" /\ table[i].key = k
  BY DEF Holding, InState
<1>2. i \in 0 .. (cap - 1) /\ table[i].value \in Values
  BY <1>1 DEF Sound
<1>3. Holding(table, k) = {i}
  BY <1>1 DEF Chained, InState
<1>4. (CHOOSE j \in Holding(table, k) : TRUE) = i
  BY <1>3
<1> QED BY <1>1, <1>2, <1>3, <1>4 DEF ValueOf

\* A probe that may stop at the empty slots ends at its key if the table holds
\* the key, and else at a slot that is not occupied.
LEMMA ProbeFinds ==
    ASSUME StringMapAssumption, NEW table, NEW cap, Sound(table, cap),
           Chained(table, cap), InState(table, "EMPTY") # {}, NEW k \in Keys
    PROVE  LET end == Probe(cap, k, InsertStop(table, k))
           IN  /\ end \in 0 .. (cap - 1)
               /\ Holding(table, k) # {} => end \in Holding(table, k)
               /\ Holding(table, k) = {} => table[end].state = "EMPTY"
<1> DEFINE stop == InsertStop(table, k)
           p == Passed(cap, k, stop)
<1>1. cap \in Nat \ {0} /\ DOMAIN table = 0 .. (cap - 1)
  BY DEF Sound
<1>2. \E s \in stop : s \in 0 .. (cap - 1)
  BY <1>1 DEF InsertStop, InState
<1>3. /\ p \in 0 .. (cap - 1)
      /\ Probe(cap, k, stop) = Slot(k, p, cap)
      /\ Slot(k, p, cap) \in stop
      /\ Slot(k, p, cap) \in 0 .. (cap - 1)
      /\ \A j \in 0 .. (p - 1) : Slot(k, j, cap) \notin stop
  BY <1>1, <1>2, FirstStop
<1> HIDE DEF p
<1>4. CASE Holding(table, k) = {}
  BY <1>3, <1>4 DEF InsertStop, InState
<1>5. CASE Holding(table, k) # {}
  <2>1. PICK i \in Holding(table, k) : TRUE BY <1>5
  <2>2. /\ Holding(table, k) = {i} /\ i \in InState(table, "OCCUPIED")
        /\ table[i].key = k
    BY <2>1, HeldOnce DEF Holding
  <2>3. CASE Slot(k, p, cap) \in InState(table, "EMPTY")
    <3>1. PICK h \in 0 .. p : Slot(k, h, cap) = i
      BY <2>2, <2>3, <1>3 DEF Chained
    <3>2. Slot(k, p, cap) # i
      BY <2>2, <2>3 DEF InState
    <3>3. h \in 0 .. (p - 1) BY <3>1, <3>2, <1>3
    <3>4. i \in stop BY <2>1 DEF InsertStop
    <3> QED BY <3>1, <3>3, <3>4, <1>3
  <2>4. CASE Slot(k, p, cap) \in Holding(table, k)
    BY <2>4, <1>3, <1>5
  <2> QED BY <2>3, <2>4, <1>3 DEF InsertStop
<1> QED BY <1>4, <1>5

\* A new key goes to a slot that is not occupied and that its probe reaches
\* before any empty one: the first tombstone, or the empty slot itself.
LEMMA NewSlotBeforeEmpty ==
    ASSUME StringMapAssumption, NEW table, NEW cap, Sound(table, cap),
           InState(table, "EMPTY") # {}, NEW k \in Keys
    PROVE  Vacant(table, cap, k, NewSlot(table, cap, k))
<1> DEFINE empty == InState(table, "EMPTY")
           e == Passed(cap, k, empty)
           tombstones == InState(table, "DEAD") \intersect {Slot(k, i, cap) : i \in 0 .. e}
           t == Passed(cap, k, tombstones)
<1>1. cap \in Nat \ {0} /\ DOMAIN table = 0 .. (cap - 1)
  BY DEF Sound
<1>2. \E s \in empty : s \in 0 .. (cap - 1)
  BY <1>1 DEF InState
<1>3. /\ e \in 0 .. (cap - 1)
      /\ Probe(cap, k, empty) = Slot(k, e, cap)
      /\ Slot(k, e, cap) \in empty
      /\ Slot(k, e, cap) \in 0 .. (cap - 1)
      /\ \A j \in 0 .. (e - 1) : Slot(k, j, cap) \notin empty
  BY <1>1, <1>2, FirstStop
<1>4. NewSlot(table, cap, k) =
        Probe(cap, k, IF tombstones = {} THEN empty ELSE tombstones)
  BY DEF NewSlot
<1> HIDE DEF e
<1>5. CASE tombstones = {}
  <2>1. NewSlot(table, cap, k) = Slot(k, e, cap) BY <1>3, <1>4, <1>5
  <2> QED BY <2>1, <1>3 DEF InState, Vacant
<1>6. CASE tombstones # {}
  <2>1. PICK i \in 0 .. e : Slot(k, i, cap) \in tombstones
    BY <1>6
  <2>2. \E s \in tombstones : s \in 0 .. (cap - 1)
    BY <1>1, <1>6 DEF InState
  <2> HIDE DEF tombstones
  <2>3. /\ t \in 0 .. (cap - 1)
        /\ Probe(cap, k, tombstones) = Slot(k, t, cap)
        /\ Slot(k, t, cap) \in tombstones
        /\ Slot(k, t, cap) \in 0 .. (cap - 1)
        /\ \A j \in 0 .. (t - 1) : Slot(k, j, cap) \notin tombstones
    BY <1>1, <2>2, FirstStop
  <2> HIDE DEF t
  <2>4. t <= i BY <2>1, <2>3, <1>3
  <2>5. \A j \in 0 .. (t - 1) : Slot(k, j, cap) \notin empty
    BY <2>1, <2>3, <2>4, <1>3
  <2>6. NewSlot(table, cap, k) = Slot(k, t, cap)
    BY <2>3, <1>4, <1>6
  <2>7. table[Slot(k, t, cap)].state = "DEAD"
    BY <2>3 DEF tombstones, InState
  <2> QED BY <2>3, <2>5, <2>6, <2>7 DEF Vacant
<1> QED BY <1>5, <1>6

-----------------------------------------------------------------------------
(* One entry written: a new key, an update, a kill.                         *)

\* A new key on a slot that its probe reaches before any empty one keeps every
\* chain, its own included, and the values of the other keys.
LEMMA PlaceNew ==
    ASSUME NEW table, NEW cap, Sound(table, cap), Chained(table, cap),
           NEW k \in Keys, Holding(table, k) = {},
           NEW s, Vacant(table, cap, k, s), NEW entry \in EntryType,
           entry.state = "OCCUPIED", entry.key = k, entry.value \in Values
    PROVE  LET new == Written(table, s, entry)
           IN  /\ Sound(new, cap) /\ Chained(new, cap)
               /\ InState(new, "OCCUPIED") = InState(table, "OCCUPIED") \union {s}
               /\ InState(new, "DEAD") = InState(table, "DEAD") \ {s}
               /\ \A l \in Keys : Holding(new, l) = IF l = k THEN {s} ELSE Holding(table, l)
               /\ \A l \in Keys :
                     ValueOf(new, l) = IF l = k THEN entry.value ELSE ValueOf(table, l)
<1> DEFINE new == Written(table, s, entry)
<1>0. PICK p \in 0 .. (cap - 1) :
        /\ Slot(k, p, cap) = s
        /\ \A j \in 0 .. (p - 1) : Slot(k, j, cap) \notin InState(table, "EMPTY")
  BY DEF Vacant
<1>1. /\ cap \in Nat \ {0} /\ DOMAIN table = 0 .. (cap - 1) /\ DOMAIN new = 0 .. (cap - 1)
      /\ new[s] = entry /\ \A i \in 0 .. (cap - 1) : i # s => new[i] = table[i]
      /\ s \in 0 .. (cap - 1) /\ table[s].state # "OCCUPIED"
  BY DEF Sound, Vacant, Written
<1>2. new \in [0 .. (cap - 1) -> EntryType]
  BY DEF Sound, Written
<1> HIDE DEF new
<1>3. Sound(new, cap)
  BY <1>1, <1>2 DEF Sound
<1>4. /\ InState(new, "OCCUPIED") = InState(table, "OCCUPIED") \union {s}
      /\ InState(new, "DEAD") = InState(table, "DEAD") \ {s}
      /\ InState(new, "EMPTY") = InState(table, "EMPTY") \ {s}
      /\ s \notin InState(table, "OCCUPIED")
  BY <1>1 DEF InState
<1>5. \A l : Holding(new, l) = IF l = k THEN {s} ELSE Holding(table, l)
  BY <1>1, <1>4 DEF Holding, InState
<1>6. ASSUME NEW i \in InState(new, "OCCUPIED")
      PROVE  /\ Holding(new, new[i].key) = {i}
             /\ \A j \in 0 .. (cap - 1) :
                   Slot(new[i].key, j, cap) \in InState(new, "EMPTY") =>
                       \E h \in 0 .. j : Slot(new[i].key, h, cap) = i
  <2>1. CASE i = s
    <3>1. new[i].key = k /\ Holding(new, k) = {s} BY <2>1, <1>1, <1>5
    <3>2. ASSUME NEW j \in 0 .. (cap - 1), Slot(k, j, cap) \in InState(new, "EMPTY")
          PROVE  p \in 0 .. j
      <4>1. ~ (j \in 0 .. (p - 1)) BY <3>2, <1>0, <1>4
      <4> QED BY <4>1, <3>2
    <3> QED BY <3>1, <3>2, <2>1, <1>0
  <2>2. CASE i # s
    <3>1. i \in InState(table, "OCCUPIED") /\ new[i] = table[i]
      BY <2>2, <1>1, <1>4, <1>6 DEF InState
    <3>2. table[i].key # k
      BY <3>1 DEF Holding
    <3> QED BY <3>1, <3>2, <1>4, <1>5 DEF Chained
  <2> QED BY <2>1, <2>2
<1>7. Chained(new, cap)
  BY <1>6 DEF Chained
<1>8. ASSUME NEW l \in Keys
      PROVE  ValueOf(new, l) = IF l = k THEN entry.value ELSE ValueOf(table, l)
  <2>1. CASE l = k
    <3>1. Holding(new, l) = {s} BY <2>1, <1>5
    <3>2. (CHOOSE i \in Holding(new, l) : TRUE) = s BY <3>1
    <3> QED BY <3>1, <3>2, <2>1, <1>1 DEF ValueOf
  <2>2. CASE l # k
    <3>1. Holding(new, l) = Holding(table, l) BY <2>2, <1>5
    <3>2. \A i \in Holding(table, l) : new[i] = table[i]
      BY <1>1, <1>4 DEF Holding, InState
    <3> QED BY <3>1, <3>2, <2>2 DEF ValueOf
  <2> QED BY <2>1, <2>2
<1> QED BY <1>3, <1>4, <1>5, <1>7, <1>8 DEF new

\* An update leaves the key and the state of its entry alone.
LEMMA UpdateEntry ==
    ASSUME NEW table, NEW cap, Sound(table, cap), Chained(table, cap),
           NEW k \in Keys, NEW s \in Holding(table, k),
           NEW entry \in EntryType,
           entry.state = "OCCUPIED", entry.key = k, entry.value \in Values
    PROVE  LET new == Written(table, s, entry)
           IN  /\ Sound(new, cap) /\ Chained(new, cap)
               /\ InState(new, "OCCUPIED") = InState(table, "OCCUPIED")
               /\ InState(new, "DEAD") = InState(table, "DEAD")
               /\ \A l \in Keys :
                     ValueOf(new, l) = IF l = k THEN entry.value ELSE ValueOf(table, l)
<1> DEFINE new == Written(table, s, entry)
<1>0. s \in 0 .. (cap - 1) /\ table[s].state = "OCCUPIED" /\ table[s].key = k
      /\ Holding(table, k) = {s}
  BY HeldOnce
<1>1. /\ cap \in Nat \ {0} /\ DOMAIN table = 0 .. (cap - 1) /\ DOMAIN new = 0 .. (cap - 1)
      /\ new[s] = entry /\ \A i \in 0 .. (cap - 1) : i # s => new[i] = table[i]
  BY <1>0 DEF Sound, Written
<1>2. new \in [0 .. (cap - 1) -> EntryType]
  BY DEF Sound, Written
<1> HIDE DEF new
<1>3. Sound(new, cap)
  BY <1>1, <1>2 DEF Sound
<1>4. /\ InState(new, "OCCUPIED") = InState(table, "OCCUPIED")
      /\ InState(new, "DEAD") = InState(table, "DEAD")
      /\ InState(new, "EMPTY") = InState(table, "EMPTY")
      /\ \A i \in 0 .. (cap - 1) : new[i].key = table[i].key
  BY <1>0, <1>1 DEF InState
<1>5. \A l : Holding(new, l) = Holding(table, l)
  BY <1>1, <1>4 DEF Holding, InState
<1>6. Chained(new, cap)
  <2>1. \A i \in InState(table, "OCCUPIED") : new[i].key = table[i].key
    BY <1>1, <1>4 DEF InState
  <2> QED BY <2>1, <1>4, <1>5 DEF Chained
<1>7. ASSUME NEW l \in Keys
      PROVE  ValueOf(new, l) = IF l = k THEN entry.value ELSE ValueOf(table, l)
  <2>1. CASE l = k
    <3>1. (CHOOSE i \in Holding(new, l) : TRUE) = s BY <2>1, <1>0, <1>5
    <3> QED BY <3>1, <2>1, <1>0, <1>1, <1>5 DEF ValueOf
  <2>2. CASE l # k
    <3>1. \A i \in Holding(table, l) : new[i] = table[i]
      BY <2>2, <1>0, <1>1 DEF Holding, InState
    <3>2. Holding(new, l) = Holding(table, l) BY <1>5
    <3> QED BY <3>1, <3>2, <2>2 DEF ValueOf
  <2> QED BY <2>1, <2>2
<1> QED BY <1>3, <1>4, <1>6, <1>7 DEF new

\* A tombstone keeps the chains that pass its slot.
LEMMA KillEntry ==
    ASSUME NEW table, NEW cap, Sound(table, cap), Chained(table, cap),
           NEW k \in Keys, NEW s \in Holding(table, k),
           NEW entry \in EntryType, entry.state = "DEAD", entry.value = Null
    PROVE  LET new == Written(table, s, entry)
           IN  /\ Sound(new, cap) /\ Chained(new, cap)
               /\ InState(new, "OCCUPIED") = InState(table, "OCCUPIED") \ {s}
               /\ InState(new, "DEAD") = InState(table, "DEAD") \union {s}
               /\ \A l \in Keys : ValueOf(new, l) = IF l = k THEN Null ELSE ValueOf(table, l)
<1> DEFINE new == Written(table, s, entry)
<1>0. s \in 0 .. (cap - 1) /\ table[s].state = "OCCUPIED" /\ table[s].key = k
      /\ Holding(table, k) = {s}
  BY HeldOnce
<1>1. /\ cap \in Nat \ {0} /\ DOMAIN table = 0 .. (cap - 1) /\ DOMAIN new = 0 .. (cap - 1)
      /\ new[s] = entry /\ \A i \in 0 .. (cap - 1) : i # s => new[i] = table[i]
  BY <1>0 DEF Sound, Written
<1>2. new \in [0 .. (cap - 1) -> EntryType]
  BY DEF Sound, Written
<1> HIDE DEF new
<1>3. Sound(new, cap)
  BY <1>1, <1>2 DEF Sound
<1>4. /\ InState(new, "OCCUPIED") = InState(table, "OCCUPIED") \ {s}
      /\ InState(new, "DEAD") = InState(table, "DEAD") \union {s}
      /\ InState(new, "EMPTY") = InState(table, "EMPTY")
  BY <1>0, <1>1 DEF InState
<1>5. \A l : Holding(new, l) = Holding(table, l) \ {s}
  BY <1>1, <1>4 DEF Holding, InState
<1>6. Chained(new, cap)
  <2>1. ASSUME NEW i \in InState(new, "OCCUPIED")
        PROVE  i \in InState(table, "OCCUPIED") /\ new[i] = table[i] /\ i # s
    BY <1>1, <1>4 DEF InState
  <2>2. ASSUME NEW i \in InState(new, "OCCUPIED")
        PROVE  Holding(new, new[i].key) = {i}
    <3>1. Holding(table, table[i].key) = {i} BY <2>1 DEF Chained
    <3> QED BY <3>1, <2>1, <1>5
  <2> QED BY <2>1, <2>2, <1>4 DEF Chained
<1>7. ASSUME NEW l \in Keys
      PROVE  ValueOf(new, l) = IF l = k THEN Null ELSE ValueOf(table, l)
  <2>1. CASE l = k BY <2>1, <1>0, <1>5 DEF ValueOf
  <2>2. CASE l # k
    <3>1. s \notin Holding(table, l) BY <2>2, <1>0 DEF Holding
    <3>2. Holding(new, l) = Holding(table, l) BY <3>1, <1>5
    <3>3. \A i \in Holding(table, l) : new[i] = table[i]
      BY <3>1, <1>1 DEF Holding, InState
    <3> QED BY <3>2, <3>3, <2>2 DEF ValueOf
  <2> QED BY <2>1, <2>2
<1> QED BY <1>3, <1>4, <1>6, <1>7 DEF new

-----------------------------------------------------------------------------
(* sm_grow(): the new table has the entries of the old one and no tombstone. *)

\* The tables that sm_grow() goes through, after 0, 1, ..., n entries.
Walk(f, n, cap) ==
    f = [i \in 0 .. n |->
            IF i = 0 THEN [j \in 0 .. (cap - 1) |-> Unused(0)]
            ELSE IF entries[i - 1].state = "OCCUPIED"
                 THEN InsertDirect(f[i - 1], cap, entries[i - 1])
                 ELSE f[i - 1]]

\* Rehashed is the last table of such a walk.
LEMMA RehashedWalks ==
    ASSUME capacity \in Nat, NEW cap
    PROVE  \E f : Walk(f, capacity, cap) /\ Rehashed(cap) = f[capacity]
<1> DEFINE First == [j \in 0 .. (cap - 1) |-> Unused(0)]
           After(t, i) == IF entries[i].state = "OCCUPIED"
                          THEN InsertDirect(t, cap, entries[i]) ELSE t
           E(f, n) == f = [i \in 0 .. n |-> IF i = 0 THEN First ELSE After(f[i - 1], i - 1)]
           S == {n \in Nat : \E f : E(f, n)}
<1>1. 0 \in S
  <2> HIDE DEF First, After
  <2>1. E([i \in 0 .. 0 |-> First], 0) OBVIOUS
  <2> QED BY <2>1
<1>2. ASSUME NEW n \in Nat, n \in S PROVE n + 1 \in S
  <2> HIDE DEF First, After
  <2>1. PICK f : E(f, n) BY <1>2
  <2> DEFINE g == [i \in 0 .. (n + 1) |-> IF i <= n THEN f[i] ELSE After(f[n], n)]
  <2>2. ASSUME NEW i \in 0 .. (n + 1)
        PROVE  g[i] = IF i = 0 THEN First ELSE After(g[i - 1], i - 1)
    <3>1. CASE i = 0 BY <3>1, <2>1
    <3>2. CASE i # 0 /\ i <= n
      <4>1. i \in 0 .. n /\ i - 1 \in 0 .. (n + 1) /\ i - 1 <= n BY <3>2
      <4>2. g[i] = f[i] /\ g[i - 1] = f[i - 1] BY <4>1
      <4>3. f[i] = After(f[i - 1], i - 1) BY <4>1, <3>2, <2>1
      <4> QED BY <4>2, <4>3, <3>2
    <3>3. CASE i = n + 1
      <4>1. g[i] = After(f[n], n) /\ i - 1 = n /\ g[n] = f[n] BY <3>3
      <4> QED BY <4>1, <3>3
    <3> QED BY <3>1, <3>2, <3>3
  <2>3. E(g, n + 1) BY <2>2, Zenon
  <2>4. n + 1 \in Nat OBVIOUS
  <2> HIDE DEF E, g
  <2> QED BY <2>3, <2>4
<1>3. Nat \subseteq S
  <2> HIDE DEF S
  <2> QED BY <1>1, <1>2, InductionSet
<1>4. \E f : E(f, capacity) BY <1>3
<1>5. Rehashed(cap) = (CHOOSE f : E(f, capacity))[capacity]
  BY DEF Rehashed
<1>6. \A f : E(f, capacity) => Walk(f, capacity, cap)
  BY DEF Walk
<1> HIDE DEF E
<1> QED BY <1>4, <1>5, <1>6

\* What the walk has built after the first i entries of the old table.
Built(t, i, cap) ==
    /\ Sound(t, cap) /\ Chained(t, cap) /\ InState(t, "DEAD") = {}
    /\ \A k \in Keys : ValueOf(t, k) = IF \E j \in 0 .. (i - 1) : j \in Holding(entries, k)
                                       THEN ValueOf(entries, k) ELSE Null
    /\ IsFiniteSet(InState(t, "OCCUPIED"))
    /\ Cardinality(InState(t, "OCCUPIED")) =
          Cardinality(InState(entries, "OCCUPIED") \intersect 0 .. (i - 1))
    /\ \A j \in 0 .. (cap - 1) :
          t[j] = Unused(0) \/ \E x \in InState(entries, "OCCUPIED") : t[j] = entries[x]

\* The empty table it begins with.
LEMMA NothingBuilt ==
    ASSUME NEW cap \in Nat \ {0}
    PROVE  Built([j \in 0 .. (cap - 1) |-> Unused(0)], 0, cap)
<1> DEFINE t == [j \in 0 .. (cap - 1) |-> Unused(0)]
<1>1. /\ Unused(0) \in EntryType
      /\ Unused(0).state = "EMPTY" /\ Unused(0).value = Null
  BY DEF Unused, Entry, EntryType
<1>2. t \in [0 .. (cap - 1) -> EntryType] /\ \A j \in 0 .. (cap - 1) : t[j] = Unused(0)
  BY <1>1
<1> HIDE DEF t
<1>3. Sound(t, cap)
  BY <1>1, <1>2 DEF Sound
<1>4. InState(t, "OCCUPIED") = {} /\ InState(t, "DEAD") = {}
  BY <1>1, <1>2 DEF InState
<1>5. Chained(t, cap)
  BY <1>4 DEF Chained
<1>6. \A k \in Keys : ValueOf(t, k) = Null
  BY <1>4 DEF ValueOf, Holding
<1>7. InState(entries, "OCCUPIED") \intersect 0 .. (0 - 1) = {}
  OBVIOUS
<1>8. \A k \in Keys : ~ \E j \in 0 .. (0 - 1) : j \in Holding(entries, k)
  OBVIOUS
<1>9. IsFiniteSet(InState(t, "OCCUPIED"))
  BY <1>4, FS_EmptySet
<1> QED BY <1>2, <1>3, <1>4, <1>5, <1>6, <1>7, <1>8, <1>9 DEF Built, t

\* One occupied entry more.
LEMMA OneMoreBuilt ==
    ASSUME StringMapAssumption, Sound(entries, capacity), Chained(entries, capacity),
           NEW cap \in Nat, capacity < cap, NEW t,
           NEW i \in 0 .. (capacity - 1), Built(t, i, cap), entries[i].state = "OCCUPIED"
    PROVE  Built(InsertDirect(t, cap, entries[i]), i + 1, cap)
<1> DEFINE k == entries[i].key
           occupied == InState(t, "OCCUPIED")
           stop == DOMAIN t \ occupied
           p == Passed(cap, k, stop)
           s == Slot(k, p, cap)
           new == Written(t, s, entries[i])
<1>1. /\ capacity \in Nat \ {0} /\ cap \in Nat \ {0} /\ DOMAIN t = 0 .. (cap - 1)
      /\ k \in Keys /\ entries[i] \in EntryType /\ entries[i].value \in Values
      /\ i \in InState(entries, "OCCUPIED")
  BY DEF Sound, Built, InState
<1>2. \E x \in stop : x \in 0 .. (cap - 1)
  <2>1. /\ IsFiniteSet(0 .. (capacity - 1)) /\ Cardinality(0 .. (capacity - 1)) = capacity
        /\ Cardinality(0 .. (cap - 1)) = cap
    BY <1>1, Indices
  <2>2. InState(entries, "OCCUPIED") \intersect 0 .. (i - 1) \in SUBSET (0 .. (capacity - 1))
    BY <1>1
  <2>3. Cardinality(InState(entries, "OCCUPIED") \intersect 0 .. (i - 1)) <= capacity
    <3> DEFINE first == InState(entries, "OCCUPIED") \intersect 0 .. (i - 1)
               all == 0 .. (capacity - 1)
    <3>1. first \in SUBSET all /\ IsFiniteSet(all) /\ Cardinality(all) = capacity
      BY <2>1, <2>2
    <3> HIDE DEF first, all
    <3>2. Cardinality(first) <= Cardinality(all) BY <3>1, FS_Subset
    <3> QED BY <3>1, <3>2 DEF first
  <2>4. occupied # 0 .. (cap - 1)
    BY <2>1, <2>3, <1>1 DEF Built
  <2> QED BY <2>4, <1>1 DEF InState
<1>3. /\ p \in 0 .. (cap - 1) /\ Probe(cap, k, stop) = s /\ s \in stop
      /\ s \in 0 .. (cap - 1) /\ \A j \in 0 .. (p - 1) : Slot(k, j, cap) \notin stop
  <2> HIDE DEF stop, k
  <2> QED BY <1>1, <1>2, FirstStop
<1>4. InsertDirect(t, cap, entries[i]) = new
  BY <1>3 DEF InsertDirect, Written
<1>5. Holding(entries, k) = {i}
  BY <1>1 DEF Chained
<1>6. Holding(t, k) = {}
  <2>1. ValueOf(t, k) = Null
    <3>1. ~ \E j \in 0 .. (i - 1) : j \in Holding(entries, k) BY <1>5
    <3> QED BY <3>1, <1>1 DEF Built
  <2>2. ASSUME NEW x \in Holding(t, k) PROVE FALSE
    <3>1. ValueOf(t, k) \in Values BY <1>1, <2>2, HeldOnce DEF Built
    <3> QED BY <3>1, <2>1 DEF StringMapAssumption
  <2> QED BY <2>2
<1>7. t[s].state # "OCCUPIED" /\ s \notin occupied
  BY <1>3, <1>1 DEF InState
<1>8. Vacant(t, cap, k, s)
  <2>1. \A j \in 0 .. (p - 1) : Slot(k, j, cap) \notin InState(t, "EMPTY")
    BY <1>3 DEF InState
  <2> HIDE DEF k, p, stop
  <2> QED BY <2>1, <1>3, <1>7 DEF Vacant
<1>9. /\ Sound(new, cap) /\ Chained(new, cap)
      /\ InState(new, "OCCUPIED") = occupied \union {s}
      /\ InState(new, "DEAD") = InState(t, "DEAD") \ {s}
      /\ \A l \in Keys :
            ValueOf(new, l) = IF l = k THEN entries[i].value ELSE ValueOf(t, l)
  <2>1. entries[i].key = k /\ Sound(t, cap) /\ Chained(t, cap) BY DEF Built
  <2> HIDE DEF k, s
  <2> QED BY <2>1, <1>1, <1>6, <1>8, PlaceNew
<1>10. \A l \in Keys : ValueOf(new, l) =
          IF \E j \in 0 .. ((i + 1) - 1) : j \in Holding(entries, l)
          THEN ValueOf(entries, l) ELSE Null
  <2> SUFFICES ASSUME NEW l \in Keys
               PROVE  ValueOf(new, l) =
                        IF \E j \in 0 .. i : j \in Holding(entries, l)
                        THEN ValueOf(entries, l) ELSE Null
    <3>1. (i + 1) - 1 = i BY <1>1
    <3> QED BY <3>1
  <2>1. CASE l = k
    <3>1. i \in Holding(entries, l) /\ i \in 0 .. i BY <2>1, <1>5
    <3>2. ValueOf(entries, l) = entries[i].value BY <3>1, HeldOnce
    <3> QED BY <3>1, <3>2, <2>1, <1>9
  <2>2. CASE l # k
    <3>1. i \notin Holding(entries, l) BY <2>2 DEF Holding
    <3>2. (\E j \in 0 .. i : j \in Holding(entries, l)) <=>
          (\E j \in 0 .. (i - 1) : j \in Holding(entries, l))
      BY <3>1
    <3>3. ValueOf(new, l) = ValueOf(t, l) BY <2>2, <1>9
    <3> QED BY <3>2, <3>3 DEF Built
  <2> QED BY <2>1, <2>2
<1>11. /\ IsFiniteSet(InState(new, "OCCUPIED"))
       /\ Cardinality(InState(new, "OCCUPIED")) =
            Cardinality(InState(entries, "OCCUPIED") \intersect 0 .. ((i + 1) - 1))
  <2> DEFINE old == InState(entries, "OCCUPIED") \intersect 0 .. (i - 1)
  <2>1. IsFiniteSet(old) /\ i \notin old
    <3>1. IsFiniteSet(0 .. (i - 1)) BY FS_Interval
    <3> QED BY <3>1, FS_Subset
  <2>2. InState(entries, "OCCUPIED") \intersect 0 .. ((i + 1) - 1) = old \union {i}
    BY <1>1
  <2>3. Cardinality(old \union {i}) = Cardinality(old) + 1
    BY <2>1, FS_AddElement
  <2>4. IsFiniteSet(occupied) /\ Cardinality(occupied) = Cardinality(old)
    BY DEF Built
  <2>5. /\ IsFiniteSet(occupied \union {s})
        /\ Cardinality(occupied \union {s}) = Cardinality(occupied) + 1
    BY <2>4, <1>7, FS_AddElement
  <2> QED BY <2>2, <2>3, <2>4, <2>5, <1>9
<1>12. \A j \in 0 .. (cap - 1) :
          new[j] = Unused(0) \/ \E x \in InState(entries, "OCCUPIED") : new[j] = entries[x]
  BY <1>1 DEF Built, Written
<1>13. InState(new, "DEAD") = {}
  BY <1>9 DEF Built
<1> HIDE DEF new
<1> QED BY <1>4, <1>9, <1>10, <1>11, <1>12, <1>13 DEF Built

\* An entry that is not occupied is walked past.
LEMMA NoneMoreBuilt ==
    ASSUME NEW cap, NEW t, Sound(entries, capacity),
           NEW i \in 0 .. (capacity - 1), Built(t, i, cap), entries[i].state # "OCCUPIED"
    PROVE  Built(t, i + 1, cap)
<1>1. i \in Nat /\ (i + 1) - 1 = i /\ i \notin InState(entries, "OCCUPIED")
  BY DEF InState, Sound
<1>2. \A k : i \notin Holding(entries, k)
  BY <1>1 DEF Holding
<1>3. InState(entries, "OCCUPIED") \intersect 0 .. ((i + 1) - 1) =
        InState(entries, "OCCUPIED") \intersect 0 .. (i - 1)
  BY <1>1
<1>4. \A k \in Keys : (\E j \in 0 .. ((i + 1) - 1) : j \in Holding(entries, k)) <=>
                      (\E j \in 0 .. (i - 1) : j \in Holding(entries, k))
  BY <1>1, <1>2
<1> QED BY <1>3, <1>4 DEF Built

\* The table that the growth ends with has no tombstone, a chain for every key,
\* and the same values for the same keys in as many entries.
LEMMA RehashedTable ==
    ASSUME StringMapAssumption, Sound(entries, capacity), Chained(entries, capacity),
           NEW cap \in Nat, capacity < cap
    PROVE  LET t == Rehashed(cap)
           IN  /\ Sound(t, cap) /\ Chained(t, cap) /\ InState(t, "DEAD") = {}
               /\ \A k \in Keys : ValueOf(t, k) = ValueOf(entries, k)
               /\ IsFiniteSet(InState(t, "OCCUPIED"))
               /\ Cardinality(InState(t, "OCCUPIED")) =
                     Cardinality(InState(entries, "OCCUPIED"))
               /\ \A j \in 0 .. (cap - 1) :
                     t[j] = Unused(0) \/ \E x \in InState(entries, "OCCUPIED") : t[j] = entries[x]
<1>1. capacity \in Nat \ {0} /\ DOMAIN entries = 0 .. (capacity - 1) /\ cap \in Nat \ {0}
  BY DEF Sound
<1>2. PICK f : Walk(f, capacity, cap) /\ Rehashed(cap) = f[capacity]
  BY <1>1, RehashedWalks
<1> DEFINE S == {i \in Nat : i <= capacity => Built(f[i], i, cap)}
<1>3. 0 \in S
  <2>1. f[0] = [j \in 0 .. (cap - 1) |-> Unused(0)]
    BY <1>1, <1>2 DEF Walk
  <2> QED BY <2>1, <1>1, NothingBuilt
<1>4. ASSUME NEW n \in Nat, n \in S, n + 1 <= capacity
      PROVE  Built(f[n + 1], n + 1, cap)
  <2>1. Built(f[n], n, cap) /\ n \in 0 .. (capacity - 1) BY <1>1, <1>4
  <2>2. f[n + 1] = IF entries[n].state = "OCCUPIED"
                   THEN InsertDirect(f[n], cap, entries[n]) ELSE f[n]
    <3>1. n + 1 \in 0 .. capacity /\ n + 1 # 0 /\ (n + 1) - 1 = n BY <1>1, <2>1
    <3> QED BY <3>1, <1>2 DEF Walk
  <2>3. CASE entries[n].state = "OCCUPIED"
    BY <2>1, <2>2, <2>3, OneMoreBuilt
  <2>4. CASE entries[n].state # "OCCUPIED"
    BY <2>1, <2>2, <2>4, NoneMoreBuilt
  <2> QED BY <2>3, <2>4
<1>5. Nat \subseteq S
  <2>1. \A n \in Nat : n \in S => n + 1 \in S BY <1>4
  <2> HIDE DEF S
  <2> QED BY <1>3, <2>1, InductionSet
<1>6. Built(Rehashed(cap), capacity, cap)
  BY <1>1, <1>2, <1>5
<1>7. InState(entries, "OCCUPIED") \intersect 0 .. (capacity - 1) = InState(entries, "OCCUPIED")
  BY <1>1 DEF InState
<1>8. ASSUME NEW k \in Keys
      PROVE  ValueOf(Rehashed(cap), k) = ValueOf(entries, k)
  <2>1. (\E j \in 0 .. (capacity - 1) : j \in Holding(entries, k)) <=> Holding(entries, k) # {}
    BY <1>1 DEF Holding, InState
  <2>2. Holding(entries, k) = {} => ValueOf(entries, k) = Null BY DEF ValueOf
  <2> QED BY <2>1, <2>2, <1>6 DEF Built
<1> QED BY <1>6, <1>7, <1>8 DEF Built

-----------------------------------------------------------------------------
(* The counters.                                                            *)

\* The numbers of occupied entries and of tombstones fit in the table together,
\* and when they do not fill it a slot is empty.
LEMMA RoomLeft ==
    ASSUME NEW table, NEW cap, Sound(table, cap)
    PROVE  /\ IsFiniteSet(InState(table, "OCCUPIED")) /\ IsFiniteSet(InState(table, "DEAD"))
           /\ Cardinality(InState(table, "OCCUPIED")) \in Nat
           /\ Cardinality(InState(table, "DEAD")) \in Nat
           /\ InState(table, "EMPTY") = {} =>
                 Cardinality(InState(table, "OCCUPIED"))
                     + Cardinality(InState(table, "DEAD")) = cap
<1> DEFINE O == InState(table, "OCCUPIED")
           D == InState(table, "DEAD")
           all == 0 .. (cap - 1)
<1>1. /\ cap \in Nat /\ IsFiniteSet(all) /\ Cardinality(all) = cap
  BY Indices DEF Sound
<1>2. O \in SUBSET all /\ D \in SUBSET all
  BY DEF InState, Sound
<1>3. InState(table, "EMPTY") = {} => O \union D = all
  BY DEF InState, Sound, EntryType
<1>4. O \intersect D = {}
  BY DEF InState
<1> HIDE DEF O, D, all
<1>5. IsFiniteSet(O) /\ IsFiniteSet(D)
  BY <1>1, <1>2, FS_Subset
<1>6. Cardinality(O) \in Nat /\ Cardinality(D) \in Nat
  BY <1>5, FS_CardinalityType
<1>7. Cardinality(O \union D) = Cardinality(O) + Cardinality(D) - Cardinality(O \intersect D)
  BY <1>5, FS_Union
<1>8. Cardinality(O \intersect D) = 0
  BY <1>4, FS_EmptySet
<1>9. O \union D = all => Cardinality(O) + Cardinality(D) = cap
  <2> DEFINE o == Cardinality(O)
             d == Cardinality(D)
  <2>1. o \in Nat /\ d \in Nat /\ Cardinality(O \union D) = o + d - 0
    BY <1>6, <1>7, <1>8
  <2> HIDE DEF o, d
  <2>2. Cardinality(O \union D) = o + d BY <2>1
  <2> QED BY <2>2, <1>1 DEF o, d
<1> QED BY <1>3, <1>5, <1>6, <1>9 DEF O, D

-----------------------------------------------------------------------------
(* The state: the invariant is that the entries are a sound, chained table.  *)

\* What the invariant says of the table of a map that has been made.
LEMMA InvTable ==
    ASSUME Inv, status # "none"
    PROVE  /\ Sound(entries, capacity) /\ Chained(entries, capacity)
           /\ count = Cardinality(InState(entries, "OCCUPIED"))
           /\ dead_entries = Cardinality(InState(entries, "DEAD"))
           /\ count \in Nat /\ dead_entries \in Nat
<1>1. capacity \in Nat \ {0} /\ entries \in [0 .. (capacity - 1) -> EntryType]
  BY DEF Inv, CountersMatch, TypeOK, KeysKnown
<1>2. ASSUME NEW i \in 0 .. (capacity - 1)
      PROVE  /\ entries[i].state = "OCCUPIED" =>
                   entries[i].key \in Keys /\ entries[i].value \in Values
             /\ entries[i].state # "OCCUPIED" => entries[i].value = Null
  <2>1. entries[i] \in EntryType /\ i \in DOMAIN entries BY <1>1
  <2>2. entries[i].value \in Values \union {Null} BY <2>1 DEF EntryType
  <2>3. i \in Occupied <=> entries[i].state = "OCCUPIED" BY <2>1 DEF Occupied, InState
  <2> QED BY <2>1, <2>2, <2>3 DEF Inv, CountersMatch, TypeOK, KeysKnown
<1>3. Chained(entries, capacity)
  BY DEF Inv, ProbeChain, Chained, Occupied, Empty
<1> QED BY <1>1, <1>2, <1>3 DEF Sound, Inv, CountersMatch, TypeOK, Occupied, Dead

\* The invariant of a map that has a sound, chained table and its counters.
LEMMA TableInv ==
    ASSUME StringMapAssumption, Sound(entries', capacity'), Chained(entries', capacity'),
           status' \in {"live", "exited"},
           count' = Cardinality(InState(entries', "OCCUPIED")),
           dead_entries' = Cardinality(InState(entries', "DEAD"))
    PROVE  Inv'
<1>1. capacity' \in Nat \ {0} /\ DOMAIN entries' = 0 .. (capacity' - 1)
  BY DEF Sound
<1>2. count' \in Nat /\ dead_entries' \in Nat
  BY RoomLeft
<1>3. \A i \in DOMAIN entries' : i \in Occupied' <=> entries'[i].value # Null
  BY <1>1 DEF Sound, Occupied, InState, StringMapAssumption
<1>4. TypeOK'
  BY <1>1, <1>2, <1>3 DEF TypeOK, Sound
<1>5. CountersMatch'
  BY <1>4 DEF CountersMatch, Occupied, Dead
<1>6. KeysKnown'
  BY <1>1 DEF KeysKnown, Sound, Occupied, InState
<1>7. ProbeChain'
  BY DEF ProbeChain, Chained, Occupied, Empty
<1> QED BY <1>5, <1>6, <1>7 DEF Inv

\* A map that is not made yet.
LEMMA InitInv ==
    ASSUME Init
    PROVE  Inv
<1>1. entries = <<>> /\ capacity = 0 /\ count = 0 /\ dead_entries = 0 /\ status = "none"
  BY DEF Init
<1>2. DOMAIN entries = {} /\ 0 .. (capacity - 1) = {}
  BY <1>1
<1>3. entries \in [0 .. (capacity - 1) -> EntryType]
  <2>1. entries = [i \in 0 .. (capacity - 1) |-> Unused(0)]
    BY <1>1, <1>2
  <2>2. Unused(0) \in EntryType BY DEF Unused, Entry, EntryType
  <2> QED BY <2>1, <2>2
<1>4. Occupied = {} /\ Dead = {}
  BY <1>2 DEF Occupied, Dead, InState
<1>5. Cardinality({}) = 0 BY FS_EmptySet
<1>6. CountersMatch
  BY <1>1, <1>2, <1>3, <1>4, <1>5 DEF CountersMatch, TypeOK
<1> QED BY <1>1, <1>4, <1>6 DEF Inv, ProbeChain, KeysKnown

\* sm_new() makes a table that is empty.
LEMMA NewTable ==
    ASSUME StringMapAssumption, NEW c \in Capacities, New(c)
    PROVE  Inv' /\ \A k \in Keys : Holding(entries', k) = {}
<1>1. capacity' \in Nat \ {0}
  BY DEF New, StringMapAssumption
<1>2. \A left \in Leftover :
          /\ Unused(left) \in EntryType
          /\ Unused(left).state = "EMPTY" /\ Unused(left).value = Null
  BY DEF Unused, Entry, EntryType, StringMapAssumption
<1>3. /\ entries' \in [0 .. (capacity' - 1) -> EntryType]
      /\ \A i \in 0 .. (capacity' - 1) :
            entries'[i].state = "EMPTY" /\ entries'[i].value = Null
  <2>1. entries' \in [0 .. (capacity' - 1) -> {Unused(left) : left \in Leftover}]
    BY DEF New
  <2> QED BY <1>2, <2>1
<1>4. Sound(entries', capacity')
  BY <1>1, <1>3 DEF Sound
<1>5. InState(entries', "OCCUPIED") = {} /\ InState(entries', "DEAD") = {}
  BY <1>3 DEF InState
<1>6. Chained(entries', capacity')
  BY <1>5 DEF Chained
<1>7. /\ status' \in {"live", "exited"}
      /\ count' = Cardinality(InState(entries', "OCCUPIED"))
      /\ dead_entries' = Cardinality(InState(entries', "DEAD"))
  BY <1>5, FS_EmptySet DEF New
<1>8. Inv'
  BY <1>4, <1>6, <1>7, TableInv
<1> QED BY <1>5, <1>8 DEF Holding

-----------------------------------------------------------------------------
(* The insert.                                                              *)

\* A key that the table does not hold has the value Null, and no other.
LEMMA AbsentIsNull ==
    ASSUME StringMapAssumption, NEW table, NEW cap, Sound(table, cap),
           Chained(table, cap), NEW k \in Keys
    PROVE  ValueOf(table, k) = Null <=> Holding(table, k) = {}
<1>1. CASE Holding(table, k) = {} BY <1>1 DEF ValueOf
<1>2. CASE Holding(table, k) # {}
  <2>1. PICK i \in Holding(table, k) : TRUE BY <1>2
  <2>2. ValueOf(table, k) \in Values BY <2>1, HeldOnce
  <2> QED BY <2>2, <1>2 DEF StringMapAssumption
<1> QED BY <1>1, <1>2

\* An insert that updates the entry of its key.
LEMMA InsertUpdates ==
    ASSUME StringMapAssumption, NEW table, NEW cap, Sound(table, cap),
           Chained(table, cap), NEW k \in Keys, NEW v \in Values,
           NEW s \in Holding(table, k)
    PROVE  LET new == Written(table, s, Updated(table[s], v))
           IN  /\ Sound(new, cap) /\ Chained(new, cap)
               /\ InState(new, "OCCUPIED") = InState(table, "OCCUPIED")
               /\ InState(new, "DEAD") = InState(table, "DEAD")
               /\ \A l \in Keys : ValueOf(new, l) = IF l = k THEN v ELSE ValueOf(table, l)
<1> DEFINE entry == Updated(table[s], v)
<1>1. /\ s \in 0 .. (cap - 1) /\ table[s].state = "OCCUPIED" /\ table[s].key = k
      /\ table[s] \in EntryType
  BY HeldOnce DEF Sound
<1>2. SizeOf[v] \in Nat BY DEF StringMapAssumption
<1>3. /\ entry \in EntryType /\ entry.state = "OCCUPIED" /\ entry.key = k
      /\ entry.value = v
  BY <1>1, <1>2 DEF Updated, EntryType
<1> HIDE DEF entry
<1>4. /\ Sound(Written(table, s, entry), cap) /\ Chained(Written(table, s, entry), cap)
      /\ InState(Written(table, s, entry), "OCCUPIED") = InState(table, "OCCUPIED")
      /\ InState(Written(table, s, entry), "DEAD") = InState(table, "DEAD")
      /\ \A l \in Keys : ValueOf(Written(table, s, entry), l) =
            IF l = k THEN entry.value ELSE ValueOf(table, l)
  BY <1>3, UpdateEntry
<1> QED BY <1>3, <1>4 DEF entry

\* An insert that makes an entry for its key.
LEMMA InsertCreates ==
    ASSUME StringMapAssumption, NEW table, NEW cap, Sound(table, cap),
           Chained(table, cap), NEW k \in Keys, NEW v \in Values,
           Holding(table, k) = {}, NEW s, Vacant(table, cap, k, s)
    PROVE  LET new == Written(table, s, Created(table[s], k, v))
           IN  /\ Sound(new, cap) /\ Chained(new, cap)
               /\ InState(new, "OCCUPIED") = InState(table, "OCCUPIED") \union {s}
               /\ InState(new, "DEAD") = InState(table, "DEAD") \ {s}
               /\ \A l \in Keys : ValueOf(new, l) = IF l = k THEN v ELSE ValueOf(table, l)
<1> DEFINE entry == Created(table[s], k, v)
<1>1. s \in 0 .. (cap - 1) /\ table[s] \in EntryType
  BY DEF Sound, Vacant
<1>2. SizeOf[v] \in Nat BY DEF StringMapAssumption
<1>3. /\ entry \in EntryType /\ entry.state = "OCCUPIED" /\ entry.key = k
      /\ entry.value = v
  BY <1>1, <1>2 DEF Created, Entry, EntryType
<1> HIDE DEF entry
<1>4. /\ Sound(Written(table, s, entry), cap) /\ Chained(Written(table, s, entry), cap)
      /\ InState(Written(table, s, entry), "OCCUPIED") = InState(table, "OCCUPIED") \union {s}
      /\ InState(Written(table, s, entry), "DEAD") = InState(table, "DEAD") \ {s}
      /\ \A l \in Keys : ValueOf(Written(table, s, entry), l) =
            IF l = k THEN entry.value ELSE ValueOf(table, l)
  BY <1>3, PlaceNew
<1> QED BY <1>3, <1>4 DEF entry

\* __sm_insert() on a table with an empty slot, grown or not: the table stays
\* sound and chained, the counters stay right, and the key gets the value.
LEMMA InsertIntoTable ==
    ASSUME StringMapAssumption, NEW table, NEW cap, Sound(table, cap),
           Chained(table, cap), InState(table, "EMPTY") # {},
           NEW dead, dead = Cardinality(InState(table, "DEAD")),
           count = Cardinality(InState(table, "OCCUPIED")),
           NEW k \in Keys, NEW v \in Values,
           InsertInto(table, cap, dead, k, v)
    PROVE  /\ Sound(entries', cap) /\ Chained(entries', cap)
           /\ count' = Cardinality(InState(entries', "OCCUPIED"))
           /\ dead_entries' = Cardinality(InState(entries', "DEAD"))
           /\ \A l \in Keys : ValueOf(entries', l) = IF l = k THEN v ELSE ValueOf(table, l)
           /\ result' = <<k, IF ValueOf(table, k) = Null THEN "CREATED" ELSE "UPDATED">>
<1> DEFINE end == Probe(cap, k, InsertStop(table, k))
           free == NewSlot(table, cap, k)
<1>1. /\ Holding(table, k) # {} => end \in Holding(table, k)
      /\ Holding(table, k) = {} => table[end].state = "EMPTY"
  BY ProbeFinds
<1>2. Vacant(table, cap, k, free)
  BY NewSlotBeforeEmpty
<1>3. /\ IsFiniteSet(InState(table, "OCCUPIED")) /\ IsFiniteSet(InState(table, "DEAD"))
      /\ Cardinality(InState(table, "OCCUPIED")) \in Nat
      /\ Cardinality(InState(table, "DEAD")) \in Nat
  BY RoomLeft
<1>4. ValueOf(table, k) = Null <=> Holding(table, k) = {}
  BY AbsentIsNull
<1>5. CASE Holding(table, k) # {}
  <2>1. table[end].state = "OCCUPIED" BY <1>1, <1>5, HeldOnce
  <2>2. /\ entries' = Written(table, end, Updated(table[end], v))
        /\ dead_entries' = dead /\ count' = count /\ result' = <<k, "UPDATED">>
    BY <2>1 DEF InsertInto, Written
  <2> HIDE DEF end
  <2>3. /\ Sound(entries', cap) /\ Chained(entries', cap)
        /\ InState(entries', "OCCUPIED") = InState(table, "OCCUPIED")
        /\ InState(entries', "DEAD") = InState(table, "DEAD")
        /\ \A l \in Keys : ValueOf(entries', l) = IF l = k THEN v ELSE ValueOf(table, l)
    BY <2>2, <1>1, <1>5, InsertUpdates
  <2> QED BY <2>2, <2>3, <1>4, <1>5
<1>6. CASE Holding(table, k) = {}
  <2>1. table[end].state # "OCCUPIED" BY <1>1, <1>6
  <2>2. /\ entries' = Written(table, free, Created(table[free], k, v))
        /\ dead_entries' = IF table[free].state = "DEAD" THEN dead - 1 ELSE dead
        /\ count' = count + 1 /\ result' = <<k, "CREATED">>
    BY <2>1 DEF InsertInto, Written
  <2> HIDE DEF end, free
  <2>3. /\ Sound(entries', cap) /\ Chained(entries', cap)
        /\ InState(entries', "OCCUPIED") = InState(table, "OCCUPIED") \union {free}
        /\ InState(entries', "DEAD") = InState(table, "DEAD") \ {free}
        /\ \A l \in Keys : ValueOf(entries', l) = IF l = k THEN v ELSE ValueOf(table, l)
    BY <2>2, <1>2, <1>6, InsertCreates, SMTT(20)
  <2>4. /\ free \notin InState(table, "OCCUPIED")
        /\ free \in InState(table, "DEAD") <=> table[free].state = "DEAD"
    BY <1>2 DEF Vacant, InState, Sound
  <2>5. count' = Cardinality(InState(entries', "OCCUPIED"))
    BY <2>2, <2>3, <2>4, <1>3, FS_AddElement
  <2>6. dead_entries' = Cardinality(InState(entries', "DEAD"))
    <3>1. Cardinality(InState(table, "DEAD") \ {free}) =
            IF free \in InState(table, "DEAD")
            THEN Cardinality(InState(table, "DEAD")) - 1
            ELSE Cardinality(InState(table, "DEAD"))
      BY <1>3, FS_RemoveElement
    <3> QED BY <3>1, <2>2, <2>3, <2>4
  <2> QED BY <2>2, <2>3, <2>5, <2>6, <1>4, <1>6
<1> QED BY <1>5, <1>6

\* Below the load factor a slot is empty.
LEMMA EmptyWhenLight ==
    ASSUME Sound(entries, capacity),
           count = Cardinality(InState(entries, "OCCUPIED")),
           dead_entries = Cardinality(InState(entries, "DEAD")),
           ~ (4 * (count + dead_entries) >= 3 * capacity)
    PROVE  InState(entries, "EMPTY") # {}
<1>1. InState(entries, "EMPTY") = {} => count + dead_entries = capacity
  BY RoomLeft
<1>2. capacity \in Nat \ {0} BY DEF Sound
<1> QED BY <1>1, <1>2

\* The grown table has an empty slot.
LEMMA RehashedHasRoom ==
    ASSUME StringMapAssumption, Sound(entries, capacity), Chained(entries, capacity)
    PROVE  LET t == Rehashed(2 * capacity)
           IN  /\ Sound(t, 2 * capacity) /\ Chained(t, 2 * capacity)
               /\ InState(t, "DEAD") = {} /\ InState(t, "EMPTY") # {}
               /\ \A l \in Keys : ValueOf(t, l) = ValueOf(entries, l)
               /\ Cardinality(InState(t, "OCCUPIED")) =
                     Cardinality(InState(entries, "OCCUPIED"))
<1> DEFINE cap == 2 * capacity
           t == Rehashed(cap)
           O == InState(entries, "OCCUPIED")
           all == 0 .. (capacity - 1)
<1>1. capacity \in Nat \ {0} BY DEF Sound
<1>2. cap \in Nat /\ capacity < cap BY <1>1
<1>3. O \in SUBSET all /\ IsFiniteSet(all) /\ Cardinality(all) = capacity
  BY <1>1, Indices DEF Sound, InState
<1> HIDE DEF cap
<1>4. /\ Sound(t, cap) /\ Chained(t, cap) /\ InState(t, "DEAD") = {}
      /\ \A l \in Keys : ValueOf(t, l) = ValueOf(entries, l)
      /\ Cardinality(InState(t, "OCCUPIED")) = Cardinality(O)
  BY <1>2, RehashedTable
<1> HIDE DEF t, O, all
<1>5. Cardinality(O) <= Cardinality(all) BY <1>3, FS_Subset
<1>6. Cardinality(InState(t, "DEAD")) = 0 BY <1>4, FS_EmptySet
<1>7. Cardinality(O) \in Nat BY RoomLeft DEF O
<1>8. InState(t, "EMPTY") = {} => Cardinality(O) + 0 = cap
  BY <1>4, <1>6, RoomLeft
<1>9. InState(t, "EMPTY") # {} BY <1>1, <1>2, <1>3, <1>5, <1>7, <1>8
<1> QED BY <1>4, <1>9 DEF t, O, cap

\* An insert, with the growth that it may begin with.
LEMMA InsertStep ==
    ASSUME StringMapAssumption, Inv, NEW k \in Keys, NEW v \in Values,
           Insert(k, v) \/ InsertGrows(k, v)
    PROVE  /\ Inv'
           /\ \A l \in Keys : ValueOf(entries', l) = IF l = k THEN v ELSE ValueOf(entries, l)
           /\ result' = <<k, IF ValueOf(entries, k) = Null THEN "CREATED" ELSE "UPDATED">>
<1>1. status = "live" /\ status' \in {"live", "exited"}
  BY DEF Insert, InsertGrows
<1>2. /\ Sound(entries, capacity) /\ Chained(entries, capacity)
      /\ count = Cardinality(InState(entries, "OCCUPIED"))
      /\ dead_entries = Cardinality(InState(entries, "DEAD"))
      /\ count \in Nat /\ dead_entries \in Nat
  BY <1>1, InvTable
<1>3. capacity \in Nat \ {0} BY <1>2 DEF Sound
<1>4. CASE Insert(k, v)
  <2>1. /\ InsertInto(entries, capacity, dead_entries, k, v) /\ capacity' = capacity
        /\ ~ (4 * (count + dead_entries) >= 3 * capacity)
    BY <1>4 DEF Insert, NeedsGrowth
  <2>2. InState(entries, "EMPTY") # {}
    BY <2>1, <1>2, EmptyWhenLight
  <2>3. /\ Sound(entries', capacity) /\ Chained(entries', capacity)
        /\ count' = Cardinality(InState(entries', "OCCUPIED"))
        /\ dead_entries' = Cardinality(InState(entries', "DEAD"))
        /\ \A l \in Keys : ValueOf(entries', l) = IF l = k THEN v ELSE ValueOf(entries, l)
        /\ result' = <<k, IF ValueOf(entries, k) = Null THEN "CREATED" ELSE "UPDATED">>
    BY <2>1, <2>2, <1>2, InsertIntoTable
  <2>4. Inv' BY <2>1, <2>3, <1>1, TableInv
  <2> QED BY <2>3, <2>4
<1>5. CASE InsertGrows(k, v)
  <2> DEFINE cap == 2 * capacity
             t == Rehashed(cap)
  <2>1. InsertInto(t, cap, 0, k, v) /\ capacity' = cap
    BY <1>5 DEF InsertGrows
  <2>2. /\ Sound(t, cap) /\ Chained(t, cap)
        /\ InState(t, "DEAD") = {} /\ InState(t, "EMPTY") # {}
        /\ \A l \in Keys : ValueOf(t, l) = ValueOf(entries, l)
        /\ Cardinality(InState(t, "OCCUPIED")) = count
    BY <1>2, RehashedHasRoom
  <2> HIDE DEF t, cap
  <2>3. Cardinality(InState(t, "DEAD")) = 0
    BY <2>2, FS_EmptySet
  <2>4. /\ Sound(entries', cap) /\ Chained(entries', cap)
        /\ count' = Cardinality(InState(entries', "OCCUPIED"))
        /\ dead_entries' = Cardinality(InState(entries', "DEAD"))
        /\ \A l \in Keys : ValueOf(entries', l) = IF l = k THEN v ELSE ValueOf(t, l)
        /\ result' = <<k, IF ValueOf(t, k) = Null THEN "CREATED" ELSE "UPDATED">>
    BY <2>1, <2>2, <2>3, InsertIntoTable
  <2>5. Inv' BY <2>1, <2>4, <1>1, TableInv
  <2> QED BY <2>2, <2>4, <2>5
<1> QED BY <1>4, <1>5

\* sm_kill() of a key that is at the slot of its hash.
LEMMA KillStep ==
    ASSUME StringMapAssumption, Inv, NEW k \in Keys, Kill(k)
    PROVE  /\ Inv'
           /\ \/ /\ ValueOf(entries, k) # Null
                 /\ \A l \in Keys : ValueOf(entries', l) =
                       IF l = k THEN Null ELSE ValueOf(entries, l)
                 /\ result' = <<k, "KILLED">>
              \/ entries' = entries /\ result' = <<k, "NOT_FOUND">>
<1>1. status = "live" /\ status' = status /\ capacity' = capacity
  BY DEF Kill
<1>2. /\ Sound(entries, capacity) /\ Chained(entries, capacity)
      /\ count = Cardinality(InState(entries, "OCCUPIED"))
      /\ dead_entries = Cardinality(InState(entries, "DEAD"))
      /\ count \in Nat /\ dead_entries \in Nat
  BY <1>1, InvTable
<1> DEFINE s == KillSlot(k)
           tombstone == Entry("DEAD", Null, Null, 0, 0)
<1>3. CASE s \in Holding(entries, k)
  <2>1. /\ entries' = Written(entries, s, tombstone)
        /\ dead_entries' = dead_entries + 1 /\ count' = count - 1
        /\ result' = <<k, "KILLED">>
    BY <1>3 DEF Kill, Written
  <2>2. /\ tombstone \in EntryType /\ tombstone.state = "DEAD" /\ tombstone.value = Null
    BY DEF Entry, EntryType
  <2> HIDE DEF tombstone, s
  <2>3. /\ Sound(entries', capacity) /\ Chained(entries', capacity)
        /\ InState(entries', "OCCUPIED") = InState(entries, "OCCUPIED") \ {s}
        /\ InState(entries', "DEAD") = InState(entries, "DEAD") \union {s}
        /\ \A l \in Keys : ValueOf(entries', l) = IF l = k THEN Null ELSE ValueOf(entries, l)
    BY <1>2, <1>3, <2>1, <2>2, KillEntry
  <2>4. s \in InState(entries, "OCCUPIED") /\ s \notin InState(entries, "DEAD")
    BY <1>3 DEF Holding, InState
  <2>5. IsFiniteSet(InState(entries, "OCCUPIED")) /\ IsFiniteSet(InState(entries, "DEAD"))
    BY <1>2, RoomLeft
  <2>6. count' = Cardinality(InState(entries', "OCCUPIED"))
    BY <1>2, <2>1, <2>3, <2>4, <2>5, FS_RemoveElement
  <2>7. dead_entries' = Cardinality(InState(entries', "DEAD"))
    BY <1>2, <2>1, <2>3, <2>4, <2>5, FS_AddElement
  <2>8. Inv' BY <1>1, <2>3, <2>6, <2>7, TableInv
  <2>9. ValueOf(entries, k) # Null BY <1>2, <1>3, AbsentIsNull
  <2> QED BY <2>1, <2>3, <2>8, <2>9
<1>4. CASE s \notin Holding(entries, k)
  <2>1. /\ entries' = entries /\ dead_entries' = dead_entries /\ count' = count
        /\ result' = <<k, "NOT_FOUND">>
    BY <1>4 DEF Kill
  <2>2. Inv' BY <1>1, <1>2, <2>1, TableInv
  <2> QED BY <2>1, <2>2
<1> QED BY <1>3, <1>4

\* sm_get() returns the value of the key or, if a tombstone stops it, Null.
LEMMA LookupFinds ==
    ASSUME StringMapAssumption, Inv, status # "none", NEW k \in Keys
    PROVE  /\ Lookup(k) \in {ValueOf(entries, k), Null}
           /\ Dead = {} => Lookup(k) = ValueOf(entries, k)
<1> DEFINE stop == LookupStop(k)
           end == Probe(capacity, k, stop)
<1>1. Sound(entries, capacity) /\ Chained(entries, capacity)
  BY InvTable
<1>2. capacity \in Nat \ {0} /\ DOMAIN entries = 0 .. (capacity - 1)
  BY <1>1 DEF Sound
<1>3. CASE stop = {}
  <2>1. Holding(entries, k) = {} BY <1>3 DEF LookupStop
  <2> QED BY <2>1, <1>3 DEF Lookup, ValueOf
<1>4. CASE stop # {}
  <2>1. \E s \in stop : s \in 0 .. (capacity - 1)
    BY <1>2, <1>4 DEF LookupStop, Holding, InState
  <2>2. end \in stop /\ end \in 0 .. (capacity - 1)
    <3> HIDE DEF stop
    <3> QED BY <1>2, <2>1, FirstStop
  <2>3. Lookup(k) = entries[end].value BY <1>4 DEF Lookup
  <2>4. CASE end \in Holding(entries, k)
    <3>1. ValueOf(entries, k) = entries[end].value BY <2>4, <1>1, HeldOnce
    <3> QED BY <3>1, <2>3
  <2>5. CASE end \notin Holding(entries, k)
    <3>1. entries[end].state # "OCCUPIED"
      BY <2>2, <2>5, <1>2 DEF LookupStop, InState
    <3>2. Lookup(k) = Null BY <3>1, <2>2, <2>3, <1>1 DEF Sound
    <3>3. ASSUME Dead = {} PROVE ValueOf(entries, k) = Null
      <4>1. stop = InsertStop(entries, k)
        BY <3>3, <1>1, <1>2 DEF LookupStop, InsertStop, InState, Dead, Sound, EntryType
      <4>2. InState(entries, "EMPTY") # {}
        BY <3>1, <3>3, <2>2, <1>1, <1>2 DEF InState, Dead, Sound, EntryType
      <4>3. Holding(entries, k) # {} => end \in Holding(entries, k)
        BY <4>1, <4>2, <1>1, ProbeFinds
      <4> QED BY <4>3, <2>5 DEF ValueOf
    <3> QED BY <3>2, <3>3
  <2> QED BY <2>4, <2>5
<1> QED BY <1>3, <1>4

-----------------------------------------------------------------------------
(* The theorems.                                                            *)

\* Every call, and every failed assertion, preserves the invariant.
LEMMA NextInv ==
    ASSUME StringMapAssumption, Inv, [Next]_vars
    PROVE  Inv'
<1>1. ASSUME NEW c \in Capacities, New(c) PROVE Inv'
  BY <1>1, NewTable
<1>2. ASSUME NEW k \in Keys, NEW v \in Values, Insert(k, v) \/ InsertGrows(k, v)
      PROVE  Inv'
  BY <1>2, InsertStep
<1>3. ASSUME NEW k \in Keys, Kill(k) PROVE Inv'
  BY <1>3, KillStep
<1>4. ASSUME UNCHANGED <<entries, capacity, count, dead_entries>>, status # "none",
             status' \in {"live", "exited"}
      PROVE  Inv'
  BY <1>4, InvTable, TableInv
<1>5. ASSUME NEW k \in Keys, Get(k) PROVE Inv'
  BY <1>4, <1>5 DEF Get
<1>6. CASE InsertFails BY <1>4, <1>6 DEF InsertFails
<1>7. CASE UNCHANGED vars
  BY <1>7 DEF vars, Inv, CountersMatch, TypeOK, ProbeChain, KeysKnown, Occupied, Dead, Empty
<1> QED BY <1>1, <1>2, <1>3, <1>5, <1>6, <1>7 DEF Next

\* In every reachable state, after any inserts, growths and kills, the counters
\* match and every key has its chain.
THEOREM Invariance == Spec => []Inv
<1>1. Init => Inv
  BY InitInv
<1>2. Inv /\ [Next]_vars => Inv'
  BY StringMapAssumption, NextInv
<1> QED BY <1>1, <1>2, PTL DEF Spec

\* count and dead_entries of stringmap_t are the numbers of occupied entries and
\* of tombstones, so that the load factor is what sm_grow() takes it for.
THEOREM CountersAlwaysMatch == Spec => []CountersMatch
<1>1. Inv => CountersMatch BY DEF Inv
<1> QED BY <1>1, Invariance, PTL

\* A key is in the table once, and linear probing reaches it before an empty slot.
THEOREM ChainsAreKept == Spec => []ProbeChain
<1>1. Inv => ProbeChain BY DEF Inv
<1> QED BY <1>1, Invariance, PTL

\* The probe loop of __sm_insert() ends: the load factor leaves an empty slot.
THEOREM InsertsEnd == Spec => []InsertEnds
<1>1. ASSUME Inv, status = "live", Empty = {} PROVE NeedsGrowth
  <2>1. /\ Sound(entries, capacity)
        /\ count = Cardinality(InState(entries, "OCCUPIED"))
        /\ dead_entries = Cardinality(InState(entries, "DEAD"))
    BY <1>1, InvTable
  <2>2. count + dead_entries = capacity /\ capacity \in Nat
    BY <2>1, <1>1, RoomLeft DEF Empty, Sound
  <2> QED BY <2>2 DEF NeedsGrowth
<1>2. Inv => InsertEnds BY <1>1 DEF InsertEnds
<1> QED BY <1>2, Invariance, PTL

\* Without tombstones sm_get() finds every key, with its last value.
THEOREM GetFindsEverything == Spec => []GetFindsWithoutTombstones
<1>1. ASSUME Inv, status = "live", dead_entries = 0, NEW k \in Keys
      PROVE  Lookup(k) = dict[k]
  <2>1. Sound(entries, capacity) /\ dead_entries = Cardinality(Dead)
    BY <1>1, InvTable DEF Dead
  <2>2. Dead = {}
    BY <2>1, <1>1, RoomLeft, FS_EmptySet DEF Dead
  <2> QED BY <2>2, <1>1, StringMapAssumption, LookupFinds DEF dict, ValueOf
<1>2. Inv => GetFindsWithoutTombstones
  BY <1>1 DEF GetFindsWithoutTombstones
<1> QED BY <1>2, Invariance, PTL

\* Every step of the map is a step of the dictionary, or none.
LEMMA StepMaps ==
    ASSUME StringMapAssumption, Inv, [Next]_vars
    PROVE  [Promise!Next]_<<dict, result>>
<1>1. dict = [l \in Keys |-> ValueOf(entries, l)] /\ dict' = [l \in Keys |-> ValueOf(entries', l)]
  BY DEF dict, ValueOf
<1>2. ASSUME entries' = entries PROVE dict' = dict
  BY <1>1, <1>2
<1>3. ASSUME NEW k \in Keys, NEW x, x \in Values \union {Null},
             \A l \in Keys : ValueOf(entries', l) = IF l = k THEN x ELSE ValueOf(entries, l)
      PROVE  dict' = [dict EXCEPT ![k] = x]
  BY <1>1, <1>3
<1>4. ASSUME NEW k \in Keys, NEW v \in Values, Insert(k, v) \/ InsertGrows(k, v)
      PROVE  Promise!Next
  <2>1. dict' = [dict EXCEPT ![k] = v] BY <1>3, <1>4, InsertStep
  <2>2. result' = <<k, IF dict[k] = Null THEN "CREATED" ELSE "UPDATED">>
    BY <1>1, <1>4, InsertStep
  <2> QED BY <2>1, <2>2 DEF Promise!Next, Promise!Insert
<1>5. ASSUME NEW k \in Keys, Kill(k) PROVE Promise!Next
  <2>1. CASE /\ ValueOf(entries, k) # Null
             /\ \A l \in Keys : ValueOf(entries', l) =
                   IF l = k THEN Null ELSE ValueOf(entries, l)
             /\ result' = <<k, "KILLED">>
    <3>1. dict' = [dict EXCEPT ![k] = Null] BY <1>3, <2>1
    <3>2. dict[k] # Null BY <1>1, <2>1
    <3> QED BY <2>1, <3>1, <3>2 DEF Promise!Next, Promise!Kill
  <2>2. CASE entries' = entries /\ result' = <<k, "NOT_FOUND">>
    BY <1>2, <2>2 DEF Promise!Next, Promise!Miss
  <2> QED BY <1>5, <2>1, <2>2, KillStep
<1>6. ASSUME NEW k \in Keys, Get(k) PROVE Promise!Next
  <2>1. /\ status = "live" /\ entries' = entries /\ result' = <<k, Lookup(k)>>
    BY <1>6 DEF Get
  <2>2. Lookup(k) = dict[k] \/ Lookup(k) = Null
    BY <2>1, <1>1, LookupFinds
  <2> QED BY <2>1, <2>2, <1>2 DEF Promise!Next, Promise!Get, Promise!Miss
<1>7. ASSUME NEW c \in Capacities, New(c) PROVE UNCHANGED <<dict, result>>
  <2>1. entries \in [0 .. (0 - 1) -> EntryType] /\ result' = result
    BY <1>7 DEF New, Inv, CountersMatch, TypeOK, KeysKnown
  <2>2. \A l \in Keys : Holding(entries, l) = {}
    BY <2>1 DEF Holding, InState
  <2>3. \A l \in Keys : Holding(entries', l) = {}
    BY <1>7, NewTable
  <2> QED BY <1>1, <2>1, <2>2, <2>3 DEF ValueOf
<1>8. CASE InsertFails \/ UNCHANGED vars
  BY <1>2, <1>8 DEF InsertFails, vars
<1> QED BY <1>4, <1>5, <1>6, <1>7, <1>8 DEF Next

\* The map implements the dictionary its header describes, with the exceptions
\* that module Dictionary allows: a kill or a get may miss a key.
THEOREM Refinement == Spec => ImplementsDictionary
<1>1. Init => Promise!Init
  BY DEF Init, Promise!Init, dict, Holding, InState
<1>2. Inv /\ [Next]_vars => [Promise!Next]_<<dict, result>>
  BY StringMapAssumption, StepMaps
<1> QED BY <1>1, <1>2, Invariance, PTL DEF Spec, ImplementsDictionary, Promise!Spec

-----------------------------------------------------------------------------
(* Blocks: what an update copies in place is bounded by vsize.              *)

\* The key is among the Overstated, of any table.
Misfit(table, k) == \E i \in Holding(table, k) : table[i].vsize > table[i].room

\* A tombstone has forgotten the size of what it held.
TombstonesClear(table) == \A i \in InState(table, "DEAD") : table[i].vsize = 0

\* Entries written into a table leave its tombstones as they are.
LEMMA WrittenClear ==
    ASSUME NEW table, TombstonesClear(table), NEW s, NEW entry,
           s \in DOMAIN table /\ entry.state = "DEAD" => entry.vsize = 0
    PROVE  TombstonesClear(Written(table, s, entry))
BY DEF TombstonesClear, Written, InState

\* An update claims no more than before, or no more than its new block has.
LEMMA UpdateMisfits ==
    ASSUME StringMapAssumption, NEW table, NEW cap, Sound(table, cap),
           NEW k, NEW s \in Holding(table, k), NEW v \in Values,
           NEW l, Misfit(Written(table, s, Updated(table[s], v)), l)
    PROVE  Misfit(table, l)
<1> DEFINE entry == Updated(table[s], v)
           new == Written(table, s, entry)
<1>1. /\ s \in DOMAIN table /\ table[s] \in EntryType /\ table[s].state = "OCCUPIED"
      /\ SizeOf[v] \in Nat
  BY DEF Sound, Holding, InState, StringMapAssumption
<1>2. /\ entry.state = "OCCUPIED" /\ entry.key = table[s].key /\ entry.vsize = SizeOf[v]
      /\ entry.room = IF table[s].vsize >= SizeOf[v] THEN table[s].room ELSE SizeOf[v]
  BY <1>1 DEF Updated, EntryType
<1>3. table[s].vsize \in Nat /\ table[s].room \in Nat
  BY <1>1 DEF EntryType
<1> HIDE DEF entry
<1>4. PICK i \in Holding(new, l) : new[i].vsize > new[i].room
  BY DEF Misfit, entry
<1>5. CASE i = s
  <2>1. table[s].vsize > table[s].room
    BY <1>1, <1>2, <1>3, <1>4, <1>5 DEF Written
  <2>2. s \in Holding(table, l)
    BY <1>1, <1>2, <1>4, <1>5 DEF Written, Holding, InState
  <2> QED BY <2>1, <2>2 DEF Misfit
<1>6. CASE i # s
  BY <1>4, <1>6 DEF Misfit, Written, Holding, InState
<1> QED BY <1>5, <1>6

\* A new entry claims too much only if the unused one claimed something.
LEMMA CreateMisfits ==
    ASSUME StringMapAssumption, NEW table, NEW cap, Sound(table, cap), TombstonesClear(table),
           NEW s \in 0 .. (cap - 1), table[s].state # "OCCUPIED", NEW k \in Keys, NEW v \in Values,
           NEW l, Misfit(Written(table, s, Created(table[s], k, v)), l)
    PROVE  \/ Misfit(table, l)
           \/ l = k /\ s \in InState(table, "EMPTY") /\ table[s].vsize > 0
<1> DEFINE entry == Created(table[s], k, v)
           new == Written(table, s, entry)
<1>1. /\ DOMAIN table = 0 .. (cap - 1) /\ table[s] \in EntryType /\ SizeOf[v] \in Nat
  BY DEF Sound, StringMapAssumption
<1>2. /\ entry.state = "OCCUPIED" /\ entry.key = k /\ entry.vsize = table[s].vsize
      /\ entry.room = SizeOf[v]
  BY DEF Created, Entry
<1>3. table[s].vsize \in Nat /\ table[s].state \in {"EMPTY", "DEAD"}
  BY <1>1 DEF EntryType
<1> HIDE DEF entry
<1>4. PICK i \in Holding(new, l) : new[i].vsize > new[i].room
  BY DEF Misfit, entry
<1>5. CASE i = s
  <2>1. l = k /\ table[s].vsize > 0
    BY <1>1, <1>2, <1>3, <1>4, <1>5 DEF Written, Holding, InState
  <2>2. table[s].state # "DEAD"
    BY <2>1, <1>1 DEF TombstonesClear, InState
  <2> QED BY <2>1, <2>2, <1>1, <1>3 DEF InState
<1>6. CASE i # s
  BY <1>4, <1>6 DEF Misfit, Written, Holding, InState
<1> QED BY <1>5, <1>6

\* The walk of an insert, whichever way it ends.
LEMMA InsertIntoMisfits ==
    ASSUME StringMapAssumption, NEW table, NEW cap, Sound(table, cap),
           Chained(table, cap), InState(table, "EMPTY") # {}, TombstonesClear(table),
           NEW dead, NEW k \in Keys, NEW v \in Values,
           InsertInto(table, cap, dead, k, v)
    PROVE  /\ TombstonesClear(entries')
           /\ \A l \in Keys : Misfit(entries', l) =>
                 \/ Misfit(table, l)
                 \/ \E s \in InState(table, "EMPTY") :
                       Holding(entries', l) = {s} /\ table[s].vsize > 0
<1> DEFINE end == Probe(cap, k, InsertStop(table, k))
           free == NewSlot(table, cap, k)
<1>1. /\ Holding(table, k) # {} => end \in Holding(table, k)
      /\ Holding(table, k) = {} => table[end].state = "EMPTY"
  BY ProbeFinds
<1>2. CASE table[end].state = "OCCUPIED"
  <2>1. entries' = Written(table, end, Updated(table[end], v))
    BY <1>2 DEF InsertInto, Written
  <2>2. end \in Holding(table, k) BY <1>1, <1>2
  <2> HIDE DEF end
  <2>3. table[end] \in EntryType /\ table[end].state = "OCCUPIED"
    BY <2>2 DEF Sound, Holding, InState
  <2>4. Updated(table[end], v).state = "OCCUPIED"
    BY <2>3 DEF Updated, EntryType
  <2>5. TombstonesClear(entries') BY <2>1, <2>4, WrittenClear
  <2>6. \A l \in Keys : Misfit(entries', l) => Misfit(table, l)
    BY <2>1, <2>2, UpdateMisfits
  <2> QED BY <2>5, <2>6
<1>3. CASE table[end].state # "OCCUPIED"
  <2>1. entries' = Written(table, free, Created(table[free], k, v))
    BY <1>3 DEF InsertInto, Written
  <2>2. Holding(table, k) = {}
    <3> HIDE DEF end
    <3> QED BY <1>1, <1>3 DEF Holding, InState
  <2>3. Vacant(table, cap, k, free) BY NewSlotBeforeEmpty
  <2> HIDE DEF free
  <2>4. free \in 0 .. (cap - 1) /\ table[free].state # "OCCUPIED"
    BY <2>3 DEF Vacant
  <2>5. Created(table[free], k, v).state = "OCCUPIED" /\ Created(table[free], k, v).key = k
    BY DEF Created, Entry
  <2>6. TombstonesClear(entries') BY <2>1, <2>5, WrittenClear
  <2>7. Holding(entries', k) = {free}
    <3>1. Chained(entries', cap) /\ Sound(entries', cap)
      BY <2>1, <2>2, <2>3, InsertCreates
    <3>2. free \in Holding(entries', k)
      BY <2>1, <2>4, <2>5 DEF Sound, Written, Holding, InState
    <3> QED BY <3>1, <3>2, HeldOnce
  <2>8. \A l \in Keys : Misfit(entries', l) =>
           \/ Misfit(table, l)
           \/ l = k /\ free \in InState(table, "EMPTY") /\ table[free].vsize > 0
    BY <2>1, <2>4, CreateMisfits
  <2> QED BY <2>6, <2>7, <2>8
<1> QED BY <1>2, <1>3

\* Every step but the creation of an entry over leftover memory lets the entries
\* that fit go on fitting.
LEMMA FitStep ==
    ASSUME StringMapAssumption, Inv, TombstonesClear(entries), [Next]_vars
    PROVE  /\ TombstonesClear(entries')
           /\ \A l \in Keys : Misfit(entries', l) =>
                 \/ Misfit(entries, l)
                 \/ capacity' = capacity /\ Holding(entries', l) \subseteq InState(entries, "EMPTY")
<1> DEFINE Goal ==
      /\ TombstonesClear(entries')
      /\ \A l \in Keys : Misfit(entries', l) =>
            \/ Misfit(entries, l)
            \/ capacity' = capacity /\ Holding(entries', l) \subseteq InState(entries, "EMPTY")
<1>1. ASSUME NEW c \in Capacities, New(c) PROVE Goal
  <2>1. entries' \in [0 .. (capacity' - 1) -> {Unused(left) : left \in Leftover}]
    BY <1>1 DEF New
  <2>2. \A i \in DOMAIN entries' : entries'[i].state = "EMPTY"
    BY <2>1 DEF Unused, Entry
  <2> QED BY <2>2 DEF TombstonesClear, Misfit, Holding, InState
<1>2. ASSUME NEW k \in Keys, NEW v \in Values, Insert(k, v) PROVE Goal
  <2>1. /\ InsertInto(entries, capacity, dead_entries, k, v) /\ status = "live"
        /\ ~ (4 * (count + dead_entries) >= 3 * capacity) /\ capacity' = capacity
    BY <1>2 DEF Insert, NeedsGrowth
  <2>2. /\ Sound(entries, capacity) /\ Chained(entries, capacity)
        /\ count = Cardinality(InState(entries, "OCCUPIED"))
        /\ dead_entries = Cardinality(InState(entries, "DEAD"))
        /\ count \in Nat /\ dead_entries \in Nat
    BY <2>1, InvTable
  <2>3. InState(entries, "EMPTY") # {} BY <2>1, <2>2, EmptyWhenLight
  <2>4. /\ TombstonesClear(entries')
        /\ \A l \in Keys : Misfit(entries', l) =>
              \/ Misfit(entries, l)
              \/ \E s \in InState(entries, "EMPTY") :
                    Holding(entries', l) = {s} /\ entries[s].vsize > 0
    BY <2>1, <2>2, <2>3, InsertIntoMisfits
  <2> QED BY <2>1, <2>4
<1>3. ASSUME NEW k \in Keys, NEW v \in Values, InsertGrows(k, v) PROVE Goal
  <2> DEFINE cap == 2 * capacity
             t == Rehashed(cap)
  <2>1. /\ Sound(entries, capacity) /\ Chained(entries, capacity)
    BY <1>3, InvTable DEF InsertGrows
  <2>2. InsertInto(t, cap, 0, k, v) /\ capacity \in Nat \ {0}
    BY <1>3, <2>1 DEF InsertGrows, Sound
  <2>3. cap \in Nat /\ capacity < cap BY <2>2
  <2>4. /\ Sound(t, cap) /\ Chained(t, cap) /\ InState(t, "EMPTY") # {}
        /\ InState(t, "DEAD") = {}
    BY <2>1, RehashedHasRoom
  <2>5. \A j \in 0 .. (cap - 1) :
          t[j] = Unused(0) \/ \E x \in InState(entries, "OCCUPIED") : t[j] = entries[x]
    <3> HIDE DEF cap
    <3> QED BY <2>1, <2>3, RehashedTable
  <2> HIDE DEF t, cap
  <2>6. TombstonesClear(t) BY <2>4 DEF TombstonesClear
  <2>7. DOMAIN t = 0 .. (cap - 1) BY <2>4 DEF Sound
  <2>8. Unused(0).state = "EMPTY" /\ Unused(0).vsize = 0 BY DEF Unused, Entry
  <2>9. \A s \in InState(t, "EMPTY") : t[s].vsize = 0
    BY <2>5, <2>7, <2>8 DEF InState
  <2>10. \A l \in Keys : Misfit(t, l) => Misfit(entries, l)
    BY <2>5, <2>7, <2>8 DEF Misfit, Holding, InState
  <2>11. /\ TombstonesClear(entries')
         /\ \A l \in Keys : Misfit(entries', l) =>
               \/ Misfit(t, l)
               \/ \E s \in InState(t, "EMPTY") :
                     Holding(entries', l) = {s} /\ t[s].vsize > 0
    BY <2>2, <2>4, <2>6, InsertIntoMisfits
  <2> QED BY <2>9, <2>10, <2>11
<1>4. ASSUME NEW k \in Keys, Kill(k) PROVE Goal
  <2>1. CASE KillSlot(k) \in Holding(entries, k)
    <3>1. entries' = Written(entries, KillSlot(k), Entry("DEAD", Null, Null, 0, 0))
      BY <1>4, <2>1 DEF Kill, Written
    <3>2. /\ Entry("DEAD", Null, Null, 0, 0).state = "DEAD"
          /\ Entry("DEAD", Null, Null, 0, 0).vsize = 0
      BY DEF Entry
    <3>3. TombstonesClear(entries') BY <3>1, <3>2, WrittenClear
    <3>4. \A l \in Keys : Misfit(entries', l) => Misfit(entries, l)
      BY <3>1, <3>2 DEF Misfit, Written, Holding, InState
    <3> QED BY <3>3, <3>4
  <2>2. CASE KillSlot(k) \notin Holding(entries, k)
    BY <1>4, <2>2 DEF Kill
  <2> QED BY <2>1, <2>2
<1>5. CASE entries' = entries BY <1>5
<1> QED BY <1>1, <1>2, <1>3, <1>4, <1>5 DEF Next, InsertFails, Get, vars

\* Whatever the memory of the table held before: an entry that claims no more
\* bytes than its block has goes on doing so through every update, growth and
\* kill, and only an entry that was never used can begin by claiming more.
THEOREM NoCallMisfits == Spec => MisfitsAreLeftover
<1>1. Init => TombstonesClear(entries)
  BY DEF Init, TombstonesClear, InState
<1>2. Inv /\ TombstonesClear(entries) /\ [Next]_vars => TombstonesClear(entries)'
  BY StringMapAssumption, FitStep
<1>3. Inv /\ TombstonesClear(entries) /\ [Next]_vars =>
        [\A k \in Overstated' \ Overstated :
            capacity' = capacity /\ Holding(entries', k) \subseteq Empty]_vars
  <2> SUFFICES ASSUME Inv, TombstonesClear(entries), [Next]_vars,
                      NEW k \in Overstated' \ Overstated
               PROVE  capacity' = capacity /\ Holding(entries', k) \subseteq Empty
    OBVIOUS
  <2>1. ~Misfit(entries, k)
    BY DEF Overstated, Misfit, Holding, Occupied
  <2>2. Misfit(entries', k)
    BY DEF Overstated, Misfit, Holding, Occupied
  <2>3. k \in Keys
    <3>1. Inv' BY StringMapAssumption, NextInv
    <3> QED BY <3>1 DEF Inv, KeysKnown, Overstated
  <2> QED BY <2>1, <2>2, <2>3, StringMapAssumption, FitStep DEF Empty
<1> QED BY <1>1, <1>2, <1>3, Invariance, PTL DEF Spec, MisfitsAreLeftover

=============================================================================
