---------------------------- MODULE ArenaProofs ----------------------------
(***************************************************************************)
(* Proofs about Arena, for every header size, alignment, page size, set of *)
(* requests and number of pointers and temp arenas.  Two hypotheses are    *)
(* stated where they are needed: no request wraps a u64 (NoWrap), and no   *)
(* caller rolls back to the position it is already at.                     *)
(***************************************************************************)
EXTENDS Arena, ArenaLayoutProofs

\* What the assumption on the constants says of one reservation: it is a whole
\* number of pages, and neither it nor an aligned position inside it wraps.
LEMMA Reservation ==
    ASSUME LayoutAssumption, ArenaAssumption, NEW r \in ReserveSizes
    PROVE  /\ AlignPow2(r, Page) \in Nat
           /\ r <= AlignPow2(r, Page)
           /\ AlignPow2(r, Page) % Page = 0
           /\ AlignPow2(r, Page) + Base + Page <= Word
<1>1. r \in Nat /\ Page \in Nat \ {0} /\ r + Base + 2 * Page <= Word
      /\ Base \in Nat \ {0} /\ Word \in Nat \ {0}
  BY DEF LayoutAssumption, ArenaAssumption
<1>2. r + Page <= Word BY <1>1
<1>3. /\ AlignPow2(r, Page) \in Nat /\ r <= AlignPow2(r, Page)
      /\ AlignPow2(r, Page) < r + Page /\ AlignPow2(r, Page) % Page = 0
  BY <1>1, <1>2, AlignUp
<1> QED BY <1>1, <1>3

\* The initial state satisfies the invariant.
LEMMA InitInv == Init => Inv
<1> SUFFICES ASSUME Init PROVE Inv
  OBVIOUS
<1>1. \A h \in Handles : held[h] = NoBlock BY DEF Init
<1>2. NoBlock \in Block /\ NoBlock.from = 0 /\ NoBlock.to = 0
  BY DEF Block, NoBlock
<1>3. TypeOK BY <1>2 DEF Init, TypeOK
<1>4. FieldsInOrder /\ CommitTracksPages
  BY DEF Init, FieldsInOrder, CommitTracksPages
<1>5. PosAboveHeld /\ BlocksDisjoint
  BY <1>1, <1>2 DEF PosAboveHeld, BlocksDisjoint, Disjoint
<1> QED BY <1>3, <1>4, <1>5 DEF Inv

\* Losing the mapping, by arena_free() or by exit(1), keeps the invariant.
LEMMA UnmapInv ==
    ASSUME Unmap, status' \in {"unmapped", "exited"}
    PROVE  Inv'
<1>1. \A h \in Handles : held'[h] = NoBlock BY DEF Unmap
<1>2. NoBlock \in Block /\ NoBlock.from = 0 /\ NoBlock.to = 0
  BY DEF Block, NoBlock
<1>3. TypeOK' BY <1>2 DEF Unmap, TypeOK
<1>4. FieldsInOrder' /\ CommitTracksPages'
  BY DEF Unmap, FieldsInOrder, CommitTracksPages
<1>5. PosAboveHeld' /\ BlocksDisjoint'
  BY <1>1, <1>2 DEF PosAboveHeld, BlocksDisjoint, Disjoint
<1> QED BY <1>3, <1>4, <1>5 DEF Inv

\* arena_new() establishes the invariant: the header fits in the first commit,
\* and rounding keeps that commit inside the reservation.
LEMMA NewInv ==
    ASSUME LayoutAssumption, ArenaAssumption, Inv,
           NEW r \in ReserveSizes, NEW c \in CommitSizes, New(r, c)
    PROVE  Inv'
<1> DEFINE R == AlignPow2(r, Page)
           C == AlignPow2(c, Page)
<1>1. /\ r \in Nat /\ c \in Nat /\ 0 < c /\ c < r /\ c + Page <= Word
      /\ Page \in Nat \ {0} /\ Base \in Nat \ {0} /\ Base <= Page
  BY DEF New, LayoutAssumption, ArenaAssumption
<1>2. R \in Nat /\ r <= R /\ R % Page = 0 /\ R + Base + Page <= Word
  BY Reservation
<1>3. C \in Nat /\ c <= C /\ C % Page = 0
  BY <1>1, AlignUp
<1>4. C <= R
  <2>1. r + Page <= Word
    BY <1>1 DEF ArenaAssumption, LayoutAssumption
  <2> QED BY <1>1, <2>1, AlignMonotone
<1>5. Page <= C
  <2>1. 0 % Page = 0 BY <1>1
  <2>2. ~(C < 0 + Page) \/ C <= 0
    BY <1>1, <1>3, <2>1, MultiplesApart
  <2> QED BY <1>1, <1>3, <2>2
<1>6. AlignPow2(0 + C, Page) = C
  <2>1. C + Page <= Word BY <1>1, <1>2, <1>3, <1>4
  <2> QED BY <1>1, <1>3, <2>1, AlignMultiple
<1>7. /\ reserved' = R /\ committed' = C /\ pos' = Base /\ commit_pos' = C
      /\ rw' = 0 .. (C - 1)
      /\ status' = "mapped" /\ held' = held /\ temps' = temps
  BY <1>6 DEF New, PagesOf
<1>8. \A h \in Handles : held[h] = NoBlock
  BY DEF New, Inv, PosAboveHeld
<1> HIDE DEF R, C
<1>9. TypeOK'
  BY <1>1, <1>2, <1>3, <1>7 DEF Inv, TypeOK
<1>10. FieldsInOrder'
  <2>1. \E q \in ReserveSizes : reserved' = AlignPow2(q, Page) BY <1>7 DEF R
  <2> QED BY <1>1, <1>3, <1>5, <1>7, <2>1 DEF FieldsInOrder
<1>11. CommitTracksPages'
  BY <1>2, <1>3, <1>4, <1>7 DEF CommitTracksPages
<1>12. PosAboveHeld' /\ BlocksDisjoint'
  <2>1. NoBlock.from = 0 /\ NoBlock.to = 0 BY DEF NoBlock
  <2> QED BY <1>7, <1>8, <2>1 DEF PosAboveHeld, BlocksDisjoint, Disjoint
<1> QED BY <1>9, <1>10, <1>11, <1>12 DEF Inv

\* Where an allocation that passes the assertion "Arena is full." lands: above
\* the position, with room for all of its bytes and no wrap.
LEMMA AllocLands ==
    ASSUME LayoutAssumption, ArenaAssumption, NoWrap, Inv, status = "mapped",
           NEW size \in Sizes, Fits(size)
    PROVE  /\ size \in Nat \ {0}
           /\ AllocFrom \in Nat /\ pos <= AllocFrom
           /\ NewPos(size) = AllocFrom + size
           /\ AllocFrom + size < reserved
<1>1. PICK r \in ReserveSizes : reserved = AlignPow2(r, Page)
  BY DEF Inv, FieldsInOrder
<1>2. reserved \in Nat /\ reserved + Base + Page <= Word /\ reserved + Align + size <= Word
  BY <1>1, Reservation DEF NoWrap
<1>3. /\ pos \in Nat /\ pos <= reserved /\ size \in Nat /\ size > 0
      /\ Align \in Nat \ {0} /\ Page \in Nat \ {0} /\ Align <= Page /\ Base \in Nat
      /\ Word \in Nat \ {0}
  BY DEF Inv, TypeOK, FieldsInOrder, CommitTracksPages, Fits, LayoutAssumption,
         ArenaAssumption
<1>4. pos + Align <= Word BY <1>2, <1>3
<1>5. AllocFrom \in Nat /\ pos <= AllocFrom /\ AllocFrom < pos + Align
  BY <1>3, <1>4, AlignUp DEF AllocFrom
<1>6. AllocFrom + size \in Nat /\ AllocFrom + size < Word BY <1>2, <1>3, <1>5
<1>7. NewPos(size) = AllocFrom + size BY <1>3, <1>6, ModSmall DEF NewPos
<1> QED BY <1>3, <1>5, <1>7 DEF Fits

\* The block an allocation returns lies above every held block, so the held
\* blocks stay disjoint and below the position.
LEMMA ReturnInv ==
    ASSUME LayoutAssumption, ArenaAssumption, NoWrap, Inv, status = "mapped",
           NEW h \in Handles, NEW size \in Sizes, Fits(size), Return(h, size)
    PROVE  /\ held' \in [Handles -> Block]
           /\ PosAboveHeld' /\ BlocksDisjoint'
<1> DEFINE b == [from |-> AllocFrom, to |-> AllocFrom + size]
<1>1. /\ size \in Nat \ {0} /\ AllocFrom \in Nat /\ pos <= AllocFrom
      /\ NewPos(size) = AllocFrom + size
  BY AllocLands
<1>2. /\ pos \in Nat /\ Base \in Nat /\ Base <= pos
      /\ held \in [Handles -> Block]
      /\ PosAboveHeld /\ BlocksDisjoint
  BY DEF Inv, TypeOK, FieldsInOrder, LayoutAssumption
<1>3. pos' = AllocFrom + size /\ held' = [held EXCEPT ![h] = b] /\ status' = "mapped"
  BY <1>1 DEF Return
<1>4. b \in Block /\ b.from = AllocFrom /\ b.to = AllocFrom + size
  BY <1>1 DEF Block
<1>5. held' \in [Handles -> Block] BY <1>2, <1>3, <1>4
<1>6. \A k \in Handles : held[k].to \in Nat /\ held[k].to <= pos
  BY <1>2 DEF PosAboveHeld, NoBlock, Block
<1> HIDE DEF b
<1>7. PosAboveHeld'
  <2> SUFFICES ASSUME NEW k \in Handles
               PROVE  held'[k] # NoBlock =>
                      /\ Base <= held'[k].from /\ held'[k].from < held'[k].to
                      /\ held'[k].to <= pos'
    BY <1>3 DEF PosAboveHeld
  <2>1. CASE k = h
    BY <2>1, <1>1, <1>2, <1>3, <1>4
  <2>2. CASE k # h
    <3>1. held'[k] = held[k] BY <2>2, <1>2, <1>3
    <3>2. held[k].from \in Nat /\ held[k].to \in Nat BY <1>2 DEF Block
    <3> QED BY <3>1, <3>2, <1>1, <1>2, <1>3 DEF PosAboveHeld
  <2> QED BY <2>1, <2>2
<1>8. BlocksDisjoint'
  <2>1. ASSUME NEW k \in Handles
        PROVE  held'[k] # NoBlock => held'[k].from >= Base
    BY <1>2, <1>3, <1>4, <1>1 DEF BlocksDisjoint
  <2>2. ASSUME NEW k \in Handles, NEW l \in Handles \ {k}
        PROVE  Disjoint(held'[k], held'[l])
    <3>1. CASE k = h
      BY <3>1, <1>1, <1>2, <1>3, <1>4, <1>6 DEF Disjoint
    <3>2. CASE l = h
      BY <3>2, <1>1, <1>2, <1>3, <1>4, <1>6 DEF Disjoint
    <3>3. CASE k # h /\ l # h
      BY <3>3, <1>2, <1>3 DEF BlocksDisjoint
    <3> QED BY <3>1, <3>2, <3>3
  <2> QED BY <2>1, <2>2 DEF BlocksDisjoint
<1> QED BY <1>5, <1>7, <1>8

\* An allocation inside the committed bytes keeps the invariant.
LEMMA AllocInPlaceInv ==
    ASSUME LayoutAssumption, ArenaAssumption, NoWrap, Inv,
           NEW h \in Handles, NEW size \in Sizes, AllocInPlace(h, size)
    PROVE  Inv'
<1>1. status = "mapped" /\ Fits(size) /\ Return(h, size) BY DEF AllocInPlace
<1>2. held' \in [Handles -> Block] /\ PosAboveHeld' /\ BlocksDisjoint'
  BY <1>1, ReturnInv
<1>3. /\ size \in Nat \ {0} /\ AllocFrom \in Nat /\ pos <= AllocFrom
      /\ NewPos(size) = AllocFrom + size
  BY <1>1, AllocLands
<1>4. /\ pos' = NewPos(size) /\ NewPos(size) <= commit_pos
      /\ commit_pos' = commit_pos /\ rw' = rw
      /\ status' = status /\ reserved' = reserved /\ committed' = committed
      /\ temps' = temps
  BY DEF AllocInPlace, Return
<1>5. TypeOK' BY <1>2, <1>3, <1>4 DEF Inv, TypeOK
<1>6. FieldsInOrder'
  <2>1. FieldsInOrder /\ pos \in Nat /\ Base \in Nat BY DEF Inv, TypeOK, LayoutAssumption
  <2>2. Base <= pos' /\ pos' <= commit_pos'
    BY <2>1, <1>1, <1>3, <1>4 DEF FieldsInOrder
  <2> QED BY <2>1, <2>2, <1>1, <1>4 DEF FieldsInOrder
<1>7. CommitTracksPages' BY <1>4 DEF Inv, CommitTracksPages
<1> QED BY <1>2, <1>5, <1>6, <1>7 DEF Inv

\* An allocation that commits further pages keeps the invariant: the growth
\* covers the new position and ends on a page inside the reservation.
LEMMA AllocGrowsInv ==
    ASSUME LayoutAssumption, ArenaAssumption, NoWrap, Inv,
           NEW h \in Handles, NEW size \in Sizes, AllocGrows(h, size)
    PROVE  Inv'
<1> DEFINE grown == GrownCommitPos(NewPos(size), commit_pos, committed, reserved)
<1>1. status = "mapped" /\ Fits(size) /\ Return(h, size) BY DEF AllocGrows
<1>2. held' \in [Handles -> Block] /\ PosAboveHeld' /\ BlocksDisjoint'
  BY <1>1, ReturnInv
<1>3. /\ size \in Nat \ {0} /\ AllocFrom \in Nat /\ pos <= AllocFrom
      /\ NewPos(size) = AllocFrom + size /\ AllocFrom + size < reserved
  BY <1>1, AllocLands
<1>4. /\ pos' = NewPos(size) /\ commit_pos < NewPos(size)
      /\ commit_pos' = grown
      /\ rw' = rw \union PagesOf(commit_pos, grown - commit_pos)
      /\ status' = status /\ reserved' = reserved /\ committed' = committed
      /\ temps' = temps
  BY DEF AllocGrows, Return
<1>5. /\ reserved \in Nat /\ committed \in Nat \ {0} /\ commit_pos \in Nat /\ pos \in Nat
      /\ committed <= commit_pos /\ committed % Page = 0 /\ Base <= pos
      /\ rw = 0 .. (commit_pos - 1) /\ commit_pos <= reserved /\ commit_pos % Page = 0
      /\ Page \in Nat \ {0} /\ Base \in Nat /\ Word \in Nat
  BY <1>1 DEF Inv, TypeOK, FieldsInOrder, CommitTracksPages, LayoutAssumption
<1>6. PICK r \in ReserveSizes : reserved = AlignPow2(r, Page)
  BY <1>1 DEF Inv, FieldsInOrder
<1>7. reserved % Page = 0 /\ reserved + Base + Page <= Word
  BY <1>6, Reservation
<1>8. NewPos(size) \in Nat /\ NewPos(size) <= reserved BY <1>3, <1>5
<1>9. /\ grown \in Nat /\ NewPos(size) <= grown /\ grown <= reserved
      /\ grown % Page = 0 \/ grown = reserved
  BY <1>4, <1>5, <1>8, GrowthCovers
<1> HIDE DEF grown
<1>10. grown % Page = 0 BY <1>7, <1>9
<1>11. AlignPow2(grown, Page) = grown
  <2>1. grown + Page <= Word BY <1>5, <1>7, <1>9
  <2> QED BY <1>5, <1>9, <1>10, <2>1, AlignMultiple
<1>12. rw' = 0 .. (grown - 1)
  <2>1. commit_pos + (grown - commit_pos) = grown BY <1>5, <1>9
  <2>2. PagesOf(commit_pos, grown - commit_pos) = commit_pos .. (grown - 1)
    BY <1>11, <2>1 DEF PagesOf
  <2> QED BY <1>4, <1>5, <1>8, <1>9, <2>2
<1>13. TypeOK'
  BY <1>2, <1>4, <1>8, <1>9, <1>12 DEF Inv, TypeOK
<1>14. FieldsInOrder'
  <2>1. Base <= pos' /\ pos' <= commit_pos' /\ committed' <= commit_pos'
    BY <1>3, <1>4, <1>5, <1>8, <1>9
  <2> QED BY <2>1, <1>4, <1>5, <1>6 DEF FieldsInOrder
<1>15. CommitTracksPages'
  BY <1>4, <1>9, <1>10, <1>12 DEF CommitTracksPages
<1> QED BY <1>2, <1>13, <1>14, <1>15 DEF Inv

\* Giving memory back keeps the blocks that remain below the position, as long
\* as the position does not fall below the target the caller asked for.
LEMMA RollBackInv ==
    ASSUME LayoutAssumption, Inv, status = "mapped",
           NEW size \in Nat, NEW target \in Int, RollBack(size, target),
           target <= pos - size \/ target <= Base
    PROVE  /\ pos' \in Nat /\ Base <= pos' /\ pos' <= pos
           /\ target <= pos'
           /\ held' \in [Handles -> Block]
           /\ PosAboveHeld' /\ BlocksDisjoint'
<1>1. /\ pos \in Nat /\ Base \in Nat \ {0} /\ Base <= pos
      /\ held \in [Handles -> Block] /\ PosAboveHeld /\ BlocksDisjoint
  BY DEF Inv, TypeOK, FieldsInOrder, LayoutAssumption
<1>2. /\ pos' = pos - Least(size, pos - Base)
      /\ held' = HeldBelow(target) /\ status' = "mapped"
  BY DEF RollBack
<1>3. /\ pos' \in Nat /\ Base <= pos' /\ pos' <= pos /\ target <= pos'
  BY <1>1, <1>2 DEF Least
<1>4. NoBlock \in Block /\ NoBlock.from = 0 /\ NoBlock.to = 0
  BY DEF Block, NoBlock
<1>5. \A k \in Handles :
         \/ held'[k] = NoBlock
         \/ held'[k] = held[k] /\ held[k].to <= target
  BY <1>2 DEF HeldBelow
<1>6. held' \in [Handles -> Block] BY <1>1, <1>2, <1>4 DEF HeldBelow
<1>7. \A k \in Handles : held[k].from \in Nat /\ held[k].to \in Nat
  BY <1>1 DEF Block
<1>8. PosAboveHeld'
  BY <1>1, <1>2, <1>3, <1>5, <1>7 DEF PosAboveHeld
<1>9. BlocksDisjoint'
  <2>1. ASSUME NEW k \in Handles
        PROVE  held'[k] # NoBlock => held'[k].from >= Base
    BY <1>1, <1>5 DEF BlocksDisjoint
  <2>2. ASSUME NEW k \in Handles, NEW l \in Handles \ {k}
        PROVE  Disjoint(held'[k], held'[l])
    BY <1>1, <1>4, <1>5, <1>6 DEF BlocksDisjoint, Disjoint, Block
  <2> QED BY <2>1, <2>2 DEF BlocksDisjoint
<1> QED BY <1>3, <1>6, <1>8, <1>9

\* A rollback that leaves the commit alone keeps the invariant.
LEMMA RollBackStepInv ==
    ASSUME LayoutAssumption, Inv, status = "mapped",
           NEW size \in Nat, NEW target \in Int, RollBack(size, target),
           target <= pos - size \/ target <= Base,
           temps' \in [Temps -> Nat], commit_pos' = commit_pos, rw' = rw
    PROVE  Inv'
<1>1. /\ pos' \in Nat /\ Base <= pos' /\ pos' <= pos
      /\ held' \in [Handles -> Block] /\ PosAboveHeld' /\ BlocksDisjoint'
  BY RollBackInv
<1>2. status' = status /\ reserved' = reserved /\ committed' = committed
  BY DEF RollBack
<1>3. TypeOK' BY <1>1, <1>2 DEF Inv, TypeOK
<1>4. FieldsInOrder'
  BY <1>1, <1>2 DEF Inv, TypeOK, FieldsInOrder, LayoutAssumption
<1>5. CommitTracksPages' BY <1>2 DEF Inv, CommitTracksPages
<1> QED BY <1>1, <1>3, <1>4, <1>5 DEF Inv

\* __arena_dealloc(), arena_dealloc_to() to a position below, temp_arena_new()
\* and temp_arena_free() of a temp arena below keep the invariant.
LEMMA GiveBackInv ==
    ASSUME LayoutAssumption, ArenaAssumption, ~RollsBackToHere, Inv,
           \/ \E size \in Sizes : Dealloc(size)
           \/ \E target \in 1 .. Limit : DeallocTo(target)
           \/ \E t \in Temps : TempNew(t) \/ TempFree(t)
    PROVE  Inv'
<1>1. /\ pos \in Nat /\ temps \in [Temps -> Nat] /\ Sizes \subseteq Nat
      /\ reserved \in Nat /\ Base \in Nat
  BY DEF Inv, TypeOK, ArenaAssumption, LayoutAssumption
<1>2. \A target \in Int : TempsBelow(target) \in [Temps -> Nat]
  BY <1>1 DEF TempsBelow
<1>3. ASSUME NEW size \in Sizes, Dealloc(size) PROVE Inv'
  <2>1. size \in Nat /\ pos - size \in Int BY <1>1
  <2>2. /\ status = "mapped" /\ RollBack(size, pos - size)
        /\ temps' \in [Temps -> Nat] /\ commit_pos' = commit_pos /\ rw' = rw
    BY <1>2, <1>3, <2>1 DEF Dealloc
  <2> QED BY <2>1, <2>2, RollBackStepInv
<1>4. ASSUME NEW target \in Nat, target < pos, status = "mapped",
             RollBack(SizeDownTo(target), target),
             temps' \in [Temps -> Nat], commit_pos' = commit_pos, rw' = rw
      PROVE  Inv'
  <2>1. SizeDownTo(target) \in Nat /\ target <= pos - SizeDownTo(target)
    BY <1>1, <1>4 DEF SizeDownTo
  <2> QED BY <1>4, <2>1, RollBackStepInv
<1>5. ASSUME NEW target \in 1 .. Limit, DeallocTo(target) PROVE Inv'
  <2>1. target \in Nat /\ target < pos BY <1>1, <1>5 DEF DeallocTo, Limit
  <2> QED BY <1>2, <1>4, <1>5, <2>1 DEF DeallocTo
<1>6. ASSUME NEW t \in Temps, TempNew(t) PROVE Inv'
  <2>1. temps' \in [Temps -> Nat] BY <1>1, <1>6 DEF TempNew
  <2>2. UNCHANGED <<status, reserved, committed, pos, commit_pos, rw, held>>
    BY <1>6 DEF TempNew, fields
  <2> QED BY <2>1, <2>2 DEF Inv, TypeOK, FieldsInOrder, CommitTracksPages,
                          PosAboveHeld, BlocksDisjoint
<1>7. ASSUME NEW t \in Temps, TempFree(t) PROVE Inv'
  <2>1. temps[t] \in Nat /\ temps[t] < pos BY <1>1, <1>7 DEF TempFree
  <2>2. temps' \in [Temps -> Nat] BY <1>2, <1>7, <2>1 DEF TempFree
  <2> QED BY <1>4, <1>7, <2>1, <2>2 DEF TempFree
<1> QED BY <1>3, <1>5, <1>6, <1>7

\* arena_clear() keeps the invariant: what it decommits is exactly what lies
\* past the first commit, and no held block is left there.
LEMMA ClearInv ==
    ASSUME LayoutAssumption, ArenaAssumption, Inv, Clear
    PROVE  Inv' /\ pos' = Base /\ rw' = 0 .. (committed - 1)
<1>1. status = "mapped" /\ RollBack(SizeDownTo(Base), Base) BY DEF Clear
<1>2. /\ pos \in Nat /\ Base \in Nat \ {0} /\ Base <= pos /\ temps \in [Temps -> Nat]
      /\ reserved \in Nat /\ committed \in Nat \ {0} /\ commit_pos \in Nat
      /\ committed <= commit_pos /\ committed % Page = 0
      /\ rw = 0 .. (commit_pos - 1) /\ commit_pos <= reserved /\ commit_pos % Page = 0
      /\ Page \in Nat \ {0} /\ Base <= Page /\ Word \in Nat
  BY <1>1 DEF Inv, TypeOK, FieldsInOrder, CommitTracksPages, LayoutAssumption
<1>3. SizeDownTo(Base) \in Nat BY <1>2 DEF SizeDownTo
<1>4. /\ held' \in [Handles -> Block] /\ PosAboveHeld' /\ BlocksDisjoint'
  BY <1>1, <1>2, <1>3, RollBackInv
<1>5. pos' = Base BY <1>1, <1>2 DEF RollBack, SizeDownTo, Least
<1>6. PICK r \in ReserveSizes : reserved = AlignPow2(r, Page)
  BY <1>1 DEF Inv, FieldsInOrder
<1>7. AlignPow2(commit_pos, Page) = commit_pos
  <2>1. commit_pos + Page <= Word BY <1>2, <1>6, Reservation
  <2> QED BY <1>2, <2>1, AlignMultiple
<1>8. rw' = 0 .. (committed - 1) /\ commit_pos' = committed
  <2>1. committed + (commit_pos - committed) = commit_pos BY <1>2
  <2>2. PagesOf(committed, commit_pos - committed) = committed .. (commit_pos - 1)
    BY <1>7, <2>1 DEF PagesOf
  <2>3. CASE commit_pos > committed
    <3>1. rw' = rw \ (committed .. (commit_pos - 1)) /\ commit_pos' = committed
      BY <2>2, <2>3 DEF Clear
    <3>2. ASSUME NEW a \in Int
          PROVE  a \in 0 .. (commit_pos - 1) /\ ~(a \in committed .. (commit_pos - 1))
                 <=> a \in 0 .. (committed - 1)
      BY <1>2, <2>3
    <3>3. rw' = 0 .. (committed - 1) BY <1>2, <3>1, <3>2
    <3> QED BY <3>1, <3>3
  <2>4. CASE ~(commit_pos > committed)
    BY <1>2, <2>4 DEF Clear
  <2> QED BY <2>3, <2>4
<1>9. status' = status /\ reserved' = reserved /\ committed' = committed
      /\ temps' = TempsBelow(Base)
  BY DEF Clear, RollBack
<1>10. committed >= Page
  <2>1. 0 % Page = 0 BY <1>2
  <2> QED BY <1>2, <2>1, MultiplesApart
<1>11. TypeOK'
  <2>1. temps' \in [Temps -> Nat] BY <1>2, <1>9 DEF TempsBelow
  <2> QED BY <2>1, <1>2, <1>4, <1>5, <1>8, <1>9 DEF Inv, TypeOK
<1>12. FieldsInOrder' BY <1>2, <1>5, <1>6, <1>8, <1>9, <1>10 DEF FieldsInOrder
<1>13. CommitTracksPages' BY <1>2, <1>8, <1>9 DEF CommitTracksPages
<1> QED BY <1>4, <1>5, <1>8, <1>11, <1>12, <1>13 DEF Inv

\* Every step keeps the invariant.
LEMMA NextInv ==
    ASSUME LayoutAssumption, ArenaAssumption, NoWrap, ~RollsBackToHere, Inv,
           [Next]_vars
    PROVE  Inv'
<1>1. ASSUME NEW r \in ReserveSizes, NEW c \in CommitSizes, New(r, c) PROVE Inv'
  BY <1>1, NewInv
<1>2. CASE NewFails BY <1>2, UnmapInv DEF NewFails, Exit
<1>3. CASE Free BY <1>3, UnmapInv DEF Free
<1>4. ASSUME NEW h \in Handles, NEW size \in Sizes,
             AllocInPlace(h, size) \/ AllocGrows(h, size)
      PROVE  Inv'
  BY <1>4, AllocInPlaceInv, AllocGrowsInv
<1>5. ASSUME NEW size \in Sizes, AllocFails(size) PROVE Inv'
  BY <1>5, UnmapInv DEF AllocFails, Exit
<1>6. CASE \/ \E size \in Sizes : Dealloc(size)
           \/ \E target \in 1 .. Limit : DeallocTo(target)
           \/ \E t \in Temps : TempNew(t) \/ TempFree(t)
  BY <1>6, GiveBackInv
<1>7. CASE Clear BY <1>7, ClearInv
<1>8. CASE ClearFails BY <1>8, UnmapInv DEF ClearFails, Exit
<1>9. CASE UNCHANGED vars
  BY <1>9 DEF vars, Inv, TypeOK, FieldsInOrder, CommitTracksPages, PosAboveHeld,
              BlocksDisjoint
<1> QED BY <1>1, <1>2, <1>3, <1>4, <1>5, <1>6, <1>7, <1>8, <1>9 DEF Next

\* Every reachable state satisfies the inductive invariant: the header's fields
\* stay in order, commit_pos agrees with the pages, the position stays above
\* every held block.
THEOREM Invariance ==
    ASSUME NoWrap, ~RollsBackToHere
    PROVE  Spec => []Inv
<1>1. Init => Inv BY InitInv
<1>2. Inv /\ [Next]_vars => Inv'
  BY NextInv, LayoutAssumption, ArenaAssumption
<1> QED BY <1>1, <1>2, PTL DEF Spec

\* No two blocks that callers hold share a byte (BlocksDisjoint), whatever
\* sequence of allocations, rollbacks and clears came before.
THEOREM HeldBlocksAreDisjoint ==
    ASSUME NoWrap, ~RollsBackToHere
    PROVE  Spec => []BlocksDisjoint
<1>1. Inv => BlocksDisjoint BY DEF Inv
<1> QED BY <1>1, Invariance, PTL

\* A held block lies below the position, which lies in the committed bytes.
LEMMA InvUsable == Inv => BlocksUsable
<1> SUFFICES ASSUME Inv, NEW h \in Handles PROVE Bytes(held[h]) \subseteq rw
  BY DEF BlocksUsable
<1>1. CASE held[h] = NoBlock
  BY <1>1 DEF Bytes, NoBlock
<1>2. CASE held[h] # NoBlock
  <2>1. /\ status = "mapped" /\ held[h].to <= pos /\ Base <= held[h].from
        /\ held[h].from \in Nat /\ held[h].to \in Nat /\ pos \in Nat
        /\ commit_pos \in Nat
    BY <1>2 DEF Inv, PosAboveHeld, TypeOK, Block
  <2>2. pos <= commit_pos /\ rw = 0 .. (commit_pos - 1)
    BY <2>1 DEF Inv, FieldsInOrder, CommitTracksPages
  <2> QED BY <2>1, <2>2 DEF Bytes
<1> QED BY <1>1, <1>2

\* Every byte of a held block can be read and written (BlocksUsable).
THEOREM HeldBlocksAreUsable ==
    ASSUME NoWrap, ~RollsBackToHere
    PROVE  Spec => []BlocksUsable
BY InvUsable, Invariance, PTL

\* arena_clear() always comes back to the base position and the first commit
\* (ClearResets).
THEOREM ClearIsComplete ==
    ASSUME NoWrap, ~RollsBackToHere
    PROVE  Spec => ClearResets
<1>1. Inv /\ [Next]_vars => [Clear => pos' = Base /\ rw' = 0 .. (committed - 1)]_vars
  BY ClearInv, LayoutAssumption, ArenaAssumption
<1> QED BY <1>1, Invariance, PTL DEF Spec, ClearResets

\* Giving a set of pointers back maps to the allocator's Release.
LEMMA ReleaseMaps ==
    ASSUME NEW S \in SUBSET Handles, BlocksUsable',
           held' = [h \in Handles |-> IF h \in S THEN NoBlock ELSE held[h]]
    PROVE  Promise!Next
<1>1. Promise!HeldUsable'
  BY DEF Promise!HeldUsable, Promise!Bytes, BlocksUsable, Bytes
<1>2. Promise!Release(S) BY <1>1 DEF Promise!Release, Promise!NoBlock, NoBlock
<1> QED BY <1>2 DEF Promise!Next

\* Receiving a block maps to the allocator's Acquire.
LEMMA AllocMaps ==
    ASSUME LayoutAssumption, ArenaAssumption, NoWrap, Inv, Inv', BlocksUsable',
           NEW h \in Handles, NEW size \in Sizes,
           AllocInPlace(h, size) \/ AllocGrows(h, size)
    PROVE  Promise!Next
<1>1. /\ status = "mapped" /\ held[h] = NoBlock /\ Fits(size) /\ Return(h, size)
  BY DEF AllocInPlace, AllocGrows
<1>2. /\ size \in Nat \ {0} /\ AllocFrom \in Nat /\ AllocFrom + size < reserved
  BY <1>1, AllocLands
<1>3. PICK r \in ReserveSizes : reserved = AlignPow2(r, Page)
  BY <1>1 DEF Inv, FieldsInOrder
<1>4. reserved \in Nat /\ reserved <= Word /\ Word \in Nat \ {0}
  BY <1>3, Reservation DEF LayoutAssumption
<1>5. held \in [Handles -> Block] /\ held' \in [Handles -> Block] BY DEF Inv, TypeOK
<1>6. \A k \in Handles : held'[k] \in Promise!Block
  <2> SUFFICES ASSUME NEW k \in Handles PROVE held'[k] \in Promise!Block
    OBVIOUS
  <2>1. held'[k] \in Block BY <1>5
  <2>2. held'[k].to <= reserved /\ held'[k].from <= held'[k].to
    <3>1. CASE held'[k] = NoBlock
      BY <3>1, <1>4 DEF NoBlock
    <3>2. CASE held'[k] # NoBlock
      <4>1. held'[k].to <= pos' /\ held'[k].from < held'[k].to /\ status' = "mapped"
        BY <3>2 DEF Inv, PosAboveHeld
      <4>2. /\ pos' <= commit_pos' /\ commit_pos' <= reserved' /\ reserved' = reserved
            /\ pos' \in Nat /\ commit_pos' \in Nat
        BY <1>1, <4>1 DEF Inv, TypeOK, FieldsInOrder, CommitTracksPages, Return
      <4> QED BY <1>4, <2>1, <4>1, <4>2 DEF Block
    <3> QED BY <3>1, <3>2
  <2>3. held'[k].to < Word /\ held'[k].from < Word
    <3>1. reserved < Word
      BY <1>3, Reservation DEF LayoutAssumption
    <3> QED BY <1>4, <2>1, <2>2, <3>1 DEF Block
  <2> QED BY <1>4, <2>1, <2>3 DEF Block, Promise!Block
<1>7. held' \in [Handles -> Promise!Block]
  BY <1>5, <1>6
<1>8. held'[h].from < held'[h].to
  BY <1>1, <1>2, <1>5 DEF Return
<1>9. \A k \in Handles \ {h} :
         held'[k] = held[k] /\ Promise!Disjoint(held'[h], held[k])
  BY <1>1, <1>5 DEF Return, Inv, BlocksDisjoint, Disjoint, Promise!Disjoint
<1>10. Promise!HeldUsable'
  <2>1. BlocksUsable' OBVIOUS
  <2> QED BY <2>1 DEF Promise!HeldUsable, Promise!Bytes, BlocksUsable, Bytes
<1>11. Promise!Acquire(h)
  BY <1>1, <1>7, <1>8, <1>9, <1>10 DEF Promise!Acquire, Promise!NoBlock, NoBlock
<1> QED BY <1>11 DEF Promise!Next

\* Every step of the arena is a step of the allocator or leaves it unchanged.
LEMMA StepMaps ==
    ASSUME LayoutAssumption, ArenaAssumption, NoWrap, Inv, Inv', BlocksUsable',
           [Next]_vars
    PROVE  [Promise!Next]_<<held, rw>>
<1>1. held \in [Handles -> Block] BY DEF Inv, TypeOK
<1>2. CASE Unmap
  <2>1. held' = [h \in Handles |-> IF h \in Handles THEN NoBlock ELSE held[h]]
    BY <1>2 DEF Unmap
  <2> QED BY <2>1, ReleaseMaps
<1>3. CASE held' = held
  <2>1. held' = [h \in Handles |-> IF h \in {} THEN NoBlock ELSE held[h]]
    BY <1>1, <1>3
  <2>2. {} \in SUBSET Handles OBVIOUS
  <2> HIDE DEF NoBlock
  <2> QED BY <2>1, <2>2, ReleaseMaps, Zenon
<1>4. ASSUME NEW target \in Int, held' = HeldBelow(target) PROVE Promise!Next
  <2> DEFINE S == {h \in Handles : ~(held[h].to <= target)}
  <2>1. held' = [h \in Handles |-> IF h \in S THEN NoBlock ELSE held[h]]
    BY <1>4 DEF HeldBelow
  <2> QED BY <2>1, ReleaseMaps
<1>5. /\ pos \in Nat /\ temps \in [Temps -> Nat] /\ reserved \in Nat /\ Base \in Nat
      /\ Sizes \subseteq Nat
  BY DEF Inv, TypeOK, LayoutAssumption, ArenaAssumption
<1>6. ASSUME NEW h \in Handles, NEW size \in Sizes,
             AllocInPlace(h, size) \/ AllocGrows(h, size)
      PROVE  Promise!Next
  BY <1>6, AllocMaps
<1>7. ASSUME NEW size \in Sizes, Dealloc(size) PROVE Promise!Next
  BY <1>4, <1>5, <1>7 DEF Dealloc, RollBack
<1>8. ASSUME NEW target \in 1 .. Limit, DeallocTo(target) PROVE Promise!Next
  BY <1>4, <1>5, <1>8 DEF DeallocTo, RollBack, Limit
<1>9. ASSUME NEW t \in Temps, TempFree(t) PROVE Promise!Next
  <2>1. temps[t] \in Int BY <1>5
  <2> QED BY <1>4, <1>9, <2>1 DEF TempFree, RollBack
<1>10. CASE Clear BY <1>4, <1>5, <1>10 DEF Clear, RollBack
<1>11. ASSUME NEW t \in Temps, TempNew(t) PROVE held' = held BY <1>11 DEF TempNew
<1>12. ASSUME NEW r \in ReserveSizes, NEW c \in CommitSizes, New(r, c)
       PROVE  held' = held
  BY <1>12 DEF New
<1>13. CASE UNCHANGED vars BY <1>13 DEF vars
<1>14. CASE Next
  BY <1>2, <1>3, <1>6, <1>7, <1>8, <1>9, <1>10, <1>11, <1>12, <1>14
     DEF Next, NewFails, Free, AllocFails, ClearFails, Exit
<1> QED BY <1>13, <1>14

\* The arena implements the allocator its documentation describes
\* (ImplementsAllocator): fresh blocks are clear of every held block, and held
\* blocks neither move nor lose a byte until they are given back.
THEOREM Refinement ==
    ASSUME NoWrap, ~RollsBackToHere
    PROVE  Spec => ImplementsAllocator
<1>1. Init => Promise!Init
  BY DEF Init, Promise!Init, Promise!NoBlock, NoBlock
<1>2. Inv /\ Inv' /\ BlocksUsable' /\ [Next]_vars => [Promise!Next]_<<held, rw>>
  BY StepMaps, LayoutAssumption, ArenaAssumption
<1> QED
  BY <1>1, <1>2, Invariance, HeldBlocksAreUsable, PTL
     DEF Spec, ImplementsAllocator, Promise!Spec
=============================================================================
