----------------------------- MODULE Alm_proof ------------------------------
(***************************************************************************)
(* Proofs about Alm: the inductive invariant AlmInv and the properties     *)
(* that follow from it, for every number and size of segments and every    *)
(* set of requests, as long as a counter does not overflow.                *)
(***************************************************************************)
EXTENDS Alm, FiniteSetTheorems, WellFoundedInduction, TLAPS

(* Quotient and remainder of a segment number and an offset in a segment. *)
LEMMA DivMod ==
    ASSUME NEW n \in Nat \ {0}, NEW q \in Int, NEW o \in 0..(n - 1)
    PROVE  (q * n + o) \div n = q /\ (q * n + o) % n = o
  OBVIOUS

(* Every address is a segment and an offset. *)
LEMMA DivModOf ==
    ASSUME NEW n \in Nat \ {0}, NEW a \in Nat
    PROVE  /\ a \div n \in Nat /\ a % n \in 0..(n - 1)
           /\ a = (a \div n) * n + (a % n)
  OBVIOUS

(* The mask keeps the segment and drops the offset. *)
LEMMA MaskedOf ==
    ASSUME NEW a \in Nat
    PROVE  /\ Masked(a) \in Nat /\ Masked(a) = (a \div SegmentSize) * SegmentSize
           /\ Masked(a) + (a % SegmentSize) = a /\ Masked(a) % SegmentSize = 0
<1>1. SegmentSize \in Nat \ {0} /\ 0 \in 0..(SegmentSize - 1)
  BY AlmAssumption
<1>2. /\ a \div SegmentSize \in Nat /\ a % SegmentSize \in 0..(SegmentSize - 1)
      /\ a = (a \div SegmentSize) * SegmentSize + (a % SegmentSize)
  BY <1>1, DivModOf
<1>3. (a \div SegmentSize) * SegmentSize \in Nat
  BY <1>1, <1>2
<1>4. ((a \div SegmentSize) * SegmentSize) % SegmentSize = 0
  <2> DEFINE q == a \div SegmentSize
  <2> HIDE DEF q
  <2>1. q \in Nat
    BY <1>2 DEF q
  <2>2. (q * SegmentSize + 0) % SegmentSize = 0
    BY <1>1, <2>1, DivMod
  <2>3. q * SegmentSize + 0 = q * SegmentSize
    BY <1>1, <2>1
  <2> QED
    BY <2>2, <2>3 DEF q
<1> QED
  BY <1>1, <1>2, <1>3, <1>4 DEF Masked

(* A request takes at least one segment, and enough of them. *)
LEMMA SegmentsCover ==
    ASSUME NEW a \in Nat, NEW s \in Nat \ {0}, NEW r, r.addr = a, r.size = s
    PROVE  /\ SegmentsOf(r) \in Nat \ {0}
           /\ (a % SegmentSize) + s <= SegmentsOf(r) * SegmentSize
<1> DEFINE n == SegmentSize
           o == a % n
           x == o + s + n - 1
           q == x \div n
<1>1. n \in Nat \ {0}
  BY AlmAssumption
<1>2. o \in 0..(n - 1)
  BY <1>1, DivModOf
<1>3. x \in Nat /\ x >= n
  BY <1>1, <1>2
<1>4. q \in Nat /\ x % n \in 0..(n - 1) /\ x = q * n + (x % n)
  BY <1>1, <1>3, DivModOf
<1>5. SegmentsOf(r) = q
  BY DEF SegmentsOf
<1>6. q # 0
  <2> HIDE DEF x, q, n
  <2> QED
    BY <1>1, <1>3, <1>4
<1>7. o + s <= q * n
  <2>1. q * n \in Int
    BY <1>1, <1>4
  <2>2. q * n >= x - (n - 1)
    <3> HIDE DEF x, q, n
    <3> QED
      BY <1>1, <1>3, <1>4, <2>1
  <2> HIDE DEF q, n, o
  <2> QED
    BY <1>1, <1>2, <2>1, <2>2
<1> QED
  BY <1>4, <1>5, <1>6, <1>7

(* The loop of plx_alm_add_entry finds a place whenever there is one. *)
LEMMA FirstIn ==
    ASSUME NEW T \in SUBSET Nat, T # {}
    PROVE  First(T) \in T
<1>1. PICK x \in T : \A y \in T : ~ (<<y, x>> \in OpToRel(<, Nat))
  BY NatLessThanWellFounded, WFMin
<1>2. \A y \in T : ~ (y < x)
  BY <1>1 DEF OpToRel
<1>3. \A y \in T : x <= y
  BY <1>2
<1> QED
  BY <1>3 DEF First

-----------------------------------------------------------------------------
(* The constants, the segments and an empty entry. *)
LEMMA Types ==
    /\ SegmentsNum \in Nat \ {0} /\ SegmentSize \in Nat \ {0}
    /\ CounterSpan \in Nat \ {0, 1, 2}
    /\ 0 \in Segments /\ Segments \subseteq Nat
    /\ \A i \in Nat : i < SegmentsNum => i \in Segments
    /\ \A i \in Segments : i < SegmentsNum
    /\ Unused \in EntryType
  BY AlmAssumption DEF Segments, Unused, EntryType

(* What Coherent says of a block. *)
LEMMA BlockFacts ==
    ASSUME NEW e \in [Segments -> EntryType], Coherent(e), NEW b \in Blocks(e)
    PROVE  /\ b \in Segments /\ e[b].segments_count \in Nat \ {0}
           /\ e[b].segments_count <= SegmentsNum
           /\ b \in Block(e, b) /\ Block(e, b) \subseteq Segments
           /\ e[b].counter \in Nat \ {0} /\ e[b].value \in Nat
           /\ \A j \in Block(e, b) : e[j].start = b /\ b <= j
<1>1. b \in Segments /\ e[b] \in EntryType
  BY DEF Blocks
<1>2. e[b].segments_count \in Nat \ {0} /\ e[b].segments_count <= SegmentsNum
      /\ e[b].counter \in Nat \ {0} /\ e[b].value \in Nat
  BY <1>1, Types DEF Coherent, EntryType, Blocks
<1>3. b + e[b].segments_count <= SegmentsNum /\ \A j \in Block(e, b) : e[j].start = b
  BY DEF Coherent
<1>4. b \in Block(e, b) /\ Block(e, b) \subseteq Segments /\ \A j \in Block(e, b) : b <= j
  BY <1>1, <1>2, <1>3, Types DEF Block, Segments
<1> QED
  BY <1>1, <1>2, <1>3, <1>4

(* A segment belongs to one block at most. *)
LEMMA BlocksApart ==
    ASSUME NEW e \in [Segments -> EntryType], Coherent(e),
           NEW b \in Blocks(e), NEW c \in Blocks(e), NEW j \in Block(e, b), j \in Block(e, c)
    PROVE  b = c
  BY BlockFacts

(* A mapping held lies in the block of its segment, and counts there. *)
LEMMA HeldFacts ==
    ASSUME TypeOK, NEW e, ArrayInv(e), NEW h \in Held
    PROVE  /\ h \in Handles /\ Owner(e, h) \in Blocks(e)
           /\ SegmentOf(h) \in Block(e, Owner(e, h))
           /\ h \in UsersOf(e, Owner(e, h))
           /\ e[Owner(e, h)].counter >= 2
<1> DEFINE b == Owner(e, h)
<1>1. e \in [Segments -> EntryType] /\ Coherent(e) /\ HeldInv(e) /\ CountInv(e)
  BY DEF ArrayInv
<1>2. h \in Handles
  BY DEF Held
<1>3. /\ b \in Blocks(e) /\ SegmentOf(h) \in Segments /\ b <= SegmentOf(h)
      /\ SegmentOf(h) + SegmentsOf(live[h]) <= b + e[b].segments_count
      /\ live[h].size # 0
  BY <1>1 DEF HeldInv
<1>4. h \in UsersOf(e, b)
  BY DEF UsersOf
<1>5. UsersOf(e, b) \in SUBSET Handles
  BY DEF UsersOf, Held
<1>6. Cardinality(UsersOf(e, b)) \in Nat /\ Cardinality(UsersOf(e, b)) # 0
  BY <1>4, <1>5, AlmAssumption, FS_Subset, FS_CardinalityType, FS_EmptySet
<1>7. e[b].counter >= 2
  BY <1>1, <1>3, <1>6 DEF CountInv
<1>8. live[h].addr \in Nat /\ live[h].size \in Nat \ {0}
  BY <1>2, <1>3 DEF TypeOK
<1>9. SegmentsOf(live[h]) \in Nat \ {0}
  BY <1>8, SegmentsCover
<1>10. SegmentOf(h) \in Block(e, b)
  <2>1. b \in Nat /\ SegmentOf(h) \in Nat /\ e[b].segments_count \in Nat
    BY <1>1, <1>3, BlockFacts, Types
  <2> QED
    BY <1>3, <1>9, <2>1 DEF Block
<1> QED
  BY <1>2, <1>3, <1>4, <1>7, <1>10

(* plx_alm_cleanup_unused_entry takes away exactly the blocks without a user. *)
LEMMA CleanedBlocks ==
    ASSUME NEW e \in [Segments -> EntryType], Coherent(e)
    PROVE  LET d == Cleared(e, Idle(e))
           IN  /\ d \in [Segments -> EntryType]
               /\ Blocks(d) = Blocks(e) \ Idle(e)
               /\ \A b \in Blocks(d) : Block(d, b) = Block(e, b)
               /\ \A b \in Blocks(d) : \A j \in Block(e, b) : d[j] = e[j]
<1> DEFINE d == Cleared(e, Idle(e))
<1>1. d \in [Segments -> EntryType]
  BY Types DEF Cleared
<1>2. ASSUME NEW b \in Blocks(e) \ Idle(e), NEW j \in Block(e, b)
      PROVE  d[j] = e[j] /\ j \in Segments
  <2>1. j \in Segments
    BY BlockFacts
  <2>2. ~ \E c \in Idle(e) : j \in Block(e, c)
    BY BlocksApart DEF Idle
  <2> QED
    BY <2>1, <2>2 DEF Cleared
<1>3. ASSUME NEW b \in Idle(e)
      PROVE  d[b].counter = 0
  <2>1. b \in Segments /\ b \in Block(e, b)
    BY BlockFacts DEF Idle
  <2>2. d[b] = Unused
    BY <2>1 DEF Cleared
  <2> QED
    BY <2>2 DEF Unused
<1>4. ASSUME NEW b \in Segments, b \notin Blocks(e)
      PROVE  d[b].counter = 0
  <2>1. d[b] = Unused \/ d[b] = e[b]
    BY DEF Cleared
  <2> QED
    BY <1>4, <2>1 DEF Unused, Blocks
<1>5. ASSUME NEW b \in Blocks(e) \ Idle(e)
      PROVE  d[b] = e[b]
  BY <1>2, BlockFacts
<1>6. Blocks(d) = Blocks(e) \ Idle(e)
  <2>1. Blocks(d) \subseteq Blocks(e) \ Idle(e)
    BY <1>3, <1>4 DEF Blocks
  <2>2. Blocks(e) \ Idle(e) \subseteq Blocks(d)
    BY <1>5 DEF Blocks
  <2> QED
    BY <2>1, <2>2
<1>7. \A b \in Blocks(d) : Block(d, b) = Block(e, b)
  BY <1>5, <1>6 DEF Block
<1> QED
  BY <1>1, <1>2, <1>6, <1>7

(* The array is as good after the cleanup as before: no mapping held lies  *)
(* in a block that is taken away.                                          *)
LEMMA Cleanup ==
    ASSUME TypeOK, NEW e, ArrayInv(e)
    PROVE  ArrayInv(Cleared(e, Idle(e)))
<1> DEFINE d == Cleared(e, Idle(e))
<1>1. e \in [Segments -> EntryType] /\ Coherent(e)
  BY DEF ArrayInv
<1>2. /\ d \in [Segments -> EntryType]
      /\ Blocks(d) = Blocks(e) \ Idle(e)
      /\ \A b \in Blocks(d) : Block(d, b) = Block(e, b)
      /\ \A b \in Blocks(d) : \A j \in Block(e, b) : d[j] = e[j]
  BY <1>1, CleanedBlocks
<1>3. \A b \in Blocks(d) : b \in Block(e, b) /\ d[b] = e[b]
  BY <1>1, <1>2, BlockFacts
<1> HIDE DEF d
<1>4. Coherent(d)
  <2>1. ASSUME NEW b \in Blocks(d)
        PROVE  /\ d[b].segments_count # 0
               /\ b + d[b].segments_count <= SegmentsNum
               /\ \A j \in Block(d, b) :
                     /\ d[j].start = b
                     /\ j # b => d[j].counter = 0 /\ d[j].segments_count = 0
    BY <1>1, <1>2, <1>3 DEF Coherent
  <2>2. ASSUME NEW i \in Free(d)
        PROVE  d[i] = Unused
    <3>1. i \in Segments
      BY DEF Free
    <3>2. CASE \E b \in Idle(e) : i \in Block(e, b)
      BY <3>1, <3>2 DEF d, Cleared
    <3>3. CASE ~ \E b \in Idle(e) : i \in Block(e, b)
      <4>1. i \in Free(e)
        BY <1>2, <3>1, <3>3 DEF Free
      <4>2. d[i] = e[i]
        BY <3>1, <3>3 DEF d, Cleared
      <4> QED
        BY <1>1, <4>1, <4>2 DEF Coherent
    <3> QED
      BY <3>2, <3>3
  <2> QED
    BY <2>1, <2>2 DEF Coherent
<1>5. ASSUME NEW h \in Held
      PROVE  Owner(d, h) = Owner(e, h) /\ Owner(e, h) \in Blocks(d)
  <2>1. /\ Owner(e, h) \in Blocks(e) /\ SegmentOf(h) \in Block(e, Owner(e, h))
        /\ e[Owner(e, h)].counter >= 2
    BY HeldFacts
  <2>2. Owner(e, h) \in Blocks(d)
    BY <1>2, <2>1 DEF Idle
  <2>3. d[SegmentOf(h)] = e[SegmentOf(h)]
    BY <1>2, <2>1, <2>2
  <2> QED
    BY <2>2, <2>3 DEF Owner
<1>6. HeldInv(d)
  <2>1. HeldInv(e)
    BY DEF ArrayInv
  <2>2. \A h \in Held : d[Owner(e, h)] = e[Owner(e, h)]
    BY <1>3, <1>5
  <2> QED
    BY <1>5, <2>1, <2>2 DEF HeldInv
<1>7. CountInv(d)
  <2>1. ASSUME NEW b \in Blocks(d)
        PROVE  UsersOf(d, b) = UsersOf(e, b)
    BY <1>5 DEF UsersOf
  <2> QED
    BY <1>2, <1>3, <2>1 DEF CountInv, ArrayInv
<1>8. TableInv(d)
  BY <1>2, <1>3 DEF TableInv, ArrayInv
<1> QED
  BY <1>2, <1>4, <1>6, <1>7, <1>8 DEF ArrayInv, d

(* So is the array a request works on. *)
LEMMA PreparedInv ==
    ASSUME AlmInv, NEW r
    PROVE  ArrayInv(Prepared(r)) /\ TypeOK
  BY Cleanup DEF AlmInv, Prepared

-----------------------------------------------------------------------------
(* kzalloc leaves an array without blocks, and nobody holds a mapping. *)
LEMMA EmptyInv ==
    ASSUME NEW e, e = [i \in Segments |-> Unused], Held = {}
    PROVE  ArrayInv(e)
<1>1. e \in [Segments -> EntryType]
  BY Types
<1>2. Blocks(e) = {}
  BY DEF Blocks, Unused
<1>3. Coherent(e)
  BY <1>2 DEF Coherent, Free
<1>4. HeldInv(e) /\ CountInv(e) /\ TableInv(e)
  BY <1>2 DEF HeldInv, CountInv, TableInv
<1> QED
  BY <1>1, <1>3, <1>4 DEF ArrayInv

(* plx_alm_init establishes the invariant. *)
LEMMA InitInv == Init => AlmInv
<1> SUFFICES ASSUME Init PROVE AlmInv
  OBVIOUS
<1>1. TypeOK
  BY Types, AlmAssumption DEF Init, TypeOK, None, Off
<1>2. Held = {}
  BY DEF Init, Held
<1>3. ArrayInv(entries)
  BY <1>2, EmptyInv DEF Init
<1> QED
  BY <1>1, <1>3 DEF AlmInv

(* A request that is refused leaves at most a cleanup behind. *)
LEMMA RefusedStep ==
    ASSUME AlmInv, NEW r, entries' = Prepared(r), UNCHANGED <<hw, live>>
    PROVE  AlmInv'
<1>1. ArrayInv(Prepared(r)) /\ TypeOK
  BY PreparedInv
<1>2. ArrayInv(entries)'
  BY <1>1 DEF ArrayInv, Coherent, HeldInv, CountInv, TableInv, Held, UsersOf, Owner,
              SegmentOf, Blocks, Block, Free
<1>3. TypeOK'
  BY <1>1 DEF TypeOK, ArrayInv
<1> QED
  BY <1>2, <1>3 DEF AlmInv

(* plx_a_lut_clear, while no mapping is held, starts over. *)
LEMMA ClearStep ==
    ASSUME AlmInv, Clear
    PROVE  AlmInv'
<1>1. TypeOK'
  BY Types DEF AlmInv, TypeOK, Clear
<1>2. Held' = {}
  BY DEF Clear, Held
<1>3. ArrayInv(entries)'
  <2>1. entries' = [i \in Segments |-> Unused]
    BY DEF Clear
  <2>2. entries' \in [Segments -> EntryType]
    BY <2>1, Types
  <2>3. Blocks(entries)' = {}
    BY <2>1 DEF Blocks, Unused
  <2>4. Coherent(entries)'
    BY <2>1, <2>3 DEF Coherent, Free
  <2>5. HeldInv(entries)' /\ CountInv(entries)' /\ TableInv(entries)'
    BY <1>2, <2>3 DEF HeldInv, CountInv, TableInv
  <2> QED
    BY <2>2, <2>4, <2>5 DEF ArrayInv
<1> QED
  BY <1>1, <1>3 DEF AlmInv

(* What an assignment to the counter of block b changes. *)
SameButCounter(d, f, b, n) ==
    /\ f \in [Segments -> EntryType] /\ f[b].counter = n
    /\ \A i \in Segments : /\ f[i].start = d[i].start /\ f[i].value = d[i].value
                           /\ f[i].segments_count = d[i].segments_count
    /\ \A i \in Segments : i # b => f[i] = d[i]

(* Such an assignment, written as an update of the array. *)
LEMMA CounterAssigned ==
    ASSUME NEW d \in [Segments -> EntryType], NEW b \in Segments, NEW n \in 0..(CounterSpan - 1)
    PROVE  SameButCounter(d, [d EXCEPT ![b].counter = n], b, n)
<1> DEFINE f == [d EXCEPT ![b].counter = n]
<1>1. d[b] \in EntryType
  OBVIOUS
<1>2. f[b] = [d[b] EXCEPT !.counter = n] /\ \A i \in Segments : i # b => f[i] = d[i]
  OBVIOUS
<1>3. f[b] \in EntryType /\ f[b].counter = n
  BY <1>1, <1>2 DEF EntryType
<1>4. f \in [Segments -> EntryType]
  BY <1>1, <1>3
<1>5. \A i \in Segments : /\ f[i].start = d[i].start /\ f[i].value = d[i].value
                          /\ f[i].segments_count = d[i].segments_count
  BY <1>1, <1>2 DEF EntryType
<1> QED
  BY <1>2, <1>3, <1>4, <1>5 DEF SameButCounter

(* A new counter, other than 0, leaves all blocks where they are. *)
LEMMA CounterChange ==
    ASSUME NEW d \in [Segments -> EntryType], Coherent(d), NEW b \in Blocks(d),
           NEW n \in 1..(CounterSpan - 1), NEW f, SameButCounter(d, f, b, n)
    PROVE  /\ Coherent(f)
           /\ Blocks(f) = Blocks(d) /\ \A c \in Blocks(d) : Block(f, c) = Block(d, c)
<1>1. b \in Segments /\ d[b] \in EntryType
  BY DEF Blocks
<1>2. f[b].counter = n /\ \A i \in Segments : i # b => f[i] = d[i]
  BY DEF SameButCounter
<1>6. \A i \in Segments : /\ f[i].start = d[i].start /\ f[i].value = d[i].value
                          /\ f[i].segments_count = d[i].segments_count
  BY DEF SameButCounter
<1>7. n # 0 /\ d[b].counter # 0
  BY Types DEF Blocks
<1>8. Blocks(f) = Blocks(d)
  BY <1>1, <1>2, <1>7 DEF Blocks
<1>9. \A c \in Blocks(d) : Block(f, c) = Block(d, c)
  BY <1>6 DEF Block, Blocks
<1>10. Coherent(f)
  <2>1. ASSUME NEW c \in Blocks(f)
        PROVE  /\ f[c].segments_count # 0
               /\ c + f[c].segments_count <= SegmentsNum
               /\ \A j \in Block(f, c) :
                     /\ f[j].start = c
                     /\ j # c => f[j].counter = 0 /\ f[j].segments_count = 0
    <3>1. c \in Segments /\ Block(d, c) \subseteq Segments /\ c \in Blocks(d)
      BY <1>8, BlockFacts
    <3>2. d[c].segments_count # 0 /\ c + d[c].segments_count <= SegmentsNum
      BY <3>1 DEF Coherent
    <3>3. ASSUME NEW j \in Block(d, c)
          PROVE  /\ f[j].start = c
                 /\ j # c => f[j].counter = 0 /\ f[j].segments_count = 0
      <4>1. j \in Segments /\ d[j].start = c
            /\ (j # c => d[j].counter = 0 /\ d[j].segments_count = 0)
        BY <3>1 DEF Coherent
      <4>2. j # c => j # b
        BY <1>7, <4>1
      <4> QED
        BY <1>2, <1>6, <4>1, <4>2
    <3> QED
      BY <1>6, <1>9, <3>1, <3>2, <3>3
  <2>2. ASSUME NEW i \in Free(f)
        PROVE  f[i] = Unused
    <3>1. i \in Free(d)
      BY <1>8, <1>9 DEF Free
    <3>2. i # b /\ i \in Segments
      BY <3>1, BlockFacts DEF Free
    <3> QED
      BY <1>2, <3>1, <3>2 DEF Coherent
  <2> QED
    BY <2>1, <2>2 DEF Coherent
<1> QED
  BY <1>8, <1>9, <1>10

(* The mappings of a block, and one more or one less of them. *)
LEMMA UsersFinite ==
    ASSUME NEW e, NEW b
    PROVE  /\ IsFiniteSet(UsersOf(e, b)) /\ UsersOf(e, b) \in SUBSET Handles
           /\ Cardinality(UsersOf(e, b)) \in Nat
           /\ Cardinality(UsersOf(e, b)) <= Cardinality(Handles)
<1>1. UsersOf(e, b) \in SUBSET Handles
  BY DEF UsersOf, Held
<1> QED
  BY <1>1, AlmAssumption, FS_Subset, FS_CardinalityType

(* plx_iounmap: the counter was 2 or more, so the block stays. *)
LEMMA DelStep ==
    ASSUME AlmInv, NEW h \in Handles, Del(h)
    PROVE  AlmInv'
<1> DEFINE b == Owner(entries, h)
           n == entries[b].counter - 1
           f == [entries EXCEPT ![b].counter = n]
<1>1. TypeOK /\ ArrayInv(entries) /\ h \in Held
  BY DEF AlmInv, Del, Held
<1>2. entries \in [Segments -> EntryType] /\ Coherent(entries)
  BY <1>1 DEF ArrayInv
<1>3. b \in Blocks(entries) /\ entries[b].counter >= 2 /\ h \in UsersOf(entries, b)
  BY <1>1, HeldFacts
<1>4. b \in Segments /\ entries[b].counter \in 0..(CounterSpan - 1)
  BY <1>2, <1>3 DEF Blocks, EntryType
<1>5. n \in 1..(CounterSpan - 1)
  BY <1>3, <1>4, Types
<1>6. /\ f \in [Segments -> EntryType] /\ Coherent(f)
      /\ Blocks(f) = Blocks(entries) /\ \A c \in Blocks(entries) : Block(f, c) = Block(entries, c)
      /\ \A i \in Segments : /\ f[i].start = entries[i].start /\ f[i].value = entries[i].value
                             /\ f[i].segments_count = entries[i].segments_count
      /\ f[b].counter = n /\ \A i \in Segments \ {b} : f[i] = entries[i]
  <2>1. SameButCounter(entries, f, b, n)
    <3>1. n \in 0..(CounterSpan - 1)
      BY <1>5, Types
    <3> HIDE DEF b, n
    <3> QED
      BY <1>2, <1>4, <3>1, CounterAssigned, Zenon
  <2> HIDE DEF b, n, f
  <2>2. /\ Coherent(f) /\ Blocks(f) = Blocks(entries)
        /\ \A c \in Blocks(entries) : Block(f, c) = Block(entries, c)
    BY <1>2, <1>3, <1>5, <2>1, CounterChange
  <2> QED
    BY <2>1, <2>2 DEF SameButCounter
<1>7. entries' = f /\ hw' = hw /\ live' = [live EXCEPT ![h] = None]
  <2>1. f[b].counter # 0
    BY <1>5, <1>6
  <2> QED
    BY <2>1 DEF Del
<1> HIDE DEF f, n
<1>8. TypeOK'
  BY <1>1, <1>6, <1>7 DEF TypeOK, None, Off
<1>9. Held' = Held \ {h} /\ \A g \in Held' : live'[g] = live[g]
  BY <1>1, <1>7 DEF Held, TypeOK
<1>10. ASSUME NEW g \in Held'
       PROVE  /\ g \in Held /\ SegmentOf(g)' = SegmentOf(g)
              /\ Owner(entries, g)' = Owner(entries, g)
  <2>1. g \in Held /\ SegmentOf(g)' = SegmentOf(g)
    BY <1>9 DEF SegmentOf
  <2>2. SegmentOf(g) \in Segments
    BY <1>1, <2>1 DEF ArrayInv, HeldInv
  <2> QED
    BY <1>6, <1>7, <2>1, <2>2 DEF Owner
<1>11. HeldInv(entries)'
  <2>1. HeldInv(entries)
    BY <1>1 DEF ArrayInv
  <2> SUFFICES ASSUME NEW g \in Held'
               PROVE  LET c == Owner(entries, g)'
                      IN  /\ live'[g].bar \in Nat /\ live'[g].size # 0
                          /\ SegmentOf(g)' \in Segments
                          /\ c \in Blocks(entries)'
                          /\ c <= SegmentOf(g)'
                          /\ SegmentOf(g)' + SegmentsOf(live'[g]) <= c + entries'[c].segments_count
                          /\ entries'[c].value + (SegmentOf(g)' - c) * SegmentSize
                                = Masked(live'[g].addr)
                          /\ live'[g].bar % SegmentSize = live'[g].addr % SegmentSize
    BY DEF HeldInv, Masked, SegmentsOf
  <2>2. Owner(entries, g) \in Segments /\ Owner(entries, g) \in Blocks(entries)'
    BY <1>6, <1>7, <1>10, <2>1 DEF HeldInv, Blocks
  <2> QED
    BY <1>6, <1>7, <1>9, <1>10, <2>1, <2>2 DEF HeldInv
<1>12. CountInv(entries)'
  <2> SUFFICES ASSUME NEW c \in Blocks(entries)'
               PROVE  entries'[c].counter = 1 + Cardinality(UsersOf(entries, c)')
    BY DEF CountInv
  <2>1. c \in Blocks(entries) /\ c \in Segments
    BY <1>6, <1>7 DEF Blocks
  <2>2. entries[c].counter = 1 + Cardinality(UsersOf(entries, c))
    BY <1>1, <2>1 DEF ArrayInv, CountInv
  <2>3. UsersOf(entries, c)' = UsersOf(entries, c) \ {h}
    BY <1>9, <1>10 DEF UsersOf
  <2>4. CASE c = b
    <3>1. Cardinality(UsersOf(entries, c) \ {h}) = Cardinality(UsersOf(entries, c)) - 1
      BY <1>3, <2>4, UsersFinite, FS_RemoveElement
    <3> QED
      BY <1>6, <1>7, <2>2, <2>3, <2>4, <3>1, UsersFinite DEF n
  <2>5. CASE c # b
    <3>1. h \notin UsersOf(entries, c)
      BY <2>5 DEF UsersOf
    <3>2. UsersOf(entries, c) \ {h} = UsersOf(entries, c)
      BY <3>1
    <3> QED
      BY <1>6, <1>7, <2>1, <2>2, <2>3, <2>5, <3>2
  <2> QED
    BY <2>4, <2>5
<1>13. TableInv(entries)'
  <2>1. \A c \in Blocks(entries) : c \in Segments
    BY DEF Blocks
  <2> QED
    BY <1>1, <1>6, <1>7, <2>1 DEF TableInv, ArrayInv
<1>14. Coherent(entries)'
  BY <1>6, <1>7 DEF Coherent, Blocks, Block, Free
<1> QED
  BY <1>6, <1>7, <1>8, <1>11, <1>12, <1>13, <1>14 DEF AlmInv, ArrayInv

-----------------------------------------------------------------------------
(* plx_ioremap that finds a block to share: one more user of that block. *)
LEMMA AddSharedStep ==
    ASSUME CountersSuffice, AlmInv, NEW h \in Handles, NEW r \in Requests, AddShared(h, r)
    PROVE  AlmInv'
<1> DEFINE d   == Prepared(r)
           b   == First(Sharable(d, r))
           n   == d[b].counter + 1
           f   == [d EXCEPT ![b].counter = n]
           idx == (Masked(r.addr) - d[b].value) \div SegmentSize
           o   == r.addr % SegmentSize
           bar == (b + idx) * SegmentSize + o
<1>1. TypeOK /\ ArrayInv(d) /\ h \notin Held
  BY PreparedInv DEF AddShared, Held
<1>2. d \in [Segments -> EntryType] /\ Coherent(d)
  BY <1>1 DEF ArrayInv
<1>3. r.addr \in Nat /\ r.size \in Nat \ {0}
  BY AlmAssumption
<1>4. b \in Sharable(d, r)
  <2>1. Sharable(d, r) \in SUBSET Nat /\ Sharable(d, r) # {}
    BY Types DEF Sharable, Blocks, AddShared
  <2> QED
    BY <2>1, FirstIn
<1>5. b \in Blocks(d) /\ Masked(r.addr) >= d[b].value /\ idx + SegmentsOf(r) <= d[b].segments_count
  BY <1>4 DEF Sharable, Shares
<1>6. n \in 1..(CounterSpan - 1)
  <2> DEFINE U == UsersOf(d, b)
  <2>1. d[b].counter = 1 + Cardinality(U)
    BY <1>1, <1>5 DEF ArrayInv, CountInv
  <2>2. IsFiniteSet(U) /\ U \in SUBSET Handles /\ Cardinality(U) \in Nat /\ h \notin U
    BY <1>1, UsersFinite DEF UsersOf
  <2>3. U \cup {h} \in SUBSET Handles /\ Cardinality(U \cup {h}) = Cardinality(U) + 1
    BY <2>2, FS_AddElement
  <2>4. Cardinality(U \cup {h}) <= Cardinality(Handles) /\ Cardinality(Handles) \in Nat
    BY <2>3, AlmAssumption, FS_Subset, FS_CardinalityType
  <2> HIDE DEF U
  <2> QED
    BY <2>1, <2>2, <2>3, <2>4, Types DEF CountersSuffice
<1>7. /\ f \in [Segments -> EntryType] /\ Coherent(f)
      /\ Blocks(f) = Blocks(d) /\ \A c \in Blocks(d) : Block(f, c) = Block(d, c)
      /\ \A i \in Segments : /\ f[i].start = d[i].start /\ f[i].value = d[i].value
                             /\ f[i].segments_count = d[i].segments_count
      /\ f[b].counter = n /\ \A i \in Segments \ {b} : f[i] = d[i]
  <2>1. SameButCounter(d, f, b, n)
    <3>1. b \in Segments
      BY <1>5 DEF Blocks
    <3>2. n \in 0..(CounterSpan - 1)
      BY <1>6, Types
    <3> HIDE DEF b, n, d
    <3> QED
      BY <1>2, <3>1, <3>2, CounterAssigned, Zenon
  <2> HIDE DEF b, n, f, d
  <2>2. /\ Coherent(f) /\ Blocks(f) = Blocks(d)
        /\ \A c \in Blocks(d) : Block(f, c) = Block(d, c)
    BY <1>2, <1>5, <1>6, <2>1, CounterChange
  <2> QED
    BY <2>1, <2>2 DEF SameButCounter
<1>8. n % CounterSpan = n
  <2> HIDE DEF n
  <2> QED
    BY <1>6, Types
<1>9. entries' = f /\ hw' = hw
      /\ live' = [live EXCEPT ![h] = [bar |-> bar, addr |-> r.addr, size |-> r.size]]
  BY <1>8 DEF AddShared, Hand
<1>10. /\ b \in Segments /\ d[b].segments_count \in Nat \ {0} /\ Block(d, b) \subseteq Segments
       /\ d[b].value \in Nat /\ \A j \in Block(d, b) : d[j].start = b
  BY <1>2, <1>5, BlockFacts
<1>11. SegmentsOf(r) \in Nat \ {0}
  BY <1>3, SegmentsCover
<1>12. idx \in Nat /\ d[b].value + idx * SegmentSize = Masked(r.addr)
  <2>1. d[b].value % SegmentSize = 0 /\ SegmentSize \in Nat \ {0}
    BY <1>1, <1>5, Types DEF ArrayInv, TableInv
  <2>2. /\ Masked(r.addr) \in Nat
        /\ Masked(r.addr) = (r.addr \div SegmentSize) * SegmentSize
    BY <1>3, MaskedOf
  <2>3. d[b].value = (d[b].value \div SegmentSize) * SegmentSize
        /\ d[b].value \div SegmentSize \in Nat /\ r.addr \div SegmentSize \in Nat
    BY <1>3, <1>10, <2>1, DivModOf
  <2> DEFINE p == r.addr \div SegmentSize
             q == d[b].value \div SegmentSize
  <2>4. Masked(r.addr) - d[b].value = (p - q) * SegmentSize + 0
    <3>1. Masked(r.addr) = p * SegmentSize /\ d[b].value = q * SegmentSize
      BY <2>2, <2>3
    <3>2. p \in Nat /\ q \in Nat
      BY <2>3
    <3> HIDE DEF p, q
    <3> QED
      BY <2>1, <3>1, <3>2
  <2>5. p - q \in Int
    BY <2>3
  <2>6. idx = p - q
    <3> HIDE DEF p, q
    <3>1. 0 \in 0..(SegmentSize - 1)
      BY <2>1
    <3>2. ((p - q) * SegmentSize + 0) \div SegmentSize = p - q
      BY <2>1, <2>5, <3>1, DivMod
    <3> QED
      BY <2>4, <3>2
  <2>7. (p - q) * SegmentSize >= 0
    BY <1>5, <1>10, <2>2, <2>4, <2>5, <2>1
  <2>8. p - q >= 0
    <3> HIDE DEF p, q
    <3> QED
      BY <2>1, <2>5, <2>7
  <2> HIDE DEF p, q, idx
  <2>9. idx * SegmentSize = Masked(r.addr) - d[b].value
    BY <2>1, <2>4, <2>5, <2>6
  <2> QED
    BY <1>10, <2>2, <2>5, <2>6, <2>8, <2>9
<1>13. o \in 0..(SegmentSize - 1)
  BY <1>3, DivModOf, Types
<1> HIDE DEF idx, o, n, f, b, d
<1>14. b + idx \in Block(d, b) /\ b + idx \in Segments /\ b \in Nat
  <2>1. b \in Nat
    BY <1>10, Types
  <2>2. b + idx \in Block(d, b)
    BY <1>5, <1>10, <1>11, <1>12, <2>1 DEF Block
  <2> QED
    BY <1>10, <2>1, <2>2
<1>15. bar \in Nat /\ bar \div SegmentSize = b + idx /\ bar % SegmentSize = o
  <2> DEFINE s == b + idx
  <2>1. s \in Nat
    BY <1>12, <1>14
  <2> HIDE DEF s
  <2>2. (s * SegmentSize + o) \div SegmentSize = s /\ (s * SegmentSize + o) % SegmentSize = o
    BY <1>13, <2>1, DivMod, Types
  <2>3. s * SegmentSize + o \in Nat
    BY <1>13, <2>1, Types
  <2> QED
    BY <2>2, <2>3 DEF s
<1> HIDE DEF bar
<1>16. TypeOK'
  BY <1>1, <1>3, <1>7, <1>9, <1>15 DEF TypeOK
<1>17. live'[h] = [bar |-> bar, addr |-> r.addr, size |-> r.size]
       /\ \A g \in Handles \ {h} : live'[g] = live[g]
  BY <1>1, <1>9 DEF TypeOK
<1>18. Held' = Held \cup {h}
  BY <1>15, <1>17 DEF Held, None, Off
<1>19. ASSUME NEW g \in Held
       PROVE  /\ g \in Handles \ {h} /\ SegmentOf(g)' = SegmentOf(g)
              /\ Owner(entries, g)' = Owner(d, g)
  <2>1. g \in Handles \ {h} /\ SegmentOf(g)' = SegmentOf(g)
    BY <1>1, <1>17 DEF SegmentOf, Held
  <2>2. SegmentOf(g) \in Segments
    BY <1>1 DEF ArrayInv, HeldInv
  <2> QED
    BY <1>7, <1>9, <2>1, <2>2 DEF Owner
<1>20. SegmentOf(h)' = b + idx /\ Owner(entries, h)' = b
  <2>1. SegmentOf(h)' = b + idx
    BY <1>15, <1>17 DEF SegmentOf
  <2>2. entries'[b + idx].start = b
    BY <1>7, <1>9, <1>10, <1>14
  <2> QED
    BY <2>1, <2>2 DEF Owner
<1>21. HeldInv(entries)'
  <2> SUFFICES ASSUME NEW g \in Held'
               PROVE  LET c == Owner(entries, g)'
                      IN  /\ live'[g].bar \in Nat /\ live'[g].size # 0
                          /\ SegmentOf(g)' \in Segments
                          /\ c \in Blocks(entries)'
                          /\ c <= SegmentOf(g)'
                          /\ SegmentOf(g)' + SegmentsOf(live'[g]) <= c + entries'[c].segments_count
                          /\ entries'[c].value + (SegmentOf(g)' - c) * SegmentSize
                                = Masked(live'[g].addr)
                          /\ live'[g].bar % SegmentSize = live'[g].addr % SegmentSize
    BY DEF HeldInv, Masked, SegmentsOf
  <2>1. Blocks(entries)' = Blocks(d)
    BY <1>7, <1>9 DEF Blocks
  <2>2. CASE g \in Held
    <3>1. HeldInv(d)
      BY <1>1 DEF ArrayInv
    <3>2. Owner(d, g) \in Blocks(d) /\ Owner(d, g) \in Segments
      BY <2>2, <3>1 DEF HeldInv, Blocks
    <3> QED
      BY <1>7, <1>9, <1>17, <1>19, <2>1, <2>2, <3>1, <3>2 DEF HeldInv
  <2>3. CASE g = h
    <3>1. SegmentsOf(live'[h]) = SegmentsOf(r) /\ live'[h].addr = r.addr
      BY <1>17 DEF SegmentsOf
    <3>2. b <= b + idx /\ (b + idx) - b = idx
      BY <1>12, <1>14
    <3>3. (b + idx) + SegmentsOf(r) <= b + f[b].segments_count /\ f[b].value = d[b].value
      BY <1>5, <1>7, <1>10, <1>11, <1>12, <1>14
    <3>4. live'[h].bar = bar /\ live'[h].size = r.size /\ r.size # 0
      BY <1>3, <1>17
    <3> QED
      BY <1>5, <1>9, <1>12, <1>14, <1>15, <1>20, <2>1, <2>3, <3>1, <3>2, <3>3, <3>4 DEF o
  <2> QED
    BY <1>18, <2>2, <2>3
<1>22. CountInv(entries)'
  <2> SUFFICES ASSUME NEW c \in Blocks(entries)'
               PROVE  entries'[c].counter = 1 + Cardinality(UsersOf(entries, c)')
    BY DEF CountInv
  <2>1. c \in Blocks(d) /\ c \in Segments
    BY <1>7, <1>9 DEF Blocks
  <2>2. d[c].counter = 1 + Cardinality(UsersOf(d, c))
    BY <1>1, <2>1 DEF ArrayInv, CountInv
  <2>3. CASE c = b
    <3>1. UsersOf(entries, c)' = UsersOf(d, c) \cup {h}
      BY <1>18, <1>19, <1>20, <2>3 DEF UsersOf
    <3>2. h \notin UsersOf(d, c)
      BY <1>1 DEF UsersOf
    <3>3. Cardinality(UsersOf(d, c) \cup {h}) = Cardinality(UsersOf(d, c)) + 1
      BY <3>2, UsersFinite, FS_AddElement
    <3> QED
      BY <1>7, <1>9, <2>2, <2>3, <3>1, <3>3, UsersFinite DEF n
  <2>4. CASE c # b
    <3>1. UsersOf(entries, c)' = UsersOf(d, c)
      BY <1>18, <1>19, <1>20, <2>4 DEF UsersOf
    <3> QED
      BY <1>7, <1>9, <2>1, <2>2, <2>4, <3>1
  <2> QED
    BY <2>3, <2>4
<1>23. TableInv(entries)'
  <2>1. \A c \in Blocks(d) : c \in Segments
    BY DEF Blocks
  <2> QED
    BY <1>1, <1>7, <1>9, <2>1 DEF TableInv, ArrayInv
<1>24. Coherent(entries)'
  BY <1>7, <1>9 DEF Coherent, Blocks, Block, Free
<1> QED
  BY <1>7, <1>9, <1>16, <1>21, <1>22, <1>23, <1>24 DEF AlmInv, ArrayInv

-----------------------------------------------------------------------------
(* A new block in free segments disturbs no other block. *)
LEMMA NewBlock ==
    ASSUME NEW d \in [Segments -> EntryType], Coherent(d), NEW r \in Requests,
           NEW m \in Room(d, r), NEW f, f = WithBlock(d, m, r)
    PROVE  /\ f \in [Segments -> EntryType] /\ Coherent(f)
           /\ m \notin Blocks(d) /\ Blocks(f) = Blocks(d) \cup {m}
           /\ \A c \in Blocks(d) : Block(f, c) = Block(d, c) /\ f[c] = d[c]
           /\ \A c \in Blocks(d) : \A j \in Block(d, c) :
                 f[j] = d[j] /\ j \notin m..(m + SegmentsOf(r) - 1)
           /\ Block(f, m) = m..(m + SegmentsOf(r) - 1)
           /\ f[m] = [value |-> Masked(r.addr), counter |-> 2,
                      segments_count |-> SegmentsOf(r), start |-> m]
<1> DEFINE k   == SegmentsOf(r)
           run == m..(m + k - 1)
<1>1. r.addr \in Nat /\ r.size \in Nat \ {0}
  BY AlmAssumption
<1>2. k \in Nat \ {0}
  BY <1>1, SegmentsCover
<1>3. Masked(r.addr) \in Nat
  BY <1>1, MaskedOf
<1>4. m \in Segments /\ run \subseteq Free(d) /\ m \in Nat
  BY Types DEF Room
<1>5. run \subseteq Segments /\ m \in run /\ (m + k - 1) \in run
  BY <1>2, <1>4 DEF Free
<1>6. m + k <= SegmentsNum /\ k <= SegmentsNum
  BY <1>2, <1>4, <1>5, Types
<1>7. \A i \in run : d[i] = Unused
  BY <1>4 DEF Coherent
<1> HIDE DEF k
<1>8. f[m] = [value |-> Masked(r.addr), counter |-> 2, segments_count |-> k, start |-> m]
  BY <1>4 DEF WithBlock, k
<1>9. \A i \in run : i # m => f[i] = [Unused EXCEPT !.start = m]
  BY <1>5, <1>7 DEF WithBlock, k
<1>10. \A i \in Segments : i \notin run => f[i] = d[i]
  BY <1>5 DEF WithBlock, k
<1>11. f \in [Segments -> EntryType]
  <2>1. f[m] \in EntryType
    BY <1>2, <1>3, <1>4, <1>6, <1>8, Types DEF EntryType
  <2>2. \A i \in run : i # m => f[i] \in EntryType
    BY <1>4, <1>9, Types DEF EntryType, Unused
  <2>3. \A i \in Segments : f[i] \in EntryType
    BY <1>10, <2>1, <2>2
  <2>4. f = [i \in Segments |-> f[i]]
    BY DEF WithBlock
  <2> QED
    BY <2>3, <2>4
<1>12. \A c \in Blocks(d) : \A j \in Block(d, c) : j \notin run /\ j \in Segments
  BY <1>4, BlockFacts DEF Free
<1>13. \A c \in Blocks(d) : \A j \in Block(d, c) : f[j] = d[j]
  BY <1>10, <1>12
<1>14. \A c \in Blocks(d) : c \in Block(d, c) /\ f[c] = d[c] /\ Block(f, c) = Block(d, c)
  BY <1>13, BlockFacts DEF Block
<1>15. m \notin Blocks(d)
  BY <1>5, <1>12, <1>14
<1>16. Blocks(f) = Blocks(d) \cup {m}
  <2>1. ASSUME NEW c \in Segments, c \notin Blocks(d), c # m
        PROVE  c \notin Blocks(f)
    <3>1. CASE c \in run
      <4>1. f[c].counter = 0
        BY <1>9, <2>1, <3>1 DEF Unused
      <4> QED
        BY <4>1 DEF Blocks
    <3>2. CASE c \notin run
      BY <1>10, <2>1, <3>2 DEF Blocks
    <3> QED
      BY <3>1, <3>2
  <2>2. m \in Blocks(f)
    BY <1>4, <1>8 DEF Blocks
  <2>3. \A c \in Blocks(d) : c \in Blocks(f)
    BY <1>14 DEF Blocks
  <2>4. Blocks(f) \subseteq Segments
    BY DEF Blocks
  <2> QED
    BY <2>1, <2>2, <2>3, <2>4
<1>17. Block(f, m) = run
  BY <1>8 DEF Block
<1>18. Coherent(f)
  <2>1. ASSUME NEW c \in Blocks(f)
        PROVE  /\ f[c].segments_count # 0
               /\ c + f[c].segments_count <= SegmentsNum
               /\ \A j \in Block(f, c) :
                     /\ f[j].start = c
                     /\ j # c => f[j].counter = 0 /\ f[j].segments_count = 0
    <3>1. CASE c = m
      <4>1. f[m].segments_count = k /\ f[m].start = m
        BY <1>8
      <4>2. \A j \in run : j # m => f[j].start = m /\ f[j].counter = 0 /\ f[j].segments_count = 0
        BY <1>9 DEF Unused
      <4> QED
        BY <1>2, <1>6, <1>17, <3>1, <4>1, <4>2
    <3>2. CASE c \in Blocks(d)
      BY <1>13, <1>14, <3>2 DEF Coherent
    <3> QED
      BY <1>16, <3>1, <3>2
  <2>2. ASSUME NEW i \in Free(f)
        PROVE  f[i] = Unused
    <3>1. i \in Segments /\ i \notin run /\ i \in Free(d)
      BY <1>14, <1>16, <1>17 DEF Free
    <3> QED
      BY <1>10, <3>1 DEF Coherent
  <2> QED
    BY <2>1, <2>2 DEF Coherent
<1> QED
  BY <1>8, <1>11, <1>12, <1>13, <1>14, <1>15, <1>16, <1>17, <1>18 DEF k

(* plx_ioremap that makes a block: its user is the only one. *)
LEMMA AddNewStep ==
    ASSUME AlmInv, NEW h \in Handles, NEW r \in Requests, AddNew(h, r)
    PROVE  AlmInv'
<1> DEFINE d   == Prepared(r)
           m   == First(Room(d, r))
           f   == WithBlock(d, m, r)
           run == m..(m + SegmentsOf(r) - 1)
           o   == r.addr % SegmentSize
           bar == m * SegmentSize + o
<1>1. TypeOK /\ ArrayInv(d) /\ h \notin Held
  BY PreparedInv DEF AddNew, Held
<1>2. d \in [Segments -> EntryType] /\ Coherent(d)
  BY <1>1 DEF ArrayInv
<1>3. r.addr \in Nat /\ r.size \in Nat \ {0}
  BY AlmAssumption
<1>4. m \in Room(d, r)
  <2>1. Room(d, r) \in SUBSET Nat /\ Room(d, r) # {}
    BY Types DEF Room, AddNew
  <2> QED
    BY <2>1, FirstIn
<1>5. m \in Segments /\ m \in Nat
  BY <1>4, Types DEF Room
<1>6. SegmentsOf(r) \in Nat \ {0} /\ Masked(r.addr) \in Nat /\ Masked(r.addr) % SegmentSize = 0
  BY <1>3, SegmentsCover, MaskedOf
<1>7. entries' = f /\ hw' = Programmed(m, r)
      /\ live' = [live EXCEPT ![h] = [bar |-> bar, addr |-> r.addr, size |-> r.size]]
  BY DEF AddNew, Hand
<1>8. /\ f \in [Segments -> EntryType] /\ Coherent(f)
      /\ m \notin Blocks(d) /\ Blocks(f) = Blocks(d) \cup {m}
      /\ \A c \in Blocks(d) : Block(f, c) = Block(d, c) /\ f[c] = d[c]
      /\ \A c \in Blocks(d) : \A j \in Block(d, c) : f[j] = d[j] /\ j \notin run
      /\ Block(f, m) = run
      /\ f[m] = [value |-> Masked(r.addr), counter |-> 2,
                 segments_count |-> SegmentsOf(r), start |-> m]
  <2> HIDE DEF d, m
  <2> QED
    BY <1>2, <1>4, NewBlock
<1>9. o \in 0..(SegmentSize - 1)
  BY <1>3, DivModOf, Types
<1> HIDE DEF o, f, m, d
<1>10. bar \in Nat /\ bar \div SegmentSize = m /\ bar % SegmentSize = o
  <2>1. (m * SegmentSize + o) \div SegmentSize = m /\ (m * SegmentSize + o) % SegmentSize = o
    BY <1>5, <1>9, DivMod, Types
  <2>2. m * SegmentSize + o \in Nat
    BY <1>5, <1>9, Types
  <2> QED
    BY <2>1, <2>2
<1> HIDE DEF bar
<1>11. /\ \A j \in Segments : j \in run => hw'[j] = Masked(r.addr) + (j - m) * SegmentSize
       /\ \A j \in Segments : j \notin run => hw'[j] = hw[j]
       /\ hw' \in [Segments -> Nat \cup {Off}]
  <2>1. \A j \in Segments : j \in run => Masked(r.addr) + (j - m) * SegmentSize \in Nat
    <3> SUFFICES ASSUME NEW j \in Segments, j \in run
                 PROVE  Masked(r.addr) + (j - m) * SegmentSize \in Nat
      OBVIOUS
    <3>1. j - m \in Nat
      BY <1>5, <1>6, Types
    <3>2. (j - m) * SegmentSize \in Nat
      BY <3>1, Types
    <3> QED
      BY <1>6, <3>2
  <2>2. hw \in [Segments -> Nat \cup {Off}]
    BY <1>1 DEF TypeOK
  <2> QED
    BY <1>7, <2>1, <2>2 DEF Programmed
<1>12. TypeOK'
  BY <1>1, <1>3, <1>7, <1>8, <1>10, <1>11 DEF TypeOK
<1>13. live'[h] = [bar |-> bar, addr |-> r.addr, size |-> r.size]
       /\ \A g \in Handles \ {h} : live'[g] = live[g]
  BY <1>1, <1>7 DEF TypeOK
<1>14. Held' = Held \cup {h}
  BY <1>10, <1>13 DEF Held, None, Off
<1>15. ASSUME NEW g \in Held
       PROVE  /\ g \in Handles \ {h} /\ SegmentOf(g)' = SegmentOf(g)
              /\ Owner(entries, g)' = Owner(d, g) /\ Owner(d, g) \in Blocks(d)
  <2>1. g \in Handles \ {h} /\ SegmentOf(g)' = SegmentOf(g)
    BY <1>1, <1>13 DEF SegmentOf, Held
  <2>2. Owner(d, g) \in Blocks(d) /\ SegmentOf(g) \in Block(d, Owner(d, g))
    BY <1>1, HeldFacts
  <2> QED
    BY <1>7, <1>8, <2>1, <2>2 DEF Owner
<1>16. SegmentOf(h)' = m /\ Owner(entries, h)' = m
  <2>1. SegmentOf(h)' = m
    BY <1>10, <1>13 DEF SegmentOf
  <2>2. entries'[m].start = m
    BY <1>7, <1>8
  <2> QED
    BY <2>1, <2>2 DEF Owner
<1>17. Blocks(entries)' = Blocks(d) \cup {m}
  BY <1>7, <1>8 DEF Blocks
<1>18. HeldInv(entries)'
  <2> SUFFICES ASSUME NEW g \in Held'
               PROVE  LET c == Owner(entries, g)'
                      IN  /\ live'[g].bar \in Nat /\ live'[g].size # 0
                          /\ SegmentOf(g)' \in Segments
                          /\ c \in Blocks(entries)'
                          /\ c <= SegmentOf(g)'
                          /\ SegmentOf(g)' + SegmentsOf(live'[g]) <= c + entries'[c].segments_count
                          /\ entries'[c].value + (SegmentOf(g)' - c) * SegmentSize
                                = Masked(live'[g].addr)
                          /\ live'[g].bar % SegmentSize = live'[g].addr % SegmentSize
    BY DEF HeldInv, Masked, SegmentsOf
  <2>1. CASE g \in Held
    <3>1. HeldInv(d)
      BY <1>1 DEF ArrayInv
    <3> QED
      BY <1>7, <1>8, <1>13, <1>15, <1>17, <2>1, <3>1 DEF HeldInv
  <2>2. CASE g = h
    <3>1. SegmentsOf(live'[h]) = SegmentsOf(r) /\ live'[h].addr = r.addr
      BY <1>13 DEF SegmentsOf
    <3>2. live'[h].bar = bar /\ live'[h].size = r.size /\ r.size # 0
      BY <1>3, <1>13
    <3>3. entries'[m].value = Masked(r.addr) /\ entries'[m].segments_count = SegmentsOf(r)
      BY <1>7, <1>8
    <3>4. (m - m) * SegmentSize = 0 /\ Masked(r.addr) + 0 = Masked(r.addr)
      BY <1>5, <1>6, Types
    <3> QED
      BY <1>5, <1>6, <1>10, <1>16, <1>17, <2>2, <3>1, <3>2, <3>3, <3>4 DEF o
  <2> QED
    BY <1>14, <2>1, <2>2
<1>19. CountInv(entries)'
  <2> SUFFICES ASSUME NEW c \in Blocks(entries)'
               PROVE  entries'[c].counter = 1 + Cardinality(UsersOf(entries, c)')
    BY DEF CountInv
  <2>1. CASE c = m
    <3>1. UsersOf(entries, c)' = {h}
      BY <1>8, <1>14, <1>15, <1>16, <2>1 DEF UsersOf
    <3>2. Cardinality({h}) = 1
      BY FS_Singleton, Zenon
    <3>3. entries'[c].counter = 2
      BY <1>7, <1>8, <2>1
    <3> QED
      BY <3>1, <3>2, <3>3
  <2>2. CASE c # m
    <3>1. c \in Blocks(d)
      BY <1>17, <2>2
    <3>2. UsersOf(entries, c)' = UsersOf(d, c)
      BY <1>14, <1>15, <1>16, <2>2 DEF UsersOf
    <3> QED
      BY <1>1, <1>7, <1>8, <3>1, <3>2 DEF ArrayInv, CountInv
  <2> QED
    BY <2>1, <2>2
<1>20. TableInv(entries)'
  <2> SUFFICES ASSUME NEW c \in Blocks(entries)'
               PROVE  /\ f[c].value % SegmentSize = 0
                      /\ \A j \in Block(f, c) : hw'[j] = f[c].value + (j - c) * SegmentSize
    BY <1>7 DEF TableInv, Block
  <2>1. CASE c = m
    <3>1. f[m].value = Masked(r.addr) /\ Block(f, m) = run /\ run \subseteq Segments
      BY <1>4, <1>8 DEF Room, Free
    <3> QED
      BY <1>6, <1>11, <2>1, <3>1
  <2>2. CASE c \in Blocks(d)
    <3>1. TableInv(d)
      BY <1>1 DEF ArrayInv
    <3>2. Block(d, c) \subseteq Segments
      BY <1>2, <2>2, BlockFacts
    <3> QED
      BY <1>8, <1>11, <2>2, <3>1, <3>2 DEF TableInv
  <2> QED
    BY <1>17, <2>1, <2>2
<1>21. Coherent(entries)'
  BY <1>7, <1>8 DEF Coherent, Blocks, Block, Free
<1> QED
  BY <1>7, <1>8, <1>12, <1>18, <1>19, <1>20, <1>21 DEF AlmInv, ArrayInv

-----------------------------------------------------------------------------
(* Every call keeps the invariant. *)
LEMMA NextInv ==
    ASSUME CountersSuffice, AlmInv, [Next]_vars
    PROVE  AlmInv'
<1>1. ASSUME NEW r \in Requests, AddTooBig(r)
      PROVE  AlmInv'
  BY <1>1 DEF AddTooBig, vars, AlmInv, TypeOK, ArrayInv, Coherent, HeldInv, CountInv,
              TableInv, Held, UsersOf, Owner, SegmentOf, Blocks, Block, Free
<1>2. ASSUME NEW r \in Requests, AddNoRoom(r)
      PROVE  AlmInv'
  BY <1>2, RefusedStep DEF AddNoRoom
<1>3. ASSUME NEW h \in Handles, NEW r \in Requests, AddShared(h, r)
      PROVE  AlmInv'
  BY <1>3, AddSharedStep
<1>4. ASSUME NEW h \in Handles, NEW r \in Requests, AddNew(h, r)
      PROVE  AlmInv'
  BY <1>4, AddNewStep
<1>5. ASSUME NEW h \in Handles, Del(h)
      PROVE  AlmInv'
  BY <1>5, DelStep
<1>6. CASE Clear
  BY <1>6, ClearStep
<1>7. CASE UNCHANGED vars
  BY <1>7 DEF vars, AlmInv, TypeOK, ArrayInv, Coherent, HeldInv, CountInv,
              TableInv, Held, UsersOf, Owner, SegmentOf, Blocks, Block, Free
<1> QED
  BY <1>1, <1>2, <1>3, <1>4, <1>5, <1>6, <1>7 DEF Next

(***************************************************************************)
(* The A-LUT manager keeps its array, its counters and the hardware table  *)
(* in agreement with the mappings that are held (plx_alm_add_entry,        *)
(* plx_alm_del_entry and the cleanup between them), if a u16 can count all *)
(* mappings.                                                               *)
(***************************************************************************)
THEOREM AlmInvariant == CountersSuffice => (Spec => []AlmInv)
<1> SUFFICES ASSUME CountersSuffice PROVE Spec => []AlmInv
  OBVIOUS
<1>1. Init => AlmInv
  BY InitInv
<1>2. AlmInv /\ [Next]_vars => AlmInv'
  BY NextInv
<1> QED
  BY <1>1, <1>2, PTL DEF Spec

(* Entries, table and mappings have their types: no counter leaves u16. *)
THEOREM AlmTypes == CountersSuffice => (Spec => []TypeOK)
<1>1. AlmInv => TypeOK
  BY DEF AlmInv
<1> QED
  BY <1>1, AlmInvariant, PTL

(* The assertions of plx_alm_check hold after every call. *)
THEOREM AlmCheckHolds == CountersSuffice => (Spec => []AlmCheck)
<1>1. AlmInv => AlmCheck
  BY DEF AlmInv, ArrayInv, AlmCheck
<1> QED
  BY <1>1, AlmInvariant, PTL

(* plx_alm_del_entry never meets its BUG_ON. *)
THEOREM NoBug == CountersSuffice => (Spec => []UnmapNeverBugs)
<1>1. AlmInv => UnmapNeverBugs
  BY DEF AlmInv, ArrayInv, HeldInv, Blocks, UnmapNeverBugs
<1> QED
  BY <1>1, AlmInvariant, PTL

(* The address of plx_ioremap leads where it should until plx_iounmap. *)
THEOREM Translates == CountersSuffice => (Spec => []Translated)
<1>1. AlmInv => Translated
  <2> SUFFICES ASSUME AlmInv, NEW h \in Held, NEW k \in 0..(live[h].size - 1)
               PROVE  LET a == live[h].bar + k
                      IN  /\ a \div SegmentSize \in Segments
                          /\ hw[a \div SegmentSize] # Off
                          /\ hw[a \div SegmentSize] + (a % SegmentSize) = live[h].addr + k
    BY DEF Translated
  <2> DEFINE b == Owner(entries, h)
             s == SegmentOf(h)
             n == SegmentSize
             o == live[h].addr % n
             q == (o + k) \div n
             p == (o + k) % n
             c == SegmentsOf(live[h])
             v == entries[b].value
  <2>1. TypeOK /\ ArrayInv(entries) /\ entries \in [Segments -> EntryType] /\ Coherent(entries)
    BY DEF AlmInv, ArrayInv
  <2>2. /\ live[h].bar \in Nat /\ live[h].size # 0 /\ s \in Segments /\ b \in Blocks(entries)
        /\ b <= s /\ s + c <= b + entries[b].segments_count
        /\ v + (s - b) * n = Masked(live[h].addr) /\ live[h].bar % n = o
    BY <2>1 DEF ArrayInv, HeldInv
  <2>3. live[h].addr \in Nat /\ live[h].size \in Nat \ {0} /\ n \in Nat \ {0} /\ k \in Nat
    BY <2>1, <2>2, Types DEF TypeOK, Held
  <2>4. c \in Nat \ {0} /\ o + live[h].size <= c * n
    BY <2>3, SegmentsCover
  <2>5. o \in 0..(n - 1) /\ Masked(live[h].addr) + o = live[h].addr
        /\ Masked(live[h].addr) \in Nat
    BY <2>3, DivModOf, MaskedOf
  <2>6. q \in Nat /\ p \in 0..(n - 1) /\ o + k = q * n + p
    <3> DEFINE x == o + k
    <3>1. x \in Nat
      BY <2>3, <2>5
    <3> HIDE DEF x
    <3>2. x \div n \in Nat /\ x % n \in 0..(n - 1) /\ x = (x \div n) * n + (x % n)
      BY <2>3, <3>1, DivModOf
    <3> QED
      BY <3>2 DEF x
  <2>7. live[h].bar = s * n + o
    BY <2>2, <2>3, DivModOf DEF SegmentOf
  <2>8. /\ b \in Nat /\ s \in Nat /\ v \in Nat /\ entries[b].segments_count \in Nat
        /\ Block(entries, b) \subseteq Segments
    BY <2>1, <2>2, BlockFacts, Types
  <2>9. k < live[h].size
    BY <2>3
  <2> HIDE DEF o, q, p, n, c, s, b, v
  <2>10. q < c
    <3>1. q * n <= o + k /\ o + k < c * n
      BY <2>3, <2>4, <2>5, <2>6, <2>9
    <3>2. q * n < c * n
      BY <2>3, <2>4, <2>5, <2>6, <3>1
    <3> QED
      BY <2>3, <2>4, <2>6, <3>2
  <2>11. s + q \in Block(entries, b)
    BY <2>2, <2>4, <2>6, <2>8, <2>10 DEF Block
  <2>12. live[h].bar + k = (s + q) * n + p
    <3>1. (s + q) * n = s * n + q * n
      BY <2>3, <2>6, <2>8
    <3> QED
      BY <2>3, <2>5, <2>6, <2>7, <2>8, <3>1
  <2>13. (live[h].bar + k) \div n = s + q /\ (live[h].bar + k) % n = p
    <3> DEFINE t == s + q
    <3>1. t \in Int
      BY <2>6, <2>8
    <3> HIDE DEF t
    <3>2. (t * n + p) \div n = t /\ (t * n + p) % n = p
      BY <2>3, <2>6, <3>1, DivMod
    <3> QED
      BY <2>12, <3>2 DEF t
  <2>14. hw[s + q] = v + ((s + q) - b) * n
    BY <2>1, <2>2, <2>11 DEF ArrayInv, TableInv, v, n
  <2>15. ((s + q) - b) * n = (s - b) * n + q * n /\ (s - b) * n \in Int /\ q * n \in Nat
    BY <2>3, <2>6, <2>8
  <2>16. hw[s + q] = Masked(live[h].addr) + q * n
    BY <2>2, <2>5, <2>8, <2>14, <2>15
  <2>17. hw[s + q] # Off
    BY <2>5, <2>15, <2>16 DEF Off
  <2>18. hw[s + q] + p = live[h].addr + k
    BY <2>3, <2>5, <2>6, <2>15, <2>16
  <2> QED
    BY <2>8, <2>11, <2>13, <2>17, <2>18 DEF n
<1> QED
  BY <1>1, AlmInvariant, PTL

(* A request is refused only when the mappings held leave no room for it. *)
THEOREM RefusesOnlyWhenFull == CountersSuffice => (Spec => []RefusedOnlyWhenFull)
<1>1. AlmInv => RefusedOnlyWhenFull
  <2> SUFFICES ASSUME AlmInv, NEW r \in Requests, Refused(r), NEW m \in Segments,
                      m..(m + SegmentsOf(r) - 1) \subseteq Segments \ InUse
               PROVE  FALSE
    BY DEF RefusedOnlyWhenFull
  <2> DEFINE d == Cleared(entries, Idle(entries))
  <2>1. entries \in [Segments -> EntryType] /\ Coherent(entries) /\ CountInv(entries)
    BY DEF AlmInv, ArrayInv
  <2>2. Prepared(r) = d /\ Room(d, r) = {}
    BY DEF Refused, Prepared
  <2>3. /\ Blocks(d) = Blocks(entries) \ Idle(entries)
        /\ \A b \in Blocks(d) : Block(d, b) = Block(entries, b)
    BY <2>1, CleanedBlocks
  <2> HIDE DEF d
  <2>4. ASSUME NEW b \in Blocks(d)
        PROVE  Block(d, b) \subseteq InUse
    <3>1. b \in Blocks(entries) /\ entries[b].counter # 1
      BY <2>3 DEF Idle
    <3>2. Cardinality(UsersOf(entries, b)) # 0
      BY <2>1, <3>1, UsersFinite DEF CountInv
    <3>3. UsersOf(entries, b) # {}
      BY <3>2, FS_EmptySet
    <3>4. PICK h \in Held : Owner(entries, h) = b
      BY <3>3 DEF UsersOf
    <3> QED
      BY <2>3, <3>4 DEF InUse
  <2>5. m..(m + SegmentsOf(r) - 1) \subseteq Free(d)
    BY <2>4 DEF Free
  <2> QED
    BY <2>2, <2>5 DEF Room
<1> QED
  BY <1>1, AlmInvariant, PTL
=============================================================================
