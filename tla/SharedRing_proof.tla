-------------------------- MODULE SharedRing_proof --------------------------
(***************************************************************************)
(* Proofs about SharedRing: the inductive invariant RingInv, the safety    *)
(* properties that follow from it, and the refinement of FifoChannels.     *)
(***************************************************************************)
EXTENDS SharedRing, TLAPS

(* What a division leaves over is determined by one representation. *)
LEMMA ModUnique ==
    ASSUME NEW M \in Nat \ {0}, NEW r \in 0..(M - 1), NEW q \in Int
    PROVE  (q * M + r) % M = r
  OBVIOUS

(* The slots of one channel lie below those of the next. *)
LEMMA LapsApart ==
    ASSUME NEW M \in Nat \ {0}, NEW c \in Nat, NEW d \in Nat, c < d
    PROVE  c * M + M <= d * M
  OBVIOUS

(* Wrapping an unsigned int first does not change what is left modulo      *)
(* MAX_ITEMS: x is a difference of indices of one channel, less one or not. *)
LEMMA UIntMod ==
    ASSUME NEW x \in Int, NEW r \in 0..(MaxItems - 1),
           NEW k \in {-2, -1, 0, 1}, x = k * MaxItems + r
    PROVE  UInt(x) % MaxItems = r
<1>1. PICK q \in (MaxChannels + 2)..UIntSpan : UIntSpan = q * MaxItems
  BY SpanAssumption
<1>2. q \in Nat /\ q >= 2 /\ MaxItems \in Nat \ {0, 1}
  BY RingAssumption
<1>3. CASE k >= 0
  <2>1. x = 0 * UIntSpan + x /\ x \in 0..(UIntSpan - 1)
    <3>1. 2 * MaxItems <= UIntSpan
      BY <1>1, <1>2
    <3>2. x < 2 * MaxItems /\ x >= 0
      BY <1>2, <1>3
    <3> QED
      BY <3>1, <3>2, <1>2, SpanAssumption
  <2>2. UInt(x) = x
    BY <2>1, <1>2, ModUnique, SpanAssumption DEF UInt
  <2> QED
    BY <2>2, <1>2, <1>3, ModUnique
<1>4. CASE k < 0
  <2>1. x + UIntSpan \in 0..(UIntSpan - 1) /\ x = (-1) * UIntSpan + (x + UIntSpan)
    <3>1. 2 * MaxItems <= UIntSpan
      BY <1>1, <1>2
    <3>2. x >= -2 * MaxItems /\ x < 0
      BY <1>2, <1>4
    <3> QED
      BY <3>1, <3>2, <1>2, SpanAssumption
  <2>2. UInt(x) = x + UIntSpan
    BY <2>1, <1>2, ModUnique, SpanAssumption DEF UInt
  <2>3. x + UIntSpan = (q + k) * MaxItems + r /\ q + k \in Int
    BY <1>1, <1>2
  <2> HIDE DEF UInt
  <2>4. ((q + k) * MaxItems + r) % MaxItems = r
    BY <2>3, <1>2, ModUnique
  <2> QED
    BY <2>2, <2>3, <2>4
<1> QED
  BY <1>3, <1>4

(* The slots of a channel, and where the ones of another channel are. *)
LEMMA BoundFacts ==
    ASSUME NEW c \in Channels
    PROVE  /\ MaxItems \in Nat /\ MaxItems > 1 /\ c \in Nat
           /\ LowerBound(c) \in Nat
           /\ UpperBound(c) = LowerBound(c) + MaxItems
           /\ UpperBound(c) <= MaxChannels * MaxItems
           /\ MaxChannels * MaxItems \in Nat
           /\ \A d \in Channels : c # d => \/ UpperBound(c) <= LowerBound(d)
                                          \/ UpperBound(d) <= LowerBound(c)
<1> c \in Nat /\ c < MaxChannels /\ MaxChannels \in Nat /\ MaxItems \in Nat \ {0, 1}
  BY RingAssumption
<1>1. LowerBound(c) \in Nat
  BY DEF LowerBound
<1>2. c * MaxItems + MaxItems <= MaxChannels * MaxItems
  BY LapsApart
<1>3. ASSUME NEW d \in Channels, c # d
      PROVE  UpperBound(c) <= LowerBound(d) \/ UpperBound(d) <= LowerBound(c)
  <2> d \in Nat
    BY RingAssumption
  <2>1. CASE c < d
    BY <2>1, LapsApart DEF UpperBound, LowerBound
  <2>2. CASE d < c
    BY <2>2, LapsApart DEF UpperBound, LowerBound
  <2> QED
    BY <2>1, <2>2, <1>3
<1> QED
  BY <1>1, <1>2, <1>3 DEF UpperBound, LowerBound

(* max_dist and max_available count words between indices. *)
LEMMA DistFacts ==
    ASSUME NEW c \in Channels, TypeOK
    PROVE  /\ MaxDist(c) = MaxItems - 1 - Gap(LP[c], RC[c])
           /\ MaxAvailable(c) = Gap(RP[c], LC[c])
<1> DEFINE M == MaxItems
           L == LowerBound(c)
<1>1. /\ {LP[c], RC[c], RP[c], LC[c]} \subseteq L..(L + M)
      /\ L \in Nat /\ M \in Nat /\ M > 1
      /\ L + M <= MaxChannels * M /\ MaxChannels * M \in Nat
  BY BoundFacts DEF TypeOK, Indices
<1> HIDE DEF M, L
<1>2. UInt(LP[c] + 1) = LP[c] + 1
  <2>1. PICK q \in (MaxChannels + 2)..UIntSpan : UIntSpan = q * M
    BY SpanAssumption DEF M
  <2>2. (MaxChannels + 1) * M + M <= q * M
    BY <2>1, <1>1, LapsApart, RingAssumption, SpanAssumption
  <2>3. (MaxChannels + 1) * M = MaxChannels * M + M
    BY <1>1, RingAssumption
  <2>4. LP[c] + 1 \in 0..(UIntSpan - 1) /\ UIntSpan \in Nat \ {0}
    BY <2>1, <2>2, <2>3, <1>1, RingAssumption, SpanAssumption
  <2>5. LP[c] + 1 = 0 * UIntSpan + (LP[c] + 1)
    BY <2>4, <1>1
  <2> QED
    BY <2>4, <2>5, ModUnique DEF UInt
<1>3. ASSUME NEW a \in L..(L + M), NEW b \in L..(L + M)
      PROVE  UInt(a - b) % M = Gap(a, b)
  <2>1. CASE a - b = M
    <3>1. a - b = 1 * MaxItems + 0
      BY <2>1, <1>1 DEF M
    <3> QED
      BY <3>1, <2>1, <1>1, UIntMod DEF Gap, M
  <2>2. CASE a >= b /\ a - b # M
    <3>1. a - b = 0 * MaxItems + (a - b) /\ a - b \in 0..(MaxItems - 1)
      BY <2>2, <1>1 DEF M
    <3> QED
      BY <3>1, <2>2, <1>1, UIntMod DEF Gap, M
  <2>3. CASE a < b
    <3>1. a - b = (-1) * MaxItems + (a - b + M) /\ a - b + M \in 0..(MaxItems - 1)
      BY <2>3, <1>1 DEF M
    <3> QED
      BY <3>1, <2>3, <1>1, UIntMod DEF Gap, M
  <2> QED
    BY <2>1, <2>2, <2>3, <1>1
<1>4. ASSUME NEW a \in L..(L + M), NEW b \in L..(L + M)
      PROVE  UInt(b - (a + 1)) % M = M - 1 - Gap(a, b)
  <2>1. CASE a - b = M
    <3>1. b - (a + 1) = (-2) * MaxItems + (M - 1) /\ M - 1 \in 0..(MaxItems - 1)
      BY <2>1, <1>1 DEF M
    <3>2. Gap(a, b) = 0
      BY <2>1 DEF Gap, M
    <3> QED
      BY <3>1, <3>2, <1>1, UIntMod DEF M
  <2>2. CASE a >= b /\ a - b # M
    <3>1. /\ b - (a + 1) = (-1) * MaxItems + (M - 1 - (a - b))
          /\ M - 1 - (a - b) \in 0..(MaxItems - 1)
      BY <2>2, <1>1 DEF M
    <3>2. Gap(a, b) = a - b
      BY <2>2 DEF Gap, M
    <3> QED
      BY <3>1, <3>2, <1>1, UIntMod DEF M
  <2>3. CASE a < b
    <3>1. b - (a + 1) = 0 * MaxItems + (b - a - 1) /\ b - a - 1 \in 0..(MaxItems - 1)
      BY <2>3, <1>1 DEF M
    <3>2. Gap(a, b) = a - b + M
      BY <2>3, <1>1 DEF Gap, M
    <3>3. b - a - 1 = M - 1 - Gap(a, b)
      BY <3>2, <1>1
    <3> QED
      BY <3>1, <3>3, <1>1, UIntMod DEF M
  <2> QED
    BY <2>1, <2>2, <2>3, <1>1
<1>5. MaxDist(c) = M - 1 - Gap(LP[c], RC[c])
  BY <1>1, <1>2, <1>4 DEF MaxDist, M
<1>6. MaxAvailable(c) = Gap(RP[c], LC[c])
  BY <1>1, <1>3 DEF MaxAvailable, M
<1> QED
  BY <1>5, <1>6 DEF M

-----------------------------------------------------------------------------
(* Slots counted from an index. *)
LEMMA SlotFacts ==
    ASSUME NEW c \in Channels, NEW i \in Indices(c), NEW n \in 0..(MaxItems - 1)
    PROVE  /\ \A j \in 0..(MaxItems - 1) :
                 Slot(c, i, j) \in LowerBound(c)..(UpperBound(c) - 1)
           /\ \A j, k \in 0..(MaxItems - 1) : j # k => Slot(c, i, j) # Slot(c, i, k)
           /\ Advance(c, i, n) \in Indices(c)
           /\ \A j \in Nat : n + j < MaxItems =>
                 Slot(c, Advance(c, i, n), j) = Slot(c, i, n + j)
           /\ FirstPart(c, i, n) \in 0..n
           /\ Remaining(c, i, n) = n - FirstPart(c, i, n)
           /\ \A j \in 0..(FirstPart(c, i, n) - 1) : Slot(c, i, j) = i + j
           /\ Remaining(c, i, n) # 0 =>
                 \A j \in 0..(Remaining(c, i, n) - 1) :
                    Slot(c, i, FirstPart(c, i, n) + j) = LowerBound(c) + j
<1> DEFINE L == LowerBound(c)
           U == UpperBound(c)
<1>1. /\ L \in Nat /\ MaxItems \in Nat /\ MaxItems > 1 /\ U = L + MaxItems
      /\ i \in L..U
  BY BoundFacts DEF Indices
<1> HIDE DEF L, U
<1>2. FirstPart(c, i, n) = IF U - i < n THEN U - i ELSE n
  BY DEF FirstPart, Lesser, U
<1>3. Remaining(c, i, n) = IF U - i < n THEN n - (U - i) ELSE 0
  BY <1>1, <1>2 DEF Remaining
<1>4. Advance(c, i, n) = IF U - i < n THEN L + (n - (U - i)) ELSE i + n
  BY <1>1, <1>2, <1>3 DEF Advance, L
<1>5. \A j : Slot(c, i, j) = IF i + j < U THEN i + j ELSE i + j - MaxItems
  BY DEF Slot, U
<1>6. \A j : Slot(c, Advance(c, i, n), j) =
                IF Advance(c, i, n) + j < U THEN Advance(c, i, n) + j
                ELSE Advance(c, i, n) + j - MaxItems
  BY DEF Slot, U
<1>7. \A j \in 0..(MaxItems - 1) : Slot(c, i, j) \in L..(U - 1)
  BY <1>1, <1>5
<1>8. \A j, k \in 0..(MaxItems - 1) : j # k => Slot(c, i, j) # Slot(c, i, k)
  BY <1>1, <1>5
<1>9. Advance(c, i, n) \in L..U
  BY <1>1, <1>4
<1>10. \A j \in Nat : n + j < MaxItems => Slot(c, Advance(c, i, n), j) = Slot(c, i, n + j)
  BY <1>1, <1>4, <1>5, <1>6
<1>11. /\ FirstPart(c, i, n) \in 0..n
       /\ Remaining(c, i, n) = n - FirstPart(c, i, n)
       /\ \A j \in 0..(FirstPart(c, i, n) - 1) : Slot(c, i, j) = i + j
  BY <1>1, <1>2, <1>3, <1>5
<1>12. Remaining(c, i, n) # 0 =>
          \A j \in 0..(Remaining(c, i, n) - 1) : Slot(c, i, FirstPart(c, i, n) + j) = L + j
  BY <1>1, <1>2, <1>3, <1>5
<1> QED
  BY <1>7, <1>8, <1>9, <1>10, <1>11, <1>12 DEF Indices, L, U

(* Words counted from one index to another. *)
LEMMA GapFacts ==
    ASSUME NEW c \in Channels, NEW a \in Indices(c), NEW b \in Indices(c)
    PROVE  /\ Gap(a, b) \in 0..(MaxItems - 1)
           /\ Gap(a, a) = 0
           /\ \A j \in Nat : Gap(a, b) + j < MaxItems =>
                 Slot(c, a, j) = Slot(c, b, Gap(a, b) + j)
           /\ \A n \in 0..(MaxItems - 1) :
                 /\ Gap(a, b) + n < MaxItems => Gap(Advance(c, a, n), b) = Gap(a, b) + n
                 /\ n <= Gap(a, b) => Gap(a, Advance(c, b, n)) = Gap(a, b) - n
<1> DEFINE L == LowerBound(c)
           U == UpperBound(c)
<1>1. /\ L \in Nat /\ MaxItems \in Nat /\ MaxItems > 1 /\ U = L + MaxItems
      /\ a \in L..U /\ b \in L..U
  BY BoundFacts DEF Indices
<1> HIDE DEF L, U
<1>2. \A i, n : Advance(c, i, n) =
         IF n - (IF U - i < n THEN U - i ELSE n) # 0
         THEN L + (n - (IF U - i < n THEN U - i ELSE n))
         ELSE i + (IF U - i < n THEN U - i ELSE n)
  BY DEF Advance, Remaining, FirstPart, Lesser, L, U
<1>3. \A i, j : Slot(c, i, j) = IF i + j < U THEN i + j ELSE i + j - MaxItems
  BY DEF Slot, U
<1>4. Gap(a, b) \in 0..(MaxItems - 1) /\ Gap(a, a) = 0
  BY <1>1 DEF Gap
<1>5. \A j \in Nat : Gap(a, b) + j < MaxItems => Slot(c, a, j) = Slot(c, b, Gap(a, b) + j)
  BY <1>1, <1>3 DEF Gap
<1>6. ASSUME NEW n \in 0..(MaxItems - 1)
      PROVE  /\ Gap(a, b) + n < MaxItems => Gap(Advance(c, a, n), b) = Gap(a, b) + n
             /\ n <= Gap(a, b) => Gap(a, Advance(c, b, n)) = Gap(a, b) - n
  <2>1. Advance(c, a, n) = IF U - a < n THEN L + (n - (U - a)) ELSE a + n
    BY <1>1, <1>2
  <2>2. Advance(c, b, n) = IF U - b < n THEN L + (n - (U - b)) ELSE b + n
    BY <1>1, <1>2
  <2> QED
    BY <1>1, <2>1, <2>2 DEF Gap
<1> QED
  BY <1>4, <1>5, <1>6

-----------------------------------------------------------------------------
(* A step of another channel, as channel d sees it. *)
Untouched(d) ==
    /\ LP'[d] = LP[d] /\ RC'[d] = RC[d] /\ RP'[d] = RP[d] /\ LC'[d] = LC[d]
    /\ pend'[d] = pend[d] /\ rpWb'[d] = rpWb[d] /\ rcWb'[d] = rcWb[d]
    /\ ppc'[d] = ppc[d] /\ preq'[d] = preq[d] /\ cpc'[d] = cpc[d] /\ creq'[d] = creq[d]
    /\ buf'[d] = buf[d] /\ sent'[d] = sent[d] /\ rcvd'[d] = rcvd[d]
    /\ \A a \in LowerBound(d)..(UpperBound(d) - 1) : ring'[a] = ring[a]

(* What TypeOK says of the variables of one channel. *)
LEMMA ChannelTypes ==
    ASSUME TypeOK, NEW c \in Channels
    PROVE  /\ {LP[c], RC[c], RP[c], LC[c], rpWb[c], rcWb[c]} \subseteq Indices(c)
           /\ ppc[c] \in {"idle", "copy", "fence", "wrap", "wrapfence", "lp", "rp"}
           /\ cpc[c] \in {"idle", "copy", "wrap", "lc", "rc"}
           /\ preq[c] \in Nat /\ creq[c] \in Nat /\ sent[c] \in Nat /\ rcvd[c] \in Nat
           /\ sent[c] <= MaxWords /\ rcvd[c] <= MaxWords
           /\ MaxWords \in Nat /\ MaxItems \in Nat
           /\ \A a, b \in Indices(c) : Gap(a, b) \in 0..(MaxItems - 1)
<1>1. \A a, b \in Indices(c) : Gap(a, b) \in 0..(MaxItems - 1)
  BY GapFacts
<1>2. {LP[c], RC[c], RP[c], LC[c], rpWb[c], rcWb[c]} \subseteq Indices(c)
  BY DEF TypeOK
<1>3. /\ ppc[c] \in {"idle", "copy", "fence", "wrap", "wrapfence", "lp", "rp"}
      /\ cpc[c] \in {"idle", "copy", "wrap", "lc", "rc"}
      /\ preq[c] \in Nat /\ creq[c] \in Nat /\ sent[c] \in Nat /\ rcvd[c] \in Nat
      /\ sent[c] <= MaxWords /\ rcvd[c] <= MaxWords
      /\ MaxWords \in Nat /\ MaxItems \in Nat
  BY RingAssumption DEF TypeOK
<1> QED
  BY <1>1, <1>2, <1>3

(* A step that leaves the variables of a channel alone keeps its invariant. *)
LEMMA Frame ==
    ASSUME TypeOK, NEW d \in Channels, ChannelInv(d), Untouched(d)
    PROVE  ChannelInv(d)'
<1>0. /\ \A j \in 0..(MaxItems - 1) : /\ Slot(d, LC[d], j) \in LowerBound(d)..(UpperBound(d) - 1)
                                      /\ Slot(d, LP[d], j) \in LowerBound(d)..(UpperBound(d) - 1)
  BY SlotFacts, ChannelTypes, BoundFacts
<1>1. IndexInv(d)'
  BY DEF ChannelInv, Untouched, IndexInv
<1>2. CallInv(d)'
  BY DEF ChannelInv, Untouched, CallInv
<1>3. UnreadInv(d)'
  <2>1. sent[d] - rcvd[d] \in 0..(MaxItems - 1)
    BY ChannelTypes DEF ChannelInv, IndexInv
  <2> QED
    BY <1>0, <2>1, ChannelTypes DEF ChannelInv, Untouched, UnreadInv
<1>4. PendInv(d)'
  BY DEF ChannelInv, Untouched, PendInv
<1>5. CopyInv(d)'
  <2>1. ppc[d] \in {"fence", "wrap", "wrapfence", "lp"} =>
            /\ preq[d] \in 0..(MaxItems - 1)
            /\ FirstPart(d, LP[d], preq[d]) \in 0..preq[d]
    <3>1. Gap(LP[d], RC[d]) \in 0..(MaxItems - 1) /\ MaxItems \in Nat /\ preq[d] \in Nat
      BY ChannelTypes
    <3>2. ppc[d] \in {"fence", "wrap", "wrapfence", "lp"} => preq[d] \in 0..(MaxItems - 1)
      BY <3>1 DEF ChannelInv, CallInv
    <3> QED
      BY <3>2, ChannelTypes, SlotFacts
  <2>2. ppc[d] \in {"fence", "wrap", "wrapfence", "lp"} =>
            \A j \in 0..(preq[d] - 1) : (Stored(d, j)' <=> Stored(d, j)) /\ (Posted(d, j)' <=> Posted(d, j))
    BY <1>0, <2>1, ChannelTypes DEF Untouched, Stored, Posted
  <2> QED
    BY <2>1, <2>2, ChannelTypes DEF ChannelInv, Untouched, CopyInv
<1>6. BufInv(d)'
  BY DEF ChannelInv, Untouched, BufInv
<1> QED
  BY <1>1, <1>2, <1>3, <1>4, <1>5, <1>6 DEF ChannelInv

-----------------------------------------------------------------------------
(* The check against max_dist leaves room for the burst. *)
LEMMA EnqueueStartInv ==
    ASSUME RingInv, NEW c \in Channels, NEW n \in Bursts, EnqueueStart(c, n)
    PROVE  RingInv'
<1> USE DEF RingInv
<1>1. TypeOK'
  BY RingAssumption DEF TypeOK, EnqueueStart, consVars, busVars
<1>2. ASSUME NEW d \in Channels, d # c  PROVE ChannelInv(d)'
  <2>1. Untouched(d)
    BY <1>2 DEF TypeOK, EnqueueStart, consVars, busVars, Untouched
  <2> QED
    BY <2>1, Frame
<1>3. ChannelInv(c)'
  <2> USE DEF EnqueueStart, consVars, busVars
  <2>0. /\ ppc[c] = "idle" /\ ppc'[c] = "copy" /\ preq'[c] = n
        /\ UNCHANGED <<LP, pend, rpWb, sent, consVars, busVars>>
    BY DEF TypeOK
  <2>1. IndexInv(c)'
    BY <2>0 DEF ChannelInv, IndexInv
  <2>2. CallInv(c)'
    <3>1. n < MaxItems - Gap(LP[c], RC[c])
      BY DistFacts, ChannelTypes, RingAssumption
    <3> QED
      BY <2>0, <3>1 DEF ChannelInv, CallInv
  <2>3. UnreadInv(c)' /\ PendInv(c)' /\ CopyInv(c)' /\ BufInv(c)'
    BY <2>0 DEF ChannelInv, UnreadInv, PendInv, CopyInv, BufInv
  <2> QED
    BY <2>1, <2>2, <2>3 DEF ChannelInv
<1> QED
  BY <1>1, <1>2, <1>3

(* A burst that passed its check is shorter than a lap. *)
LEMMA ProducerFacts ==
    ASSUME TypeOK, NEW c \in Channels, ChannelInv(c),
           ppc[c] \in {"copy", "fence", "wrap", "wrapfence", "lp"}
    PROVE  /\ preq[c] \in 0..(MaxItems - 1)
           /\ Gap(LP[c], LC[c]) + preq[c] < MaxItems
           /\ Gap(LP[c], RC[c]) + preq[c] < MaxItems
           /\ FirstPart(c, LP[c], preq[c]) \in 0..preq[c]
           /\ Remaining(c, LP[c], preq[c]) = preq[c] - FirstPart(c, LP[c], preq[c])
           /\ \A j \in 0..(MaxItems - 1) :
                 Slot(c, LP[c], j) \in LowerBound(c)..(UpperBound(c) - 1)
           /\ Gap(LP[c], LC[c]) = sent[c] - rcvd[c]
           /\ \A j \in 0..(FirstPart(c, LP[c], preq[c]) - 1) : Slot(c, LP[c], j) = LP[c] + j
           /\ Remaining(c, LP[c], preq[c]) # 0 =>
                 \A j \in 0..(Remaining(c, LP[c], preq[c]) - 1) :
                    Slot(c, LP[c], FirstPart(c, LP[c], preq[c]) + j) = LowerBound(c) + j
<1>1. /\ Gap(LP[c], RC[c]) \in 0..(MaxItems - 1) /\ Gap(LP[c], LC[c]) \in 0..(MaxItems - 1)
      /\ Gap(LC[c], RC[c]) \in 0..(MaxItems - 1)
      /\ MaxItems \in Nat /\ preq[c] \in Nat
  BY ChannelTypes
<1>2. preq[c] < MaxItems - Gap(LP[c], RC[c])
  BY DEF ChannelInv, CallInv
<1>3. Gap(LP[c], LC[c]) + Gap(LC[c], RC[c]) = Gap(LP[c], RC[c])
  BY DEF ChannelInv, IndexInv
<1>4. /\ preq[c] \in 0..(MaxItems - 1)
      /\ Gap(LP[c], LC[c]) + preq[c] < MaxItems
      /\ Gap(LP[c], RC[c]) + preq[c] < MaxItems
  BY <1>1, <1>2, <1>3
<1> QED
  BY <1>4, SlotFacts, ChannelTypes DEF ChannelInv, IndexInv

(* What a consumer that is copying may rely on. *)
LEMMA ConsumerFacts ==
    ASSUME TypeOK, NEW c \in Channels, ChannelInv(c), cpc[c] \in {"copy", "wrap", "lc"}
    PROVE  /\ creq[c] \in 0..(MaxItems - 1)
           /\ creq[c] <= Gap(RP[c], LC[c])
           /\ creq[c] <= sent[c] - rcvd[c]
           /\ FirstPart(c, LC[c], creq[c]) \in 0..creq[c]
           /\ Remaining(c, LC[c], creq[c]) = creq[c] - FirstPart(c, LC[c], creq[c])
           /\ \A j \in 0..(MaxItems - 1) :
                 Slot(c, LC[c], j) \in LowerBound(c)..(UpperBound(c) - 1)
           /\ \A j \in 0..(FirstPart(c, LC[c], creq[c]) - 1) : Slot(c, LC[c], j) = LC[c] + j
           /\ Remaining(c, LC[c], creq[c]) # 0 =>
                 \A j \in 0..(Remaining(c, LC[c], creq[c]) - 1) :
                    Slot(c, LC[c], FirstPart(c, LC[c], creq[c]) + j) = LowerBound(c) + j
<1>1. /\ Gap(LP[c], RP[c]) \in 0..(MaxItems - 1) /\ Gap(LP[c], LC[c]) \in 0..(MaxItems - 1)
      /\ Gap(RP[c], LC[c]) \in 0..(MaxItems - 1)
      /\ MaxItems \in Nat /\ creq[c] \in Nat
  BY ChannelTypes
<1>2. creq[c] <= Gap(RP[c], LC[c])
  BY DEF ChannelInv, CallInv
<1>3. Gap(LP[c], RP[c]) + Gap(RP[c], LC[c]) = Gap(LP[c], LC[c])
  BY DEF ChannelInv, IndexInv
<1>4. creq[c] \in 0..(MaxItems - 1) /\ creq[c] <= Gap(LP[c], LC[c])
  BY <1>1, <1>2, <1>3
<1>5. creq[c] <= sent[c] - rcvd[c]
  BY <1>4 DEF ChannelInv, IndexInv
<1>6. LC[c] \in Indices(c)
  BY ChannelTypes
<1> QED
  BY <1>2, <1>4, <1>5, <1>6, SlotFacts

(* Every slot of a channel is an address of the ring. *)
LEMMA SlotsAreAddresses ==
    ASSUME NEW c \in Channels
    PROVE  LowerBound(c)..(UpperBound(c) - 1) \subseteq Addresses
  BY BoundFacts DEF Addresses

(* The first memcpy puts the burst under way, each word to its slot. *)
LEMMA EnqueueCopyInv ==
    ASSUME RingInv, NEW c \in Channels, EnqueueCopy(c)
    PROVE  RingInv'
<1> USE DEF RingInv
<1>0. ppc[c] = "copy" /\ pend[c] = {}
  BY DEF EnqueueCopy, ChannelInv, PendInv
<1> DEFINE num == FirstPart(c, LP[c], preq[c])
<1>a. /\ num \in 0..preq[c] /\ preq[c] \in 0..(MaxItems - 1)
      /\ \A j \in 0..(num - 1) : Slot(c, LP[c], j) = LP[c] + j
      /\ \A j \in 0..(num - 1) : Slot(c, LP[c], j) \in Addresses
  <2>1. /\ num \in 0..preq[c] /\ preq[c] \in 0..(MaxItems - 1)
        /\ \A j \in 0..(num - 1) : Slot(c, LP[c], j) = LP[c] + j
        /\ \A j \in 0..(MaxItems - 1) : Slot(c, LP[c], j) \in LowerBound(c)..(UpperBound(c) - 1)
    BY <1>0, ProducerFacts
  <2> QED
    BY <2>1, SlotsAreAddresses, RingAssumption
<1>b. pend' = [pend EXCEPT ![c] = Stores(c, LP[c], sent[c], num)]
  BY <1>0 DEF EnqueueCopy
<1>c. Stores(c, LP[c], sent[c], num) =
         {<<Slot(c, LP[c], j), <<c, sent[c] + j>>>> : j \in 0..(num - 1)}
  BY <1>a DEF Stores
<1>1. TypeOK'
  <2>1. Stores(c, LP[c], sent[c], num) \subseteq Addresses \X Words
    BY <1>a, <1>c, ChannelTypes DEF Words
  <2>2. pend' \in [Channels -> SUBSET (Addresses \X Words)]
    BY <1>b, <2>1 DEF TypeOK
  <2> QED
    BY <2>2 DEF TypeOK, EnqueueCopy, consVars, busVars
<1>2. ASSUME NEW d \in Channels, d # c  PROVE ChannelInv(d)'
  <2>1. Untouched(d)
    BY <1>2 DEF TypeOK, EnqueueCopy, consVars, busVars, Untouched
  <2> QED
    BY <2>1, Frame
<1>3. ChannelInv(c)'
  <2>0. /\ ppc'[c] = "fence" /\ pend'[c] = Stores(c, LP[c], sent[c], num)
        /\ UNCHANGED <<LP, rpWb, preq, sent, consVars, busVars>>
    BY <1>b DEF TypeOK, EnqueueCopy
  <2> USE DEF consVars, busVars
  <2>1. IndexInv(c)'
    BY <2>0, <1>0 DEF ChannelInv, IndexInv
  <2>2. CallInv(c)' /\ UnreadInv(c)' /\ BufInv(c)'
    BY <2>0, <1>0 DEF ChannelInv, CallInv, UnreadInv, BufInv
  <2>3. PendInv(c)'
    BY <2>0, <1>a, <1>c, ChannelTypes DEF PendInv
  <2>4. CopyInv(c)'
    BY <2>0, <1>a, <1>c DEF CopyInv, Posted
  <2> QED
    BY <2>1, <2>2, <2>3, <2>4 DEF ChannelInv
<1> QED
  BY <1>1, <1>2, <1>3

(* After the first mfence the words of the first memcpy are stored. *)
LEMMA EnqueueFenceInv ==
    ASSUME RingInv, NEW c \in Channels, EnqueueFence(c)
    PROVE  RingInv'
<1> USE DEF RingInv
<1>1. TypeOK'
  BY DEF TypeOK, EnqueueFence, consVars, busVars
<1>2. ASSUME NEW d \in Channels, d # c  PROVE ChannelInv(d)'
  <2>1. Untouched(d)
    BY <1>2 DEF TypeOK, EnqueueFence, consVars, busVars, Untouched
  <2> QED
    BY <2>1, Frame
<1>3. ChannelInv(c)'
  <2>0. /\ ppc[c] = "fence" /\ pend[c] = {} /\ RP[c] = rpWb[c]
        /\ ppc'[c] = IF Remaining(c, LP[c], preq[c]) # 0 THEN "wrap" ELSE "lp"
        /\ UNCHANGED <<LP, pend, rpWb, preq, sent, consVars, busVars>>
    BY DEF TypeOK, EnqueueFence, Drained
  <2> USE DEF consVars, busVars
  <2>1. IndexInv(c)'
    BY <2>0 DEF ChannelInv, IndexInv
  <2>2. CallInv(c)' /\ UnreadInv(c)' /\ BufInv(c)' /\ PendInv(c)'
    BY <2>0 DEF ChannelInv, CallInv, UnreadInv, BufInv, PendInv
  <2>3. \A j \in 0..(FirstPart(c, LP[c], preq[c]) - 1) : Stored(c, j)
    BY <2>0 DEF ChannelInv, CopyInv, Posted
  <2>4. Remaining(c, LP[c], preq[c]) = preq[c] - FirstPart(c, LP[c], preq[c])
        /\ FirstPart(c, LP[c], preq[c]) \in Nat /\ preq[c] \in Nat
    BY <2>0, ProducerFacts
  <2>5. CopyInv(c)'
    BY <2>0, <2>3, <2>4 DEF CopyInv, Stored
  <2> QED
    BY <2>1, <2>2, <2>5 DEF ChannelInv
<1> QED
  BY <1>1, <1>2, <1>3

(* The second memcpy puts the rest of the burst under way. *)
LEMMA EnqueueWrapInv ==
    ASSUME RingInv, NEW c \in Channels, EnqueueWrap(c)
    PROVE  RingInv'
<1> USE DEF RingInv
<1>0. /\ ppc[c] = "wrap" /\ pend[c] = {}
      /\ Remaining(c, LP[c], preq[c]) # 0
  BY DEF EnqueueWrap, ChannelInv, PendInv, CallInv
<1> DEFINE num == FirstPart(c, LP[c], preq[c])
           rest == Remaining(c, LP[c], preq[c])
<1>a. /\ num \in 0..preq[c] /\ preq[c] \in 0..(MaxItems - 1) /\ rest = preq[c] - num
      /\ \A j \in 0..(rest - 1) : Slot(c, LP[c], num + j) = LowerBound(c) + j
      /\ \A j \in 0..(MaxItems - 1) : Slot(c, LP[c], j) \in Addresses
  <2>1. /\ num \in 0..preq[c] /\ preq[c] \in 0..(MaxItems - 1) /\ rest = preq[c] - num
        /\ \A j \in 0..(rest - 1) : Slot(c, LP[c], num + j) = LowerBound(c) + j
        /\ \A j \in 0..(MaxItems - 1) : Slot(c, LP[c], j) \in LowerBound(c)..(UpperBound(c) - 1)
    BY <1>0, ProducerFacts
  <2> QED
    BY <2>1, SlotsAreAddresses
<1>b. pend' = [pend EXCEPT ![c] = Stores(c, LowerBound(c), sent[c] + num, rest)]
  BY <1>0 DEF EnqueueWrap
<1>c. Stores(c, LowerBound(c), sent[c] + num, rest) =
         {<<Slot(c, LP[c], j), <<c, sent[c] + j>>>> : j \in num..(preq[c] - 1)}
  <2>1. ASSUME NEW j \in 0..(rest - 1)
        PROVE  /\ num + j \in num..(preq[c] - 1)
               /\ <<LowerBound(c) + j, <<c, sent[c] + num + j>>>> =
                  <<Slot(c, LP[c], num + j), <<c, sent[c] + (num + j)>>>>
    BY <1>a, ChannelTypes
  <2>2. ASSUME NEW j \in num..(preq[c] - 1)
        PROVE  /\ j - num \in 0..(rest - 1)
               /\ <<LowerBound(c) + (j - num), <<c, sent[c] + num + (j - num)>>>> =
                  <<Slot(c, LP[c], j), <<c, sent[c] + j>>>>
    <3>1. j - num \in 0..(rest - 1) /\ num + (j - num) = j
      BY <1>a
    <3>2. Slot(c, LP[c], j) = LowerBound(c) + (j - num)
      BY <3>1, <1>a
    <3>3. sent[c] + num + (j - num) = sent[c] + j
      BY <1>a, ChannelTypes
    <3> QED
      BY <3>1, <3>2, <3>3
  <2> HIDE DEF num, rest
  <2> DEFINE S == {<<Slot(c, LP[c], j), <<c, sent[c] + j>>>> : j \in num..(preq[c] - 1)}
  <2>3. ASSUME NEW s \in Stores(c, LowerBound(c), sent[c] + num, rest)
        PROVE  s \in S
    <3>1. PICK j \in 0..(rest - 1) : s = <<LowerBound(c) + j, <<c, sent[c] + num + j>>>>
      BY DEF Stores
    <3>2. s = <<Slot(c, LP[c], num + j), <<c, sent[c] + (num + j)>>>>
          /\ num + j \in num..(preq[c] - 1)
      BY <3>1, <2>1
    <3> QED
      BY <3>2
  <2>4. ASSUME NEW s \in S
        PROVE  s \in Stores(c, LowerBound(c), sent[c] + num, rest)
    <3>1. PICK j \in num..(preq[c] - 1) : s = <<Slot(c, LP[c], j), <<c, sent[c] + j>>>>
      OBVIOUS
    <3>2. s = <<LowerBound(c) + (j - num), <<c, sent[c] + num + (j - num)>>>>
          /\ j - num \in 0..(rest - 1)
      BY <3>1, <2>2
    <3> QED
      BY <3>2 DEF Stores
  <2> QED
    BY <2>3, <2>4
<1>1. TypeOK'
  <2>1. Stores(c, LowerBound(c), sent[c] + num, rest) \subseteq Addresses \X Words
    <3>1. \A j \in num..(preq[c] - 1) : j \in 0..(MaxItems - 1) /\ sent[c] + j \in Nat
      BY <1>a, ChannelTypes
    <3> QED
      BY <3>1, <1>a, <1>c DEF Words
  <2>2. pend' \in [Channels -> SUBSET (Addresses \X Words)]
    BY <1>b, <2>1 DEF TypeOK
  <2> QED
    BY <2>2 DEF TypeOK, EnqueueWrap, consVars, busVars
<1>2. ASSUME NEW d \in Channels, d # c  PROVE ChannelInv(d)'
  <2>1. Untouched(d)
    BY <1>2 DEF TypeOK, EnqueueWrap, consVars, busVars, Untouched
  <2> QED
    BY <2>1, Frame
<1>3. ChannelInv(c)'
  <2>0. /\ ppc'[c] = "wrapfence"
        /\ pend'[c] = {<<Slot(c, LP[c], j), <<c, sent[c] + j>>>> : j \in num..(preq[c] - 1)}
        /\ UNCHANGED <<LP, rpWb, preq, sent, consVars, busVars>>
    BY <1>b, <1>c DEF TypeOK, EnqueueWrap
  <2> USE DEF consVars, busVars
  <2>1. IndexInv(c)'
    BY <2>0, <1>0 DEF ChannelInv, IndexInv
  <2>2. CallInv(c)' /\ UnreadInv(c)' /\ BufInv(c)'
    BY <2>0, <1>0 DEF ChannelInv, CallInv, UnreadInv, BufInv
  <2>3. PendInv(c)'
    BY <2>0, <1>a DEF PendInv
  <2>4. CopyInv(c)'
    BY <2>0, <1>0 DEF ChannelInv, CopyInv, Posted, Stored
  <2> QED
    BY <2>1, <2>2, <2>3, <2>4 DEF ChannelInv
<1> QED
  BY <1>1, <1>2, <1>3

(* After the second mfence the whole burst is stored. *)
LEMMA EnqueueWrapFenceInv ==
    ASSUME RingInv, NEW c \in Channels, EnqueueWrapFence(c)
    PROVE  RingInv'
<1> USE DEF RingInv
<1>1. TypeOK'
  BY DEF TypeOK, EnqueueWrapFence, consVars, busVars
<1>2. ASSUME NEW d \in Channels, d # c  PROVE ChannelInv(d)'
  <2>1. Untouched(d)
    BY <1>2 DEF TypeOK, EnqueueWrapFence, consVars, busVars, Untouched
  <2> QED
    BY <2>1, Frame
<1>3. ChannelInv(c)'
  <2>0. /\ ppc[c] = "wrapfence" /\ pend[c] = {} /\ RP[c] = rpWb[c] /\ ppc'[c] = "lp"
        /\ UNCHANGED <<LP, pend, rpWb, preq, sent, consVars, busVars>>
    BY DEF TypeOK, EnqueueWrapFence, Drained
  <2> USE DEF consVars, busVars
  <2>1. IndexInv(c)'
    BY <2>0 DEF ChannelInv, IndexInv
  <2>2. CallInv(c)' /\ UnreadInv(c)' /\ BufInv(c)' /\ PendInv(c)'
    BY <2>0 DEF ChannelInv, CallInv, UnreadInv, BufInv, PendInv
  <2>3. /\ \A j \in 0..(FirstPart(c, LP[c], preq[c]) - 1) : Stored(c, j)
        /\ \A j \in FirstPart(c, LP[c], preq[c])..(preq[c] - 1) : Stored(c, j)
    BY <2>0 DEF ChannelInv, CopyInv, Posted
  <2>4. FirstPart(c, LP[c], preq[c]) \in Nat /\ preq[c] \in Nat
    BY <2>0, ProducerFacts
  <2>5. \A j \in 0..(preq[c] - 1) : Stored(c, j)
    BY <2>3, <2>4
  <2>6. CopyInv(c)'
    BY <2>0, <2>5 DEF CopyInv, Stored
  <2> QED
    BY <2>1, <2>2, <2>6 DEF ChannelInv
<1> QED
  BY <1>1, <1>2, <1>3

(* Publishing LP turns the words of the burst into unread ones. *)
LEMMA EnqueueStoreLPInv ==
    ASSUME RingInv, NEW c \in Channels, EnqueueStoreLP(c)
    PROVE  RingInv'
<1> USE DEF RingInv
<1> DEFINE n == preq[c]
           new == Advance(c, LP[c], n)
<1>0. /\ ppc[c] = "lp" /\ ppc'[c] = "rp" /\ LP'[c] = new /\ sent'[c] = sent[c] + n
      /\ UNCHANGED <<pend, rpWb, preq, consVars, busVars>>
  BY DEF TypeOK, EnqueueStoreLP
<1>f. /\ ring' = ring /\ RC' = RC /\ RP' = RP /\ LC' = LC /\ pend' = pend /\ rpWb' = rpWb
      /\ rcWb' = rcWb /\ preq' = preq /\ cpc' = cpc /\ creq' = creq /\ buf' = buf
      /\ rcvd' = rcvd
  BY <1>0 DEF consVars, busVars
<1>a. /\ n \in 0..(MaxItems - 1) /\ Gap(LP[c], LC[c]) + n < MaxItems
      /\ Gap(LP[c], RC[c]) + n < MaxItems
      /\ Gap(LP[c], LC[c]) = sent[c] - rcvd[c]
  BY <1>0, ProducerFacts
<1>b. new \in Indices(c)
  BY <1>a, SlotFacts, ChannelTypes
<1>c. RP[c] = LP[c] /\ rpWb[c] = LP[c]
  BY <1>0 DEF ChannelInv, IndexInv
<1>d. /\ Gap(new, LC[c]) = Gap(LP[c], LC[c]) + n
      /\ Gap(new, RC[c]) = Gap(LP[c], RC[c]) + n
      /\ Gap(LP[c], LP[c]) = 0
  BY <1>a, GapFacts, ChannelTypes
<1>e. Gap(new, LP[c]) = n
  BY <1>a, <1>d, GapFacts, ChannelTypes
<1>1. TypeOK'
  <2>1. sent'[c] \in 0..MaxWords
    BY <1>0, ChannelTypes DEF ChannelInv, CallInv
  <2>2. LP' \in [Channels -> Nat] /\ sent' \in [Channels -> 0..MaxWords]
    <3>1. new \in Nat
      BY <1>b, BoundFacts DEF Indices
    <3>2. LP' = [LP EXCEPT ![c] = new] /\ sent' = [sent EXCEPT ![c] = sent[c] + n]
      BY DEF EnqueueStoreLP
    <3> HIDE DEF new, n
    <3>3. sent[c] + n \in 0..MaxWords
      BY <1>0, <2>1
    <3> QED
      BY <3>1, <3>2, <3>3 DEF TypeOK
  <2>3. ASSUME NEW d \in Channels
        PROVE  {LP'[d], RC'[d], RP'[d], LC'[d], rpWb'[d], rcWb'[d]} \subseteq Indices(d)
    BY <1>0, <1>b DEF TypeOK, EnqueueStoreLP, consVars, busVars
  <2> QED
    BY <2>2, <2>3 DEF TypeOK, EnqueueStoreLP, consVars, busVars
<1>2. ASSUME NEW d \in Channels, d # c  PROVE ChannelInv(d)'
  <2>1. Untouched(d)
    BY <1>2 DEF TypeOK, EnqueueStoreLP, consVars, busVars, Untouched
  <2> QED
    BY <2>1, Frame
<1>3. ChannelInv(c)'
  <2> USE DEF consVars, busVars
  <2>0. /\ sent[c] \in Nat /\ rcvd[c] \in Nat /\ MaxItems \in Nat
        /\ Gap(LP[c], LC[c]) \in Nat /\ Gap(LP[c], RC[c]) \in Nat /\ Gap(LC[c], RC[c]) \in Nat
    BY ChannelTypes
  <2>1. IndexInv(c)'
    <3>1. /\ sent[c] + n - rcvd[c] = Gap(new, LC[c])
          /\ Gap(new, RP[c]) + Gap(RP[c], LC[c]) = Gap(new, LC[c])
      BY <1>a, <1>c, <1>d, <1>e, <2>0
    <3>2. Gap(new, LC[c]) + Gap(LC[c], RC[c]) = Gap(new, RC[c])
      BY <1>a, <1>d, <2>0 DEF ChannelInv, IndexInv
    <3> HIDE DEF new
    <3> QED
      BY <1>0, <1>f, <1>a, <1>c, <1>e, <2>0, <3>1, <3>2 DEF ChannelInv, IndexInv
  <2>2. CallInv(c)' /\ BufInv(c)'
    BY <1>0 DEF ChannelInv, CallInv, BufInv
  <2>3. UnreadInv(c)'
    <3>1. SUFFICES ASSUME NEW j \in 0..(sent[c] + n - rcvd[c] - 1)
                   PROVE  ring[Slot(c, LC[c], j)] = <<c, rcvd[c] + j>>
      <4>1. sent'[c] - rcvd'[c] - 1 = sent[c] + n - rcvd[c] - 1
        BY <1>0, <1>f, <1>a, <2>0
      <4> QED
        BY <4>1, <1>f DEF UnreadInv
    <3>2. CASE j < sent[c] - rcvd[c]
      <4>1. j \in 0..(sent[c] - rcvd[c] - 1)
        BY <3>2, <2>0, <1>a
      <4>2. UnreadInv(c)
        BY DEF ChannelInv
      <4> QED
        BY <4>1, <4>2 DEF UnreadInv
    <3>3. CASE j >= sent[c] - rcvd[c]
      <4> DEFINE k == j - (sent[c] - rcvd[c])
      <4>1. k \in 0..(n - 1) /\ k \in Nat /\ Gap(LP[c], LC[c]) + k = j /\ j < MaxItems
        BY <3>3, <2>0, <1>a
      <4>2. Slot(c, LP[c], k) = Slot(c, LC[c], j)
        BY <4>1, GapFacts, ChannelTypes
      <4>3. ring[Slot(c, LP[c], k)] = <<c, sent[c] + k>>
        BY <4>1, <1>0 DEF ChannelInv, CopyInv, Stored
      <4>4. sent[c] + k = rcvd[c] + j
        BY <2>0, <3>3
      <4> QED
        BY <4>2, <4>3, <4>4
    <3> QED
      BY <3>2, <3>3, <2>0
  <2>4. PendInv(c)' /\ CopyInv(c)'
    BY <1>0 DEF ChannelInv, PendInv, CopyInv
  <2> QED
    BY <2>1, <2>2, <2>3, <2>4 DEF ChannelInv
<1> QED
  BY <1>1, <1>2, <1>3

(* The remote index is stored only when the words are visible. *)
LEMMA EnqueueStoreRPInv ==
    ASSUME RingInv, NEW c \in Channels, EnqueueStoreRP(c)
    PROVE  RingInv'
<1> USE DEF RingInv
<1>1. TypeOK'
  BY DEF TypeOK, EnqueueStoreRP, consVars, busVars
<1>2. ASSUME NEW d \in Channels, d # c  PROVE ChannelInv(d)'
  <2>1. Untouched(d)
    BY <1>2 DEF TypeOK, EnqueueStoreRP, consVars, busVars, Untouched
  <2> QED
    BY <2>1, Frame
<1>3. ChannelInv(c)'
  <2>0. /\ ppc[c] = "rp" /\ ppc'[c] = "idle" /\ rpWb'[c] = LP[c]
        /\ UNCHANGED <<LP, pend, preq, sent, consVars, busVars>>
    BY DEF TypeOK, EnqueueStoreRP
  <2> USE DEF consVars, busVars
  <2>1. IndexInv(c)'
    BY <2>0 DEF ChannelInv, IndexInv
  <2>2. CallInv(c)' /\ UnreadInv(c)' /\ BufInv(c)' /\ PendInv(c)' /\ CopyInv(c)'
    BY <2>0 DEF ChannelInv, CallInv, UnreadInv, BufInv, PendInv, CopyInv
  <2> QED
    BY <2>1, <2>2 DEF ChannelInv
<1> QED
  BY <1>1, <1>2, <1>3

-----------------------------------------------------------------------------
(* The test against max_available lets a burst be copied. *)
LEMMA DequeueStartInv ==
    ASSUME RingInv, NEW c \in Channels, NEW n \in Bursts, DequeueStart(c, n)
    PROVE  RingInv'
<1> USE DEF RingInv
<1>1. TypeOK'
  <2>1. <<>> \in Seq(Words) /\ n \in Nat
    BY RingAssumption
  <2>2. buf' \in [Channels -> Seq(Words)]
    BY <2>1 DEF TypeOK, DequeueStart
  <2>3. cpc' \in [Channels -> {"idle", "copy", "wrap", "lc", "rc"}] /\ creq' \in [Channels -> Nat]
    BY <2>1 DEF TypeOK, DequeueStart
  <2>4. UNCHANGED <<LC, rcWb, rcvd, delivered, prodVars, busVars>>
    BY DEF DequeueStart
  <2> QED
    BY <2>2, <2>3, <2>4 DEF TypeOK, prodVars, busVars
<1>2. ASSUME NEW d \in Channels, d # c  PROVE ChannelInv(d)'
  <2>1. Untouched(d)
    BY <1>2 DEF TypeOK, DequeueStart, prodVars, busVars, Untouched
  <2> QED
    BY <2>1, Frame
<1>3. ChannelInv(c)'
  <2>0. /\ cpc[c] = "idle" /\ cpc'[c] = "copy" /\ creq'[c] = n
        /\ UNCHANGED <<LC, rcWb, rcvd, delivered, prodVars, busVars>>
    BY DEF TypeOK, DequeueStart
  <2> USE DEF prodVars, busVars
  <2>1. IndexInv(c)'
    BY <2>0 DEF ChannelInv, IndexInv
  <2>2. CallInv(c)'
    <3>1. n <= Gap(RP[c], LC[c])
      BY DistFacts DEF DequeueStart
    <3> QED
      BY <2>0, <3>1 DEF ChannelInv, CallInv
  <2>3. UnreadInv(c)' /\ PendInv(c)' /\ CopyInv(c)' /\ BufInv(c)'
    BY <2>0 DEF ChannelInv, UnreadInv, PendInv, CopyInv, BufInv, Stored, Posted
  <2> QED
    BY <2>1, <2>2, <2>3 DEF ChannelInv
<1> QED
  BY <1>1, <1>2, <1>3

(* The first memcpy reads the words that follow the ones taken. *)
LEMMA DequeueCopyInv ==
    ASSUME RingInv, NEW c \in Channels, DequeueCopy(c)
    PROVE  RingInv'
<1> USE DEF RingInv
<1> DEFINE num == FirstPart(c, LC[c], creq[c])
           got == [j \in 1..num |-> ring[LC[c] + j - 1]]
<1>0. cpc[c] = "copy" /\ buf' = [buf EXCEPT ![c] = got]
  BY DEF DequeueCopy
<1>a. /\ num \in 0..creq[c] /\ creq[c] \in 0..(MaxItems - 1) /\ creq[c] <= sent[c] - rcvd[c]
      /\ Remaining(c, LC[c], creq[c]) = creq[c] - num
      /\ \A j \in 0..(num - 1) : Slot(c, LC[c], j) = LC[c] + j
  BY <1>0, ConsumerFacts
<1>b. got = Fifo!Run(c, rcvd[c], num)
  <2>1. ASSUME NEW j \in 1..num  PROVE ring[LC[c] + j - 1] = <<c, rcvd[c] + j - 1>>
    <3>0. /\ sent[c] \in Nat /\ rcvd[c] \in Nat /\ LC[c] \in Nat
      BY ChannelTypes DEF TypeOK
    <3>1. j - 1 \in 0..(num - 1) /\ j - 1 \in 0..(sent[c] - rcvd[c] - 1)
      BY <1>a, <3>0
    <3>2. ring[Slot(c, LC[c], j - 1)] = <<c, rcvd[c] + (j - 1)>>
      BY <3>1 DEF ChannelInv, UnreadInv
    <3>3. Slot(c, LC[c], j - 1) = LC[c] + (j - 1)
      BY <3>1, <1>a
    <3> HIDE DEF num
    <3> QED
      BY <3>0, <3>2, <3>3
  <2> HIDE DEF num
  <2> QED
    BY <2>1 DEF Fifo!Run
<1>c. got \in Seq(Words)
  <2>1. \A j \in 1..num : <<c, rcvd[c] + j - 1>> \in Words
    BY <1>a, ChannelTypes DEF Words
  <2> HIDE DEF got, num
  <2>2. got \in [1..num -> Words] /\ num \in Nat
    BY <2>1, <1>a, <1>b DEF Fifo!Run
  <2> QED
    BY <2>2
<1>1. TypeOK'
  <2> HIDE DEF got
  <2>1. buf' \in [Channels -> Seq(Words)]
    BY <1>0, <1>c DEF TypeOK
  <2>2. cpc' \in [Channels -> {"idle", "copy", "wrap", "lc", "rc"}]
    BY DEF TypeOK, DequeueCopy
  <2>3. UNCHANGED <<LC, rcWb, creq, rcvd, delivered, prodVars, busVars>>
    BY DEF DequeueCopy
  <2> QED
    BY <2>1, <2>2, <2>3 DEF TypeOK, prodVars, busVars
<1>2. ASSUME NEW d \in Channels, d # c  PROVE ChannelInv(d)'
  <2>1. Untouched(d)
    BY <1>2 DEF TypeOK, DequeueCopy, prodVars, busVars, Untouched
  <2> QED
    BY <2>1, Frame
<1>3. ChannelInv(c)'
  <2>0. /\ buf'[c] = Fifo!Run(c, rcvd[c], num)
        /\ cpc'[c] = IF Remaining(c, LC[c], creq[c]) # 0 THEN "wrap" ELSE "lc"
        /\ UNCHANGED <<LC, rcWb, creq, rcvd, delivered, prodVars, busVars>>
    BY <1>b, <1>0 DEF TypeOK, DequeueCopy
  <2> USE DEF prodVars, busVars
  <2>1. IndexInv(c)' /\ CallInv(c)'
    BY <2>0, <1>0 DEF ChannelInv, IndexInv, CallInv
  <2>2. UnreadInv(c)' /\ PendInv(c)' /\ CopyInv(c)'
    BY <2>0 DEF ChannelInv, UnreadInv, PendInv, CopyInv, Stored, Posted
  <2>3. BufInv(c)'
    <3>1. Remaining(c, LC[c], creq[c]) = 0 => num = creq[c]
      BY <1>a
    <3> QED
      BY <2>0, <3>1 DEF BufInv
  <2> QED
    BY <2>1, <2>2, <2>3 DEF ChannelInv
<1> QED
  BY <1>1, <1>2, <1>3

(* The second memcpy reads the rest of them, from LOWER_BOUND on. *)
LEMMA DequeueWrapInv ==
    ASSUME RingInv, NEW c \in Channels, DequeueWrap(c)
    PROVE  RingInv'
<1> USE DEF RingInv
<1> DEFINE num == FirstPart(c, LC[c], creq[c])
           got == [j \in 1..creq[c] |-> IF j <= num THEN buf[c][j]
                                        ELSE ring[LowerBound(c) + j - num - 1]]
<1>0. /\ cpc[c] = "wrap" /\ buf' = [buf EXCEPT ![c] = got]
      /\ buf[c] = Fifo!Run(c, rcvd[c], num)
      /\ Remaining(c, LC[c], creq[c]) # 0
  BY DEF DequeueWrap, ChannelInv, BufInv, CallInv
<1>a. /\ num \in 0..creq[c] /\ creq[c] \in 0..(MaxItems - 1) /\ creq[c] <= sent[c] - rcvd[c]
      /\ \A j \in 0..(creq[c] - num - 1) : Slot(c, LC[c], num + j) = LowerBound(c) + j
  BY <1>0, ConsumerFacts
<1>b. got = Fifo!Run(c, rcvd[c], creq[c])
  <2>1. ASSUME NEW j \in 1..creq[c]  PROVE got[j] = <<c, rcvd[c] + j - 1>>
    <3>0. sent[c] \in Nat /\ rcvd[c] \in Nat /\ LowerBound(c) \in Nat
      BY ChannelTypes, BoundFacts
    <3>1. CASE j <= num
      <4>1. j \in 1..num
        BY <3>1, <1>a
      <4> HIDE DEF num
      <4> QED
        BY <4>1, <3>1, <1>0 DEF Fifo!Run
    <3>2. CASE j > num
      <4>1. /\ j - num - 1 \in 0..(creq[c] - num - 1) /\ num + (j - num - 1) = j - 1
            /\ j - 1 \in 0..(sent[c] - rcvd[c] - 1)
        BY <1>a, <3>0, <3>2
      <4>2. ring[Slot(c, LC[c], j - 1)] = <<c, rcvd[c] + (j - 1)>>
        BY <4>1 DEF ChannelInv, UnreadInv
      <4>3. Slot(c, LC[c], j - 1) = LowerBound(c) + (j - num - 1)
        BY <4>1, <1>a
      <4>4. got[j] = ring[LowerBound(c) + j - num - 1]
        BY <3>2, <1>a
      <4> HIDE DEF num, got
      <4>5. /\ LowerBound(c) + (j - num - 1) = LowerBound(c) + j - num - 1
            /\ rcvd[c] + (j - 1) = rcvd[c] + j - 1
        BY <3>0, <1>a
      <4> QED
        BY <4>2, <4>3, <4>4, <4>5
    <3>3. j <= num \/ j > num
      BY <1>a
    <3> HIDE DEF num, got
    <3> QED
      BY <3>1, <3>2, <3>3
  <2>2. DOMAIN got = 1..creq[c] /\ got = [j \in 1..creq[c] |-> got[j]]
    OBVIOUS
  <2> HIDE DEF num, got
  <2> QED
    BY <2>1, <2>2 DEF Fifo!Run
<1>c. got \in Seq(Words)
  <2>1. \A j \in 1..creq[c] : <<c, rcvd[c] + j - 1>> \in Words
    BY <1>a, ChannelTypes DEF Words
  <2> HIDE DEF got
  <2>2. got \in [1..creq[c] -> Words] /\ creq[c] \in Nat
    BY <2>1, <1>a, <1>b DEF Fifo!Run
  <2> QED
    BY <2>2
<1>1. TypeOK'
  <2> HIDE DEF got
  <2>1. buf' \in [Channels -> Seq(Words)]
    BY <1>0, <1>c DEF TypeOK
  <2>2. cpc' \in [Channels -> {"idle", "copy", "wrap", "lc", "rc"}]
    BY DEF TypeOK, DequeueWrap
  <2>3. UNCHANGED <<LC, rcWb, creq, rcvd, delivered, prodVars, busVars>>
    BY DEF DequeueWrap
  <2> QED
    BY <2>1, <2>2, <2>3 DEF TypeOK, prodVars, busVars
<1>2. ASSUME NEW d \in Channels, d # c  PROVE ChannelInv(d)'
  <2>1. Untouched(d)
    BY <1>2 DEF TypeOK, DequeueWrap, prodVars, busVars, Untouched
  <2> QED
    BY <2>1, Frame
<1>3. ChannelInv(c)'
  <2> HIDE DEF got
  <2>0. /\ buf'[c] = Fifo!Run(c, rcvd[c], creq[c]) /\ cpc'[c] = "lc"
        /\ UNCHANGED <<LC, rcWb, creq, rcvd, delivered, prodVars, busVars>>
    BY <1>b, <1>0 DEF TypeOK, DequeueWrap
  <2> USE DEF prodVars, busVars
  <2>1. IndexInv(c)' /\ CallInv(c)'
    BY <2>0, <1>0 DEF ChannelInv, IndexInv, CallInv
  <2>2. UnreadInv(c)' /\ PendInv(c)' /\ CopyInv(c)' /\ BufInv(c)'
    BY <2>0 DEF ChannelInv, UnreadInv, PendInv, CopyInv, BufInv, Stored, Posted
  <2> QED
    BY <2>1, <2>2 DEF ChannelInv
<1> QED
  BY <1>1, <1>2, <1>3

(* Publishing LC frees the slots of the burst, and only those. *)
LEMMA DequeueStoreLCInv ==
    ASSUME RingInv, NEW c \in Channels, DequeueStoreLC(c)
    PROVE  RingInv'
<1> USE DEF RingInv
<1> DEFINE n == creq[c]
           new == Advance(c, LC[c], n)
<1>0. /\ cpc[c] = "lc" /\ cpc'[c] = "rc" /\ LC'[c] = new /\ rcvd'[c] = rcvd[c] + n
  BY DEF TypeOK, DequeueStoreLC
<1>f. /\ ring' = ring /\ RC' = RC /\ RP' = RP /\ LP' = LP /\ pend' = pend /\ rpWb' = rpWb
      /\ rcWb' = rcWb /\ preq' = preq /\ ppc' = ppc /\ creq' = creq /\ buf' = buf
      /\ sent' = sent
  BY DEF DequeueStoreLC, prodVars, busVars
<1>g. /\ sent[c] \in Nat /\ rcvd[c] \in Nat /\ MaxItems \in Nat
      /\ sent[c] <= MaxWords /\ MaxWords \in Nat
      /\ Gap(LP[c], LC[c]) \in 0..(MaxItems - 1) /\ Gap(LP[c], RC[c]) \in 0..(MaxItems - 1)
      /\ Gap(LC[c], RC[c]) \in 0..(MaxItems - 1) /\ Gap(RP[c], LC[c]) \in 0..(MaxItems - 1)
      /\ Gap(LP[c], RP[c]) \in 0..(MaxItems - 1)
  BY ChannelTypes
<1>a. /\ n \in 0..(MaxItems - 1) /\ n <= Gap(RP[c], LC[c]) /\ n <= sent[c] - rcvd[c]
      /\ Gap(LP[c], LC[c]) = sent[c] - rcvd[c]
      /\ Gap(LP[c], RP[c]) + Gap(RP[c], LC[c]) = Gap(LP[c], LC[c])
      /\ Gap(LP[c], LC[c]) + Gap(LC[c], RC[c]) = Gap(LP[c], RC[c])
      /\ rcWb[c] = LC[c]
  BY <1>0, ConsumerFacts DEF ChannelInv, IndexInv
<1>b. new \in Indices(c)
  BY <1>a, SlotFacts, ChannelTypes
<1>c. Gap(LC[c], RC[c]) + n < MaxItems /\ n <= Gap(LP[c], LC[c])
  BY <1>a, <1>g
<1>d. /\ Gap(LP[c], new) = Gap(LP[c], LC[c]) - n
      /\ Gap(RP[c], new) = Gap(RP[c], LC[c]) - n
      /\ Gap(new, RC[c]) = Gap(LC[c], RC[c]) + n
      /\ Gap(LC[c], LC[c]) = 0
  BY <1>a, <1>c, GapFacts, ChannelTypes
<1>e. Gap(new, LC[c]) = n
  BY <1>a, <1>d, GapFacts, ChannelTypes
<1>1. TypeOK'
  <2>1. rcvd[c] + n \in 0..MaxWords /\ new \in Nat
    BY <1>a, <1>b, <1>g, BoundFacts DEF Indices
  <2>2. /\ LC' = [LC EXCEPT ![c] = new] /\ rcvd' = [rcvd EXCEPT ![c] = rcvd[c] + n]
        /\ delivered' = [delivered EXCEPT ![c] = buf[c]]
    BY DEF DequeueStoreLC
  <2> HIDE DEF new, n
  <2>3. /\ LC' \in [Channels -> Nat] /\ rcvd' \in [Channels -> 0..MaxWords]
    BY <2>1, <2>2 DEF TypeOK
  <2>4. delivered' \in [Channels -> Seq(Words)]
    BY <2>2 DEF TypeOK
  <2>5. ASSUME NEW d \in Channels
        PROVE  {LP'[d], RC'[d], RP'[d], LC'[d], rpWb'[d], rcWb'[d]} \subseteq Indices(d)
    BY <1>f, <2>2, <1>b DEF TypeOK
  <2>6. cpc' \in [Channels -> {"idle", "copy", "wrap", "lc", "rc"}]
    BY DEF TypeOK, DequeueStoreLC
  <2> QED
    BY <1>f, <2>3, <2>4, <2>5, <2>6 DEF TypeOK
<1>2. ASSUME NEW d \in Channels, d # c  PROVE ChannelInv(d)'
  <2>1. Untouched(d)
    BY <1>2 DEF TypeOK, DequeueStoreLC, prodVars, busVars, Untouched
  <2> QED
    BY <2>1, Frame
<1>3. ChannelInv(c)'
  <2>1. IndexInv(c)'
    <3>1. /\ sent[c] - (rcvd[c] + n) = Gap(LP[c], new)
          /\ Gap(LP[c], RP[c]) + Gap(RP[c], new) = Gap(LP[c], new)
          /\ Gap(LP[c], new) + Gap(new, RC[c]) = Gap(LP[c], RC[c])
          /\ Gap(new, rcWb[c]) + Gap(rcWb[c], RC[c]) = Gap(new, RC[c])
          /\ Gap(new, rcWb[c]) = n
      BY <1>a, <1>d, <1>e, <1>g
    <3> HIDE DEF new
    <3> QED
      BY <1>0, <1>f, <1>a, <1>g, <3>1 DEF ChannelInv, IndexInv
  <2>2. CallInv(c)'
    BY <1>0, <1>f DEF ChannelInv, CallInv
  <2>3. UnreadInv(c)'
    <3>1. SUFFICES ASSUME NEW j \in 0..(sent[c] - (rcvd[c] + n) - 1)
                   PROVE  ring[Slot(c, new, j)] = <<c, (rcvd[c] + n) + j>>
      <4>1. sent'[c] - rcvd'[c] - 1 = sent[c] - (rcvd[c] + n) - 1
        BY <1>0, <1>f, <1>a, <1>g
      <4> HIDE DEF n, new
      <4> QED
        BY <4>1, <1>0, <1>f DEF UnreadInv
    <3>2. /\ n + j \in 0..(sent[c] - rcvd[c] - 1) /\ j \in Nat /\ n + j < MaxItems
          /\ (rcvd[c] + n) + j = rcvd[c] + (n + j)
      BY <1>a, <1>g
    <3>3. Slot(c, new, j) = Slot(c, LC[c], n + j)
      <4>1. LC[c] \in Indices(c) /\ n \in 0..(MaxItems - 1)
        BY <1>a, ChannelTypes
      <4>2. \A k \in Nat : n + k < MaxItems => Slot(c, new, k) = Slot(c, LC[c], n + k)
        BY <4>1, SlotFacts
      <4> QED
        BY <4>2, <3>2
    <3> HIDE DEF new
    <3>4. ring[Slot(c, LC[c], n + j)] = <<c, rcvd[c] + (n + j)>>
      BY <3>2 DEF ChannelInv, UnreadInv
    <3> QED
      BY <3>2, <3>3, <3>4
  <2>4. PendInv(c)' /\ CopyInv(c)' /\ BufInv(c)'
    BY <1>0, <1>f DEF ChannelInv, PendInv, CopyInv, BufInv, Stored, Posted
  <2> QED
    BY <2>1, <2>2, <2>3, <2>4 DEF ChannelInv
<1> QED
  BY <1>1, <1>2, <1>3

(* Publishing LOCAL_CONSUMER gives the slots back. *)
LEMMA DequeueStoreRCInv ==
    ASSUME RingInv, NEW c \in Channels, DequeueStoreRC(c)
    PROVE  RingInv'
<1> USE DEF RingInv
<1>1. TypeOK'
  BY DEF TypeOK, DequeueStoreRC, prodVars, busVars
<1>2. ASSUME NEW d \in Channels, d # c  PROVE ChannelInv(d)'
  <2>1. Untouched(d)
    BY <1>2 DEF TypeOK, DequeueStoreRC, prodVars, busVars, Untouched
  <2> QED
    BY <2>1, Frame
<1>3. ChannelInv(c)'
  <2>0. /\ cpc[c] = "rc" /\ cpc'[c] = "idle" /\ rcWb'[c] = LC[c]
        /\ UNCHANGED <<LC, creq, buf, rcvd, delivered, prodVars, busVars>>
    BY DEF TypeOK, DequeueStoreRC
  <2>a. Gap(LC[c], LC[c]) = 0 /\ Gap(LC[c], RC[c]) \in Nat
    BY GapFacts, ChannelTypes
  <2> USE DEF prodVars, busVars
  <2>1. IndexInv(c)'
    BY <2>0, <2>a DEF ChannelInv, IndexInv
  <2>2. CallInv(c)' /\ UnreadInv(c)' /\ BufInv(c)' /\ PendInv(c)' /\ CopyInv(c)'
    BY <2>0 DEF ChannelInv, CallInv, UnreadInv, BufInv, PendInv, CopyInv, Stored, Posted
  <2> QED
    BY <2>1, <2>2 DEF ChannelInv
<1> QED
  BY <1>1, <1>2, <1>3

-----------------------------------------------------------------------------
(* Distances add up as long as they stay below a lap. *)
LEMMA GapTransitive ==
    ASSUME NEW c \in Channels, NEW x \in Indices(c), NEW y \in Indices(c), NEW z \in Indices(c),
           Gap(x, y) + Gap(y, z) < MaxItems
    PROVE  Gap(x, z) = Gap(x, y) + Gap(y, z)
<1> DEFINE L == LowerBound(c)
<1>1. /\ L \in Nat /\ MaxItems \in Nat /\ MaxItems > 1
      /\ {x, y, z} \subseteq L..(L + MaxItems)
  BY BoundFacts DEF Indices
<1> HIDE DEF L
<1> QED
  BY <1>1 DEF Gap

(* A word that becomes visible lands in a free slot of its own channel. *)
LEMMA DeliverWordInv ==
    ASSUME RingInv, NEW c \in Channels, DeliverWord(c)
    PROVE  RingInv'
<1> USE DEF RingInv
<1>0. PICK s \in pend[c] :
         /\ ring' = [ring EXCEPT ![s[1]] = s[2]]
         /\ pend' = [pend EXCEPT ![c] = @ \ {s}]
         /\ UNCHANGED <<LP, rpWb, ppc, preq, sent, consVars, RP, RC>>
  BY DEF DeliverWord
<1>f. /\ RC' = RC /\ RP' = RP /\ LP' = LP /\ LC' = LC /\ rpWb' = rpWb
      /\ rcWb' = rcWb /\ preq' = preq /\ ppc' = ppc /\ creq' = creq /\ cpc' = cpc
      /\ buf' = buf /\ sent' = sent /\ rcvd' = rcvd /\ delivered' = delivered
  BY <1>0 DEF consVars
<1>a. ppc[c] \in {"fence", "wrapfence"}
  BY <1>0 DEF ChannelInv, PendInv
<1>b. PICK i \in 0..(preq[c] - 1) : s = <<Slot(c, LP[c], i), <<c, sent[c] + i>>>>
  BY <1>0 DEF ChannelInv, PendInv
<1> DEFINE here == Slot(c, LP[c], i)
<1>c. /\ preq[c] \in 0..(MaxItems - 1) /\ i \in 0..(MaxItems - 1)
      /\ Gap(LP[c], LC[c]) + preq[c] < MaxItems
      /\ Gap(LP[c], LC[c]) = sent[c] - rcvd[c]
      /\ FirstPart(c, LP[c], preq[c]) \in 0..preq[c]
      /\ here \in LowerBound(c)..(UpperBound(c) - 1)
  <2>1. /\ preq[c] \in 0..(MaxItems - 1)
        /\ Gap(LP[c], LC[c]) + preq[c] < MaxItems
        /\ Gap(LP[c], LC[c]) = sent[c] - rcvd[c]
        /\ FirstPart(c, LP[c], preq[c]) \in 0..preq[c]
        /\ \A j \in 0..(MaxItems - 1) : Slot(c, LP[c], j) \in LowerBound(c)..(UpperBound(c) - 1)
    BY <1>a, ProducerFacts
  <2>2. i \in 0..(MaxItems - 1)
    BY <2>1, RingAssumption
  <2> QED
    BY <2>1, <2>2
<1>d. /\ ring' = [ring EXCEPT ![here] = <<c, sent[c] + i>>] /\ here \in Addresses
      /\ \A a \in Addresses : a # here => ring'[a] = ring[a]
      /\ ring'[here] = <<c, sent[c] + i>>
  BY <1>0, <1>b, <1>c, SlotsAreAddresses DEF TypeOK
<1>1. TypeOK'
  <2>1. <<c, sent[c] + i>> \in Words
    BY <1>c, ChannelTypes DEF Words
  <2>2. ring' \in [Addresses -> Words]
    BY <1>d, <2>1 DEF TypeOK
  <2>3. pend' \in [Channels -> SUBSET (Addresses \X Words)]
    BY <1>0 DEF TypeOK
  <2> QED
    BY <1>f, <2>2, <2>3 DEF TypeOK
<1>2. ASSUME NEW d \in Channels, d # c  PROVE ChannelInv(d)'
  <2>1. ASSUME NEW a \in LowerBound(d)..(UpperBound(d) - 1)  PROVE ring'[a] = ring[a]
    <3>1. a # here
      BY <1>2, <1>c, BoundFacts
    <3> QED
      BY <3>1, <1>d, SlotsAreAddresses
  <2>2. Untouched(d)
    BY <1>0, <1>f, <1>2, <2>1 DEF TypeOK, Untouched
  <2> QED
    BY <2>2, Frame
<1>3. ChannelInv(c)'
  <2>0. /\ sent[c] \in Nat /\ rcvd[c] \in Nat /\ MaxItems \in Nat
        /\ LP[c] \in Indices(c) /\ LC[c] \in Indices(c) /\ pend'[c] = pend[c] \ {s}
    BY <1>0, ChannelTypes DEF TypeOK
  <2>1. IndexInv(c)'
    BY <1>f DEF ChannelInv, IndexInv
  <2>2. CallInv(c)' /\ BufInv(c)'
    BY <1>f DEF ChannelInv, CallInv, BufInv
  <2>3. UnreadInv(c)'
    <3>1. SUFFICES ASSUME NEW j \in 0..(sent[c] - rcvd[c] - 1)
                   PROVE  ring'[Slot(c, LC[c], j)] = <<c, rcvd[c] + j>>
      BY <1>f DEF UnreadInv
    <3>2. j \in 0..(MaxItems - 1) /\ Gap(LP[c], LC[c]) + i \in 0..(MaxItems - 1)
          /\ j # Gap(LP[c], LC[c]) + i /\ i \in Nat
      BY <1>c, <2>0
    <3>3. here = Slot(c, LC[c], Gap(LP[c], LC[c]) + i)
      BY <2>0, <3>2, GapFacts
    <3>4. Slot(c, LC[c], j) # here /\ Slot(c, LC[c], j) \in Addresses
      <4>1. /\ Slot(c, LC[c], j) # Slot(c, LC[c], Gap(LP[c], LC[c]) + i)
            /\ Slot(c, LC[c], j) \in LowerBound(c)..(UpperBound(c) - 1)
        <5>1. /\ \A k \in 0..(MaxItems - 1) :
                    Slot(c, LC[c], k) \in LowerBound(c)..(UpperBound(c) - 1)
              /\ \A k, l \in 0..(MaxItems - 1) : k # l => Slot(c, LC[c], k) # Slot(c, LC[c], l)
          BY <1>c, <2>0, SlotFacts
        <5> QED
          BY <5>1, <3>2
      <4> QED
        BY <4>1, <3>3, SlotsAreAddresses
    <3> QED
      BY <3>4, <1>d DEF ChannelInv, UnreadInv
  <2>4. PendInv(c)'
    BY <1>f, <1>a, <2>0 DEF ChannelInv, PendInv
  <2>5. ASSUME NEW j \in 0..(preq[c] - 1)
        PROVE  /\ Stored(c, j) => Stored(c, j)'
               /\ Posted(c, j) => Stored(c, j)' \/ Posted(c, j)'
    <3>1. j \in 0..(MaxItems - 1)
      BY <1>c, <2>0
    <3>2. Slot(c, LP[c], j) \in Addresses
      BY <3>1, <2>0, SlotFacts, SlotsAreAddresses, <1>c
    <3>3. CASE j = i
      BY <3>3, <1>d, <1>f DEF Stored
    <3>4. CASE j # i
      <4>1. Slot(c, LP[c], j) # here
        BY <3>1, <3>4, <1>c, <2>0, SlotFacts
      <4>2. ring'[Slot(c, LP[c], j)] = ring[Slot(c, LP[c], j)]
        BY <4>1, <3>2, <1>d
      <4>3. s # <<Slot(c, LP[c], j), <<c, sent[c] + j>>>>
        BY <4>1, <1>b
      <4> QED
        BY <4>2, <4>3, <1>f, <2>0 DEF Stored, Posted
    <3> QED
      BY <3>3, <3>4
  <2>6. CopyInv(c)'
    <3>1. /\ FirstPart(c, LP[c], preq[c]) \in 0..preq[c] /\ preq[c] \in Nat
      BY <1>c
    <3> QED
      BY <1>f, <1>a, <2>5, <3>1 DEF ChannelInv, CopyInv
  <2> QED
    BY <2>1, <2>2, <2>3, <2>4, <2>6 DEF ChannelInv
<1> QED
  BY <1>1, <1>2, <1>3

(* The bus makes REMOTE_PRODUCER visible. *)
LEMMA DeliverRPInv ==
    ASSUME RingInv, NEW c \in Channels, DeliverRP(c)
    PROVE  RingInv'
<1> USE DEF RingInv
<1>1. TypeOK'
  BY DEF TypeOK, DeliverRP, prodVars, consVars
<1>2. ASSUME NEW d \in Channels, d # c  PROVE ChannelInv(d)'
  <2>1. Untouched(d)
    BY <1>2 DEF TypeOK, DeliverRP, prodVars, consVars, Untouched
  <2> QED
    BY <2>1, Frame
<1>3. ChannelInv(c)'
  <2>0. /\ RP[c] # rpWb[c] /\ RP'[c] = rpWb[c]
        /\ UNCHANGED <<ring, RC, prodVars, consVars>>
    BY DEF TypeOK, DeliverRP
  <2>a. /\ Gap(LP[c], LP[c]) = 0
        /\ Gap(LP[c], LC[c]) \in Nat /\ Gap(RP[c], LC[c]) \in Nat /\ Gap(LP[c], RP[c]) \in Nat
        /\ creq[c] \in Nat
    BY GapFacts, ChannelTypes
  <2>b. rpWb[c] = LP[c]
    BY <2>0, ChannelTypes DEF ChannelInv, IndexInv
  <2>c. Gap(RP[c], LC[c]) <= Gap(LP[c], LC[c])
    BY <2>a DEF ChannelInv, IndexInv
  <2> USE DEF prodVars, consVars
  <2>1. IndexInv(c)'
    BY <2>0, <2>a, <2>b DEF ChannelInv, IndexInv
  <2>2. CallInv(c)'
    BY <2>0, <2>a, <2>b, <2>c DEF ChannelInv, CallInv
  <2>3. UnreadInv(c)' /\ BufInv(c)' /\ PendInv(c)' /\ CopyInv(c)'
    BY <2>0 DEF ChannelInv, UnreadInv, BufInv, PendInv, CopyInv, Stored, Posted
  <2> QED
    BY <2>1, <2>2, <2>3 DEF ChannelInv
<1> QED
  BY <1>1, <1>2, <1>3

(* The bus makes REMOTE_CONSUMER visible. *)
LEMMA DeliverRCInv ==
    ASSUME RingInv, NEW c \in Channels, DeliverRC(c)
    PROVE  RingInv'
<1> USE DEF RingInv
<1>1. TypeOK'
  BY DEF TypeOK, DeliverRC, prodVars, consVars
<1>2. ASSUME NEW d \in Channels, d # c  PROVE ChannelInv(d)'
  <2>1. Untouched(d)
    BY <1>2 DEF TypeOK, DeliverRC, prodVars, consVars, Untouched
  <2> QED
    BY <2>1, Frame
<1>3. ChannelInv(c)'
  <2>0. /\ RC'[c] = rcWb[c] /\ UNCHANGED <<ring, RP, prodVars, consVars>>
    BY DEF TypeOK, DeliverRC
  <2>a. /\ Gap(rcWb[c], rcWb[c]) = 0 /\ MaxItems \in Nat
        /\ Gap(LP[c], LC[c]) \in Nat /\ Gap(LC[c], RC[c]) \in Nat /\ Gap(LC[c], rcWb[c]) \in Nat
        /\ Gap(rcWb[c], RC[c]) \in Nat /\ Gap(LP[c], RC[c]) \in 0..(MaxItems - 1)
        /\ preq[c] \in Nat
    BY GapFacts, ChannelTypes
  <2>b. Gap(LP[c], LC[c]) + Gap(LC[c], rcWb[c]) <= Gap(LP[c], RC[c])
    BY <2>a DEF ChannelInv, IndexInv
  <2>c. Gap(LP[c], rcWb[c]) = Gap(LP[c], LC[c]) + Gap(LC[c], rcWb[c])
    <3>1. Gap(LP[c], LC[c]) + Gap(LC[c], rcWb[c]) < MaxItems
      BY <2>a, <2>b
    <3>2. LP[c] \in Indices(c) /\ LC[c] \in Indices(c) /\ rcWb[c] \in Indices(c)
      BY ChannelTypes
    <3> QED
      BY <3>1, <3>2, GapTransitive
  <2> USE DEF prodVars, consVars
  <2>1. IndexInv(c)'
    BY <2>0, <2>a, <2>c DEF ChannelInv, IndexInv
  <2>2. CallInv(c)'
    BY <2>0, <2>a, <2>b, <2>c DEF ChannelInv, CallInv
  <2>3. UnreadInv(c)' /\ BufInv(c)' /\ PendInv(c)' /\ CopyInv(c)'
    BY <2>0 DEF ChannelInv, UnreadInv, BufInv, PendInv, CopyInv, Stored, Posted
  <2> QED
    BY <2>1, <2>2, <2>3 DEF ChannelInv
<1> QED
  BY <1>1, <1>2, <1>3

-----------------------------------------------------------------------------
(* allocate_ring establishes the invariant. *)
LEMMA InitInv == Init => RingInv
<1> SUFFICES ASSUME Init PROVE RingInv
  OBVIOUS
<1>0. ASSUME NEW c \in Channels
      PROVE  /\ LowerBound(c) \in Nat /\ LowerBound(c) \in Indices(c)
             /\ Gap(LowerBound(c), LowerBound(c)) = 0
  <2>1. LowerBound(c) \in Nat /\ LowerBound(c) \in Indices(c)
    BY BoundFacts DEF Indices
  <2> QED
    BY <2>1, GapFacts
<1>1. TypeOK
  <2>1. /\ LP \in [Channels -> Nat] /\ RC \in [Channels -> Nat]
        /\ RP \in [Channels -> Nat] /\ LC \in [Channels -> Nat]
        /\ rpWb \in [Channels -> Nat] /\ rcWb \in [Channels -> Nat]
    BY <1>0 DEF Init
  <2>2. \A c \in Channels :
          {LP[c], RC[c], RP[c], LC[c], rpWb[c], rcWb[c]} \subseteq Indices(c)
    BY <1>0 DEF Init
  <2>3. ring \in [Addresses -> Words]
    BY DEF Init, Words
  <2>4. pend \in [Channels -> SUBSET (Addresses \X Words)]
    BY DEF Init
  <2>5. /\ ppc \in [Channels -> {"idle", "copy", "fence", "wrap", "wrapfence", "lp", "rp"}]
        /\ cpc \in [Channels -> {"idle", "copy", "wrap", "lc", "rc"}]
        /\ preq \in [Channels -> Nat] /\ creq \in [Channels -> Nat]
    BY DEF Init
  <2>6. sent \in [Channels -> 0..MaxWords] /\ rcvd \in [Channels -> 0..MaxWords]
    BY RingAssumption DEF Init, Fifo!FifoInit
  <2>7. <<>> \in Seq(Words)
    OBVIOUS
  <2>8. buf \in [Channels -> Seq(Words)] /\ delivered \in [Channels -> Seq(Words)]
    BY <2>7 DEF Init, Fifo!FifoInit
  <2> QED
    BY <2>1, <2>2, <2>3, <2>4, <2>5, <2>6, <2>8 DEF TypeOK
<1>2. ASSUME NEW c \in Channels PROVE ChannelInv(c)
  <2>0. /\ LP[c] = LowerBound(c) /\ RC[c] = LowerBound(c) /\ RP[c] = LowerBound(c)
        /\ LC[c] = LowerBound(c) /\ rpWb[c] = LowerBound(c) /\ rcWb[c] = LowerBound(c)
        /\ ppc[c] = "idle" /\ cpc[c] = "idle" /\ pend[c] = {} /\ sent[c] = 0 /\ rcvd[c] = 0
    BY DEF Init, Fifo!FifoInit
  <2>1. IndexInv(c)
    BY <2>0, <1>0 DEF IndexInv
  <2>2. CallInv(c) /\ PendInv(c) /\ CopyInv(c) /\ BufInv(c)
    BY <2>0 DEF CallInv, PendInv, CopyInv, BufInv
  <2>3. UnreadInv(c)
    BY <2>0 DEF UnreadInv
  <2> QED
    BY <2>1, <2>2, <2>3 DEF ChannelInv
<1> QED
  BY <1>1, <1>2 DEF RingInv

(* A step that changes nothing keeps the invariant. *)
LEMMA StutterInv == ASSUME RingInv, UNCHANGED vars PROVE RingInv'
<1>1. TypeOK'
  BY DEF RingInv, vars, prodVars, consVars, busVars, TypeOK
<1>2. ASSUME NEW d \in Channels PROVE ChannelInv(d)'
  <2>1. Untouched(d)
    BY DEF vars, prodVars, consVars, busVars, Untouched
  <2> QED
    BY <2>1, Frame DEF RingInv
<1> QED
  BY <1>1, <1>2 DEF RingInv

(* Every step of producer, consumer and bus keeps the invariant. *)
LEMMA NextInv == RingInv /\ [Next]_vars => RingInv'
<1> SUFFICES ASSUME RingInv, [Next]_vars PROVE RingInv'
  OBVIOUS
<1>1. CASE UNCHANGED vars
  BY <1>1, StutterInv
<1>2. ASSUME NEW c \in Channels, Producer(c) PROVE RingInv'
  BY <1>2, StutterInv, EnqueueStartInv, EnqueueCopyInv, EnqueueFenceInv, EnqueueWrapInv,
     EnqueueWrapFenceInv, EnqueueStoreLPInv, EnqueueStoreRPInv DEF Producer, EnqueueFull
<1>3. ASSUME NEW c \in Channels, Consumer(c) PROVE RingInv'
  BY <1>3, StutterInv, DequeueStartInv, DequeueCopyInv, DequeueWrapInv,
     DequeueStoreLCInv, DequeueStoreRCInv DEF Consumer, DequeueEmpty
<1>4. ASSUME NEW c \in Channels, Bus(c) PROVE RingInv'
  BY <1>4, DeliverWordInv, DeliverRPInv, DeliverRCInv DEF Bus
<1> QED
  BY <1>1, <1>2, <1>3, <1>4 DEF Next

(* RingInv holds in every reachable state of the ring. *)
THEOREM RingInvariant == Spec => []RingInv
<1>1. Init => RingInv
  BY InitInv
<1>2. RingInv /\ [Next]_vars => RingInv'
  BY NextInv
<1> QED
  BY <1>1, <1>2, PTL DEF Spec

(* Every index stays within its channel and every variable in its type.    *)
THEOREM TypeCorrect == Spec => []TypeOK
<1>1. RingInv => TypeOK
  BY DEF RingInv
<1> QED
  BY <1>1, RingInvariant, PTL

(* No store of s_variable_multi_enqueue hits a slot of another channel or  *)
(* one whose word s_variable_multi_dequeue has yet to take.                *)
THEOREM NeverOverwrites == Spec => []NoOverwrite
<1>1. RingInv => NoOverwrite
  <2> SUFFICES ASSUME RingInv, NEW c \in Channels, NEW s \in pend[c]
               PROVE  /\ LowerBound(c) <= s[1] /\ s[1] < UpperBound(c)
                      /\ \A j \in 0..(sent[c] - rcvd[c] - 1) : s[1] # Slot(c, LC[c], j)
    BY DEF NoOverwrite
  <2> USE DEF RingInv
  <2>1. ppc[c] \in {"fence", "wrapfence"}
    BY DEF ChannelInv, PendInv
  <2>2. PICK i \in 0..(preq[c] - 1) : s = <<Slot(c, LP[c], i), <<c, sent[c] + i>>>>
    BY DEF ChannelInv, PendInv
  <2>3. /\ preq[c] \in 0..(MaxItems - 1) /\ Gap(LP[c], LC[c]) + preq[c] < MaxItems
        /\ Gap(LP[c], LC[c]) = sent[c] - rcvd[c]
        /\ \A j \in 0..(MaxItems - 1) : Slot(c, LP[c], j) \in LowerBound(c)..(UpperBound(c) - 1)
    BY <2>1, ProducerFacts
  <2>4. /\ sent[c] \in Nat /\ rcvd[c] \in Nat /\ MaxItems \in Nat
        /\ LP[c] \in Indices(c) /\ LC[c] \in Indices(c)
        /\ LowerBound(c) \in Nat /\ UpperBound(c) \in Nat
    BY ChannelTypes, BoundFacts
  <2>5. s[1] \in LowerBound(c)..(UpperBound(c) - 1)
    BY <2>2, <2>3, <2>4
  <2>6. ASSUME NEW j \in 0..(sent[c] - rcvd[c] - 1)  PROVE s[1] # Slot(c, LC[c], j)
    <3>1. /\ j \in 0..(MaxItems - 1) /\ Gap(LP[c], LC[c]) + i \in 0..(MaxItems - 1)
          /\ j # Gap(LP[c], LC[c]) + i /\ i \in Nat
      BY <2>3, <2>4
    <3>2. Slot(c, LP[c], i) = Slot(c, LC[c], Gap(LP[c], LC[c]) + i)
      BY <2>4, <3>1, GapFacts
    <3>3. \A k, l \in 0..(MaxItems - 1) : k # l => Slot(c, LC[c], k) # Slot(c, LC[c], l)
      BY <2>3, <2>4, SlotFacts
    <3> QED
      BY <2>2, <3>1, <3>2, <3>3
  <2> QED
    BY <2>4, <2>5, <2>6
<1> QED
  BY <1>1, RingInvariant, PTL

(* What s_variable_multi_dequeue copies out is the next run of words.      *)
THEOREM CopiesCorrect == Spec => []CopiesInOrder
<1>1. RingInv => CopiesInOrder
  BY DEF RingInv, ChannelInv, BufInv, CopiesInOrder
<1> QED
  BY <1>1, RingInvariant, PTL

-----------------------------------------------------------------------------
(* Every step is a step of the FIFO or leaves it alone. *)
LEMMA StepRefines == RingInv /\ [Next]_vars => [Fifo!FifoNext]_(Fifo!fifoVars)
<1> SUFFICES ASSUME RingInv, [Next]_vars
             PROVE  Fifo!FifoNext \/ UNCHANGED <<sent, rcvd, delivered>>
  BY DEF Fifo!fifoVars
<1> USE DEF RingInv
<1>1. CASE UNCHANGED vars
  BY <1>1 DEF vars, prodVars, consVars
<1>2. ASSUME NEW c \in Channels, EnqueueStoreLP(c)
      PROVE  Fifo!FifoNext
  <2>1. /\ ppc[c] = "lp" /\ sent' = [sent EXCEPT ![c] = @ + preq[c]]
        /\ UNCHANGED <<rcvd, delivered>>
    BY <1>2 DEF EnqueueStoreLP, consVars
  <2>2. preq[c] \in Bursts
    BY <2>1 DEF ChannelInv, CallInv
  <2>3. sent[c] + preq[c] - rcvd[c] < MaxItems
    <3>1. /\ Gap(LP[c], LC[c]) + preq[c] < MaxItems /\ Gap(LP[c], LC[c]) = sent[c] - rcvd[c]
          /\ preq[c] \in 0..(MaxItems - 1)
      BY <2>1, ProducerFacts
    <3>2. sent[c] \in Nat /\ rcvd[c] \in Nat /\ MaxItems \in Nat
      BY ChannelTypes
    <3> QED
      BY <3>1, <3>2
  <2>4. Fifo!FifoEnqueue(c, preq[c])
    BY <2>1, <2>3 DEF Fifo!FifoEnqueue
  <2> QED
    BY <2>2, <2>4 DEF Fifo!FifoNext
<1>3. ASSUME NEW c \in Channels, DequeueStoreLC(c)
      PROVE  Fifo!FifoNext
  <2>1. /\ cpc[c] = "lc" /\ rcvd' = [rcvd EXCEPT ![c] = @ + creq[c]]
        /\ delivered' = [delivered EXCEPT ![c] = buf[c]] /\ UNCHANGED sent
    BY <1>3 DEF DequeueStoreLC, prodVars
  <2>2. creq[c] \in Bursts /\ buf[c] = Fifo!Run(c, rcvd[c], creq[c])
    BY <2>1 DEF ChannelInv, CallInv, BufInv
  <2>3. rcvd[c] + creq[c] <= sent[c]
    <3>1. creq[c] <= sent[c] - rcvd[c] /\ creq[c] \in 0..(MaxItems - 1)
      BY <2>1, ConsumerFacts
    <3>2. sent[c] \in Nat /\ rcvd[c] \in Nat
      BY ChannelTypes
    <3> QED
      BY <3>1, <3>2
  <2>4. Fifo!FifoDequeue(c, creq[c])
    BY <2>1, <2>2, <2>3 DEF Fifo!FifoDequeue
  <2> QED
    BY <2>2, <2>4 DEF Fifo!FifoNext
<1>4. ASSUME NEW c \in Channels, Producer(c)
      PROVE  Fifo!FifoNext \/ UNCHANGED <<sent, rcvd, delivered>>
  BY <1>4, <1>2 DEF Producer, EnqueueFull, EnqueueStart, EnqueueCopy, EnqueueFence, EnqueueWrap,
     EnqueueWrapFence, EnqueueStoreRP, vars, prodVars, consVars
<1>5. ASSUME NEW c \in Channels, Consumer(c)
      PROVE  Fifo!FifoNext \/ UNCHANGED <<sent, rcvd, delivered>>
  BY <1>5, <1>3 DEF Consumer, DequeueEmpty, DequeueStart, DequeueCopy, DequeueWrap,
     DequeueStoreRC, vars, prodVars, consVars
<1>6. ASSUME NEW c \in Channels, Bus(c)
      PROVE  UNCHANGED <<sent, rcvd, delivered>>
  BY <1>6 DEF Bus, DeliverWord, DeliverRP, DeliverRC, prodVars, consVars
<1> QED
  BY <1>1, <1>4, <1>5, <1>6 DEF Next

(* The ring with its indices, fences and delayed stores implements the     *)
(* bounded FIFO of FifoChannels.                                           *)
THEOREM RefinesFifo == Spec => ImplementsFifo
<1>1. Init => Fifo!FifoInit
  BY DEF Init
<1>2. RingInv /\ [Next]_vars => [Fifo!FifoNext]_(Fifo!fifoVars)
  BY StepRefines
<1> QED
  BY <1>1, <1>2, RingInvariant, PTL DEF Spec, ImplementsFifo, Fifo!FifoSpec
=============================================================================
