---------------------------- MODULE PlxDma_proof ----------------------------
(***************************************************************************)
(* Proofs about PlxDma, for any ring, cookies, submitters and transfers:   *)
(* completions are reaped once each and in order, after the data has moved, *)
(* a waiter is not told too early, and the interrupt thread does not go to *)
(* rest before its work is done.                                           *)
(***************************************************************************)
EXTENDS PlxDma, FiniteSetTheorems, SequenceTheorems, TLAPS

(***************************************************************************)
(* Descriptors are counted from the first one ever programmed; slot p mod  *)
(* RingSize is that of descriptor p.  The invariant speaks of n transfers  *)
(* prepared, transfer t beginning at descriptor B[t], and of the           *)
(* descriptors                                                             *)
(*    T  last_tail,                R  where the reaper is,                 *)
(*    C  where it will stop,       V  the first one valid in memory,       *)
(*    N  the engine's next,        P  the end of the valid ones,           *)
(*    H  ch->head,                 Q  the end of the programmed ones.      *)
(***************************************************************************)
Span(a, b) == {p % RingSize : p \in a..(b - 1)}

(* The cookie of transfer t; that of 0 is the channel's first. *)
CookieOf(t) == ((StartCookie - 1 + t) % CookieMax) + 1

Preparing  == {"reap_full", "full", "program", "valid", "head"}
Submitted  == {"issue", "wait", "poll", "reap_wait"}
Cleaning   == {"reap_full", "reap_wait", "reap_first", "reap_second"}
IrqPlaces  == {"idle", "reap_first", "ack", "ack_error", "ack_done", "reap_second"}

Kinds ==
    /\ pc \in [Actors -> {"idle"} \cup Preparing \cup Submitted \cup IrqPlaces]
    /\ \A s \in Submitters : pc[s] \notin IrqPlaces \ {"idle"}
    /\ pc[Irq] \in IrqPlaces
    /\ job \in [Submitters -> [transfer : Nat, left : Nat, cookie : Nat, used : Nat]]
    /\ tx \in [Slots -> [cookie : Nat, transfer : Nat]]
    /\ desc \in [Slots -> Nat] /\ moved \in [Transfers -> Nat] /\ size \in [Transfers -> Nat]
    /\ cookie \in [used : Nat, completed : Nat]
    /\ hw \in [next : Slots, last : Slots, running : BOOLEAN]
    /\ reap \in [by : Actors \cup {Nobody}, at : Slots, cached : Slots, flushed : BOOLEAN,
                 hwLast : Slots]
    /\ writes \in Seq(Slots) /\ ran \in Seq(Nat) /\ status \subseteq {"done", "error"}

Locks ==
    /\ prepLock \in Submitters \cup {Nobody}
    /\ \A s \in Submitters : pc[s] \in Preparing <=> prepLock = s
    /\ reap.by # Nobody => pc[reap.by] \in Cleaning

Counted(n, B) ==
    /\ n \in 0..MaxTransfers /\ \A t \in Transfers : size[t] # 0 <=> t <= n
    /\ B \in [Nat -> Nat] /\ B[1] = 0 /\ \A t \in 1..n : B[t + 1] = B[t] + size[t]
    /\ \A i, j \in 1..(n + 1) : i <= j => B[j] - B[i] >= j - i

Placed(T, R, C, N, V, P, H, Q) ==
    /\ {T, R, C, N, V, P, H, Q} \subseteq Nat
    /\ T <= R /\ R <= V /\ V <= N /\ N <= P /\ P <= Q /\ Q - T < RingSize /\ R <= H
    /\ tail = T % RingSize /\ head = H % RingSize /\ hw.next = N % RingSize
    /\ reap.by = Nobody => R = T
    /\ reap.by # Nobody => /\ reap.at = R % RingSize /\ reap.cached = C % RingSize
                           /\ R <= C /\ C <= H

(* What is programmed and what is valid, by the stage of the submitter. *)
Stages(n, B, T, P, H, Q) ==
    /\ \A s \in Submitters :
          /\ pc[s] \in {"reap_full", "full", "program"} => n < MaxTransfers
          /\ pc[s] \in {"reap_full", "full"} => job[s].left = Size[s]
          /\ pc[s] = "program" => /\ job[s].left \in 1..Size[s]
                                  /\ Q = B[n + 1] + Size[s] - job[s].left
                                  /\ Q + job[s].left - T < RingSize
          /\ pc[s] = "valid" => P = H /\ Q = H + 1
          /\ pc[s] = "head" => P = H + 1 /\ Q = H + 1
    /\ (\A s \in Submitters : pc[s] # "program") => Q = B[n + 1]
    /\ (\A s \in Submitters : pc[s] \notin {"valid", "head"}) => P = H /\ Q = H

(* Valid are the descriptors from V to P; those the engine has done are on *)
(* their way to memory.                                                    *)
Validity(V, N, P) ==
    /\ valid = Span(V, P)
    /\ N = V + Len(writes) /\ \A i \in 1..Len(writes) : writes[i] = (V + i - 1) % RingSize

(* The last descriptor of every transfer not reaped has its tx, and no     *)
(* other has.                                                              *)
Txs(n, B, R) ==
    /\ \A t \in 1..n : R < B[t + 1] =>
          tx[(B[t + 1] - 1) % RingSize] = [cookie |-> CookieOf(t), transfer |-> t]
    /\ \A i \in Slots : tx[i] = NoTx \/ \E t \in 1..n : R < B[t + 1] /\ i = (B[t + 1] - 1) % RingSize

Descs(n, B, N, Q) ==
    \A p \in N..(Q - 1) : \E t \in 1..(n + 1) :
        desc[p % RingSize] = t /\ B[t] <= p /\ (t <= n => p < B[t + 1])

(* What is moved of a transfer, whole, under way or not yet begun. *)
MovedOf(n, B, N, t) ==
    /\ t <= n /\ B[t + 1] <= N => moved[t] = size[t]
    /\ t <= n + 1 /\ B[t] <= N /\ (t <= n => N < B[t + 1]) => moved[t] = N - B[t]
    /\ t > n + 1 \/ N < B[t] => moved[t] = 0
Moves(n, B, N) == \A t \in Transfers : MovedOf(n, B, N, t)

Reaps(n, B, R) ==
    /\ Len(ran) <= n /\ \A i \in 1..Len(ran) : ran[i] = i
    /\ \A t \in 1..n : B[t + 1] <= R <=> t <= Len(ran)

Cookies(n) ==
    /\ cookie.used = CookieOf(n) /\ cookie.completed = CookieOf(Len(ran))
    /\ \A s \in Submitters :
          /\ pc[s] \in {"valid", "head"} \cup Submitted =>
                job[s].transfer \in 1..n /\ job[s].cookie = CookieOf(job[s].transfer)
          /\ pc[s] = "poll" => \E u \in job[s].transfer..n : job[s].used = CookieOf(u)

(* The interrupt thread.  Where it has to answer for what was moved:       *)
(* nothing moved since has newly set the status bit.                       *)
Quiet == ~msi /\ ~hang
Interrupted(n, B, R, C, V, N) ==
    /\ msi /\ ~hang => status # {}
    /\ pc[Irq] # "idle" => ~hang
    /\ pc[Irq] \in {"reap_first", "ack"} => status # {}
    /\ pc[Irq] = "ack_done" => "done" \in status
    /\ pc[Irq] \in {"reap_first", "ack", "ack_done"} /\ msi => "error" \in status
    /\ "done" \in status /\ Quiet => pc[Irq] \in {"reap_first", "ack", "ack_done", "ack_error"}
    /\ Quiet /\ pc[Irq] = "idle" => \A t \in 1..(n - 1) : B[t + 2] <= N => B[t + 1] <= R
    /\ Quiet /\ pc[Irq] = "reap_second" /\ reap.by = Irq =>
          /\ \A t \in 1..(n - 1) : B[t + 2] <= N => B[t + 1] <= C
          /\ reap.flushed /\ V <= R => \A t \in 1..n : B[t + 1] <= N => B[t + 1] <= R

Shape(n, B, T, R, C, N, V, P, H, Q) ==
    /\ Counted(n, B) /\ Placed(T, R, C, N, V, P, H, Q) /\ Stages(n, B, T, P, H, Q)
    /\ Validity(V, N, P) /\ Txs(n, B, R) /\ Descs(n, B, N, Q) /\ Moves(n, B, N)
    /\ Reaps(n, B, R) /\ Cookies(n) /\ Interrupted(n, B, R, C, V, N)

DmaInv ==
    /\ Kinds /\ Locks
    /\ \E n, T, R, C, N, V, P, H, Q \in Nat, B \in [Nat -> Nat] : Shape(n, B, T, R, C, N, V, P, H, Q)
-----------------------------------------------------------------------------
(* Arithmetic of the ring. *)

LEMMA Remainder ==
    ASSUME NEW M \in Nat \ {0}, NEW a \in Nat
    PROVE  /\ a % M \in 0..(M - 1) /\ a \div M \in Nat
           /\ a = (a \div M) * M + (a % M)
<1> QED  BY Z3

LEMMA RemainderIs ==
    ASSUME NEW M \in Nat \ {0}, NEW q \in Nat, NEW r \in 0..(M - 1)
    PROVE  (q * M + r) % M = r
<1>1. q * M \in Nat
  BY Z3
<1>2. q * M + r \in Nat
  BY <1>1
<1> DEFINE x == q * M + r
           p == x \div M
           o == x % M
<1>3. p \in Nat /\ o \in 0..(M - 1) /\ x = p * M + o
  BY <1>2, Remainder
<1> HIDE DEF p, o
<1>4. CASE p = q
  BY <1>3, <1>4, <1>1 DEF o
<1>5. CASE p < q
  <2> DEFINE d == q - p - 1
  <2>1. d \in Nat /\ q = p + 1 + d
    BY <1>3, <1>5
  <2> HIDE DEF d
  <2>2. q * M = p * M + M + d * M /\ d * M \in Nat /\ p * M \in Nat
    BY <2>1, <1>3, Z3
  <2> QED  BY <2>2, <1>3
<1>6. CASE q < p
  <2> DEFINE d == p - q - 1
  <2>1. d \in Nat /\ p = q + 1 + d
    BY <1>3, <1>6
  <2> HIDE DEF d
  <2>2. p * M = q * M + M + d * M /\ d * M \in Nat
    BY <2>1, <1>3, Z3
  <2> QED  BY <2>2, <1>3, <1>1
<1> QED  BY <1>3, <1>4, <1>5, <1>6

(* Going on by less than a round. *)
LEMMA RemainderPlus ==
    ASSUME NEW M \in Nat \ {0}, NEW a \in Nat, NEW d \in 0..(M - 1)
    PROVE  (a + d) % M = IF (a % M) + d < M THEN (a % M) + d ELSE (a % M) + d - M
<1> DEFINE q == a \div M
           r == a % M
<1>1. q \in Nat /\ r \in 0..(M - 1) /\ a = q * M + r
  BY Remainder
<1> HIDE DEF q, r
<1>2. q * M \in Nat
  BY <1>1, Z3
<1>3. CASE r + d < M
  <2>1. (q * M + (r + d)) % M = r + d
    BY <1>1, <1>3, RemainderIs
  <2>2. q * M + (r + d) = a + d
    BY <1>1, <1>2
  <2> QED  BY <2>1, <2>2, <1>3 DEF r
<1>4. CASE ~(r + d < M)
  <2>1. r + d - M \in 0..(M - 1) /\ q + 1 \in Nat
    BY <1>1, <1>4
  <2>2. ((q + 1) * M + (r + d - M)) % M = r + d - M
    BY <2>1, RemainderIs
  <2>3. (q + 1) * M = q * M + M
    BY <1>1, Z3
  <2>4. (q + 1) * M + (r + d - M) = a + d
    BY <2>3, <1>1, <1>2
  <2> QED  BY <2>2, <2>4, <1>4 DEF r
<1> QED  BY <1>3, <1>4

LEMMA SlotOf ==
    ASSUME NEW p \in Nat
    PROVE  p % RingSize \in Slots /\ RingInc(p % RingSize) = (p + 1) % RingSize
<1>1. RingSize \in Nat \ {0} /\ 1 \in 0..(RingSize - 1)
  BY DmaAssumption
<1>2. p % RingSize \in 0..(RingSize - 1)
  BY <1>1, Remainder
<1>3. (p + 1) % RingSize = IF (p % RingSize) + 1 < RingSize THEN (p % RingSize) + 1
                           ELSE (p % RingSize) + 1 - RingSize
  BY <1>1, RemainderPlus
<1> DEFINE r == p % RingSize
<1>4. r \in Nat /\ r + 1 \in Nat
  BY <1>2, <1>1
<1>5. (r + 1) % RingSize = IF r + 1 < RingSize THEN r + 1 ELSE r + 1 - RingSize
  <2>1. (r + 1) % RingSize = IF (r % RingSize) + 1 < RingSize THEN (r % RingSize) + 1
                             ELSE (r % RingSize) + 1 - RingSize
    BY <1>1, <1>4, RemainderPlus
  <2>2. (0 * RingSize + r) % RingSize = r
    BY <1>1, <1>2, RemainderIs
  <2>3. 0 * RingSize + r = r
    BY <1>1, <1>2
  <2> QED  BY <2>1, <2>2, <2>3
<1> QED  BY <1>2, <1>3, <1>5 DEF Slots, RingInc

(* Less than a round apart, slots are different. *)
LEMMA SameSlot ==
    ASSUME NEW a \in Nat, NEW b \in Nat, a % RingSize = b % RingSize,
           a - b < RingSize, b - a < RingSize
    PROVE  a = b
<1>1. RingSize \in Nat \ {0}
  BY DmaAssumption
<1>2. ASSUME NEW x \in Nat, NEW y \in Nat, x <= y, y - x < RingSize, x % RingSize = y % RingSize
      PROVE  x = y
  <2>1. y - x \in 0..(RingSize - 1) /\ x + (y - x) = y
    BY <1>1, <1>2
  <2>2. x % RingSize \in 0..(RingSize - 1)
    BY <1>1, Remainder
  <2>3. (x + (y - x)) % RingSize =
            IF (x % RingSize) + (y - x) < RingSize THEN (x % RingSize) + (y - x)
            ELSE (x % RingSize) + (y - x) - RingSize
    BY <1>1, <2>1, RemainderPlus
  <2> QED  BY <1>1, <1>2, <2>1, <2>2, <2>3
<1> QED  BY <1>2

(* plx_dma_ring_count is what is left of the ring but for one slot. *)
LEMMA RoomLeft ==
    ASSUME NEW T \in Nat, NEW H \in Nat, T <= H, H - T < RingSize
    PROVE  RingCount(H % RingSize, T % RingSize) = RingSize - 1 - (H - T)
<1>1. RingSize \in Nat \ {0} /\ H - T \in 0..(RingSize - 1) /\ T + (H - T) = H
  BY DmaAssumption
<1>2. T % RingSize \in 0..(RingSize - 1)
  BY <1>1, Remainder
<1>3. (T + (H - T)) % RingSize =
          IF (T % RingSize) + (H - T) < RingSize THEN (T % RingSize) + (H - T)
          ELSE (T % RingSize) + (H - T) - RingSize
  BY <1>1, RemainderPlus
<1> QED  BY <1>1, <1>2, <1>3 DEF RingCount

(* Spans of slots less than a round long. *)
LEMMA InSpan ==
    ASSUME NEW a \in Nat, NEW b \in Nat, NEW p \in Nat, NEW lo \in Nat,
           lo <= a, b - lo <= RingSize, lo <= p, p - lo < RingSize
    PROVE  p % RingSize \in Span(a, b) <=> a <= p /\ p < b
<1>1. RingSize \in Nat
  BY DmaAssumption
<1>2. ASSUME p % RingSize \in Span(a, b)
      PROVE  a <= p /\ p < b
  <2>1. PICK q \in a..(b - 1) : p % RingSize = q % RingSize
    BY <1>2 DEF Span
  <2>2. q \in Nat /\ q - p < RingSize /\ p - q < RingSize
    BY <2>1, <1>1
  <2>3. p = q
    BY <2>1, <2>2, SameSlot
  <2> QED  BY <2>1, <2>3
<1>3. ASSUME a <= p, p < b
      PROVE  p % RingSize \in Span(a, b)
  <2>1. p \in a..(b - 1)
    BY <1>3
  <2> QED  BY <2>1 DEF Span
<1> QED  BY <1>2, <1>3

LEMMA SpanLonger ==
    ASSUME NEW a \in Nat, NEW b \in Nat, a <= b
    PROVE  Span(a, b + 1) = Span(a, b) \cup {b % RingSize}
<1>1. a..(b + 1 - 1) = (a..(b - 1)) \cup {b}
  OBVIOUS
<1> QED  BY <1>1 DEF Span

LEMMA SpanRest ==
    ASSUME NEW a \in Nat, NEW b \in Nat, NEW c \in Nat, a <= c, c <= b, b - a <= RingSize
    PROVE  Span(a, b) \ Span(a, c) = Span(c, b)
<1>1. RingSize \in Nat
  BY DmaAssumption
<1>2. ASSUME NEW x \in Span(a, b) \ Span(a, c)
      PROVE  x \in Span(c, b)
  <2>1. PICK p \in a..(b - 1) : x = p % RingSize
    BY <1>2 DEF Span
  <2>2. p \in Nat /\ ~(a <= p /\ p < c)
    <3>1. a <= p /\ p - a < RingSize /\ p \in Nat /\ c - a <= RingSize
      BY <2>1, <1>1
    <3> QED  BY <3>1, <2>1, <1>2, InSpan
  <2>3. p \in c..(b - 1)
    BY <2>1, <2>2
  <2> QED  BY <2>1, <2>3 DEF Span
<1>3. ASSUME NEW x \in Span(c, b)
      PROVE  x \in Span(a, b) \ Span(a, c)
  <2>1. PICK p \in c..(b - 1) : x = p % RingSize
    BY <1>3 DEF Span
  <2>2. p \in a..(b - 1) /\ p \in Nat /\ p - a < RingSize /\ c - a <= RingSize /\ ~(p < c)
    BY <2>1, <1>1
  <2>3. x \in Span(a, b)
    BY <2>1, <2>2 DEF Span
  <2>4. p % RingSize \notin Span(a, c)
    BY <2>2, InSpan
  <2> QED  BY <2>1, <2>3, <2>4
<1> QED  BY <1>2, <1>3

-----------------------------------------------------------------------------
(* Numbers of transfers, and cookies. *)

LEMMA CountIs ==
    ASSUME NEW n, NEW B, Counted(n, B)
    PROVE  Count = n
<1>1. n \in 0..MaxTransfers /\ MaxTransfers \in Nat
  BY DmaAssumption DEF Counted
<1>2. {t \in Transfers : size[t] # 0} = 1..n
  BY <1>1 DEF Counted, Transfers
<1>3. Cardinality(1..n) = IF 1 > n THEN 0 ELSE n - 1 + 1
  BY <1>1, FS_Interval
<1>4. Cardinality(1..n) = n
  BY <1>1, <1>3
<1> QED  BY <1>2, <1>4 DEF Count

LEMMA CookieNext ==
    ASSUME NEW n \in Nat
    PROVE  /\ CookieOf(n) \in 1..CookieMax
           /\ CookieOf(n + 1) = IF CookieOf(n) = CookieMax THEN 1 ELSE CookieOf(n) + 1
<1>1. /\ CookieMax \in Nat \ {0} /\ 1 \in 0..(CookieMax - 1)
      /\ StartCookie \in Nat /\ StartCookie >= 1
  BY DmaAssumption
<1> DEFINE a == StartCookie - 1 + n
<1>2. a \in Nat /\ StartCookie - 1 + (n + 1) = a + 1
  BY <1>1
<1>3. a % CookieMax \in 0..(CookieMax - 1)
  BY <1>1, <1>2, Remainder
<1>4. (a + 1) % CookieMax = IF (a % CookieMax) + 1 < CookieMax THEN (a % CookieMax) + 1
                            ELSE (a % CookieMax) + 1 - CookieMax
  BY <1>1, <1>2, RemainderPlus
<1> QED  BY <1>1, <1>2, <1>3, <1>4 DEF CookieOf

LEMMA CookiePlus ==
    ASSUME NEW m \in Nat, NEW d \in 0..(CookieMax - 1)
    PROVE  CookieOf(m + d) = IF CookieOf(m) + d <= CookieMax THEN CookieOf(m) + d
                             ELSE CookieOf(m) + d - CookieMax
<1>1. /\ CookieMax \in Nat \ {0} /\ StartCookie \in Nat /\ StartCookie >= 1
  BY DmaAssumption
<1> DEFINE a == StartCookie - 1 + m
<1>2. a \in Nat /\ StartCookie - 1 + (m + d) = a + d
  BY <1>1
<1>3. a % CookieMax \in 0..(CookieMax - 1)
  BY <1>1, <1>2, Remainder
<1>4. (a + d) % CookieMax = IF (a % CookieMax) + d < CookieMax THEN (a % CookieMax) + d
                            ELSE (a % CookieMax) + d - CookieMax
  BY <1>1, <1>2, RemainderPlus
<1> QED  BY <1>1, <1>2, <1>3, <1>4 DEF CookieOf

(***************************************************************************)
(* dma_async_is_complete, with cookies that wrap around: a transfer later  *)
(* than the last one completed, and not later than the last one used when  *)
(* that was read, is not complete.                                         *)
(***************************************************************************)
LEMMA NotComplete ==
    ASSUME NEW m \in Nat, NEW t \in Nat, NEW u \in Nat, m < t, t <= u, u - m < CookieMax
    PROVE  ~IsComplete(CookieOf(t), CookieOf(u), CookieOf(m))
<1>1. CookieMax \in Nat /\ CookieOf(m) \in 1..CookieMax
  BY CookieNext, DmaAssumption
<1>2. t - m \in 0..(CookieMax - 1) /\ m + (t - m) = t
  BY <1>1
<1>3. u - m \in 0..(CookieMax - 1) /\ m + (u - m) = u
  BY <1>1
<1>4. CookieOf(m + (t - m)) = IF CookieOf(m) + (t - m) <= CookieMax THEN CookieOf(m) + (t - m)
                              ELSE CookieOf(m) + (t - m) - CookieMax
  BY <1>2, CookiePlus
<1>5. CookieOf(m + (u - m)) = IF CookieOf(m) + (u - m) <= CookieMax THEN CookieOf(m) + (u - m)
                              ELSE CookieOf(m) + (u - m) - CookieMax
  BY <1>3, CookiePlus
<1> QED  BY <1>1, <1>2, <1>3, <1>4, <1>5 DEF IsComplete

-----------------------------------------------------------------------------
LEMMA InitDma == ASSUME Init PROVE DmaInv
<1>1. /\ RingSize \in Nat \ {0, 1} /\ MaxTransfers \in Nat /\ StartCookie \in 1..CookieMax
      /\ CookieMax \in Nat
  BY DmaAssumption
<1>2. 0 % RingSize = 0 /\ 0 \in Slots
  <2>1. (0 * RingSize + 0) % RingSize = 0
    BY <1>1, RemainderIs
  <2> QED  BY <2>1, <1>1 DEF Slots
<1>3. CookieOf(0) = StartCookie
  <2>1. (0 * CookieMax + (StartCookie - 1)) % CookieMax = StartCookie - 1
    BY <1>1, RemainderIs
  <2>2. 0 * CookieMax + (StartCookie - 1) = StartCookie - 1 + 0
    BY <1>1
  <2> QED  BY <2>1, <2>2, <1>1 DEF CookieOf
<1>4. Kinds
  <2>1. writes \in Seq(Slots) /\ ran \in Seq(Nat) /\ status \subseteq {"done", "error"}
    BY DEF Init
  <2>2. /\ pc \in [Actors -> {"idle"} \cup Preparing \cup Submitted \cup IrqPlaces]
        /\ (\A s \in Submitters : pc[s] \notin IrqPlaces \ {"idle"}) /\ pc[Irq] \in IrqPlaces
    BY DEF Init, Actors, IrqPlaces
  <2>3. job \in [Submitters -> [transfer : Nat, left : Nat, cookie : Nat, used : Nat]]
    BY DEF Init, NoJob
  <2>4. tx \in [Slots -> [cookie : Nat, transfer : Nat]]
    BY DEF Init, NoTx
  <2>5. /\ desc \in [Slots -> Nat] /\ moved \in [Transfers -> Nat] /\ size \in [Transfers -> Nat]
        /\ cookie \in [used : Nat, completed : Nat]
    BY <1>1 DEF Init
  <2>6. hw \in [next : Slots, last : Slots, running : BOOLEAN]
    BY <1>2 DEF Init
  <2>7. reap \in [by : Actors \cup {Nobody}, at : Slots, cached : Slots, flushed : BOOLEAN,
                  hwLast : Slots]
    BY <1>2 DEF Init, NotReaping
  <2> QED  BY <2>1, <2>2, <2>3, <2>4, <2>5, <2>6, <2>7 DEF Kinds
<1>5. Locks
  BY DmaAssumption DEF Init, Locks, Preparing, Actors, NotReaping, Nobody
<1> DEFINE B == [t \in Nat |-> 0]
<1>6. Shape(0, B, 0, 0, 0, 0, 0, 0, 0, 0)
  <2>1. Counted(0, B)
    BY <1>1 DEF Counted, Init, Transfers
  <2>2. Placed(0, 0, 0, 0, 0, 0, 0, 0)
    BY <1>1, <1>2 DEF Placed, Init, NotReaping
  <2>3. Stages(0, B, 0, 0, 0, 0)
    BY DEF Stages, Init, Actors
  <2>4. Validity(0, 0, 0)
    BY DEF Validity, Init, Span
  <2>5. Txs(0, B, 0) /\ Descs(0, B, 0, 0)
    BY DEF Txs, Descs, Init
  <2>6. Moves(0, B, 0)
    BY <1>1 DEF Moves, MovedOf, Init, Transfers
  <2>7. Reaps(0, B, 0)
    BY DEF Reaps, Init
  <2>8. Cookies(0)
    BY <1>3 DEF Cookies, Init, Actors, Submitted
  <2>9. Interrupted(0, B, 0, 0, 0, 0)
    BY DEF Interrupted, Init, Actors, Quiet
  <2> QED  BY <2>1, <2>2, <2>3, <2>4, <2>5, <2>6, <2>7, <2>8, <2>9 DEF Shape
<1>7. B \in [Nat -> Nat] /\ 0 \in Nat
  OBVIOUS
<1> HIDE DEF B
<1> QED  BY <1>4, <1>5, <1>6, <1>7 DEF DmaInv

-----------------------------------------------------------------------------
(* Steps that leave the ring alone. *)

LEMMA SameRing ==
    ASSUME NEW n \in Nat, NEW B \in [Nat -> Nat], NEW T \in Nat, NEW R \in Nat, NEW C \in Nat,
           NEW N \in Nat, NEW V \in Nat, NEW P \in Nat, NEW H \in Nat, NEW Q \in Nat,
           Shape(n, B, T, R, C, N, V, P, H, Q),
           UNCHANGED <<head, tail, valid, tx, reap, writes, desc, moved, size, ran>>,
           hw'.next = hw.next,
           Kinds', Locks', Stages(n, B, T, P, H, Q)', Cookies(n)',
           Interrupted(n, B, R, C, V, N)'
    PROVE  DmaInv'
<1>1. Counted(n, B)'
  BY DEF Shape, Counted
<1>2. Placed(T, R, C, N, V, P, H, Q)'
  BY DEF Shape, Placed
<1>3. Validity(V, N, P)' /\ Txs(n, B, R)' /\ Descs(n, B, N, Q)'
  BY DEF Shape, Validity, Txs, Descs
<1>4. Moves(n, B, N)' /\ Reaps(n, B, R)'
  BY DEF Shape, Moves, MovedOf, Reaps
<1>5. Shape(n, B, T, R, C, N, V, P, H, Q)'
  BY <1>1, <1>2, <1>3, <1>4 DEF Shape
<1> QED  BY <1>5 DEF DmaInv

(* Nothing the interrupt thread answers for is touched. *)
LEMMA SameInterrupts ==
    ASSUME NEW n \in Nat, NEW B \in [Nat -> Nat], NEW R \in Nat, NEW C \in Nat,
           NEW V \in Nat, NEW N \in Nat,
           Interrupted(n, B, R, C, V, N),
           UNCHANGED <<reap, status, msi, hang>>, pc'[Irq] = pc[Irq]
    PROVE  Interrupted(n, B, R, C, V, N)'
<1> QED  BY DEF Interrupted, Quiet

(* A submitter moves on. *)
LEMMA SubmitterGoes ==
    ASSUME NEW s \in Submitters, NEW where \in {"idle"} \cup Preparing \cup Submitted,
           Kinds, Goto(s, where),
           UNCHANGED <<tx, desc, moved, size, cookie, reap, writes, ran, status>>,
           hw' \in [next : Slots, last : Slots, running : BOOLEAN],
           job' \in [Submitters -> [transfer : Nat, left : Nat, cookie : Nat, used : Nat]]
    PROVE  /\ Kinds'
           /\ pc'[s] = where /\ pc'[Irq] = pc[Irq] /\ \A a \in Actors : a # s => pc'[a] = pc[a]
<1>1. s \in Actors /\ Irq \in Actors /\ s # Irq /\ \A x \in Submitters : x \in Actors
  BY DmaAssumption DEF Actors, Irq
<1>2. /\ pc'[s] = where /\ pc'[Irq] = pc[Irq] /\ \A a \in Actors : a # s => pc'[a] = pc[a]
  BY <1>1 DEF Kinds, Goto
<1>3. pc' \in [Actors -> {"idle"} \cup Preparing \cup Submitted \cup IrqPlaces]
  BY <1>1 DEF Kinds, Goto
<1>4. where \notin IrqPlaces \ {"idle"}
  BY DEF IrqPlaces, Preparing, Submitted
<1>5. \A x \in Submitters : pc'[x] \notin IrqPlaces \ {"idle"}
  BY <1>1, <1>2, <1>4 DEF Kinds
<1> QED  BY <1>2, <1>3, <1>5 DEF Kinds

LEMMA PrepStep ==
    ASSUME NEW n \in Nat, NEW B \in [Nat -> Nat], NEW T \in Nat, NEW R \in Nat, NEW C \in Nat,
           NEW N \in Nat, NEW V \in Nat, NEW P \in Nat, NEW H \in Nat, NEW Q \in Nat,
           Kinds, Locks, Shape(n, B, T, R, C, N, V, P, H, Q),
           NEW s \in Submitters, Prep(s)
    PROVE  DmaInv'
<1>1. /\ Counted(n, B) /\ Placed(T, R, C, N, V, P, H, Q) /\ Stages(n, B, T, P, H, Q)
      /\ Cookies(n) /\ Interrupted(n, B, R, C, V, N)
  BY DEF Shape
<1>2. /\ pc[s] = "idle" /\ prepLock = Nobody /\ prepLock' = s
      /\ job' = [job EXCEPT ![s] = [NoJob EXCEPT !.left = Size[s]]]
      /\ UNCHANGED <<head, tail, tx, cookie, hang, valid, reap, writes, moved, status, msi,
                     desc, size, ran>>
  BY DEF Prep, swVars, intrVars, history
<1>3. n < MaxTransfers
  <2>1. Count = n
    BY <1>1, CountIs
  <2> QED  BY <2>1 DEF Prep
<1>4. Size[s] \in Nat \ {0}
  BY DmaAssumption
<1>5. /\ job'[s].left = Size[s] /\ \A x \in Submitters : x # s => job'[x] = job[x]
      /\ job' \in [Submitters -> [transfer : Nat, left : Nat, cookie : Nat, used : Nat]]
  BY <1>2, <1>4 DEF Kinds, NoJob
<1>6. /\ hw' \in [next : Slots, last : Slots, running : BOOLEAN] /\ hw'.next = hw.next
  BY DEF Prep, Kinds, Started
<1>7. PICK where \in {"program", "reap_full"} :
          Goto(s, where) /\ (where = "program" => RingCount(head, tail) >= Size[s])
  BY DEF Prep
<1>8. /\ Kinds' /\ pc'[s] = where /\ pc'[Irq] = pc[Irq]
      /\ \A a \in Actors : a # s => pc'[a] = pc[a]
  BY <1>2, <1>5, <1>6, <1>7, SubmitterGoes DEF Preparing
<1>9. \A x \in Submitters : x \in Actors /\ x # Nobody /\ pc[x] \notin Preparing
  BY <1>2, DmaAssumption DEF Locks, Actors, Nobody
<1>10. Locks'
  BY <1>2, <1>7, <1>8, <1>9 DEF Locks, Kinds, Preparing, Cleaning
<1>11. Stages(n, B, T, P, H, Q)'
  <2>1. P = H /\ Q = H /\ Q = B[n + 1]
    BY <1>1, <1>9 DEF Stages, Preparing
  <2>2. where = "program" => Q + Size[s] - T < RingSize
    <3>1. RingCount(head, tail) = RingSize - 1 - (H - T)
      BY <1>1, <2>1, RoomLeft DEF Placed
    <3> QED  BY <3>1, <2>1, <1>4, <1>7, DmaAssumption
  <2> QED  BY <1>3, <1>4, <1>5, <1>7, <1>8, <1>9, <2>1, <2>2 DEF Stages, Preparing
<1>12. Cookies(n)'
  BY <1>1, <1>2, <1>5, <1>7, <1>8, <1>9 DEF Cookies, Submitted
<1>13. Interrupted(n, B, R, C, V, N)'
  BY <1>1, <1>2, <1>8, SameInterrupts
<1> QED  BY <1>2, <1>6, <1>8, <1>10, <1>11, <1>12, <1>13, SameRing

LEMMA PrepAgainStep ==
    ASSUME NEW n \in Nat, NEW B \in [Nat -> Nat], NEW T \in Nat, NEW R \in Nat, NEW C \in Nat,
           NEW N \in Nat, NEW V \in Nat, NEW P \in Nat, NEW H \in Nat, NEW Q \in Nat,
           Kinds, Locks, Shape(n, B, T, R, C, N, V, P, H, Q),
           NEW s \in Submitters, PrepAgain(s)
    PROVE  DmaInv'
<1>1. /\ Counted(n, B) /\ Placed(T, R, C, N, V, P, H, Q) /\ Stages(n, B, T, P, H, Q)
      /\ Cookies(n) /\ Interrupted(n, B, R, C, V, N)
  BY DEF Shape
<1>2. /\ pc[s] = "full" /\ prepLock = s
      /\ UNCHANGED <<head, tail, tx, cookie, hang, valid, reap, hw, writes, moved, status, msi,
                     desc, size, ran>>
  BY DEF PrepAgain, swVars, hwVars, intrVars, history, Locks, Preparing
<1>3. n < MaxTransfers /\ job[s].left = Size[s] /\ Size[s] \in Nat \ {0}
  BY <1>1, <1>2, DmaAssumption DEF Stages
<1>4. PICK where \in {"program", "idle"} :
          /\ Goto(s, where) /\ prepLock' = IF where = "program" THEN s ELSE Nobody
          /\ job' = IF where = "program" THEN job ELSE [job EXCEPT ![s] = NoJob]
          /\ where = "program" => RingCount(head, tail) >= Size[s]
  BY <1>2, <1>3 DEF PrepAgain
<1>5. /\ \A x \in Submitters : x # s => job'[x] = job[x]
      /\ where = "program" => job'[s].left = Size[s]
      /\ job' \in [Submitters -> [transfer : Nat, left : Nat, cookie : Nat, used : Nat]]
  BY <1>3, <1>4 DEF Kinds, NoJob
<1>6. /\ Kinds' /\ pc'[s] = where /\ pc'[Irq] = pc[Irq]
      /\ \A a \in Actors : a # s => pc'[a] = pc[a]
  <2>1. hw' \in [next : Slots, last : Slots, running : BOOLEAN]
    BY <1>2 DEF Kinds
  <2> QED  BY <2>1, <1>2, <1>4, <1>5, SubmitterGoes DEF Preparing
<1>7. \A x \in Submitters : x \in Actors /\ x # Nobody /\ (x # s => pc[x] \notin Preparing)
  BY <1>2, DmaAssumption DEF Locks, Actors, Nobody
<1>8. Locks'
  BY <1>2, <1>4, <1>6, <1>7 DEF Locks, Kinds, Preparing, Cleaning
<1>9. Stages(n, B, T, P, H, Q)'
  <2>1. P = H /\ Q = H /\ Q = B[n + 1]
    BY <1>1, <1>2, <1>7 DEF Stages, Preparing
  <2>2. where = "program" => Q + Size[s] - T < RingSize
    <3>1. RingCount(head, tail) = RingSize - 1 - (H - T)
      BY <1>1, <2>1, RoomLeft DEF Placed
    <3> QED  BY <3>1, <2>1, <1>3, <1>4, DmaAssumption
  <2> QED  BY <1>3, <1>4, <1>5, <1>6, <1>7, <2>1, <2>2 DEF Stages, Preparing
<1>10. Cookies(n)'
  BY <1>1, <1>2, <1>4, <1>5, <1>6, <1>7 DEF Cookies, Submitted
<1>11. Interrupted(n, B, R, C, V, N)'
  BY <1>1, <1>2, <1>6, SameInterrupts
<1>12. hw'.next = hw.next
  BY <1>2
<1> QED  BY <1>2, <1>6, <1>8, <1>9, <1>10, <1>11, <1>12, SameRing

(* Steps of a submitter that has submitted. *)
LEMMA WaiterStep ==
    ASSUME NEW n \in Nat, NEW B \in [Nat -> Nat], NEW T \in Nat, NEW R \in Nat, NEW C \in Nat,
           NEW N \in Nat, NEW V \in Nat, NEW P \in Nat, NEW H \in Nat, NEW Q \in Nat,
           Kinds, Locks, Shape(n, B, T, R, C, N, V, P, H, Q),
           NEW s \in Submitters, NEW where \in {"idle"} \cup Submitted,
           pc[s] \in {"issue", "wait", "poll"}, Goto(s, where),
           UNCHANGED <<head, tail, tx, cookie, hang, valid, prepLock, reap, writes, moved,
                       status, msi, desc, size, ran>>,
           hw' \in [next : Slots, last : Slots, running : BOOLEAN], hw'.next = hw.next,
           job' \in [Submitters -> [transfer : Nat, left : Nat, cookie : Nat, used : Nat]],
           \A x \in Submitters : x # s => job'[x] = job[x],
           where # "idle" => /\ job'[s].transfer = job[s].transfer
                             /\ job'[s].cookie = job[s].cookie,
           where = "poll" => job'[s].used = cookie.used
    PROVE  DmaInv'
<1>1. /\ Counted(n, B) /\ Placed(T, R, C, N, V, P, H, Q) /\ Stages(n, B, T, P, H, Q)
      /\ Cookies(n) /\ Interrupted(n, B, R, C, V, N)
  BY DEF Shape
<1>2. /\ Kinds' /\ pc'[s] = where /\ pc'[Irq] = pc[Irq]
      /\ \A a \in Actors : a # s => pc'[a] = pc[a]
  BY SubmitterGoes
<1>3. \A x \in Submitters : x \in Actors /\ x # Nobody
  BY DmaAssumption DEF Actors, Nobody
<1>4. Locks'
  BY <1>2, <1>3 DEF Locks, Kinds, Preparing, Submitted, Cleaning
<1>5. Stages(n, B, T, P, H, Q)'
  <2>1. \A x \in Submitters : pc'[x] \in Preparing <=> pc[x] \in Preparing
    BY <1>2, <1>3 DEF Preparing, Submitted
  <2>2. \A x \in Submitters : pc[x] \in Preparing => pc'[x] = pc[x] /\ job'[x] = job[x]
    BY <1>2, <1>3 DEF Preparing
  <2>3. \A x \in Submitters : pc'[x] \in Preparing => pc'[x] = pc[x] /\ job'[x] = job[x]
    BY <2>1, <2>2
  <2> HIDE <1>2
  <2> QED  BY <1>1, <2>2, <2>3 DEF Stages, Preparing
<1>6. Cookies(n)'
  <2>1. pc'[s] # "idle" => /\ job'[s].transfer \in 1..n
                           /\ job'[s].cookie = CookieOf(job'[s].transfer)
    BY <1>1, <1>2 DEF Cookies, Submitted
  <2>2. pc'[s] = "poll" => \E u \in job'[s].transfer..n : job'[s].used = CookieOf(u)
    <3>1. pc'[s] = "poll" => n \in job'[s].transfer..n /\ job'[s].used = CookieOf(n)
      BY <1>1, <1>2, <2>1 DEF Cookies
    <3> QED  BY <3>1
  <2>3. pc'[s] \notin {"valid", "head"}
    BY <1>2 DEF Submitted
  <2>4. ASSUME NEW x \in Submitters, x # s
        PROVE  /\ pc'[x] \in {"valid", "head"} \cup Submitted =>
                    job'[x].transfer \in 1..n /\ job'[x].cookie = CookieOf(job'[x].transfer)
               /\ pc'[x] = "poll" => \E u \in job'[x].transfer..n : job'[x].used = CookieOf(u)
    <3>1. pc'[x] = pc[x] /\ job'[x] = job[x]
      BY <1>2, <1>3, <2>4
    <3>2. /\ pc[x] \in {"valid", "head"} \cup Submitted =>
                job[x].transfer \in 1..n /\ job[x].cookie = CookieOf(job[x].transfer)
          /\ pc[x] = "poll" => \E u \in job[x].transfer..n : job[x].used = CookieOf(u)
      BY <1>1 DEF Cookies
    <3> QED  BY <3>1, <3>2, Zenon
  <2>5. cookie'.used = CookieOf(n) /\ cookie'.completed = CookieOf(Len(ran'))
    BY <1>1 DEF Cookies
  <2>6. pc'[s] \in Submitted => pc'[s] # "idle"
    BY DEF Submitted
  <2> QED  BY <2>1, <2>2, <2>3, <2>4, <2>5, <2>6 DEF Cookies
<1>7. Interrupted(n, B, R, C, V, N)'
  BY <1>1, <1>2, SameInterrupts
<1> QED  BY <1>2, <1>4, <1>5, <1>6, <1>7, SameRing

LEMMA IssueStep ==
    ASSUME NEW n \in Nat, NEW B \in [Nat -> Nat], NEW T \in Nat, NEW R \in Nat, NEW C \in Nat,
           NEW N \in Nat, NEW V \in Nat, NEW P \in Nat, NEW H \in Nat, NEW Q \in Nat,
           Kinds, Locks, Shape(n, B, T, R, C, N, V, P, H, Q),
           NEW s \in Submitters, Issue(s) \/ PollUsed(s) \/ Poll(s) \/ Timeout(s)
    PROVE  DmaInv'
<1>1. UNCHANGED <<head, tail, tx, cookie, hang, valid, prepLock, reap, writes, moved,
                  status, msi, desc, size, ran>>
  BY DEF Issue, PollUsed, Poll, Timeout, swVars, hwVars, intrVars, history
<1>2. hw' \in [next : Slots, last : Slots, running : BOOLEAN] /\ hw'.next = hw.next
  BY DEF Issue, PollUsed, Poll, Timeout, hwVars, Kinds, Started
<1>3. CASE Issue(s)
  <2>1. PICK where \in {"wait", "idle"} :
            Goto(s, where) /\ job' = IF where = "wait" THEN job ELSE [job EXCEPT ![s] = NoJob]
    BY <1>3 DEF Issue
  <2>2. /\ job' \in [Submitters -> [transfer : Nat, left : Nat, cookie : Nat, used : Nat]]
        /\ \A x \in Submitters : x # s => job'[x] = job[x]
        /\ where # "idle" => job'[s].transfer = job[s].transfer /\ job'[s].cookie = job[s].cookie
    BY <2>1 DEF Kinds, NoJob
  <2>3. pc[s] \in {"issue", "wait", "poll"} /\ where \in {"idle"} \cup Submitted /\ where # "poll"
    BY <1>3, <2>1 DEF Issue, Submitted
  <2> QED  BY <1>1, <1>2, <2>1, <2>2, <2>3, WaiterStep
<1>4. CASE PollUsed(s)
  <2>1. Goto(s, "poll") /\ job' = [job EXCEPT ![s].used = cookie.used]
    BY <1>4 DEF PollUsed
  <2>2. /\ job' \in [Submitters -> [transfer : Nat, left : Nat, cookie : Nat, used : Nat]]
        /\ \A x \in Submitters : x # s => job'[x] = job[x]
        /\ job'[s].transfer = job[s].transfer /\ job'[s].cookie = job[s].cookie
        /\ job'[s].used = cookie.used
    <3>1. job[s] \in [transfer : Nat, left : Nat, cookie : Nat, used : Nat] /\ cookie.used \in Nat
      BY DEF Kinds
    <3>2. [job[s] EXCEPT !.used = cookie.used] \in
              [transfer : Nat, left : Nat, cookie : Nat, used : Nat]
      BY <3>1
    <3> QED  BY <2>1, <3>1, <3>2 DEF Kinds
  <2>3. pc[s] \in {"issue", "wait", "poll"} /\ "poll" \in {"idle"} \cup Submitted
    BY <1>4 DEF PollUsed, Submitted
  <2> QED  BY <1>1, <1>2, <2>1, <2>2, <2>3, WaiterStep
<1>5. CASE Poll(s)
  <2>1. PICK where \in {"reap_wait", "idle"} :
            /\ Goto(s, where)
            /\ job' = IF where = "idle" THEN [job EXCEPT ![s] = NoJob]
                      ELSE [job EXCEPT ![s].used = 0]
    BY <1>5 DEF Poll
  <2>2. /\ job' \in [Submitters -> [transfer : Nat, left : Nat, cookie : Nat, used : Nat]]
        /\ \A x \in Submitters : x # s => job'[x] = job[x]
        /\ where # "idle" => job'[s].transfer = job[s].transfer /\ job'[s].cookie = job[s].cookie
    <3>1. /\ job[s] \in [transfer : Nat, left : Nat, cookie : Nat, used : Nat]
          /\ NoJob \in [transfer : Nat, left : Nat, cookie : Nat, used : Nat]
      BY DEF Kinds, NoJob
    <3>2. [job[s] EXCEPT !.used = 0] \in [transfer : Nat, left : Nat, cookie : Nat, used : Nat]
      BY <3>1
    <3> QED  BY <2>1, <3>1, <3>2 DEF Kinds
  <2>3. pc[s] \in {"issue", "wait", "poll"} /\ where \in {"idle"} \cup Submitted /\ where # "poll"
    BY <1>5, <2>1 DEF Poll, Submitted
  <2> QED  BY <1>1, <1>2, <2>1, <2>2, <2>3, WaiterStep
<1>6. CASE Timeout(s)
  <2>1. Goto(s, "idle") /\ job' = [job EXCEPT ![s] = NoJob]
    BY <1>6 DEF Timeout
  <2>2. /\ job' \in [Submitters -> [transfer : Nat, left : Nat, cookie : Nat, used : Nat]]
        /\ \A x \in Submitters : x # s => job'[x] = job[x]
    BY <2>1 DEF Kinds, NoJob
  <2>3. pc[s] \in {"issue", "wait", "poll"} /\ "idle" \in {"idle"} \cup Submitted
    BY <1>6 DEF Timeout
  <2> QED  BY <1>1, <1>2, <2>1, <2>2, <2>3, WaiterStep
<1> QED  BY <1>3, <1>4, <1>5, <1>6

-----------------------------------------------------------------------------
(* Steps that fill the ring. *)

(* What one submitter's moves leave of the others' stages. *)
LEMMA OthersIdle ==
    ASSUME Locks, NEW s \in Submitters, pc[s] \in Preparing
    PROVE  /\ prepLock = s
           /\ \A x \in Submitters : x \in Actors /\ x # Nobody /\ (x # s => pc[x] \notin Preparing)
<1> QED  BY DmaAssumption DEF Locks, Actors, Nobody

LEMMA ProgramStep ==
    ASSUME NEW n \in Nat, NEW B \in [Nat -> Nat], NEW T \in Nat, NEW R \in Nat, NEW C \in Nat,
           NEW N \in Nat, NEW V \in Nat, NEW P \in Nat, NEW H \in Nat, NEW Q \in Nat,
           Kinds, Locks, Shape(n, B, T, R, C, N, V, P, H, Q),
           NEW s \in Submitters, Program(s)
    PROVE  DmaInv'
<1>1. /\ Counted(n, B) /\ Placed(T, R, C, N, V, P, H, Q) /\ Stages(n, B, T, P, H, Q)
      /\ Validity(V, N, P) /\ Txs(n, B, R) /\ Descs(n, B, N, Q) /\ Moves(n, B, N)
      /\ Reaps(n, B, R) /\ Cookies(n) /\ Interrupted(n, B, R, C, V, N)
  BY DEF Shape
<1>2. /\ pc[s] = "program" /\ job[s].left > 1 /\ valid' = valid \cup {head}
      /\ desc' = [desc EXCEPT ![head] = n + 1] /\ head' = RingInc(head)
      /\ job' = [job EXCEPT ![s].left = @ - 1]
      /\ UNCHANGED <<tail, tx, cookie, hang, pc, prepLock, reap, hw, writes, moved, status, msi,
                     size, ran>>
  BY <1>1, CountIs DEF Program, hwVars, intrVars
<1>3. \A x \in Submitters : x \in Actors /\ x # Nobody /\ (x # s => pc[x] \notin Preparing)
  BY <1>2, OthersIdle DEF Preparing
<1>4. RingSize \in Nat \ {0, 1} /\ MaxTransfers \in Nat /\ Size[s] \in Nat /\ job[s].left \in Nat
  BY DmaAssumption DEF Kinds
<1>5. /\ P = H /\ Q = H /\ n < MaxTransfers /\ job[s].left \in 1..Size[s]
      /\ Q = B[n + 1] + Size[s] - job[s].left /\ Q + job[s].left - T < RingSize
  BY <1>1, <1>2, <1>3 DEF Stages, Preparing
<1>6. head = H % RingSize /\ head \in Slots /\ head' = (H + 1) % RingSize /\ H + 1 \in Nat
  BY <1>1, <1>2, SlotOf DEF Placed
<1>7. /\ job' \in [Submitters -> [transfer : Nat, left : Nat, cookie : Nat, used : Nat]]
      /\ job'[s].left = job[s].left - 1 /\ \A x \in Submitters : x # s => job'[x] = job[x]
      /\ job'[s].transfer = job[s].transfer /\ job'[s].cookie = job[s].cookie
  <2>1. job[s] \in [transfer : Nat, left : Nat, cookie : Nat, used : Nat]
    BY DEF Kinds
  <2>2. /\ [job[s] EXCEPT !.left = @ - 1] \in
               [transfer : Nat, left : Nat, cookie : Nat, used : Nat]
        /\ job' = [job EXCEPT ![s] = [job[s] EXCEPT !.left = @ - 1]]
    BY <2>1, <1>2, <1>4
  <2> QED  BY <2>1, <2>2 DEF Kinds
<1>8. Kinds'
  <2>1. desc' \in [Slots -> Nat]
    <3>1. desc \in [Slots -> Nat] /\ n + 1 \in Nat
      BY DEF Kinds
    <3> QED  BY <1>2, <1>6, <3>1
  <2> QED  BY <2>1, <1>2, <1>7 DEF Kinds
<1>9. Locks'
  BY <1>2 DEF Locks
<1>10. Counted(n, B)' /\ Txs(n, B, R)' /\ Moves(n, B, N)' /\ Reaps(n, B, R)'
  BY <1>1, <1>2 DEF Counted, Txs, Moves, MovedOf, Reaps
<1>11. Placed(T, R, C, N, V, P + 1, H + 1, Q + 1)'
  BY <1>1, <1>2, <1>4, <1>5, <1>6 DEF Placed
<1>12. Stages(n, B, T, P + 1, H + 1, Q + 1)'
  BY <1>2, <1>3, <1>4, <1>5, <1>7 DEF Stages, Preparing
<1>13. Validity(V, N, P + 1)'
  <2>1. Span(V, P + 1) = Span(V, P) \cup {P % RingSize}
    <3>1. V <= P
      BY <1>1 DEF Placed
    <3> QED  BY <3>1, SpanLonger
  <2> QED  BY <1>1, <1>2, <1>5, <1>6, <2>1 DEF Validity
<1>14. Descs(n, B, N, Q + 1)'
  <2> SUFFICES ASSUME NEW p \in N..Q
               PROVE  \E t \in 1..(n + 1) :
                         desc'[p % RingSize] = t /\ B[t] <= p /\ (t <= n => p < B[t + 1])
    BY DEF Descs
  <2>1. CASE p = Q
    <3>1. desc'[p % RingSize] = n + 1 /\ B[n + 1] <= p /\ n + 1 \in 1..(n + 1)
      <4>1. desc \in [Slots -> Nat] /\ p % RingSize = head
        BY <1>5, <1>6, <2>1 DEF Kinds
      <4>2. B[n + 1] <= Q
        BY <1>4, <1>5
      <4> QED  BY <1>2, <1>6, <2>1, <4>1, <4>2
    <3> QED  BY <3>1
  <2>2. CASE p # Q
    <3>1. p \in N..(Q - 1) /\ p \in Nat /\ p - H < RingSize /\ H - p < RingSize /\ p # H
      BY <1>1, <1>4, <1>5, <2>2 DEF Placed
    <3>2. p % RingSize # head /\ p % RingSize \in Slots
      BY <3>1, <1>6, SameSlot, SlotOf
    <3>3. desc'[p % RingSize] = desc[p % RingSize]
      BY <3>2, <1>2, <1>6 DEF Kinds
    <3> QED  BY <3>1, <3>3, <1>1 DEF Descs
  <2> QED  BY <2>1, <2>2
<1>15. Cookies(n)'
  BY <1>1, <1>2, <1>3, <1>7 DEF Cookies, Submitted
<1>16. Interrupted(n, B, R, C, V, N)'
  BY <1>1, <1>2, SameInterrupts
<1>17. Shape(n, B, T, R, C, N, V, P + 1, H + 1, Q + 1)'
  BY <1>10, <1>11, <1>12, <1>13, <1>14, <1>15, <1>16 DEF Shape
<1>18. P + 1 \in Nat /\ Q + 1 \in Nat
  OBVIOUS
<1> QED  BY <1>6, <1>8, <1>9, <1>17, <1>18 DEF DmaInv

LEMMA SubmitValidStep ==
    ASSUME NEW n \in Nat, NEW B \in [Nat -> Nat], NEW T \in Nat, NEW R \in Nat, NEW C \in Nat,
           NEW N \in Nat, NEW V \in Nat, NEW P \in Nat, NEW H \in Nat, NEW Q \in Nat,
           Kinds, Locks, Shape(n, B, T, R, C, N, V, P, H, Q),
           NEW s \in Submitters, SubmitValid(s)
    PROVE  DmaInv'
<1>1. /\ Counted(n, B) /\ Placed(T, R, C, N, V, P, H, Q) /\ Stages(n, B, T, P, H, Q)
      /\ Validity(V, N, P) /\ Txs(n, B, R) /\ Descs(n, B, N, Q) /\ Moves(n, B, N)
      /\ Reaps(n, B, R) /\ Cookies(n) /\ Interrupted(n, B, R, C, V, N)
  BY DEF Shape
<1>2. /\ pc[s] = "valid" /\ valid' = valid \cup {head} /\ Goto(s, "head")
      /\ UNCHANGED <<head, tail, tx, cookie, hang, job, prepLock, reap, hw, writes, moved,
                     status, msi, desc, size, ran>>
  BY DEF SubmitValid, swVars, hwVars, intrVars, history
<1>3. \A x \in Submitters : x \in Actors /\ x # Nobody /\ (x # s => pc[x] \notin Preparing)
  BY <1>2, OthersIdle DEF Preparing
<1>4. /\ Kinds' /\ pc'[s] = "head" /\ pc'[Irq] = pc[Irq]
      /\ \A a \in Actors : a # s => pc'[a] = pc[a]
  <2>1. /\ hw' \in [next : Slots, last : Slots, running : BOOLEAN]
        /\ job' \in [Submitters -> [transfer : Nat, left : Nat, cookie : Nat, used : Nat]]
    BY <1>2 DEF Kinds
  <2> QED  BY <2>1, <1>2, SubmitterGoes DEF Preparing
<1>5. P = H /\ Q = H + 1 /\ Q = B[n + 1]
  BY <1>1, <1>2, <1>3 DEF Stages, Preparing
<1>6. Locks'
  BY <1>2, <1>3, <1>4 DEF Locks, Kinds, Preparing, Cleaning
<1>7. Counted(n, B)' /\ Txs(n, B, R)' /\ Moves(n, B, N)' /\ Reaps(n, B, R)' /\ Descs(n, B, N, Q)'
  BY <1>1, <1>2 DEF Counted, Txs, Moves, MovedOf, Reaps, Descs
<1>8. Placed(T, R, C, N, V, P + 1, H, Q)'
  BY <1>1, <1>2, <1>5 DEF Placed
<1>9. Stages(n, B, T, P + 1, H, Q)'
  BY <1>3, <1>4, <1>5 DEF Stages, Preparing
<1>10. Validity(V, N, P + 1)'
  <2>1. Span(V, P + 1) = Span(V, P) \cup {P % RingSize}
    <3>1. V <= P
      BY <1>1 DEF Placed
    <3> QED  BY <3>1, SpanLonger
  <2> QED  BY <1>1, <1>2, <1>5, <2>1 DEF Validity, Placed
<1>11. Cookies(n)'
  BY <1>1, <1>2, <1>3, <1>4 DEF Cookies, Submitted
<1>12. Interrupted(n, B, R, C, V, N)'
  BY <1>1, <1>2, <1>4, SameInterrupts
<1>13. Shape(n, B, T, R, C, N, V, P + 1, H, Q)'
  BY <1>7, <1>8, <1>9, <1>10, <1>11, <1>12 DEF Shape
<1>14. P + 1 \in Nat
  OBVIOUS
<1> QED  BY <1>4, <1>6, <1>13, <1>14 DEF DmaInv

LEMMA SubmitHeadStep ==
    ASSUME NEW n \in Nat, NEW B \in [Nat -> Nat], NEW T \in Nat, NEW R \in Nat, NEW C \in Nat,
           NEW N \in Nat, NEW V \in Nat, NEW P \in Nat, NEW H \in Nat, NEW Q \in Nat,
           Kinds, Locks, Shape(n, B, T, R, C, N, V, P, H, Q),
           NEW s \in Submitters, SubmitHead(s)
    PROVE  DmaInv'
<1>1. /\ Counted(n, B) /\ Placed(T, R, C, N, V, P, H, Q) /\ Stages(n, B, T, P, H, Q)
      /\ Validity(V, N, P) /\ Txs(n, B, R) /\ Descs(n, B, N, Q) /\ Moves(n, B, N)
      /\ Reaps(n, B, R) /\ Cookies(n) /\ Interrupted(n, B, R, C, V, N)
  BY DEF Shape
<1>2. /\ pc[s] = "head" /\ head' = RingInc(head) /\ prepLock' = Nobody /\ Goto(s, "issue")
      /\ UNCHANGED <<tail, tx, cookie, hang, valid, job, reap, hw, writes, moved,
                     status, msi, desc, size, ran>>
  BY DEF SubmitHead, hwVars, intrVars, history
<1>3. \A x \in Submitters : x \in Actors /\ x # Nobody /\ (x # s => pc[x] \notin Preparing)
  BY <1>2, OthersIdle DEF Preparing
<1>4. /\ Kinds' /\ pc'[s] = "issue" /\ pc'[Irq] = pc[Irq]
      /\ \A a \in Actors : a # s => pc'[a] = pc[a]
  <2>1. /\ hw' \in [next : Slots, last : Slots, running : BOOLEAN]
        /\ job' \in [Submitters -> [transfer : Nat, left : Nat, cookie : Nat, used : Nat]]
    BY <1>2 DEF Kinds
  <2> QED  BY <2>1, <1>2, SubmitterGoes DEF Submitted
<1>5. P = H + 1 /\ Q = H + 1 /\ Q = B[n + 1]
  BY <1>1, <1>2, <1>3 DEF Stages, Preparing
<1>6. Locks'
  BY <1>2, <1>3, <1>4 DEF Locks, Kinds, Preparing, Cleaning
<1>7. Counted(n, B)' /\ Txs(n, B, R)' /\ Moves(n, B, N)' /\ Reaps(n, B, R)' /\ Descs(n, B, N, Q)'
      /\ Validity(V, N, P)'
  BY <1>1, <1>2 DEF Counted, Txs, Moves, MovedOf, Reaps, Descs, Validity
<1>8. Placed(T, R, C, N, V, P, H + 1, Q)'
  <2>1. head' = (H + 1) % RingSize
    BY <1>1, <1>2, SlotOf DEF Placed
  <2> QED  BY <1>1, <1>2, <1>5, <2>1 DEF Placed
<1>9. Stages(n, B, T, P, H + 1, Q)'
  BY <1>3, <1>4, <1>5 DEF Stages, Preparing
<1>10. Cookies(n)'
  BY <1>1, <1>2, <1>3, <1>4 DEF Cookies, Submitted
<1>11. Interrupted(n, B, R, C, V, N)'
  BY <1>1, <1>2, <1>4, SameInterrupts
<1>12. Shape(n, B, T, R, C, N, V, P, H + 1, Q)'
  BY <1>7, <1>8, <1>9, <1>10, <1>11 DEF Shape
<1>13. H + 1 \in Nat
  OBVIOUS
<1> QED  BY <1>4, <1>6, <1>12, <1>13 DEF DmaInv

LEMMA ProgramLastStep ==
    ASSUME NEW n \in Nat, NEW B \in [Nat -> Nat], NEW T \in Nat, NEW R \in Nat, NEW C \in Nat,
           NEW N \in Nat, NEW V \in Nat, NEW P \in Nat, NEW H \in Nat, NEW Q \in Nat,
           Kinds, Locks, Shape(n, B, T, R, C, N, V, P, H, Q),
           NEW s \in Submitters, ProgramLast(s)
    PROVE  DmaInv'
<1>1. /\ Counted(n, B) /\ Placed(T, R, C, N, V, P, H, Q) /\ Stages(n, B, T, P, H, Q)
      /\ Validity(V, N, P) /\ Txs(n, B, R) /\ Descs(n, B, N, Q) /\ Moves(n, B, N)
      /\ Reaps(n, B, R) /\ Cookies(n) /\ Interrupted(n, B, R, C, V, N)
  BY DEF Shape
<1>2. /\ pc[s] = "program" /\ job[s].left = 1
      /\ tx' = [tx EXCEPT ![head] = [cookie |-> NextCookie, transfer |-> n + 1]]
      /\ job' = [job EXCEPT ![s] = [NoJob EXCEPT !.transfer = n + 1, !.cookie = NextCookie]]
      /\ desc' = [desc EXCEPT ![head] = n + 1] /\ size' = [size EXCEPT ![n + 1] = Size[s]]
      /\ cookie' = [cookie EXCEPT !.used = NextCookie] /\ valid' = valid \ {head}
      /\ Goto(s, "valid")
      /\ UNCHANGED <<head, tail, hang, prepLock, reap, hw, writes, moved, status, msi, ran>>
  BY <1>1, CountIs DEF ProgramLast, hwVars, intrVars
<1>3. \A x \in Submitters : x \in Actors /\ x # Nobody /\ (x # s => pc[x] \notin Preparing)
  BY <1>2, OthersIdle DEF Preparing
<1>4. RingSize \in Nat \ {0, 1} /\ MaxTransfers \in Nat /\ Size[s] \in Nat \ {0}
  BY DmaAssumption
<1>5. /\ P = H /\ Q = H /\ n < MaxTransfers /\ n + 1 \in Transfers
      /\ Q + 1 = B[n + 1] + Size[s] /\ Q + 1 - T < RingSize /\ B[n + 1] <= Q
  <2>1. /\ P = H /\ Q = H /\ n < MaxTransfers /\ job[s].left \in 1..Size[s]
        /\ Q = B[n + 1] + Size[s] - job[s].left /\ Q + job[s].left - T < RingSize
    BY <1>1, <1>2, <1>3 DEF Stages, Preparing
  <2> QED  BY <2>1, <1>2, <1>4 DEF Transfers
<1>6. head = H % RingSize /\ head \in Slots
  BY <1>1, SlotOf DEF Placed
<1>7. NextCookie = CookieOf(n + 1) /\ NextCookie \in Nat
  <2>1. /\ CookieOf(n + 1) = IF CookieOf(n) = CookieMax THEN 1 ELSE CookieOf(n) + 1
        /\ CookieOf(n + 1) \in 1..CookieMax /\ CookieMax \in Nat
    BY CookieNext, DmaAssumption
  <2>2. cookie.used = CookieOf(n)
    BY <1>1 DEF Cookies
  <2> QED  BY <2>1, <2>2 DEF NextCookie
<1>8. /\ job' \in [Submitters -> [transfer : Nat, left : Nat, cookie : Nat, used : Nat]]
      /\ job'[s].transfer = n + 1 /\ job'[s].cookie = CookieOf(n + 1)
      /\ \A x \in Submitters : x # s => job'[x] = job[x]
  <2> DEFINE j == [NoJob EXCEPT !.transfer = n + 1, !.cookie = NextCookie]
  <2>1. j \in [transfer : Nat, left : Nat, cookie : Nat, used : Nat]
    <3>1. NoJob \in [transfer : Nat, left : Nat, cookie : Nat, used : Nat] /\ n + 1 \in Nat
      BY DEF NoJob
    <3> QED  BY <3>1, <1>7
  <2>2. j.transfer = n + 1 /\ j.cookie = NextCookie
    BY DEF NoJob
  <2> HIDE DEF j
  <2>3. job' = [job EXCEPT ![s] = j]
    BY <1>2 DEF j
  <2> QED  BY <2>1, <2>2, <2>3, <1>7 DEF Kinds
<1>9. /\ s \in Actors /\ Irq \in Actors /\ s # Irq
      /\ pc'[s] = "valid" /\ \A a \in Actors : a # s => pc'[a] = pc[a]
  BY <1>2, DmaAssumption DEF Actors, Irq, Kinds, Goto
<1>10. /\ cookie' \in [used : Nat, completed : Nat]
       /\ cookie'.used = CookieOf(n + 1) /\ cookie'.completed = cookie.completed
  BY <1>2, <1>7 DEF Kinds
<1>11. Kinds'
  <2>1. pc' \in [Actors -> {"idle"} \cup Preparing \cup Submitted \cup IrqPlaces]
    BY <1>2, <1>9 DEF Kinds, Goto, Preparing
  <2>2. (\A x \in Submitters : pc'[x] \notin IrqPlaces \ {"idle"}) /\ pc'[Irq] \in IrqPlaces
    BY <1>3, <1>9 DEF Kinds, IrqPlaces
  <2>3. tx' \in [Slots -> [cookie : Nat, transfer : Nat]]
    <3>1. [cookie |-> NextCookie, transfer |-> n + 1] \in [cookie : Nat, transfer : Nat]
      BY <1>7
    <3> QED  BY <3>1, <1>2 DEF Kinds
  <2>4. desc' \in [Slots -> Nat] /\ size' \in [Transfers -> Nat]
    <3>1. desc \in [Slots -> Nat] /\ size \in [Transfers -> Nat]
      BY DEF Kinds
    <3>2. n + 1 \in Nat
      OBVIOUS
    <3> QED  BY <3>1, <3>2, <1>2, <1>4
  <2> QED  BY <1>2, <1>8, <1>10, <2>1, <2>2, <2>3, <2>4 DEF Kinds
<1>12. Locks'
  BY <1>2, <1>3, <1>9 DEF Locks, Kinds, Preparing, Cleaning
<1> DEFINE m == n + 1
           D == [B EXCEPT ![n + 2] = Q + 1]
<1>13. /\ m \in Nat /\ D \in [Nat -> Nat] /\ D[n + 2] = Q + 1 /\ Q + 1 \in Nat
       /\ \A t \in Nat : t # n + 2 => D[t] = B[t]
  OBVIOUS
<1>14. \A t \in 1..(n + 1) : D[t] = B[t] /\ (t <= n => D[t + 1] = B[t + 1])
  BY <1>13
<1>15. D[m + 1] = Q + 1 /\ D[m] = B[n + 1] /\ \A t \in 1..n : D[t + 1] = B[t + 1]
  BY <1>13
<1> HIDE DEF D
<1>16. \A t \in Transfers : size'[t] = IF t = n + 1 THEN Size[s] ELSE size[t]
  BY <1>2, <1>5 DEF Kinds
<1>17. Counted(m, D)'
  <2>1. m \in 0..MaxTransfers /\ \A t \in Transfers : size'[t] # 0 <=> t <= m
    BY <1>1, <1>4, <1>5, <1>16 DEF Counted, Transfers
  <2>2. D[1] = 0
    BY <1>1, <1>14 DEF Counted
  <2>3. \A t \in 1..m : D[t + 1] = D[t] + size'[t]
    <3>1. \A t \in 1..n : D[t + 1] = D[t] + size'[t]
      <4> SUFFICES ASSUME NEW t \in 1..n PROVE D[t + 1] = D[t] + size'[t]
        OBVIOUS
      <4>1. t \in Transfers /\ t # n + 1 /\ t \in 1..(n + 1)
        BY <1>4, <1>5 DEF Transfers
      <4>2. B[t + 1] = B[t] + size[t]
        BY <1>1 DEF Counted
      <4> QED  BY <4>1, <4>2, <1>14, <1>15, <1>16
    <3>2. D[m + 1] = D[m] + size'[m]
      BY <1>5, <1>15, <1>16
    <3> QED  BY <3>1, <3>2
  <2>4. ASSUME NEW i \in 1..(m + 1), NEW j \in 1..(m + 1), i <= j
        PROVE  D[j] - D[i] >= j - i
    <3>1. CASE j <= n + 1
      BY <1>1, <1>14, <2>4, <3>1 DEF Counted
    <3>2. CASE j = n + 2 /\ i = n + 2
      BY <1>15, <3>2
    <3>3. CASE j = n + 2 /\ i <= n + 1
      <4>1. B[n + 1] - B[i] >= n + 1 - i /\ D[i] = B[i] /\ D[j] = Q + 1
        BY <1>1, <1>14, <1>15, <3>3 DEF Counted
      <4> QED  BY <4>1, <3>3, <1>5
    <3> QED  BY <3>1, <3>2, <3>3
  <2> QED  BY <2>1, <2>2, <2>3, <2>4, <1>13 DEF Counted
<1>18. Placed(T, R, C, N, V, P, H, Q + 1)'
  BY <1>1, <1>2, <1>4, <1>5 DEF Placed
<1>19. Stages(m, D, T, P, H, Q + 1)'
  BY <1>3, <1>5, <1>9, <1>15 DEF Stages, Preparing
<1>20. Validity(V, N, P)'
  <2>1. T <= V /\ P - T <= RingSize /\ T <= P /\ P - T < RingSize
    BY <1>1, <1>4, <1>5 DEF Placed
  <2>2. P % RingSize \in Span(V, P) <=> V <= P /\ P < P
    BY <2>1, InSpan
  <2>3. head \notin Span(V, P)
    BY <1>5, <1>6, <2>2
  <2>4. valid' = Span(V, P)
    BY <1>1, <1>2, <2>3 DEF Validity
  <2> QED  BY <1>1, <1>2, <2>4 DEF Validity
<1>21. Txs(m, D, R)'
  <2>1. ASSUME NEW t \in 1..m, R < D[t + 1]
        PROVE  tx'[(D[t + 1] - 1) % RingSize] = [cookie |-> CookieOf(t), transfer |-> t]
    <3>1. CASE t = m
      <4>1. D[t + 1] - 1 = H
        BY <3>1, <1>5, <1>15
      <4>2. tx'[head] = [cookie |-> CookieOf(n + 1), transfer |-> n + 1]
        BY <1>2, <1>6, <1>7 DEF Kinds
      <4> QED  BY <3>1, <4>1, <4>2, <1>6
    <3>2. CASE t <= n
      <4>1. D[t + 1] = B[t + 1] /\ B[t + 1] \in Nat /\ R < B[t + 1]
        BY <2>1, <3>2, <1>14
      <4>2. B[t + 1] <= B[n + 1]
        BY <1>1, <3>2, <4>1 DEF Counted
      <4>3. /\ B[t + 1] - 1 \in Nat /\ B[t + 1] - 1 # H
            /\ B[t + 1] - 1 - H < RingSize /\ H - (B[t + 1] - 1) < RingSize
        BY <1>1, <1>4, <1>5, <4>1, <4>2 DEF Placed
      <4>4. (B[t + 1] - 1) % RingSize # head /\ (B[t + 1] - 1) % RingSize \in Slots
        BY <4>3, <1>6, SameSlot, SlotOf
      <4>5. tx'[(B[t + 1] - 1) % RingSize] = tx[(B[t + 1] - 1) % RingSize]
        BY <4>4, <1>2 DEF Kinds
      <4> QED  BY <4>1, <4>5, <3>2, <1>1 DEF Txs
    <3> QED  BY <3>1, <3>2
  <2>2. ASSUME NEW i \in Slots
        PROVE  tx'[i] = NoTx \/ \E t \in 1..m : R < D[t + 1] /\ i = (D[t + 1] - 1) % RingSize
    <3>1. CASE i = head
      <4>1. m \in 1..m /\ R < D[m + 1] /\ i = (D[m + 1] - 1) % RingSize
        BY <3>1, <1>1, <1>5, <1>6, <1>15 DEF Placed
      <4> QED  BY <4>1
    <3>2. CASE i # head
      <4>1. tx'[i] = tx[i]
        BY <3>2, <1>2 DEF Kinds
      <4>2. CASE tx[i] = NoTx
        BY <4>1, <4>2
      <4>3. CASE \E t \in 1..n : R < B[t + 1] /\ i = (B[t + 1] - 1) % RingSize
        <5>1. PICK t \in 1..n : R < B[t + 1] /\ i = (B[t + 1] - 1) % RingSize
          BY <4>3
        <5>2. t \in 1..m /\ D[t + 1] = B[t + 1]
          BY <1>14
        <5> QED  BY <5>1, <5>2
      <4> QED  BY <4>2, <4>3, <1>1 DEF Txs
    <3> QED  BY <3>1, <3>2
  <2> QED  BY <2>1, <2>2 DEF Txs
<1>22. Descs(m, D, N, Q + 1)'
  <2> SUFFICES ASSUME NEW p \in N..Q
               PROVE  \E t \in 1..(m + 1) :
                         desc'[p % RingSize] = t /\ D[t] <= p /\ (t <= m => p < D[t + 1])
    BY DEF Descs
  <2>1. CASE p = Q
    <3>1. desc'[p % RingSize] = m
      <4>1. desc \in [Slots -> Nat] /\ p % RingSize = head
        BY <1>5, <1>6, <2>1 DEF Kinds
      <4> QED  BY <1>2, <1>6, <4>1
    <3>2. D[m] <= p /\ p < D[m + 1] /\ m \in 1..(m + 1)
      BY <1>5, <1>15, <2>1
    <3> QED  BY <3>1, <3>2
  <2>2. CASE p # Q
    <3>1. p \in N..(Q - 1) /\ p \in Nat /\ p - H < RingSize /\ H - p < RingSize /\ p # H
      BY <1>1, <1>4, <1>5, <2>2 DEF Placed
    <3>2. p % RingSize # head /\ p % RingSize \in Slots
      BY <3>1, <1>6, SameSlot, SlotOf
    <3>3. desc'[p % RingSize] = desc[p % RingSize]
      BY <3>2, <1>2, <1>6 DEF Kinds
    <3>4. PICK t \in 1..(n + 1) :
              desc[p % RingSize] = t /\ B[t] <= p /\ (t <= n => p < B[t + 1])
      BY <3>1, <1>1 DEF Descs
    <3>5. t \in 1..(m + 1) /\ D[t] <= p /\ (t <= n => p < D[t + 1])
      BY <3>4, <1>14
    <3>6. t = m => p < D[t + 1]
      BY <1>15, <3>1
    <3> QED  BY <3>3, <3>4, <3>5, <3>6
  <2> QED  BY <2>1, <2>2
<1>23. Moves(m, D, N)'
  <2>1. N <= Q
    BY <1>1 DEF Placed
  <2> SUFFICES ASSUME NEW t \in Transfers
               PROVE  /\ t <= m /\ D[t + 1] <= N => moved[t] = size'[t]
                      /\ t <= m + 1 /\ D[t] <= N /\ (t <= m => N < D[t + 1]) => moved[t] = N - D[t]
                      /\ t > m + 1 \/ N < D[t] => moved[t] = 0
    BY <1>2 DEF Moves, MovedOf
  <2>2. t \in Nat /\ t >= 1
    BY DEF Transfers
  <2>3. /\ t <= n /\ B[t + 1] <= N => moved[t] = size[t]
        /\ t <= n + 1 /\ B[t] <= N /\ (t <= n => N < B[t + 1]) => moved[t] = N - B[t]
        /\ t > n + 1 \/ N < B[t] => moved[t] = 0
    BY <1>1 DEF Moves, MovedOf
  <2>4. CASE t <= n
    <3>1. D[t] = B[t] /\ D[t + 1] = B[t + 1] /\ size'[t] = size[t]
      BY <2>2, <2>4, <1>14, <1>16
    <3> QED  BY <2>2, <2>3, <2>4, <3>1
  <2>5. CASE t = n + 1
    BY <2>1, <2>3, <2>5, <1>15
  <2>6. CASE t = n + 2
    BY <2>1, <2>3, <2>6, <1>15
  <2>7. CASE t > n + 2
    BY <2>2, <2>3, <2>7
  <2> QED  BY <2>2, <2>4, <2>5, <2>6, <2>7
<1>24. Reaps(m, D, R)'
  <2>1. Len(ran) <= n /\ \A i \in 1..Len(ran) : ran[i] = i
    BY <1>1 DEF Reaps
  <2>2. Len(ran) \in Nat
    <3>1. ran \in Seq(Nat)
      BY DEF Kinds
    <3> QED  BY <3>1
  <2>6. R <= Q
    BY <1>1 DEF Placed
  <2>3. \A t \in 1..n : D[t + 1] <= R <=> t <= Len(ran)
    BY <1>1, <1>15 DEF Reaps
  <2>4. D[m + 1] <= R <=> m <= Len(ran)
    BY <2>1, <2>2, <2>6, <1>15
  <2>5. \A t \in 1..m : D[t + 1] <= R <=> t <= Len(ran)
    <3>1. \A t \in 1..m : t \in 1..n \/ t = m
      OBVIOUS
    <3> HIDE DEF m
    <3> QED  BY <2>3, <2>4, <3>1
  <2> QED  BY <2>1, <2>2, <2>5, <1>2 DEF Reaps
<1>25. Cookies(m)'
  <2>1. cookie'.used = CookieOf(m) /\ cookie'.completed = CookieOf(Len(ran'))
    BY <1>1, <1>2, <1>10 DEF Cookies
  <2>2. ASSUME NEW x \in Submitters, pc'[x] \in {"valid", "head"} \cup Submitted
        PROVE  job'[x].transfer \in 1..m /\ job'[x].cookie = CookieOf(job'[x].transfer)
    <3>1. CASE x = s
      BY <3>1, <1>8
    <3>2. CASE x # s
      <4>1. pc'[x] = pc[x] /\ job'[x] = job[x]
        BY <3>2, <1>3, <1>8, <1>9
      <4>2. job[x].transfer \in 1..n /\ job[x].cookie = CookieOf(job[x].transfer)
        BY <4>1, <2>2, <1>1 DEF Cookies
      <4> QED  BY <4>1, <4>2
    <3> QED  BY <3>1, <3>2
  <2>3. ASSUME NEW x \in Submitters, pc'[x] = "poll"
        PROVE  \E u \in job'[x].transfer..m : job'[x].used = CookieOf(u)
    <3>1. x # s
      BY <2>3, <1>9
    <3>2. pc'[x] = pc[x] /\ job'[x] = job[x]
      BY <3>1, <1>3, <1>8, <1>9
    <3>3. PICK u \in job[x].transfer..n : job[x].used = CookieOf(u)
      BY <3>2, <2>3, <1>1 DEF Cookies
    <3>4. u \in job'[x].transfer..m
      BY <3>2, <3>3
    <3> QED  BY <3>2, <3>3, <3>4
  <2> QED  BY <2>1, <2>2, <2>3 DEF Cookies
<1>26. Interrupted(m, D, R, C, V, N)'
  <2>1. N < D[m + 1] /\ pc'[Irq] = pc[Irq]
    BY <1>1, <1>9, <1>15 DEF Placed
  <2>2. \A t \in 1..(n - 1) : D[t + 1] = B[t + 1] /\ D[t + 2] = B[t + 2]
    BY <1>13
  <2>3. \A t \in 1..(m - 1) : t \in 1..(n - 1) \/ t + 2 = m + 1
    OBVIOUS
  <2>4. \A t \in 1..m : t \in 1..n \/ t + 1 = m + 1
    OBVIOUS
  <2>5. Quiet' <=> Quiet
    BY <1>2 DEF Quiet
  <2>6. Quiet /\ pc[Irq] = "idle" => \A t \in 1..(m - 1) : D[t + 2] <= N => D[t + 1] <= R
    <3> SUFFICES ASSUME Quiet, pc[Irq] = "idle", NEW t \in 1..(m - 1), D[t + 2] <= N
                 PROVE  D[t + 1] <= R
      OBVIOUS
    <3>1. t \in 1..(n - 1)
      BY <2>1, <2>3, <1>13
    <3> QED  BY <1>1, <2>2, <3>1 DEF Interrupted
  <2>7. Quiet /\ pc[Irq] = "reap_second" /\ reap.by = Irq =>
            \A t \in 1..(m - 1) : D[t + 2] <= N => D[t + 1] <= C
    <3> SUFFICES ASSUME Quiet, pc[Irq] = "reap_second", reap.by = Irq,
                        NEW t \in 1..(m - 1), D[t + 2] <= N
                 PROVE  D[t + 1] <= C
      OBVIOUS
    <3>1. t \in 1..(n - 1)
      BY <2>1, <2>3, <1>13
    <3> QED  BY <1>1, <2>2, <3>1 DEF Interrupted
  <2>8. Quiet /\ pc[Irq] = "reap_second" /\ reap.by = Irq =>
            (reap.flushed /\ V <= R => \A t \in 1..m : D[t + 1] <= N => D[t + 1] <= R)
    <3> SUFFICES ASSUME Quiet, pc[Irq] = "reap_second", reap.by = Irq, reap.flushed, V <= R,
                        NEW t \in 1..m, D[t + 1] <= N
                 PROVE  D[t + 1] <= R
      OBVIOUS
    <3>1. t \in 1..n
      BY <2>1, <2>4, <1>13
    <3> QED  BY <1>1, <1>15, <3>1 DEF Interrupted
  <2> QED  BY <1>1, <1>2, <2>1, <2>5, <2>6, <2>7, <2>8 DEF Interrupted
<1>27. Shape(m, D, T, R, C, N, V, P, H, Q + 1)'
  BY <1>17, <1>18, <1>19, <1>20, <1>21, <1>22, <1>23, <1>24, <1>25, <1>26 DEF Shape
<1> HIDE DEF m
<1> QED  BY <1>11, <1>12, <1>13, <1>27 DEF DmaInv

-----------------------------------------------------------------------------
(* Steps of the reaper. *)

LEMMA Ends ==
    ASSUME NEW n \in Nat, NEW B \in [Nat -> Nat], NEW T \in Nat, NEW P \in Nat, NEW H \in Nat,
           NEW Q \in Nat, Stages(n, B, T, P, H, Q)
    PROVE  H <= P /\ P <= H + 1 /\ Q <= H + 1 /\ B[n + 1] <= Q
<1>1. CASE \E s \in Submitters : pc[s] = "program"
  <2>1. PICK s \in Submitters : pc[s] = "program"
    BY <1>1
  <2>2. job[s].left \in 1..Size[s] /\ Q = B[n + 1] + Size[s] - job[s].left /\ Size[s] \in Nat
    BY <2>1, DmaAssumption DEF Stages
  <2>3. B[n + 1] <= Q
    BY <2>2
  <2>4. CASE \E x \in Submitters : pc[x] \in {"valid", "head"}
    BY <2>3, <2>4 DEF Stages
  <2>5. CASE \A x \in Submitters : pc[x] \notin {"valid", "head"}
    BY <2>3, <2>5 DEF Stages
  <2> QED  BY <2>4, <2>5
<1>2. CASE \A s \in Submitters : pc[s] # "program"
  <2>1. B[n + 1] = Q
    BY <1>2 DEF Stages
  <2>2. CASE \E x \in Submitters : pc[x] \in {"valid", "head"}
    BY <2>1, <2>2 DEF Stages
  <2>3. CASE \A x \in Submitters : pc[x] \notin {"valid", "head"}
    BY <2>1, <2>3 DEF Stages
  <2> QED  BY <2>2, <2>3
<1> QED  BY <1>1, <1>2

LEMMA CleanupPlaces ==
    /\ DOMAIN AfterCleanup = Cleaning
    /\ AfterCleanup["reap_full"] = "full" /\ AfterCleanup["reap_wait"] = "wait"
    /\ AfterCleanup["reap_first"] = "ack" /\ AfterCleanup["reap_second"] = "idle"
<1> QED  BY DEF AfterCleanup, Cleaning

LEMMA CleanupLockStep ==
    ASSUME NEW n \in Nat, NEW B \in [Nat -> Nat], NEW T \in Nat, NEW R \in Nat, NEW C \in Nat,
           NEW N \in Nat, NEW V \in Nat, NEW P \in Nat, NEW H \in Nat, NEW Q \in Nat,
           Kinds, Locks, Shape(n, B, T, R, C, N, V, P, H, Q),
           NEW a \in Actors, CleanupLock(a)
    PROVE  DmaInv'
<1>1. /\ Counted(n, B) /\ Placed(T, R, C, N, V, P, H, Q) /\ Stages(n, B, T, P, H, Q)
      /\ Validity(V, N, P) /\ Txs(n, B, R) /\ Descs(n, B, N, Q) /\ Moves(n, B, N)
      /\ Reaps(n, B, R) /\ Cookies(n) /\ Interrupted(n, B, R, C, V, N)
  BY DEF Shape
<1>2. /\ pc[a] \in Cleaning /\ reap.by = Nobody
      /\ reap' = [NotReaping EXCEPT !.by = a, !.at = tail, !.cached = head]
      /\ UNCHANGED <<head, tail, tx, cookie, hang, valid, pc, job, prepLock, hw, writes, moved,
                     status, msi, desc, size, ran>>
  BY CleanupPlaces DEF CleanupLock, swVars, runVars, hwVars, intrVars, history
<1>3. tail = R % RingSize /\ head = H % RingSize /\ tail \in Slots /\ head \in Slots /\ R = T
  BY <1>1, <1>2, SlotOf DEF Placed
<1>4. /\ reap' \in [by : Actors \cup {Nobody}, at : Slots, cached : Slots, flushed : BOOLEAN,
                    hwLast : Slots]
      /\ reap'.by = a /\ reap'.at = R % RingSize /\ reap'.cached = H % RingSize /\ ~reap'.flushed
  <2>1. 0 \in Slots
    BY DmaAssumption DEF Slots
  <2>2. reap' = [by |-> a, at |-> tail, cached |-> head, flushed |-> FALSE, hwLast |-> 0]
    BY <1>2 DEF NotReaping
  <2> QED  BY <1>3, <2>1, <2>2
<1>5. Kinds'
  BY <1>2, <1>4 DEF Kinds
<1>6. Locks'
  BY <1>2, <1>4 DEF Locks
<1>7. Counted(n, B)' /\ Txs(n, B, R)' /\ Moves(n, B, N)' /\ Reaps(n, B, R)' /\ Descs(n, B, N, Q)'
      /\ Validity(V, N, P)'
  BY <1>1, <1>2 DEF Counted, Txs, Moves, MovedOf, Reaps, Descs, Validity
<1>8. Stages(n, B, T, P, H, Q)' /\ Cookies(n)'
  BY <1>1, <1>2 DEF Stages, Cookies
<1>9. Placed(T, R, H, N, V, P, H, Q)'
  BY <1>1, <1>2, <1>3, <1>4 DEF Placed
<1>10. Interrupted(n, B, R, H, V, N)'
  <2>1. \A t \in 1..(n - 1) : B[t + 2] <= N => B[t + 1] <= H
    <3> SUFFICES ASSUME NEW t \in 1..(n - 1), B[t + 2] <= N PROVE B[t + 1] <= H
      OBVIOUS
    <3>1. N <= H + 1
      <4>1. P <= H + 1
        BY <1>1, Ends
      <4> QED  BY <4>1, <1>1 DEF Placed
    <3>2. t + 1 \in 1..(n + 1) /\ t + 2 \in 1..(n + 1)
      OBVIOUS
    <3>3. B[t + 2] - B[t + 1] >= (t + 2) - (t + 1) /\ B[t + 2] \in Nat /\ B[t + 1] \in Nat
      BY <1>1, <3>2 DEF Counted
    <3> QED  BY <3>1, <3>3
  <2> QED  BY <1>1, <1>2, <1>4, <2>1 DEF Interrupted, Quiet
<1>11. Shape(n, B, T, R, H, N, V, P, H, Q)'
  BY <1>7, <1>8, <1>9, <1>10 DEF Shape
<1> QED  BY <1>5, <1>6, <1>11 DEF DmaInv

(* All but the last of the transfers moved are reaped. *)
Settled(n, B, R, N) == \A t \in 1..(n - 1) : B[t + 2] <= N => B[t + 1] <= R

LEMMA CleanupUnlockStep ==
    ASSUME NEW n \in Nat, NEW B \in [Nat -> Nat], NEW T \in Nat, NEW R \in Nat, NEW C \in Nat,
           NEW N \in Nat, NEW V \in Nat, NEW P \in Nat, NEW H \in Nat, NEW Q \in Nat,
           Kinds, Locks, Shape(n, B, T, R, C, N, V, P, H, Q),
           NEW a \in Actors, reap.by = a, CleanupUnlock(a),
           hw' \in [next : Slots, last : Slots, running : BOOLEAN], hw'.next = hw.next,
           a = Irq /\ pc[Irq] = "reap_second" /\ Quiet => Settled(n, B, R, N)
    PROVE  DmaInv'
<1>1. /\ Counted(n, B) /\ Placed(T, R, C, N, V, P, H, Q) /\ Stages(n, B, T, P, H, Q)
      /\ Validity(V, N, P) /\ Txs(n, B, R) /\ Descs(n, B, N, Q) /\ Moves(n, B, N)
      /\ Reaps(n, B, R) /\ Cookies(n) /\ Interrupted(n, B, R, C, V, N)
  BY DEF Shape
<1>2. /\ tail' = reap.at /\ reap' = NotReaping /\ Goto(a, AfterCleanup[pc[a]])
      /\ UNCHANGED <<head, tx, cookie, hang, valid, job, prepLock, writes, moved,
                     status, msi, desc, size, ran>>
  BY DEF CleanupUnlock, intrVars, history
<1>3. /\ a # Nobody /\ pc[a] \in Cleaning /\ Irq \in Actors
      /\ \A x \in Submitters : x \in Actors /\ x # Irq
  BY DmaAssumption DEF Locks, Actors, Nobody, Irq
<1>4. PICK where \in {"full", "wait", "ack", "idle"} :
          /\ pc' = [pc EXCEPT ![a] = where]
          /\ where = "full" <=> pc[a] = "reap_full"
          /\ where = "wait" <=> pc[a] = "reap_wait"
          /\ where = "ack" <=> pc[a] = "reap_first"
          /\ where = "idle" <=> pc[a] = "reap_second"
  <2>1. pc' = [pc EXCEPT ![a] = AfterCleanup[pc[a]]]
    BY <1>2 DEF Goto
  <2>2. pc[a] \in {"reap_full", "reap_wait", "reap_first", "reap_second"}
    BY <1>3 DEF Cleaning
  <2> QED  BY <2>1, <2>2, CleanupPlaces
<1>5. pc'[a] = where /\ \A x \in Actors : x # a => pc'[x] = pc[x]
  BY <1>4 DEF Kinds
<1>6. /\ a = Irq => where \in {"ack", "idle"}
      /\ a # Irq => a \in Submitters /\ where \in {"full", "wait"}
  BY <1>3, <1>4 DEF Kinds, IrqPlaces, Cleaning, Actors
<1>7. Kinds'
  <2>1. pc' \in [Actors -> {"idle"} \cup Preparing \cup Submitted \cup IrqPlaces]
    BY <1>4 DEF Kinds, Preparing, Submitted, IrqPlaces
  <2>2. (\A x \in Submitters : pc'[x] \notin IrqPlaces \ {"idle"}) /\ pc'[Irq] \in IrqPlaces
    BY <1>3, <1>5, <1>6 DEF Kinds, IrqPlaces
  <2>3. reap' \in [by : Actors \cup {Nobody}, at : Slots, cached : Slots, flushed : BOOLEAN,
                   hwLast : Slots]
    BY <1>2, DmaAssumption DEF NotReaping, Slots
  <2> QED  BY <1>2, <2>1, <2>2, <2>3 DEF Kinds
<1>8. \A x \in Submitters : /\ pc'[x] \in Preparing <=> pc[x] \in Preparing
                            /\ pc'[x] # pc[x] => pc'[x] \in {"full", "wait"}
                            /\ pc'[x] = "full" => pc[x] \in {"full", "reap_full"}
                            /\ pc'[x] = "wait" => pc[x] \in {"wait", "reap_wait"}
                            /\ pc'[x] # pc[x] => pc[x] \in {"reap_full", "reap_wait"}
  BY <1>3, <1>4, <1>5, <1>6 DEF Preparing, Cleaning
<1>9. Locks'
  BY <1>2, <1>8 DEF Locks, NotReaping
<1>10. Counted(n, B)' /\ Txs(n, B, R)' /\ Moves(n, B, N)' /\ Reaps(n, B, R)' /\ Descs(n, B, N, Q)'
       /\ Validity(V, N, P)'
  BY <1>1, <1>2 DEF Counted, Txs, Moves, MovedOf, Reaps, Descs, Validity
<1>11. Placed(R, R, C, N, V, P, H, Q)'
  <2>1. tail' = R % RingSize /\ reap'.by = Nobody
    BY <1>1, <1>2, <1>3 DEF Placed, NotReaping
  <2>2. RingSize \in Nat
    BY DmaAssumption
  <2> QED  BY <1>1, <1>2, <2>1, <2>2 DEF Placed
<1>12. Stages(n, B, R, P, H, Q)'
  <2>1. T <= R /\ RingSize \in Nat
    BY <1>1, DmaAssumption DEF Placed
  <2>2. \A x \in Submitters : pc[x] = "program" => Q + job[x].left - R < RingSize
    <3> SUFFICES ASSUME NEW x \in Submitters, pc[x] = "program"
                 PROVE  Q + job[x].left - R < RingSize
      OBVIOUS
    <3>1. job[x].left \in 1..Size[x] /\ Q + job[x].left - T < RingSize /\ Size[x] \in Nat
      BY <1>1, DmaAssumption DEF Stages
    <3> QED  BY <3>1, <2>1
  <2>3. \A x \in Submitters : /\ pc'[x] = "program" <=> pc[x] = "program"
                              /\ pc'[x] = "valid" <=> pc[x] = "valid"
                              /\ pc'[x] = "head" <=> pc[x] = "head"
                              /\ pc'[x] \in {"reap_full", "full"} => pc[x] \in {"reap_full", "full"}
    BY <1>8
  <2> QED  BY <1>1, <1>2, <2>2, <2>3 DEF Stages
<1>13. Cookies(n)'
  <2>1. \A x \in Submitters :
            /\ pc'[x] \in {"valid", "head"} \cup Submitted =>
                   pc[x] \in {"valid", "head"} \cup Submitted
            /\ pc'[x] = "poll" => pc[x] = "poll"
    BY <1>8 DEF Submitted
  <2> QED  BY <1>1, <1>2, <2>1 DEF Cookies
<1>14. Interrupted(n, B, R, C, V, N)'
  <2>1. reap'.by # Irq
    BY <1>2 DEF NotReaping, Irq, Nobody
  <2>2. Quiet' <=> Quiet
    BY <1>2 DEF Quiet
  <2>3. CASE a # Irq
    BY <1>1, <1>2, <1>3, <1>5, <2>1, <2>2, <2>3 DEF Interrupted
  <2>4. CASE a = Irq /\ where = "ack"
    BY <1>1, <1>2, <1>4, <1>5, <2>1, <2>2, <2>4 DEF Interrupted
  <2>5. CASE a = Irq /\ where = "idle"
    BY <1>1, <1>2, <1>4, <1>5, <2>1, <2>2, <2>5 DEF Interrupted, Settled
  <2> QED  BY <1>6, <2>3, <2>4, <2>5
<1>15. Shape(n, B, R, R, C, N, V, P, H, Q)'
  BY <1>10, <1>11, <1>12, <1>13, <1>14 DEF Shape
<1> QED  BY <1>7, <1>9, <1>15 DEF DmaInv

LEMMA CleanupEndStep ==
    ASSUME NEW n \in Nat, NEW B \in [Nat -> Nat], NEW T \in Nat, NEW R \in Nat, NEW C \in Nat,
           NEW N \in Nat, NEW V \in Nat, NEW P \in Nat, NEW H \in Nat, NEW Q \in Nat,
           Kinds, Locks, Shape(n, B, T, R, C, N, V, P, H, Q),
           NEW a \in Actors, CleanupEnd(a)
    PROVE  DmaInv'
<1>1. /\ Placed(T, R, C, N, V, P, H, Q) /\ Stages(n, B, T, P, H, Q)
      /\ Interrupted(n, B, R, C, V, N)
  BY DEF Shape
<1>2. reap.by = a /\ reap.at = reap.cached /\ CleanupUnlock(a) /\ hw' = hw
  BY DEF CleanupEnd
<1>3. a # Nobody
  BY DmaAssumption DEF Actors, Nobody, Irq
<1>4. R = C
  <2>1. /\ R % RingSize = C % RingSize /\ R <= C /\ C <= H /\ T <= R /\ Q - T < RingSize
        /\ RingSize \in Nat \ {0, 1}
    BY <1>1, <1>2, <1>3, DmaAssumption DEF Placed
  <2>2. P <= Q /\ H <= P
    BY <1>1, Ends DEF Placed
  <2>3. R - C < RingSize /\ C - R < RingSize
    BY <2>1, <2>2
  <2> QED  BY <2>1, <2>3, SameSlot
<1>5. hw' \in [next : Slots, last : Slots, running : BOOLEAN] /\ hw'.next = hw.next
  BY <1>2 DEF Kinds
<1>6. a = Irq /\ pc[Irq] = "reap_second" /\ Quiet =>
          \A t \in 1..(n - 1) : B[t + 2] <= N => B[t + 1] <= R
  BY <1>1, <1>2, <1>4 DEF Interrupted
<1>7. a = Irq /\ pc[Irq] = "reap_second" /\ Quiet => Settled(n, B, R, N)
  BY <1>6 DEF Settled
<1> QED  BY <1>2, <1>5, <1>7, CleanupUnlockStep

LEMMA CleanupBreakStep ==
    ASSUME NEW n \in Nat, NEW B \in [Nat -> Nat], NEW T \in Nat, NEW R \in Nat, NEW C \in Nat,
           NEW N \in Nat, NEW V \in Nat, NEW P \in Nat, NEW H \in Nat, NEW Q \in Nat,
           Kinds, Locks, Shape(n, B, T, R, C, N, V, P, H, Q),
           NEW a \in Actors, CleanupBreak(a)
    PROVE  DmaInv'
<1>1. /\ Counted(n, B) /\ Placed(T, R, C, N, V, P, H, Q) /\ Validity(V, N, P)
      /\ Interrupted(n, B, R, C, V, N)
  BY DEF Shape
<1>2. /\ reap.by = a /\ reap.at \in valid /\ reap.flushed /\ CleanupUnlock(a)
      /\ hw' = hw \/ hw' = Started
  BY DEF CleanupBreak
<1>3. a # Nobody
  BY DmaAssumption DEF Actors, Nobody, Irq
<1>4. V <= R
  <2>1. /\ R % RingSize \in Span(V, P) /\ RingSize \in Nat \ {0, 1}
        /\ T <= R /\ R <= V /\ V <= N /\ N <= P /\ P <= Q /\ Q - T < RingSize
    BY <1>1, <1>2, <1>3, DmaAssumption DEF Placed, Validity
  <2>2. T <= V /\ P - T <= RingSize /\ R - T < RingSize
    BY <2>1
  <2> QED  BY <2>1, <2>2, InSpan
<1>5. hw' \in [next : Slots, last : Slots, running : BOOLEAN] /\ hw'.next = hw.next
  BY <1>2 DEF Kinds, Started
<1>6. ASSUME a = Irq, pc[Irq] = "reap_second", Quiet, NEW t \in 1..(n - 1), B[t + 2] <= N
      PROVE  B[t + 1] <= R
  <2>1. t \in 1..n /\ t + 1 \in 1..(n + 1) /\ t + 2 \in 1..(n + 1) /\ n \in Nat
    OBVIOUS
  <2>2. B[t + 2] - B[t + 1] >= (t + 2) - (t + 1) /\ B[t + 2] \in Nat /\ B[t + 1] \in Nat
    BY <1>1, <2>1 DEF Counted
  <2>3. B[t + 1] <= N
    BY <1>6, <2>2
  <2> QED  BY <1>1, <1>2, <1>4, <1>6, <2>1, <2>3 DEF Interrupted
<1>7. a = Irq /\ pc[Irq] = "reap_second" /\ Quiet => Settled(n, B, R, N)
  BY <1>6 DEF Settled
<1> QED  BY <1>2, <1>5, <1>7, CleanupUnlockStep

LEMMA WritesSpan ==
    ASSUME NEW V \in Nat, NEW N \in Nat, NEW P \in Nat, Validity(V, N, P), writes \in Seq(Slots)
    PROVE  {writes[i] : i \in DOMAIN writes} = Span(V, N)
<1>1. Len(writes) \in Nat /\ DOMAIN writes = 1..Len(writes) /\ N = V + Len(writes)
  BY DEF Validity
<1>2. ASSUME NEW i \in DOMAIN writes
      PROVE  writes[i] \in Span(V, N)
  <2>1. V + i - 1 \in V..(N - 1) /\ writes[i] = (V + i - 1) % RingSize
    BY <1>1 DEF Validity
  <2> QED  BY <2>1 DEF Span
<1>3. ASSUME NEW p \in V..(N - 1)
      PROVE  \E i \in DOMAIN writes : writes[i] = p % RingSize
  <2>1. p - V + 1 \in 1..Len(writes) /\ V + (p - V + 1) - 1 = p
    BY <1>1
  <2>2. writes[p - V + 1] = (V + (p - V + 1) - 1) % RingSize
    BY <2>1 DEF Validity
  <2> QED  BY <1>1, <2>1, <2>2
<1> QED  BY <1>2, <1>3 DEF Span

LEMMA CleanupFlushStep ==
    ASSUME NEW n \in Nat, NEW B \in [Nat -> Nat], NEW T \in Nat, NEW R \in Nat, NEW C \in Nat,
           NEW N \in Nat, NEW V \in Nat, NEW P \in Nat, NEW H \in Nat, NEW Q \in Nat,
           Kinds, Locks, Shape(n, B, T, R, C, N, V, P, H, Q),
           NEW a \in Actors, CleanupFlush(a)
    PROVE  DmaInv'
<1>1. /\ Counted(n, B) /\ Placed(T, R, C, N, V, P, H, Q) /\ Stages(n, B, T, P, H, Q)
      /\ Validity(V, N, P) /\ Txs(n, B, R) /\ Descs(n, B, N, Q) /\ Moves(n, B, N)
      /\ Reaps(n, B, R) /\ Cookies(n) /\ Interrupted(n, B, R, C, V, N)
  BY DEF Shape
<1>2. /\ reap.by = a /\ reap' = [reap EXCEPT !.flushed = TRUE, !.hwLast = hw.last]
      /\ valid' = valid \ {writes[i] : i \in DOMAIN writes} /\ writes' = <<>>
      /\ UNCHANGED <<head, tail, tx, cookie, hang, pc, job, prepLock, hw, moved,
                     status, msi, desc, size, ran>>
  BY DEF CleanupFlush, swVars, runVars, intrVars, history
<1>3. /\ reap' \in [by : Actors \cup {Nobody}, at : Slots, cached : Slots, flushed : BOOLEAN,
                    hwLast : Slots]
      /\ reap'.by = reap.by /\ reap'.at = reap.at /\ reap'.cached = reap.cached
  BY <1>2 DEF Kinds
<1>4. Kinds'
  <2>1. writes' \in Seq(Slots)
    BY <1>2
  <2> QED  BY <1>2, <1>3, <2>1 DEF Kinds
<1>5. Locks'
  BY <1>2, <1>3 DEF Locks
<1>6. Counted(n, B)' /\ Txs(n, B, R)' /\ Moves(n, B, N)' /\ Reaps(n, B, R)' /\ Descs(n, B, N, Q)'
  BY <1>1, <1>2 DEF Counted, Txs, Moves, MovedOf, Reaps, Descs
<1>7. Stages(n, B, T, P, H, Q)' /\ Cookies(n)'
  BY <1>1, <1>2 DEF Stages, Cookies
<1>8. Placed(T, R, C, N, N, P, H, Q)'
  <2>1. T <= N /\ R <= N
    BY <1>1 DEF Placed
  <2>2. {T, R, C, N, N, P, H, Q} \subseteq Nat
    OBVIOUS
  <2>3. reap'.by # Nobody => /\ reap'.at = R % RingSize /\ reap'.cached = C % RingSize
                             /\ R <= C /\ C <= H
    BY <1>1, <1>3 DEF Placed
  <2>4. /\ N <= P /\ P <= Q /\ Q - T < RingSize /\ R <= H /\ T <= R
        /\ tail = T % RingSize /\ head = H % RingSize /\ hw.next = N % RingSize
        /\ reap'.by = Nobody => R = T
    BY <1>1, <1>3 DEF Placed
  <2> QED  BY <1>2, <2>1, <2>2, <2>3, <2>4 DEF Placed
<1>9. Validity(N, N, P)'
  <2>1. V <= N /\ N <= P /\ P - V <= RingSize
    BY <1>1, DmaAssumption DEF Placed
  <2>2. Span(V, P) \ Span(V, N) = Span(N, P)
    BY <2>1, SpanRest
  <2>3. {writes[i] : i \in DOMAIN writes} = Span(V, N)
    BY <1>1, WritesSpan DEF Kinds
  <2>4. valid' = Span(N, P)
    BY <1>1, <1>2, <2>2, <2>3 DEF Validity
  <2>5. Len(writes') = 0 /\ N = N + Len(writes')
    BY <1>2
  <2> QED  BY <2>4, <2>5 DEF Validity
<1>10. Interrupted(n, B, R, C, N, N)'
  <2>1. N <= R => \A t \in 1..n : B[t + 1] <= N => B[t + 1] <= R
    OBVIOUS
  <2> QED  BY <1>1, <1>2, <1>3, <2>1 DEF Interrupted, Quiet
<1>11. Shape(n, B, T, R, C, N, N, P, H, Q)'
  BY <1>6, <1>7, <1>8, <1>9, <1>10 DEF Shape
<1> QED  BY <1>4, <1>5, <1>11 DEF DmaInv

(* All that belongs to a transfer prepared is programmed. *)
LEMMA AllProgrammed ==
    ASSUME NEW n \in Nat, NEW B \in [Nat -> Nat], NEW T \in Nat, NEW P \in Nat, NEW H \in Nat,
           NEW Q \in Nat, Counted(n, B), Stages(n, B, T, P, H, Q)
    PROVE  \A t \in 1..n : B[t + 1] \in Nat /\ B[t + 1] <= Q
<1> SUFFICES ASSUME NEW t \in 1..n PROVE B[t + 1] \in Nat /\ B[t + 1] <= Q
  OBVIOUS
<1>1. B[n + 1] <= Q
  BY Ends
<1>2. B[n + 1] - B[t + 1] >= (n + 1) - (t + 1)
  BY DEF Counted
<1> QED  BY <1>1, <1>2

LEMMA CleanupOneStep ==
    ASSUME NEW n \in Nat, NEW B \in [Nat -> Nat], NEW T \in Nat, NEW R \in Nat, NEW C \in Nat,
           NEW N \in Nat, NEW V \in Nat, NEW P \in Nat, NEW H \in Nat, NEW Q \in Nat,
           Kinds, Locks, Shape(n, B, T, R, C, N, V, P, H, Q),
           NEW a \in Actors, CleanupOne(a)
    PROVE  DmaInv'
<1>1. /\ Counted(n, B) /\ Placed(T, R, C, N, V, P, H, Q) /\ Stages(n, B, T, P, H, Q)
      /\ Validity(V, N, P) /\ Txs(n, B, R) /\ Descs(n, B, N, Q) /\ Moves(n, B, N)
      /\ Reaps(n, B, R) /\ Cookies(n) /\ Interrupted(n, B, R, C, V, N)
  BY DEF Shape
<1>2. /\ reap.by = a /\ reap.at # reap.cached /\ reap.at \notin valid
      /\ reap' = [reap EXCEPT !.at = RingInc(@), !.flushed = FALSE, !.hwLast = 0]
      /\ UNCHANGED <<head, tail, hang, valid, pc, job, prepLock, hw, writes, moved,
                     status, msi, desc, size>>
  BY DEF CleanupOne, runVars, hwVars, intrVars
<1>3. a # Nobody /\ RingSize \in Nat \ {0, 1} /\ 0 \in Slots
  BY DmaAssumption DEF Actors, Nobody, Irq, Slots
<1>4. /\ reap.at = R % RingSize /\ reap.cached = C % RingSize /\ R <= C /\ C <= H
      /\ T <= R /\ R <= V /\ V <= N /\ N <= P /\ P <= Q /\ Q - T < RingSize
  BY <1>1, <1>2, <1>3 DEF Placed
<1>5. R < C /\ H <= P /\ C <= P /\ R < P
  <2>1. R # C
    BY <1>2, <1>4
  <2>2. H <= P
    BY <1>1, Ends
  <2> QED  BY <2>1, <2>2, <1>4
<1>6. R + 1 <= V
  <2>1. R % RingSize \notin Span(V, P)
    BY <1>1, <1>2, <1>4 DEF Validity
  <2>2. T <= V /\ P - T <= RingSize /\ R - T < RingSize
    BY <1>3, <1>4
  <2>3. ~(V <= R /\ R < P)
    BY <2>1, <2>2, <1>4, InSpan
  <2> QED  BY <2>3, <1>5
<1>7. reap.at \in Slots /\ RingInc(reap.at) = (R + 1) % RingSize /\ (R + 1) % RingSize \in Slots
  BY <1>4, SlotOf
<1>8. /\ reap' \in [by : Actors \cup {Nobody}, at : Slots, cached : Slots, flushed : BOOLEAN,
                    hwLast : Slots]
      /\ reap'.by = a /\ reap'.at = (R + 1) % RingSize /\ reap'.cached = reap.cached
      /\ ~reap'.flushed
  BY <1>2, <1>3, <1>7 DEF Kinds
<1>9. Locks'
  BY <1>2, <1>8 DEF Locks
<1>10. Counted(n, B)' /\ Moves(n, B, N)' /\ Descs(n, B, N, Q)' /\ Validity(V, N, P)'
  BY <1>1, <1>2 DEF Counted, Moves, MovedOf, Descs, Validity
<1>11. Stages(n, B, T, P, H, Q)'
  BY <1>1, <1>2 DEF Stages
<1>12. Placed(T, R + 1, C, N, V, P, H, Q)'
  <2>1. {T, R + 1, C, N, V, P, H, Q} \subseteq Nat
    OBVIOUS
  <2>2. /\ T <= R + 1 /\ R + 1 <= V /\ R + 1 <= C /\ R + 1 <= H
    BY <1>4, <1>5, <1>6
  <2>3. tail = T % RingSize /\ head = H % RingSize /\ hw.next = N % RingSize
    BY <1>1 DEF Placed
  <2> QED  BY <1>2, <1>3, <1>4, <1>8, <2>1, <2>2, <2>3 DEF Placed
<1>13. Interrupted(n, B, R + 1, C, V, N)'
  <2>1. \A t \in Nat : B[t] <= R => B[t] <= R + 1
    OBVIOUS
  <2> QED  BY <1>1, <1>2, <1>8, <2>1 DEF Interrupted, Quiet
<1>14. tx \in [Slots -> [cookie : Nat, transfer : Nat]]
  BY DEF Kinds
<1>15. ran \in Seq(Nat)
  BY DEF Kinds
<1>16. PICK k \in Nat : k = Len(ran)
  BY <1>15
<1>17. k <= n /\ (\A i \in 1..k : ran[i] = i) /\ \A u \in 1..n : B[u + 1] <= R <=> u <= k
  BY <1>1, <1>16, Zenon DEF Reaps
<1>18. \A u \in 1..n : R < B[u + 1] /\ R % RingSize = (B[u + 1] - 1) % RingSize =>
                         R = B[u + 1] - 1
  <2> SUFFICES ASSUME NEW u \in 1..n, R < B[u + 1], R % RingSize = (B[u + 1] - 1) % RingSize
               PROVE  R = B[u + 1] - 1
    OBVIOUS
  <2>1. B[u + 1] \in Nat /\ B[u + 1] <= Q
    BY <1>1, AllProgrammed
  <2>2. /\ B[u + 1] - 1 \in Nat /\ R - (B[u + 1] - 1) < RingSize
        /\ (B[u + 1] - 1) - R < RingSize
    BY <2>1, <1>3, <1>4
  <2> QED  BY <2>2, SameSlot
<1>19. CASE tx[reap.at].cookie = 0
  <2>1. UNCHANGED <<tx, cookie, ran>>
    BY <1>19 DEF CleanupOne
  <2>2. Kinds'
    BY <1>2, <1>8, <2>1 DEF Kinds
  <2>3. \A t \in 1..n : B[t + 1] # R + 1
    <3> SUFFICES ASSUME NEW t \in 1..n, B[t + 1] = R + 1 PROVE FALSE
      OBVIOUS
    <3>1. R < B[t + 1] /\ B[t + 1] - 1 = R /\ t \in Nat
      OBVIOUS
    <3>2. tx[R % RingSize] = [cookie |-> CookieOf(t), transfer |-> t]
      BY <1>1, <3>1 DEF Txs
    <3>3. CookieOf(t) \in 1..CookieMax
      BY <3>1, CookieNext
    <3> QED  BY <3>2, <3>3, <1>4, <1>19
  <2>4. \A t \in 1..n : B[t + 1] \in Nat /\ (R < B[t + 1] <=> R + 1 < B[t + 1])
    BY <2>3
  <2>5. Txs(n, B, R + 1)' /\ Reaps(n, B, R + 1)'
    <3>1. \A t \in 1..n : B[t + 1] <= R + 1 <=> t <= k
      BY <1>17, <2>4
    <3>2. Reaps(n, B, R + 1)'
      BY <1>16, <1>17, <2>1, <3>1, Zenon DEF Reaps
    <3> QED  BY <1>1, <2>1, <2>4, <3>2 DEF Txs
  <2>6. Cookies(n)'
    BY <1>1, <1>2, <2>1 DEF Cookies
  <2>7. Shape(n, B, T, R + 1, C, N, V, P, H, Q)'
    BY <1>10, <1>11, <1>12, <1>13, <2>5, <2>6 DEF Shape
  <2>8. R + 1 \in Nat
    OBVIOUS
  <2> QED  BY <2>2, <1>9, <2>7, <2>8 DEF DmaInv
<1>20. CASE tx[reap.at].cookie # 0
  <2>1. /\ cookie' = [cookie EXCEPT !.completed = tx[reap.at].cookie]
        /\ ran' = Append(ran, tx[reap.at].transfer) /\ tx' = [tx EXCEPT ![reap.at] = NoTx]
    BY <1>20 DEF CleanupOne
  <2>2. PICK t \in 1..n : R < B[t + 1] /\ reap.at = (B[t + 1] - 1) % RingSize
    <3>1. tx[reap.at] # NoTx
      BY <1>20 DEF NoTx
    <3> QED  BY <3>1, <1>1, <1>7 DEF Txs
  <2>3. B[t + 1] = R + 1
    <3>1. R = B[t + 1] - 1
      BY <1>4, <1>18, <2>2
    <3> QED  BY <3>1
  <2>4. tx[reap.at] = [cookie |-> CookieOf(t), transfer |-> t]
    BY <1>1, <2>2 DEF Txs
  <2>5. t = k + 1
    <3>1. t > k
      BY <1>17, <2>2
    <3>2. ASSUME t > k + 1 PROVE FALSE
      <4>1. t - 1 \in 1..n /\ t \in 1..(n + 1) /\ t + 1 \in 1..(n + 1) /\ ~(t - 1 <= k)
        BY <3>2
      <4>2. ~(B[t] <= R)
        <5>1. t - 1 + 1 = t
          OBVIOUS
        <5> QED  BY <1>17, <4>1, <5>1
      <4>3. B[t + 1] - B[t] >= (t + 1) - t /\ B[t] \in Nat
        BY <1>1, <4>1 DEF Counted
      <4> QED  BY <2>3, <4>2, <4>3
    <3> QED  BY <3>1, <3>2
  <2>6. /\ ran' \in Seq(Nat) /\ Len(ran') = k + 1 /\ ran'[k + 1] = t
        /\ \A i \in 1..k : ran'[i] = ran[i]
    <3>1. tx[reap.at].transfer = t /\ t \in Nat
      BY <2>2, <2>4
    <3>2. ran' = Append(ran, t)
      BY <2>1, <3>1
    <3>3. ran' \in Seq(Nat)
      BY <1>15, <3>1, <3>2
    <3> QED  BY <1>15, <1>16, <3>1, <3>2, <3>3
  <2>7. /\ cookie' \in [used : Nat, completed : Nat]
        /\ cookie'.used = cookie.used /\ cookie'.completed = CookieOf(t)
    <3>1. CookieOf(t) \in Nat
      <4>1. CookieOf(t) \in 1..CookieMax
        BY CookieNext
      <4> QED  BY <4>1
    <3>2. cookie' = [cookie EXCEPT !.completed = CookieOf(t)]
      BY <2>1, <2>4
    <3> QED  BY <3>1, <3>2 DEF Kinds
  <2>8. Kinds'
    <3>1. tx' \in [Slots -> [cookie : Nat, transfer : Nat]]
      BY <1>14, <2>1 DEF NoTx
    <3> QED  BY <1>2, <1>8, <2>6, <2>7, <3>1 DEF Kinds
  <2>9. Reaps(n, B, R + 1)'
    <3>1. ASSUME NEW u \in 1..n
          PROVE  B[u + 1] <= R + 1 <=> u <= k + 1
      <4>1. u \in Nat /\ t \in Nat /\ u + 1 \in 1..(n + 1) /\ t + 1 \in 1..(n + 1)
            /\ B[u + 1] \in Nat
        OBVIOUS
      <4>2. CASE u <= t
        <5>1. B[t + 1] - B[u + 1] >= (t + 1) - (u + 1)
          BY <1>1, <4>1, <4>2 DEF Counted
        <5> QED  BY <2>3, <2>5, <4>1, <4>2, <5>1
      <4>3. CASE u > t
        <5>1. B[u + 1] - B[t + 1] >= (u + 1) - (t + 1)
          BY <1>1, <4>1, <4>3 DEF Counted
        <5> QED  BY <2>3, <2>5, <4>1, <4>3, <5>1
      <4> QED  BY <4>1, <4>2, <4>3
    <3>2. \A i \in 1..(k + 1) : ran'[i] = i
      <4>1. \A i \in 1..(k + 1) : i \in 1..k \/ i = k + 1
        OBVIOUS
      <4> QED  BY <1>17, <2>5, <2>6, <4>1
    <3>3. k + 1 <= n
      BY <2>2, <2>5
    <3> QED  BY <2>6, <3>1, <3>2, <3>3, Zenon DEF Reaps
  <2>10. Txs(n, B, R + 1)'
    <3>1. ASSUME NEW u \in 1..n, R + 1 < B[u + 1]
          PROVE  tx'[(B[u + 1] - 1) % RingSize] = [cookie |-> CookieOf(u), transfer |-> u]
      <4>1. R < B[u + 1] /\ B[u + 1] \in Nat /\ B[u + 1] - 1 \in Nat /\ R # B[u + 1] - 1
        BY <3>1
      <4>2. R % RingSize # (B[u + 1] - 1) % RingSize
        BY <1>18, <4>1
      <4>3. tx'[(B[u + 1] - 1) % RingSize] = tx[(B[u + 1] - 1) % RingSize]
        BY <1>4, <1>14, <2>1, <4>1, <4>2, SlotOf
      <4> QED  BY <1>1, <4>1, <4>3 DEF Txs
    <3>2. ASSUME NEW i \in Slots
          PROVE  tx'[i] = NoTx \/ \E u \in 1..n : R + 1 < B[u + 1] /\ i = (B[u + 1] - 1) % RingSize
      <4>1. CASE i = reap.at
        BY <4>1, <1>14, <2>1
      <4>2. CASE i # reap.at
        <5>1. tx'[i] = tx[i]
          BY <4>2, <1>14, <2>1
        <5>2. CASE tx[i] = NoTx
          BY <5>1, <5>2
        <5>3. CASE \E u \in 1..n : R < B[u + 1] /\ i = (B[u + 1] - 1) % RingSize
          <6>1. PICK u \in 1..n : R < B[u + 1] /\ i = (B[u + 1] - 1) % RingSize
            BY <5>3
          <6>2. B[u + 1] # R + 1
            <7> SUFFICES ASSUME B[u + 1] = R + 1 PROVE FALSE
              OBVIOUS
            <7>1. B[u + 1] - 1 = R
              OBVIOUS
            <7> QED  BY <7>1, <6>1, <4>2, <1>4
          <6>3. B[u + 1] \in Nat
            OBVIOUS
          <6>4. R + 1 < B[u + 1]
            BY <6>1, <6>2, <6>3
          <6> QED  BY <6>1, <6>4
        <5> QED  BY <5>2, <5>3, <1>1 DEF Txs
      <4> QED  BY <4>1, <4>2
    <3> QED  BY <3>1, <3>2 DEF Txs
  <2>11. Cookies(n)'
    <3>1. cookie'.used = CookieOf(n) /\ cookie'.completed = CookieOf(Len(ran'))
      BY <1>1, <2>5, <2>6, <2>7 DEF Cookies
    <3> QED  BY <1>1, <1>2, <3>1 DEF Cookies
  <2>12. Shape(n, B, T, R + 1, C, N, V, P, H, Q)'
    BY <1>10, <1>11, <1>12, <1>13, <2>9, <2>10, <2>11 DEF Shape
  <2>13. R + 1 \in Nat
    OBVIOUS
  <2> QED  BY <2>8, <1>9, <2>12, <2>13 DEF DmaInv
<1> QED  BY <1>19, <1>20

-----------------------------------------------------------------------------
(* Steps of the engine. *)

LEMMA TakesNext ==
    ASSUME NEW n \in Nat, NEW B \in [Nat -> Nat], NEW T \in Nat, NEW R \in Nat, NEW C \in Nat,
           NEW N \in Nat, NEW V \in Nat, NEW P \in Nat, NEW H \in Nat, NEW Q \in Nat,
           Kinds, Placed(T, R, C, N, V, P, H, Q), Validity(V, N, P), Takes
    PROVE  N < P /\ hw.next = N % RingSize /\ N % RingSize \in Slots
<1>1. /\ RingSize \in Nat \ {0, 1} /\ hw.next = N % RingSize
      /\ T <= R /\ R <= V /\ V <= N /\ N <= P /\ P <= Q /\ Q - T < RingSize
  BY DmaAssumption DEF Placed
<1>2. N % RingSize \in Span(V, P)
  BY <1>1 DEF Takes, Validity
<1>3. T <= V /\ P - T <= RingSize /\ T <= N /\ N - T < RingSize
  BY <1>1
<1>4. N % RingSize \in Span(V, P) <=> V <= N /\ N < P
  BY <1>3, InSpan
<1> QED  BY <1>1, <1>2, <1>4, SlotOf

LEMMA HwDoStep ==
    ASSUME NEW n \in Nat, NEW B \in [Nat -> Nat], NEW T \in Nat, NEW R \in Nat, NEW C \in Nat,
           NEW N \in Nat, NEW V \in Nat, NEW P \in Nat, NEW H \in Nat, NEW Q \in Nat,
           Kinds, Locks, Shape(n, B, T, R, C, N, V, P, H, Q), HwDo
    PROVE  DmaInv'
<1>1. /\ Counted(n, B) /\ Placed(T, R, C, N, V, P, H, Q) /\ Stages(n, B, T, P, H, Q)
      /\ Validity(V, N, P) /\ Txs(n, B, R) /\ Descs(n, B, N, Q) /\ Moves(n, B, N)
      /\ Reaps(n, B, R) /\ Cookies(n) /\ Interrupted(n, B, R, C, V, N)
  BY DEF Shape
<1>2. /\ Takes /\ hw' = [hw EXCEPT !.last = hw.next, !.next = (hw.next + 1) % RingSize]
      /\ writes' = Append(writes, hw.next) /\ moved' = [moved EXCEPT ![desc[hw.next]] = @ + 1]
      /\ UNCHANGED <<head, tail, tx, cookie, hang, valid, pc, job, prepLock, reap,
                     desc, size, ran>>
  BY DEF HwDo, swVars, runVars, history
<1>3. N < P /\ hw.next = N % RingSize /\ N % RingSize \in Slots
  BY <1>1, <1>2, TakesNext
<1>4. T <= R /\ R <= V /\ V <= N /\ P <= Q /\ Q - T < RingSize
  BY <1>1 DEF Placed
<1>5. (N + 1) % RingSize = (hw.next + 1) % RingSize /\ (N + 1) % RingSize \in Slots
  <2>1. RingInc(N % RingSize) = (N + 1) % RingSize
    BY SlotOf
  <2>2. (N + 1) % RingSize \in Slots
    BY SlotOf
  <2> QED  BY <2>1, <2>2, <1>3 DEF RingInc
<1>6. /\ hw' \in [next : Slots, last : Slots, running : BOOLEAN]
      /\ hw'.next = (N + 1) % RingSize
  BY <1>2, <1>3, <1>5 DEF Kinds
<1>7. PICK t \in 1..(n + 1) :
          desc[N % RingSize] = t /\ B[t] <= N /\ (t <= n => N < B[t + 1])
  <2>1. N \in N..(Q - 1)
    BY <1>3, <1>4
  <2> QED  BY <2>1, <1>1 DEF Descs
<1>8. /\ t \in Nat /\ B[t] \in Nat /\ B[n + 1] \in Nat /\ MaxTransfers \in Nat
      /\ n \in 0..MaxTransfers
  BY <1>1, DmaAssumption DEF Counted
<1>9. t \in Transfers
  <2>1. CASE t <= n
    BY <2>1, <1>8 DEF Transfers
  <2>2. CASE t = n + 1
    <3>1. Q # B[n + 1]
      BY <2>2, <1>3, <1>4, <1>7, <1>8
    <3>2. PICK s \in Submitters : pc[s] = "program"
      BY <3>1, <1>1 DEF Stages
    <3>3. n < MaxTransfers
      BY <3>2, <1>1 DEF Stages
    <3> QED  BY <2>2, <3>3, <1>8 DEF Transfers
  <2> QED  BY <2>1, <2>2, <1>7
<1>10. moved \in [Transfers -> Nat] /\ moved' = [moved EXCEPT ![t] = @ + 1]
  BY <1>2, <1>3, <1>7 DEF Kinds
<1>11. /\ moved' \in [Transfers -> Nat] /\ moved'[t] = moved[t] + 1
       /\ \A u \in Transfers : u # t => moved'[u] = moved[u]
  BY <1>9, <1>10
<1>12. writes \in Seq(Slots)
  BY DEF Kinds
<1>13. PICK k \in Nat : k = Len(writes)
  BY <1>12
<1>14. /\ writes' \in Seq(Slots) /\ Len(writes') = k + 1 /\ writes'[k + 1] = N % RingSize
       /\ \A i \in 1..k : writes'[i] = writes[i]
  <2>1. writes' = Append(writes, N % RingSize)
    BY <1>2, <1>3
  <2> QED  BY <1>3, <1>12, <1>13, <2>1
<1>15. \/ status' = status /\ msi' = msi
       \/ status' = status \cup {"done"} /\ (msi' <=> msi \/ "done" \notin status)
  BY DEF HwDo, Interrupt, intrVars
<1>16. Kinds'
  <2>1. status' \subseteq {"done", "error"}
    BY <1>15 DEF Kinds
  <2> QED  BY <1>2, <1>6, <1>11, <1>14, <2>1 DEF Kinds
<1>17. Locks'
  BY <1>2 DEF Locks
<1>18. Counted(n, B)' /\ Txs(n, B, R)' /\ Reaps(n, B, R)'
  BY <1>1, <1>2 DEF Counted, Txs, Reaps
<1>19. Stages(n, B, T, P, H, Q)' /\ Cookies(n)'
  BY <1>1, <1>2 DEF Stages, Cookies
<1>20. Descs(n, B, N + 1, Q)'
  <2>1. \A p \in (N + 1)..(Q - 1) : p \in N..(Q - 1)
    OBVIOUS
  <2> QED  BY <1>1, <1>2, <2>1 DEF Descs
<1>21. Placed(T, R, C, N + 1, V, P, H, Q)'
  <2>1. {T, R, C, N + 1, V, P, H, Q} \subseteq Nat
    OBVIOUS
  <2>2. T <= R /\ R <= V /\ V <= N + 1 /\ N + 1 <= P
    BY <1>3, <1>4
  <2> QED  BY <1>1, <1>2, <1>6, <2>1, <2>2 DEF Placed
<1>22. Validity(V, N + 1, P)'
  <2>1. N = V + k /\ \A i \in 1..k : writes[i] = (V + i - 1) % RingSize
    BY <1>1, <1>13 DEF Validity
  <2>2. \A i \in 1..(k + 1) : writes'[i] = (V + i - 1) % RingSize
    <3>1. \A i \in 1..(k + 1) : i \in 1..k \/ i = k + 1
      OBVIOUS
    <3>2. V + (k + 1) - 1 = N
      BY <2>1
    <3> QED  BY <1>14, <2>1, <3>1, <3>2
  <2>3. N + 1 = V + (k + 1)
    BY <2>1
  <2>4. valid' = Span(V, P)
    BY <1>1, <1>2 DEF Validity
  <2> QED  BY <1>14, <2>2, <2>3, <2>4 DEF Validity
<1>23. \A i, j \in 1..(n + 1) : i < j => B[i] < B[j]
  <2> SUFFICES ASSUME NEW i \in 1..(n + 1), NEW j \in 1..(n + 1), i < j PROVE B[i] < B[j]
    OBVIOUS
  <2>1. B[j] - B[i] >= j - i /\ B[i] \in Nat /\ B[j] \in Nat
    BY <1>1 DEF Counted
  <2> QED  BY <2>1
<1>24. Moves(n, B, N + 1)'
  <2> SUFFICES ASSUME NEW u \in Transfers PROVE MovedOf(n, B, N + 1, u)'
    BY DEF Moves
  <2>7. size' = size
    BY <1>2
  <2>1. /\ u <= n /\ B[u + 1] <= N => moved[u] = size[u]
        /\ u <= n + 1 /\ B[u] <= N /\ (u <= n => N < B[u + 1]) => moved[u] = N - B[u]
        /\ u > n + 1 \/ N < B[u] => moved[u] = 0
    BY <1>1 DEF Moves, MovedOf
  <2>2. u \in Nat /\ u >= 1 /\ B[u] \in Nat /\ B[u + 1] \in Nat
    BY DEF Transfers
  <2>3. u <= n => B[u + 1] = B[u] + size[u] /\ size[u] \in Nat /\ size[u] # 0
    BY <1>1, <2>2 DEF Counted, Kinds
  <2>4. CASE u = t
    BY <2>1, <2>2, <2>3, <2>4, <2>7, <1>7, <1>11 DEF MovedOf
  <2>5. CASE u < t
    <3>1. u + 1 <= t /\ u <= n
      BY <2>2, <2>5, <1>7
    <3>2. B[u + 1] <= B[t]
      <4>1. CASE u + 1 = t
        BY <4>1, <1>8
      <4>2. CASE u + 1 < t
        BY <4>2, <2>2, <3>1, <1>23
      <4> QED  BY <3>1, <4>1, <4>2, <2>2
    <3>3. moved'[u] = moved[u]
      BY <2>5, <1>11, <2>2
    <3> QED  BY <2>1, <2>2, <2>3, <2>7, <3>1, <3>2, <3>3, <1>7, <1>8 DEF MovedOf
  <2>6. CASE u > t
    <3>1. moved'[u] = moved[u]
      BY <2>6, <1>11, <1>8, <2>2
    <3>2. CASE u > n + 1
      BY <2>1, <2>2, <2>7, <3>1, <3>2 DEF MovedOf
    <3>3. CASE u <= n + 1
      <4>1. t <= n /\ t + 1 <= u
        BY <2>6, <3>3, <2>2, <1>7
      <4>2. B[t + 1] <= B[u] /\ B[t + 1] \in Nat
        <5>1. CASE t + 1 = u
          BY <5>1, <2>2
        <5>2. CASE t + 1 < u
          BY <5>2, <2>2, <3>3, <4>1, <1>23
        <5> QED  BY <4>1, <5>1, <5>2, <2>2
      <4>3. N < B[u] /\ moved[u] = 0
        BY <2>1, <2>2, <4>1, <4>2, <1>7
      <4> QED  BY <2>2, <2>3, <2>7, <3>1, <3>3, <4>3 DEF MovedOf
    <3> QED  BY <2>2, <3>2, <3>3
  <2> QED  BY <2>2, <2>4, <2>5, <2>6, <1>8
<1>25. Interrupted(n, B, R, C, V, N + 1)'
  <2>1. CASE status' = status \cup {"done"} /\ (msi' <=> msi \/ "done" \notin status)
    <3>1. "done" \in status' /\ status' # {}
      BY <2>1
    <3>2. Quiet' => Quiet /\ "done" \in status
      BY <1>2, <2>1 DEF Quiet
    <3>3. Quiet' => pc'[Irq] \in {"reap_first", "ack", "ack_done", "ack_error"}
      BY <1>1, <1>2, <3>2 DEF Interrupted
    <3>4. pc'[Irq] \in {"reap_first", "ack", "ack_done"} /\ msi' => "error" \in status'
      <4>1. status \subseteq {"done", "error"}
        BY DEF Kinds
      <4>2. pc[Irq] \in {"reap_first", "ack", "ack_done"} =>
                (msi => "error" \in status) /\ ("done" \notin status => "error" \in status)
        BY <1>1, <4>1 DEF Interrupted
      <4> QED  BY <1>2, <2>1, <4>2
    <3> QED  BY <1>1, <1>2, <3>1, <3>3, <3>4 DEF Interrupted
  <2>2. CASE /\ status' = status /\ msi' = msi
             /\ ~(status' = status \cup {"done"} /\ (msi' <=> msi \/ "done" \notin status))
    <3>1. tx[N % RingSize].transfer # t
      BY <2>2, <1>3, <1>7 DEF HwDo, Interrupt
    <3>2. \A u \in 1..n : B[u + 1] # N + 1
      <4> SUFFICES ASSUME NEW u \in 1..n, B[u + 1] = N + 1 PROVE FALSE
        OBVIOUS
      <4>1. R < B[u + 1] /\ B[u + 1] - 1 = N
        BY <1>4
      <4>2. tx[N % RingSize].transfer = u
        <5>1. tx[(B[u + 1] - 1) % RingSize] = [cookie |-> CookieOf(u), transfer |-> u]
          BY <1>1, <4>1 DEF Txs
        <5> QED  BY <4>1, <5>1
      <4>3. u # t /\ u \in Nat
        BY <3>1, <4>2
      <4>4. CASE u < t
        <5>1. u + 1 = t \/ u + 1 < t
          BY <4>3, <4>4, <1>8
        <5> QED  BY <5>1, <1>7, <1>8, <1>23
      <4>5. CASE t < u
        <5>1. t <= n /\ t + 1 \in 1..(n + 1) /\ u + 1 \in 1..(n + 1) /\ t + 1 < u + 1
          BY <4>5, <1>7, <1>8
        <5>2. B[t + 1] < B[u + 1] /\ N < B[t + 1] /\ B[t + 1] \in Nat
          BY <5>1, <1>7, <1>23
        <5> QED  BY <5>2
      <4> QED  BY <4>3, <4>4, <4>5, <1>8
    <3>3. \A u \in 1..n : B[u + 1] <= N + 1 => B[u + 1] <= N
      <4> SUFFICES ASSUME NEW u \in 1..n, B[u + 1] <= N + 1 PROVE B[u + 1] <= N
        OBVIOUS
      <4>1. B[u + 1] # N + 1 /\ B[u + 1] \in Nat
        BY <3>2
      <4> QED  BY <4>1
    <3>4. \A u \in 1..(n - 1) : B[u + 2] <= N + 1 => B[u + 2] <= N
      <4> SUFFICES ASSUME NEW u \in 1..(n - 1) PROVE B[u + 2] <= N + 1 => B[u + 2] <= N
        OBVIOUS
      <4>1. u + 1 \in 1..n /\ (u + 1) + 1 = u + 2
        OBVIOUS
      <4> QED  BY <4>1, <3>3
    <3> QED  BY <1>1, <1>2, <2>2, <3>3, <3>4 DEF Interrupted, Quiet
  <2> QED  BY <1>15, <2>1, <2>2
<1>26. Shape(n, B, T, R, C, N + 1, V, P, H, Q)'
  BY <1>18, <1>19, <1>20, <1>21, <1>22, <1>24, <1>25 DEF Shape
<1>27. N + 1 \in Nat
  OBVIOUS
<1> QED  BY <1>16, <1>17, <1>26, <1>27 DEF DmaInv

LEMMA WriteBackStep ==
    ASSUME NEW n \in Nat, NEW B \in [Nat -> Nat], NEW T \in Nat, NEW R \in Nat, NEW C \in Nat,
           NEW N \in Nat, NEW V \in Nat, NEW P \in Nat, NEW H \in Nat, NEW Q \in Nat,
           Kinds, Locks, Shape(n, B, T, R, C, N, V, P, H, Q), WriteBack
    PROVE  DmaInv'
<1>1. /\ Counted(n, B) /\ Placed(T, R, C, N, V, P, H, Q) /\ Stages(n, B, T, P, H, Q)
      /\ Validity(V, N, P) /\ Txs(n, B, R) /\ Descs(n, B, N, Q) /\ Moves(n, B, N)
      /\ Reaps(n, B, R) /\ Cookies(n) /\ Interrupted(n, B, R, C, V, N)
  BY DEF Shape
<1>2. /\ writes # <<>> /\ valid' = valid \ {Head(writes)} /\ writes' = Tail(writes)
      /\ UNCHANGED <<head, tail, tx, cookie, hang, pc, job, prepLock, reap, hw, moved,
                     status, msi, desc, size, ran>>
  BY DEF WriteBack, swVars, runVars, intrVars, history
<1>3. writes \in Seq(Slots)
  BY DEF Kinds
<1>4. PICK k \in Nat : k = Len(writes)
  BY <1>3
<1>5. k >= 1 /\ Head(writes) = writes[1]
  BY <1>2, <1>3, <1>4
<1>6. N = V + k /\ \A i \in 1..k : writes[i] = (V + i - 1) % RingSize
  BY <1>1, <1>4 DEF Validity
<1>7. /\ writes' \in Seq(Slots) /\ Len(writes') = k - 1
      /\ \A i \in 1..(k - 1) : writes'[i] = writes[i + 1]
  BY <1>2, <1>3, <1>4
<1>8. Kinds'
  BY <1>2, <1>7 DEF Kinds
<1>9. Locks'
  BY <1>2 DEF Locks
<1>10. Counted(n, B)' /\ Txs(n, B, R)' /\ Moves(n, B, N)' /\ Reaps(n, B, R)' /\ Descs(n, B, N, Q)'
  BY <1>1, <1>2 DEF Counted, Txs, Moves, MovedOf, Reaps, Descs
<1>11. Stages(n, B, T, P, H, Q)' /\ Cookies(n)'
  BY <1>1, <1>2 DEF Stages, Cookies
<1>12. V + 1 \in Nat /\ V + 1 <= N
  BY <1>5, <1>6
<1>13. Placed(T, R, C, N, V + 1, P, H, Q)'
  <2>1. {T, R, C, N, V + 1, P, H, Q} \subseteq Nat
    BY <1>12
  <2>2. R <= V + 1
    BY <1>1 DEF Placed
  <2> QED  BY <1>1, <1>2, <1>12, <2>1, <2>2 DEF Placed
<1>14. Validity(V + 1, N, P)'
  <2>1. V <= V + 1 /\ V + 1 <= P /\ P - V <= RingSize
    BY <1>1, <1>12, DmaAssumption DEF Placed
  <2>2. Span(V, P) \ Span(V, V + 1) = Span(V + 1, P)
    BY <2>1, <1>12, SpanRest
  <2>3. Span(V, V + 1) = Span(V, V) \cup {V % RingSize}
    BY SpanLonger
  <2>4. Span(V, V) = {}
    BY DEF Span
  <2>5. Head(writes) = V % RingSize
    <3>1. 1 \in 1..k /\ V + 1 - 1 = V
      BY <1>5
    <3> QED  BY <1>5, <1>6, <3>1
  <2>6. valid' = Span(V + 1, P)
    BY <1>1, <1>2, <2>2, <2>3, <2>4, <2>5 DEF Validity
  <2>7. N = (V + 1) + (k - 1)
    BY <1>6
  <2>8. \A i \in 1..(k - 1) : writes'[i] = ((V + 1) + i - 1) % RingSize
    <3> SUFFICES ASSUME NEW i \in 1..(k - 1)
                 PROVE  writes'[i] = ((V + 1) + i - 1) % RingSize
      OBVIOUS
    <3>1. i + 1 \in 1..k /\ V + (i + 1) - 1 = (V + 1) + i - 1
      OBVIOUS
    <3> QED  BY <1>6, <1>7, <3>1
  <2> QED  BY <1>7, <2>6, <2>7, <2>8 DEF Validity
<1>15. Interrupted(n, B, R, C, V + 1, N)'
  <2>1. V + 1 <= R => V <= R
    OBVIOUS
  <2> QED  BY <1>1, <1>2, <2>1 DEF Interrupted, Quiet
<1>16. Shape(n, B, T, R, C, N, V + 1, P, H, Q)'
  BY <1>10, <1>11, <1>13, <1>14, <1>15 DEF Shape
<1> QED  BY <1>8, <1>9, <1>12, <1>16 DEF DmaInv

LEMMA HwStopStep ==
    ASSUME NEW n \in Nat, NEW B \in [Nat -> Nat], NEW T \in Nat, NEW R \in Nat, NEW C \in Nat,
           NEW N \in Nat, NEW V \in Nat, NEW P \in Nat, NEW H \in Nat, NEW Q \in Nat,
           Kinds, Locks, Shape(n, B, T, R, C, N, V, P, H, Q), HwStop \/ HwStall \/ HwError
    PROVE  DmaInv'
<1>1. Stages(n, B, T, P, H, Q) /\ Cookies(n) /\ Interrupted(n, B, R, C, V, N)
  BY DEF Shape
<1>2. UNCHANGED <<head, tail, tx, cookie, hang, valid, pc, job, prepLock, reap, writes, moved,
                  desc, size, ran>>
  BY DEF HwStop, HwStall, HwError, swVars, runVars, history
<1>3. /\ hw' \in [next : Slots, last : Slots, running : BOOLEAN] /\ hw'.next = hw.next
  BY DEF HwStop, HwStall, HwError, Kinds
<1>4. \/ status' = status /\ msi' = msi
      \/ status' = status \cup {"error"} /\ (msi' <=> msi \/ "error" \notin status)
  BY DEF HwStop, HwStall, HwError, Interrupt, intrVars
<1>5. Kinds'
  <2>1. status' \subseteq {"done", "error"}
    BY <1>4 DEF Kinds
  <2> QED  BY <1>2, <1>3, <2>1 DEF Kinds
<1>6. Locks' /\ Stages(n, B, T, P, H, Q)' /\ Cookies(n)'
  BY <1>1, <1>2 DEF Locks, Stages, Cookies
<1>7. Interrupted(n, B, R, C, V, N)'
  <2>1. /\ "done" \in status' <=> "done" \in status
        /\ status # {} => status' # {}
        /\ Quiet' => Quiet
        /\ msi' /\ ~hang' => (msi /\ ~hang) \/ status' # {}
        /\ msi' => msi \/ "error" \in status'
        /\ "error" \in status => "error" \in status'
    BY <1>2, <1>4 DEF Quiet
  <2> QED  BY <1>1, <1>2, <2>1 DEF Interrupted
<1> QED  BY <1>2, <1>3, <1>5, <1>6, <1>7, SameRing

-----------------------------------------------------------------------------
(* Steps of the interrupt thread. *)

LEMMA IrqStep ==
    ASSUME NEW n \in Nat, NEW B \in [Nat -> Nat], NEW T \in Nat, NEW R \in Nat, NEW C \in Nat,
           NEW N \in Nat, NEW V \in Nat, NEW P \in Nat, NEW H \in Nat, NEW Q \in Nat,
           Kinds, Locks, Shape(n, B, T, R, C, N, V, P, H, Q), Interrupts
    PROVE  DmaInv'
<1>1. Stages(n, B, T, P, H, Q) /\ Cookies(n) /\ Interrupted(n, B, R, C, V, N)
  BY DEF Shape
<1>2. UNCHANGED <<head, tail, tx, cookie, valid, job, prepLock, reap, hw, writes, moved,
                  desc, size, ran>>
  BY DEF Interrupts, IrqWake, IrqAckRead, IrqAckWrite, swVars, hwVars, history
<1>3. Irq \in Actors /\ \A s \in Submitters : s \in Actors /\ s # Irq
  BY DmaAssumption DEF Actors, Irq
<1>4. pc[Irq] \in {"idle", "ack", "ack_error", "ack_done"}
  BY DEF Interrupts, IrqWake, IrqAckRead, IrqAckWrite, Kinds, IrqPlaces
<1>5. PICK where \in IrqPlaces :
          /\ Goto(Irq, where) /\ status' \subseteq status
          /\ \/ /\ IrqWake /\ where = IF hang THEN "idle" ELSE "reap_first"
             \/ /\ IrqAckRead /\ where \in {"ack_error", "ack_done"}
             \/ /\ IrqAckWrite /\ pc[Irq] = "ack_error" /\ where = "idle"
             \/ /\ IrqAckWrite /\ pc[Irq] = "ack_done" /\ where = "reap_second"
  <2>1. CASE IrqWake
    BY <2>1 DEF IrqWake, IrqPlaces
  <2>2. CASE IrqAckRead
    <3>1. pc[Irq] = "ack" /\ status # {} /\ status' = status
      BY <2>2, <1>1 DEF IrqAckRead, Interrupted, intrVars
    <3>2. status \subseteq {"done", "error"}
      BY DEF Kinds
    <3>3. CASE "error" \in status
      <4>1. Goto(Irq, "ack_error")
        BY <2>2, <3>3 DEF IrqAckRead
      <4> QED  BY <2>2, <3>1, <4>1 DEF IrqPlaces
    <3>4. CASE "error" \notin status
      <4>1. status = {"done"}
        BY <3>1, <3>2, <3>4
      <4>2. Goto(Irq, "ack_done")
        BY <2>2, <3>4, <4>1 DEF IrqAckRead
      <4> QED  BY <2>2, <3>1, <4>2 DEF IrqPlaces
    <3> QED  BY <3>3, <3>4
  <2>3. CASE IrqAckWrite
    <3>1. pc[Irq] \in {"ack_error", "ack_done"}
      BY <2>3, <1>4 DEF IrqAckWrite
    <3>2. status' \subseteq status
      BY <2>3 DEF IrqAckWrite
    <3> QED  BY <2>3, <3>1, <3>2 DEF IrqAckWrite, IrqPlaces
  <2> QED  BY <2>1, <2>2, <2>3 DEF Interrupts
<1>6. pc'[Irq] = where /\ \A s \in Submitters : pc'[s] = pc[s]
  BY <1>3, <1>5 DEF Kinds, Goto
<1>7. Kinds'
  <2>1. pc' \in [Actors -> {"idle"} \cup Preparing \cup Submitted \cup IrqPlaces]
    BY <1>5 DEF Kinds, Goto
  <2>2. (\A s \in Submitters : pc'[s] \notin IrqPlaces \ {"idle"}) /\ pc'[Irq] \in IrqPlaces
    BY <1>5, <1>6 DEF Kinds
  <2>3. status' \subseteq {"done", "error"}
    BY <1>5 DEF Kinds
  <2> QED  BY <1>2, <2>1, <2>2, <2>3 DEF Kinds
<1>8. reap.by # Irq
  BY <1>3, <1>4 DEF Locks, Cleaning, Irq, Nobody
<1>9. Locks'
  <2>1. reap'.by # Nobody => pc'[reap'.by] = pc[reap.by]
    BY <1>2, <1>6, <1>8 DEF Kinds, Actors
  <2> QED  BY <1>2, <1>6, <2>1 DEF Locks
<1>10. Stages(n, B, T, P, H, Q)' /\ Cookies(n)'
  BY <1>1, <1>2, <1>6 DEF Stages, Cookies
<1>11. Interrupted(n, B, R, C, V, N)'
  <2>1. reap'.by # Irq
    BY <1>2, <1>8
  <2>2. CASE IrqWake /\ where = IF hang THEN "idle" ELSE "reap_first"
    <3>1. msi /\ ~msi' /\ status' = status /\ hang' = hang /\ pc[Irq] = "idle"
      BY <2>2 DEF IrqWake, swVars
    <3> QED  BY <1>1, <1>6, <2>1, <2>2, <3>1 DEF Interrupted, Quiet
  <2>3. CASE IrqAckRead /\ where \in {"ack_error", "ack_done"}
    <3>1. msi' = msi /\ status' = status /\ hang' = hang /\ pc[Irq] = "ack"
      BY <2>3 DEF IrqAckRead, swVars, intrVars
    <3>2. where = "ack_done" => "done" \in status
      <4> SUFFICES ASSUME where = "ack_done" PROVE "done" \in status
        OBVIOUS
      <4>1. "error" \in status => Goto(Irq, "ack_error")
        BY <2>3 DEF IrqAckRead
      <4>2. "error" \notin status
        BY <1>3, <1>6, <4>1 DEF Kinds, Goto
      <4>3. status # {} /\ status \subseteq {"done", "error"}
        BY <1>1, <3>1 DEF Interrupted, Kinds
      <4> QED  BY <4>2, <4>3
    <3> QED  BY <1>1, <1>6, <2>1, <2>3, <3>1, <3>2 DEF Interrupted, Quiet
  <2>4. CASE IrqAckWrite /\ pc[Irq] = "ack_error" /\ where = "idle"
    <3>1. hang'
      BY <2>4 DEF IrqAckWrite
    <3> QED  BY <1>6, <2>1, <2>4, <3>1 DEF Interrupted, Quiet
  <2>5. CASE IrqAckWrite /\ pc[Irq] = "ack_done" /\ where = "reap_second"
    <3>1. msi' = msi /\ status' = status \ {"done"} /\ (hang' <=> hang)
      BY <2>5 DEF IrqAckWrite
    <3>2. msi /\ ~hang => status' # {}
      BY <1>1, <2>5, <3>1 DEF Interrupted
    <3> QED  BY <1>1, <1>6, <2>1, <2>5, <3>1, <3>2 DEF Interrupted, Quiet
  <2> QED  BY <1>5, <2>2, <2>3, <2>4, <2>5
<1>12. hw'.next = hw.next
  BY <1>2
<1> QED  BY <1>2, <1>7, <1>9, <1>10, <1>11, <1>12, SameRing

-----------------------------------------------------------------------------
(* The invariant, and what follows from it. *)

LEMMA NextDma == ASSUME DmaInv, [Next]_vars PROVE DmaInv'
<1>1. Kinds /\ Locks
  BY DEF DmaInv
<1>2. PICK n, T, R, C, N, V, P, H, Q \in Nat, B \in [Nat -> Nat] :
          Shape(n, B, T, R, C, N, V, P, H, Q)
  BY DEF DmaInv
<1>3. ASSUME NEW s \in Submitters, Prep(s) PROVE DmaInv'
  BY <1>1, <1>2, <1>3, PrepStep
<1>4. ASSUME NEW s \in Submitters, PrepAgain(s) PROVE DmaInv'
  BY <1>1, <1>2, <1>4, PrepAgainStep
<1>5. ASSUME NEW s \in Submitters, Program(s) PROVE DmaInv'
  BY <1>1, <1>2, <1>5, ProgramStep
<1>6. ASSUME NEW s \in Submitters, ProgramLast(s) PROVE DmaInv'
  BY <1>1, <1>2, <1>6, ProgramLastStep
<1>7. ASSUME NEW s \in Submitters, SubmitValid(s) PROVE DmaInv'
  BY <1>1, <1>2, <1>7, SubmitValidStep
<1>8. ASSUME NEW s \in Submitters, SubmitHead(s) PROVE DmaInv'
  BY <1>1, <1>2, <1>8, SubmitHeadStep
<1>9. ASSUME NEW s \in Submitters, Issue(s) \/ PollUsed(s) \/ Poll(s) \/ Timeout(s)
      PROVE  DmaInv'
  BY <1>1, <1>2, <1>9, IssueStep
<1>10. ASSUME NEW a \in Actors, CleanupLock(a) PROVE DmaInv'
  BY <1>1, <1>2, <1>10, CleanupLockStep
<1>11. ASSUME NEW a \in Actors, CleanupEnd(a) PROVE DmaInv'
  BY <1>1, <1>2, <1>11, CleanupEndStep
<1>12. ASSUME NEW a \in Actors, CleanupOne(a) PROVE DmaInv'
  BY <1>1, <1>2, <1>12, CleanupOneStep
<1>13. ASSUME NEW a \in Actors, CleanupFlush(a) PROVE DmaInv'
  BY <1>1, <1>2, <1>13, CleanupFlushStep
<1>14. ASSUME NEW a \in Actors, CleanupBreak(a) PROVE DmaInv'
  BY <1>1, <1>2, <1>14, CleanupBreakStep
<1>15. CASE Interrupts
  BY <1>1, <1>2, <1>15, IrqStep
<1>16. CASE HwDo
  BY <1>1, <1>2, <1>16, HwDoStep
<1>17. CASE WriteBack
  BY <1>1, <1>2, <1>17, WriteBackStep
<1>18. CASE HwStop \/ HwStall \/ HwError
  BY <1>1, <1>2, <1>18, HwStopStep
<1>19. CASE UNCHANGED vars
  <2>1. /\ UNCHANGED <<head, tail, tx, cookie, hang, valid, pc, job, prepLock, reap>>
        /\ UNCHANGED <<hw, writes, moved, status, msi, desc, size, ran>>
    BY <1>19 DEF vars, swVars, runVars, hwVars, intrVars, history
  <2>2. Kinds' /\ Locks'
    BY <1>1, <2>1 DEF Kinds, Locks
  <2>3. Stages(n, B, T, P, H, Q)' /\ Cookies(n)'
    BY <1>2, <2>1 DEF Shape, Stages, Cookies
  <2>4. Interrupted(n, B, R, C, V, N)'
    BY <1>2, <2>1, SameInterrupts DEF Shape
  <2> QED  BY <1>2, <2>1, <2>2, <2>3, <2>4, SameRing
<1>20. ASSUME NEW s \in Submitters, Submit(s) PROVE DmaInv'
  BY <1>4, <1>5, <1>6, <1>7, <1>8, <1>9, <1>20 DEF Submit
<1>21. ASSUME NEW a \in Actors, Cleanup(a) PROVE DmaInv'
  BY <1>10, <1>11, <1>12, <1>13, <1>14, <1>21 DEF Cleanup
<1> QED  BY <1>3, <1>9, <1>15, <1>16, <1>17, <1>18, <1>19, <1>20, <1>21 DEF Next, Engine

(* In every state, some count of the descriptors explains what the ring,   *)
(* the engine, the reaper, the submitters and the interrupt thread of      *)
(* plx_dma.c hold.                                                         *)
THEOREM DmaInvariant == Spec => []DmaInv
<1>1. Init => DmaInv
  BY InitDma
<1>2. DmaInv /\ [Next]_vars => DmaInv'
  BY NextDma
<1> QED  BY <1>1, <1>2, PTL DEF Spec

(* A transfer is wholly moved when the engine is past its last descriptor. *)
LEMMA WhollyMoved ==
    ASSUME NEW n \in Nat, NEW B \in [Nat -> Nat], NEW N \in Nat, Kinds,
           Counted(n, B), Moves(n, B, N), NEW t \in Transfers
    PROVE  Done(t) <=> t <= n /\ B[t + 1] <= N
<1>1. /\ MovedOf(n, B, N, t) /\ t \in Nat /\ t >= 1
      /\ size[t] \in Nat /\ (size[t] # 0 <=> t <= n)
      /\ B[t] \in Nat /\ B[t + 1] \in Nat
  <2>1. MovedOf(n, B, N, t) /\ (size[t] # 0 <=> t <= n)
    BY DEF Moves, Counted
  <2>2. t \in Nat /\ t >= 1
    BY DmaAssumption DEF Transfers
  <2>3. size[t] \in Nat
    BY DEF Kinds
  <2> QED  BY <2>1, <2>2, <2>3
<1>2. t <= n => B[t + 1] = B[t] + size[t]
  BY <1>1 DEF Counted
<1>3. CASE t <= n /\ B[t + 1] <= N
  BY <1>1, <1>3 DEF MovedOf, Done
<1>4. CASE t <= n /\ B[t] <= N /\ N < B[t + 1]
  <2>1. moved[t] = N - B[t]
    BY <1>1, <1>4 DEF MovedOf
  <2> QED  BY <1>1, <1>2, <1>4, <2>1 DEF Done
<1>5. CASE t <= n /\ N < B[t]
  <2>1. moved[t] = 0
    BY <1>5, <1>1 DEF MovedOf
  <2> QED  BY <1>1, <1>2, <1>5, <2>1 DEF Done
<1>6. CASE ~(t <= n)
  BY <1>1, <1>6 DEF Done
<1> QED  BY <1>1, <1>2, <1>3, <1>4, <1>5, <1>6

LEMMA ReapedAreMoved ==
    ASSUME DmaInv
    PROVE  CallbacksInOrder
<1>1. Kinds
  BY DEF DmaInv
<1>2. PICK n, T, R, C, N, V, P, H, Q \in Nat, B \in [Nat -> Nat] :
          Shape(n, B, T, R, C, N, V, P, H, Q)
  BY DEF DmaInv
<1>3. Counted(n, B) /\ Moves(n, B, N) /\ Reaps(n, B, R) /\ R <= N
  BY <1>2 DEF Shape, Placed
<1>4. PICK k \in Nat : k = Len(ran) /\ DOMAIN ran = 1..k
  BY <1>1 DEF Kinds
<1>5. k <= n /\ (\A i \in 1..k : ran[i] = i) /\ \A t \in 1..n : B[t + 1] <= R <=> t <= k
  BY <1>3, <1>4, Zenon DEF Reaps
<1>6. n <= MaxTransfers /\ MaxTransfers \in Nat
  BY <1>3, DmaAssumption DEF Counted
<1> SUFFICES ASSUME NEW i \in 1..k PROVE ran[i] = i /\ Done(i)
  BY <1>4 DEF CallbacksInOrder
<1>7. i \in 1..n /\ i \in Transfers /\ i <= k
  BY <1>4, <1>5, <1>6 DEF Transfers
<1>8. B[i + 1] <= R /\ B[i + 1] \in Nat
  BY <1>5, <1>7
<1>9. i <= n /\ B[i + 1] <= N
  BY <1>3, <1>7, <1>8
<1> QED  BY <1>1, <1>2, <1>3, <1>5, <1>7, <1>9, WhollyMoved

(* plx_dma_cleanup reaps completions once each, in the order of            *)
(* submission, and only of transfers whose data has all been moved.        *)
THEOREM CallbacksRunInOrder == Spec => []CallbacksInOrder
BY DmaInvariant, ReapedAreMoved, PTL

LEMMA RestIsDone ==
    ASSUME DmaInv
    PROVE  NothingStranded
<1>1. Kinds
  BY DEF DmaInv
<1>2. PICK n, T, R, C, N, V, P, H, Q \in Nat, B \in [Nat -> Nat] :
          Shape(n, B, T, R, C, N, V, P, H, Q)
  BY DEF DmaInv
<1>3. Counted(n, B) /\ Moves(n, B, N) /\ Reaps(n, B, R) /\ Interrupted(n, B, R, C, V, N)
  BY <1>2 DEF Shape
<1>4. PICK k \in Nat : k = Len(ran) /\ DOMAIN ran = 1..k
  BY <1>1 DEF Kinds
<1>5. (\A i \in 1..k : ran[i] = i) /\ \A t \in 1..n : B[t + 1] <= R <=> t <= k
  BY <1>3, <1>4, Zenon DEF Reaps
<1> SUFFICES ASSUME AtRest, NEW t \in Transfers \ {MaxTransfers}, Done(t + 1)
             PROVE  t \in Reaped
  BY DEF NothingStranded
<1>6. t + 1 \in Transfers /\ t \in Nat /\ t >= 1 /\ (t + 1) + 1 = t + 2
  BY DmaAssumption DEF Transfers
<1>7. t + 1 <= n /\ B[(t + 1) + 1] <= N
  BY <1>1, <1>2, <1>3, <1>6, WhollyMoved
<1>8. t \in 1..(n - 1) /\ t \in 1..n /\ B[t + 2] <= N
  BY <1>2, <1>6, <1>7
<1>9. B[t + 1] <= R
  BY <1>3, <1>8 DEF Interrupted, AtRest, Quiet
<1>10. t \in 1..k
  BY <1>4, <1>5, <1>6, <1>8, <1>9
<1> QED  BY <1>4, <1>5, <1>10 DEF Reaped

(* When the interrupt thread of plx_dma_thread_fn rests, every transfer    *)
(* moved has been reaped, but perhaps the last one moved.                  *)
THEOREM NothingIsStranded == Spec => []NothingStranded
BY DmaInvariant, RestIsDone, PTL

(* Fewer transfers await their completion than there are cookies. *)
LEMMA FewerThanCookies ==
    ASSUME NEW n \in Nat, NEW B \in [Nat -> Nat], NEW T \in Nat, NEW R \in Nat, NEW C \in Nat,
           NEW N \in Nat, NEW V \in Nat, NEW P \in Nat, NEW H \in Nat, NEW Q \in Nat,
           Shape(n, B, T, R, C, N, V, P, H, Q), NEW k \in Nat, k < n,
           \A t \in 1..n : B[t + 1] <= R <=> t <= k
    PROVE  n - k < CookieMax
<1>1. Counted(n, B) /\ Stages(n, B, T, P, H, Q) /\ T <= R /\ Q - T < RingSize
  BY DEF Shape, Placed
<1>2. B[n + 1] <= Q /\ B[n + 1] \in Nat
  <2>1. n + 1 \in Nat
    OBVIOUS
  <2> QED  BY <1>1, <2>1, Ends
<1>3. k + 1 \in 1..n /\ k + 2 \in 1..(n + 1) /\ n + 1 \in 1..(n + 1) /\ (k + 1) + 1 = k + 2
  OBVIOUS
<1>4. B[k + 2] > R /\ B[k + 2] \in Nat
  BY <1>3
<1>5. B[n + 1] - B[k + 2] >= (n + 1) - (k + 2)
  BY <1>1, <1>3 DEF Counted
<1>6. CookieMax \in Nat /\ CookieMax >= RingSize /\ RingSize \in Nat
  BY DmaAssumption
<1> QED  BY <1>1, <1>2, <1>4, <1>5, <1>6

(* Only plx_dma_tx_status makes a waiter that polls go. *)
LEMMA PollerGoes ==
    ASSUME DmaInv, [Next]_vars, NEW s \in Submitters, pc[s] = "poll", pc'[s] = "idle"
    PROVE  Poll(s)
<1>1. Kinds /\ Locks
  BY DEF DmaInv
<1>2. pc \in [Actors -> {"idle"} \cup Preparing \cup Submitted \cup IrqPlaces] /\ s \in Actors /\ s # Irq
  BY <1>1, DmaAssumption DEF Kinds, Actors, Irq
<1>3. ASSUME NEW a \in Actors, a # s, NEW where, Goto(a, where) PROVE FALSE
  BY <1>2, <1>3 DEF Goto
<1>4. pc' # pc
  BY <1>2
<1>5. ASSUME NEW x \in Submitters, x # s, Prep(x) \/ Submit(x) \/ Timeout(x) PROVE FALSE
  <2>1. x \in Actors
    BY DEF Actors
  <2>2. \E where : Goto(x, where)
    BY <1>4, <1>5 DEF Prep, Submit, PrepAgain, Program, ProgramLast, SubmitValid, SubmitHead, Issue,
                      PollUsed, Poll, Timeout, runVars
  <2> QED  BY <1>3, <1>5, <2>1, <2>2
<1>6. ASSUME Prep(s) \/ Submit(s) \/ Timeout(s) PROVE Poll(s)
  BY <1>6 DEF Prep, Submit, PrepAgain, Program, ProgramLast, SubmitValid, SubmitHead, Issue,
              PollUsed, Timeout
<1>7. ASSUME NEW a \in Actors, Cleanup(a) PROVE FALSE
  <2>1. reap.by = a /\ CleanupUnlock(a)
    BY <1>4, <1>7 DEF Cleanup, CleanupLock, CleanupOne, CleanupFlush, CleanupEnd, CleanupBreak, runVars
  <2>2. a # s
    BY <1>1, <2>1, DmaAssumption DEF Locks, Cleaning, Nobody
  <2> QED  BY <1>3, <2>1, <2>2 DEF CleanupUnlock
<1>8. ASSUME Interrupts PROVE FALSE
  <2>1. Irq \in Actors /\ \E where : Goto(Irq, where)
    BY <1>8 DEF Interrupts, IrqWake, IrqAckRead, IrqAckWrite, Actors
  <2> QED  BY <1>2, <1>3, <2>1
<1>9. ~Engine /\ ~UNCHANGED vars
  BY <1>4 DEF Engine, HwDo, HwStop, HwStall, HwError, WriteBack, vars, runVars
<1> QED  BY <1>5, <1>6, <1>7, <1>8, <1>9 DEF Next

LEMMA ToldIsMoved ==
    ASSUME DmaInv, [Next]_vars, NEW s \in Submitters, pc[s] = "poll", pc'[s] = "idle"
    PROVE  Done(job[s].transfer)
<1>1. Kinds /\ CallbacksInOrder /\ Poll(s)
  BY PollerGoes, ReapedAreMoved DEF DmaInv
<1>2. PICK n, T, R, C, N, V, P, H, Q \in Nat, B \in [Nat -> Nat] :
          Shape(n, B, T, R, C, N, V, P, H, Q)
  BY DEF DmaInv
<1>3. PICK k \in Nat : k = Len(ran) /\ DOMAIN ran = 1..k
  BY <1>1 DEF Kinds
<1>4. /\ cookie.completed = CookieOf(k) /\ \A t \in 1..n : B[t + 1] <= R <=> t <= k
      /\ job[s].transfer \in 1..n /\ job[s].cookie = CookieOf(job[s].transfer)
  BY <1>2, <1>3, Zenon DEF Shape, Reaps, Cookies, Submitted
<1>5. PICK t \in 1..n : t = job[s].transfer
  BY <1>4
<1>6. PICK u \in t..n : job[s].used = CookieOf(u)
  BY <1>2, <1>5 DEF Shape, Cookies
<1>7. IsComplete(job[s].cookie, job[s].used, cookie.completed)
  <2>1. pc \in [Actors -> {"idle"} \cup Preparing \cup Submitted \cup IrqPlaces] /\ s \in Actors
    BY <1>1 DEF Kinds, Actors
  <2>2. ~Goto(s, "reap_wait")
    BY <2>1 DEF Goto
  <2> QED  BY <1>1, <2>2 DEF Poll
<1>8. IsComplete(CookieOf(t), CookieOf(u), CookieOf(k))
  BY <1>4, <1>5, <1>6, <1>7
<1>9. n \in Nat /\ k \in Nat /\ t \in 1..n /\ u \in t..n
  BY <1>2, <1>3, <1>5, <1>6
<1>10. CASE t <= k
  <2>1. t \in DOMAIN ran
    BY <1>3, <1>9, <1>10
  <2> QED  BY <1>1, <1>5, <2>1 DEF CallbacksInOrder
<1>11. CASE k < t
  <2>1. k < n /\ u \in Nat /\ t \in Nat /\ t <= u /\ u <= n
    BY <1>9, <1>11
  <2>2. n - k < CookieMax
    BY <1>2, <1>3, <1>4, <2>1, FewerThanCookies
  <2>3. u - k < CookieMax
    BY <1>9, <2>1, <2>2, DmaAssumption
  <2> QED  BY <1>3, <1>8, <1>11, <2>1, <2>3, NotComplete
<1>12. t <= k \/ k < t
  BY <1>9
<1> QED  BY <1>10, <1>11, <1>12

(* plx_dma_tx_status tells a waiter that its transfer is complete only     *)
(* when the data has been moved, wherever the cookies wrap around and      *)
(* whatever is completed between its two reads.                            *)
THEOREM WaitersAreToldTheTruth == Spec => CookieHonest
<1>1. DmaInv /\ [Next]_vars =>
          [\A s \in Submitters : pc[s] = "poll" /\ pc'[s] = "idle" => Done(job[s].transfer)]_vars
  BY ToldIsMoved
<1> QED  BY <1>1, DmaInvariant, PTL DEF Spec, CookieHonest

LEMMA DmaTyped ==
    ASSUME DmaInv
    PROVE  TypeOK
<1>1. Kinds /\ Locks
  BY DEF DmaInv
<1>2. PICK n, T, R, C, N, V, P, H, Q \in Nat, B \in [Nat -> Nat] :
          Shape(n, B, T, R, C, N, V, P, H, Q)
  BY DEF DmaInv
<1>3. /\ Counted(n, B) /\ Validity(V, N, P) /\ Txs(n, B, R) /\ Cookies(n)
      /\ V <= N /\ N <= P /\ tail = T % RingSize /\ head = H % RingSize
  BY <1>2 DEF Shape, Placed
<1>4. {head, tail, hw.next, hw.last, reap.at, reap.cached} \subseteq Slots
  <2>1. head \in Slots /\ tail \in Slots
    BY <1>2, <1>3, SlotOf
  <2>2. hw.next \in Slots /\ hw.last \in Slots /\ reap.at \in Slots /\ reap.cached \in Slots
    BY <1>1 DEF Kinds
  <2> QED  BY <2>1, <2>2
<1>5. valid \subseteq Slots /\ {writes[i] : i \in DOMAIN writes} \subseteq valid
  <2>1. {writes[i] : i \in DOMAIN writes} = Span(V, N) /\ valid = Span(V, P)
    BY <1>1, <1>2, <1>3, WritesSpan DEF Kinds, Validity
  <2>2. Span(V, N) \subseteq Span(V, P)
    BY <1>2, <1>3 DEF Span
  <2>3. Span(V, P) \subseteq Slots
    <3> SUFFICES ASSUME NEW p \in V..(P - 1) PROVE p % RingSize \in Slots
      BY DEF Span
    <3>1. p \in Nat
      BY <1>2
    <3> QED  BY <3>1, SlotOf
  <2> QED  BY <2>1, <2>2, <2>3
<1>6. ASSUME NEW i \in Slots PROVE tx[i].cookie \in 0..CookieMax /\ tx[i].transfer \in 0..MaxTransfers
  <2>1. CookieMax \in Nat /\ MaxTransfers \in Nat /\ n <= MaxTransfers
    BY <1>3, DmaAssumption DEF Counted
  <2>2. CASE tx[i] = NoTx
    BY <2>1, <2>2 DEF NoTx
  <2>3. CASE \E t \in 1..n : R < B[t + 1] /\ i = (B[t + 1] - 1) % RingSize
    <3>1. PICK t \in 1..n : R < B[t + 1] /\ i = (B[t + 1] - 1) % RingSize
      BY <2>3
    <3>2. tx[i] = [cookie |-> CookieOf(t), transfer |-> t]
      BY <1>3, <3>1 DEF Txs
    <3>3. CookieOf(t) \in 1..CookieMax
      BY <1>2, <3>1, CookieNext
    <3> QED  BY <2>1, <3>1, <3>2, <3>3
  <2> QED  BY <1>3, <2>2, <2>3 DEF Txs
<1>7. cookie.used \in 1..CookieMax /\ cookie.completed \in 1..CookieMax
  <2>1. Len(ran) \in Nat
    BY <1>1 DEF Kinds
  <2> QED  BY <1>2, <1>3, <2>1, CookieNext DEF Cookies
<1>8. prepLock # Nobody => pc[prepLock] \in {"reap_full", "full", "program", "valid", "head"}
  BY <1>1 DEF Locks, Preparing
<1>9. reap.by # Nobody => pc[reap.by] \in DOMAIN AfterCleanup
  BY <1>1, CleanupPlaces DEF Locks
<1> QED  BY <1>4, <1>5, <1>6, <1>7, <1>8, <1>9 DEF TypeOK

(* Indices stay in the ring, what the engine has cleared was valid, no     *)
(* cookie is zero (the BUG_ON of plx_dma_cleanup), and who holds a lock is *)
(* where the lock is held.                                                 *)
THEOREM DmaTypes == Spec => []TypeOK
BY DmaInvariant, DmaTyped, PTL
=============================================================================
