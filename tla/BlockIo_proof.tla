---------------------------- MODULE BlockIo_proof ---------------------------
(***************************************************************************)
(* Proofs about BlockIo, for any bios, rings, pools and failures: what     *)
(* holds until two pushes to the pool of contexts or two answers have      *)
(* overlapped, and that they cannot as long as nothing has failed.         *)
(***************************************************************************)
EXTENDS BlockIo, FiniteSetTheorems, SequenceTheorems, TLAPS

-----------------------------------------------------------------------------
(* The inductive invariant.                                                *)

Statuses == {"new", "waiting", "listed", "ok", "error"}
SomeBio  == Bios \union {NoValue}
Entries  == [cookie : 0..PoolUsed, bio : SomeBio, part : Nat]
Acks     == [cookie : 0..PoolUsed, ret : {"ok", "error"}]
Transfers == [bio : Bios, unit : Nat \X Nat, data : Bios \union {Blank},
              cookie : {-1} \union (1..PoolUsed)]

FrontendTyped ==
    /\ status \in [Bios -> Statuses] /\ ends \in [Bios -> Nat]
    /\ request_bio_list \in Seq(Bios)
    /\ bio_context_pool \in [head : Ids, tail : Ids, next_free : [Ids -> 0..PoolUsed]]
    /\ bio_context \in [Ids -> [bio : SomeBio, bvecs : 0..RequestNum]]
    /\ bvec_free \in 0..RequestNum
    /\ request_ring_alloc \in 0..2 * RequestNum - 1
    /\ thread \in [pc : {"idle", "context", "step", "start", "tail"},
                   bio : SomeBio, id : Ids, part : Nat]
    /\ completion_work \in [pc : {"idle", "tail", "end"}, id : Ids, bio : SomeBio,
                            ret : {"ok", "error"}]

BackendTyped ==
    /\ backend \in [pc : {"idle", "transfer", "respond", "publish"}, buff : Seq(Entries),
                    id : Nat, k : Nat, last_add : 0..2 * AckNum - 1]
    /\ callback \in [pc : {"idle", "respond", "publish"}, last_add : 0..2 * AckNum - 1]
    /\ buffer_free \in Nat /\ dma \in Seq(Transfers) /\ buffer_free + Len(dma) <= MaxParts
    /\ media \in [Sectors -> Bios \union {Blank}]
    /\ faults \in 0..MaxFaults

RingsTyped ==
    /\ request_ring \in [last_add : 0..2 * RequestNum - 1, last_used : 0..2 * RequestNum - 1,
                         elems : [0..RequestNum - 1 -> Entries]]
    /\ completion_ring \in [last_add : 0..2 * AckNum - 1, last_used : 0..2 * AckNum - 1,
                            elems : [0..AckNum - 1 -> Acks]]

(* A push that is half done has linked its context behind the tail.        *)
HalfPushed(id) == bio_context_pool.next_free[bio_context_pool.tail] = id /\ id \notin UsedIds

Pushing ==
    /\ thread.pc = "tail" => completion_work.pc # "tail" /\ HalfPushed(thread.id)
    /\ completion_work.pc = "tail" => HalfPushed(completion_work.id)

(* Each mapping is free (PoolUsed) or belongs to a context in use, which   *)
(* counts its own.                                                         *)
Held(owner, i) == {m \in 1..RequestNum : owner[m] = i}

Mapped ==
    \E owner \in [1..RequestNum -> 0..PoolUsed] :
        /\ \A i \in UsedIds : Cardinality(Held(owner, i)) = bio_context[i].bvecs
        /\ \A i \in Ids \ UsedIds : Held(owner, i) = {}
        /\ Cardinality(Held(owner, PoolUsed)) = bvec_free

(* A bio that has not ended is at one place, and has ended at most once.   *)
BioOf(c) == bio_context[c].bio
InList(b) == \E i \in 1..Len(request_bio_list) : request_bio_list[i] = b
ThreadHas(b) == thread.pc \in {"context", "tail"} /\ thread.bio = b
WorkHas(b) == completion_work.pc \in {"tail", "end"} /\ completion_work.bio = b
ContextHas(b) == \E c \in UsedIds : BioOf(c) = b
Holds(p, b) == \/ p = "list" /\ InList(b)
               \/ p = "thread" /\ ThreadHas(b)
               \/ p = "work" /\ WorkHas(b)
               \/ p = "context" /\ ContextHas(b)
Holders == {"list", "thread", "work", "context"}

BiosHeld ==
    /\ thread.pc # "idle" => thread.bio \in Bios
    /\ completion_work.pc # "idle" => completion_work.bio \in Bios
    /\ \A c \in UsedIds : BioOf(c) \in Bios
    /\ \A b \in Bios : \A p, q \in Holders : Holds(p, b) => (Holds(q, b) => p = q)
    /\ \A b \in Bios : \A p \in Holders : Holds(p, b) => status[b] = "listed"
    /\ \A i, j \in 1..Len(request_bio_list) :
          request_bio_list[i] = request_bio_list[j] => i = j
    /\ \A c, d \in UsedIds : BioOf(c) = BioOf(d) => c = d
    /\ \A b \in Bios : ends[b] = IF status[b] \in {"ok", "error"} THEN 1 ELSE 0

ThreadBusy == thread.pc \in {"step", "start"}

ThreadAt ==
    /\ ThreadBusy => /\ thread.id \in UsedIds /\ BioOf(thread.id) = thread.bio
                     /\ thread.part \in 1..Len(Parts[thread.bio])
    /\ thread.pc = "start" => thread.part = Len(Parts[thread.bio])

(* The request ring: o is the distance of an entry from last_used.  What   *)
(* is published are the entries of whole bios, each with its own cookie;   *)
(* behind them are those of the thread's bio.                              *)
Dist(a, b, n) == (a - b + 2 * n) % (2 * n)
Published == Dist(request_ring.last_add, request_ring.last_used, RequestNum)
Prepared  == Dist(request_ring_alloc, request_ring.last_used, RequestNum)
SlotAt(used, o, n) == CounterAdd(used, o, n) % n
QueuedAt(o) == request_ring.elems[SlotAt(request_ring.last_used, o, RequestNum)]

EntryOf(c, p) == [cookie |-> c + 1, bio |-> BioOf(c), part |-> p]

Whole(o) ==
    LET e == QueuedAt(o)
    IN  /\ e.part \in 1..Len(Parts[e.bio])
        /\ \A p \in 1..Len(Parts[e.bio]) :
              /\ o - e.part + p \in 0..Published - 1
              /\ QueuedAt(o - e.part + p) = EntryOf(e.cookie - 1, p)

PublishedWhole ==
    /\ \A o \in 0..Published - 1 :
          QueuedAt(o).cookie > 0 /\ QueuedAt(o).bio = BioOf(QueuedAt(o).cookie - 1) /\ Whole(o)
    /\ \A o, p \in 0..Published - 1 : QueuedAt(o).cookie = QueuedAt(p).cookie
                                        => QueuedAt(p).part - QueuedAt(o).part = p - o

ThreadsEntries == IF thread.pc = "step" THEN thread.part - 1
                  ELSE IF thread.pc = "start" THEN thread.part ELSE 0

RequestsQueued ==
    /\ Published <= Prepared /\ Prepared <= RequestNum
    /\ Prepared = Published + ThreadsEntries
    /\ PublishedWhole
    /\ \A o \in Published..Prepared - 1 :
          QueuedAt(o) = EntryOf(thread.id, o - Published + 1)

(* The completion ring. *)
Answers == Dist(completion_ring.last_add, completion_ring.last_used, AckNum)
AnswerAt(o) == completion_ring.elems[SlotAt(completion_ring.last_used, o, AckNum)]

AnswersQueued ==
    /\ Answers <= AckNum
    /\ \A o \in 0..Answers - 1 : AnswerAt(o).cookie > 0
    /\ \A o, p \in 0..Answers - 1 : AnswerAt(o).cookie = AnswerAt(p).cookie => o = p

Answering(me, ret) ==
    /\ Responding(me.pc) => me.last_add = completion_ring.last_add
    /\ me.pc = "publish" => completion_ring.elems[me.last_add % AckNum].ret = ret

Responders ==
    /\ Answering(backend, "error") /\ Answering(callback, "ok")
    /\ ~(Responding(backend.pc) /\ Responding(callback.pc))

(* A context in use is at one stage of its way around.                     *)
At(p, c) ==
    \/ p = "thread" /\ ThreadBusy /\ thread.id = c
    \/ p = "ring" /\ \E o \in 0..Published - 1 : QueuedAt(o).cookie = c + 1
    \/ p = "backend" /\ backend.pc # "idle" /\ Cookie = c + 1
    \/ p = "dma" /\ \E i \in 1..Len(dma) : dma[i].cookie = c + 1
    \/ p = "answer" /\ \E o \in 0..Answers - 1 : AnswerAt(o).cookie = c + 1
Stages == {"thread", "ring", "backend", "dma", "answer"}

Placed == \A c \in Ids : \A p \in Stages :
             At(p, c) => c \in UsedIds /\ \A q \in Stages : At(q, c) => p = q

(* The backend's request thread has all the entries of one bio.            *)
BackendAt ==
    backend.pc # "idle" =>
        /\ Len(backend.buff) > 0 /\ Cookie > 0
        /\ LET b == BioOf(Cookie - 1)
           IN  /\ Len(backend.buff) = Len(Parts[b])
               /\ \A p \in 1..Len(Parts[b]) : backend.buff[p] = EntryOf(Cookie - 1, p)
               /\ backend.id \in 1..Len(Parts[b])
               /\ backend.k \in 1..Len(Parts[b][backend.id])

(* Units on their way.                                                     *)
InDma(j, b, u) == dma[j].bio = b /\ dma[j].unit = u
IsMoved(b, u) == \E m \in moved : m.bio = b /\ m.unit = u
Submitted(b, u) == IsMoved(b, u) \/ \E j \in 1..Len(dma) : InDma(j, b, u)
Before(u, p, k) == u[1] < p \/ (u[1] = p /\ u[2] < k)

TransfersQueued ==
    /\ callback.pc # "idle" => dma # <<>> /\ dma[1].cookie > 0 /\ Moved(dma[1]) \in moved
    /\ \A i \in 1..Len(dma) :
          /\ dma[i].unit \in Units(dma[i].bio)
          /\ dma[i].bio \in Writes => dma[i].data = dma[i].bio
          /\ i > 1 \/ callback.pc = "idle" => ~IsMoved(dma[i].bio, dma[i].unit)
          /\ \A j \in 1..Len(dma) : /\ InDma(j, dma[i].bio, dma[i].unit) => i = j
                                    /\ dma[i].cookie > 0 /\ dma[j].cookie = dma[i].cookie => i = j
          /\ dma[i].cookie > 0 =>
                /\ dma[i].bio = BioOf(dma[i].cookie - 1)
                /\ \A u \in Units(dma[i].bio) :
                      IsMoved(dma[i].bio, u) \/ \E j \in 1..i : InDma(j, dma[i].bio, u)

Untouched(b) == \A u \in Units(b) : ~Submitted(b, u)
Finished(b) == AllMoved(b) /\ \A j \in 1..Len(dma) : dma[j].bio # b

BackendProgress ==
    backend.pc = "transfer" =>
        \A u \in Units(BioOf(Cookie - 1)) :
            Submitted(BioOf(Cookie - 1), u) <=> Before(u, backend.id, backend.k)

NotBegun ==
    /\ \A b \in Bios : status[b] \in {"new", "waiting"} \/ InList(b) => Untouched(b)
    /\ thread.pc = "context" => Untouched(thread.bio)
    /\ \A c \in UsedIds : At("thread", c) \/ At("ring", c) => Untouched(BioOf(c))

Ended ==
    /\ \A b \in Bios : status[b] = "ok" => Finished(b)
    /\ completion_work.pc # "idle" /\ completion_work.ret = "ok" => Finished(completion_work.bio)
    /\ \A o \in 0..Answers - 1 :
          AnswerAt(o).ret = "ok" => Finished(BioOf(AnswerAt(o).cookie - 1))

BlockInv ==
    /\ FrontendTyped /\ BackendTyped /\ RingsTyped
    /\ ContextsListed /\ Pushing /\ Mapped
    /\ BiosHeld /\ ThreadAt
    /\ RequestsQueued /\ AnswersQueued /\ Responders
    /\ Placed /\ BackendAt
    /\ TransfersQueued /\ BackendProgress /\ NotBegun /\ Ended

-----------------------------------------------------------------------------
(* Arithmetic of the rings. *)

LEMMA Wrap ==
    ASSUME NEW m \in Nat \ {0}, NEW x \in 0..2 * m - 1
    PROVE  x % m = IF x < m THEN x ELSE x - m
<1>1. CASE x < m
  <2>1. x \in 0..m - 1 /\ x = 0 * m + x
    BY <1>1
  <2> QED  BY <2>1, <1>1
<1>2. CASE ~(x < m)
  <2>1. x - m \in 0..m - 1 /\ x = 1 * m + (x - m)
    BY <1>2
  <2>2. (1 * m + (x - m)) % m = x - m
    BY <2>1, Z3
  <2> QED  BY <2>1, <2>2, <1>2
<1> QED  BY <1>1, <1>2

LEMMA CounterAddIs ==
    ASSUME NEW n \in Nat \ {0}, NEW c \in 0..2 * n - 1, NEW v \in 0..2 * n - 1
    PROVE  /\ CounterAdd(c, v, n) = IF c + v < 2 * n THEN c + v ELSE c + v - 2 * n
           /\ CounterAdd(c, v, n) \in 0..2 * n - 1
<1>1. PICK m \in Nat : m = 2 * n
  OBVIOUS
<1>2. PICK x \in Nat : x = c + v
  OBVIOUS
<1>3. m \in Nat \ {0} /\ x \in 0..2 * m - 1
  BY <1>1, <1>2
<1>4. x % m = IF x < m THEN x ELSE x - m
  BY <1>3, Wrap
<1> QED  BY <1>1, <1>2, <1>4 DEF CounterAdd

LEMMA DistIs ==
    ASSUME NEW n \in Nat \ {0}, NEW a \in 0..2 * n - 1, NEW b \in 0..2 * n - 1
    PROVE  /\ Dist(a, b, n) = IF a >= b THEN a - b ELSE a - b + 2 * n
           /\ Dist(a, b, n) \in 0..2 * n - 1
<1>1. PICK m \in Nat : m = 2 * n
  OBVIOUS
<1>2. PICK x \in Nat : x = a - b + 2 * n
  OBVIOUS
<1>3. m \in Nat \ {0} /\ x \in 0..2 * m - 1
  BY <1>1, <1>2
<1>4. x % m = IF x < m THEN x ELSE x - m
  BY <1>3, Wrap
<1> QED  BY <1>1, <1>2, <1>4 DEF Dist

LEMMA SlotIs ==
    ASSUME NEW n \in Nat \ {0}, NEW u \in 0..2 * n - 1, NEW o \in 0..n
    PROVE  /\ SlotAt(u, o, n) = IF u + o < n THEN u + o
                                ELSE IF u + o < 2 * n THEN u + o - n ELSE u + o - 2 * n
           /\ SlotAt(u, o, n) \in 0..n - 1
<1>1. o \in 0..2 * n - 1
  OBVIOUS
<1> DEFINE c == CounterAdd(u, o, n)
<1>2. c = (IF u + o < 2 * n THEN u + o ELSE u + o - 2 * n) /\ c \in 0..2 * n - 1
  BY <1>1, CounterAddIs
<1> HIDE DEF c
<1>3. c % n = IF c < n THEN c ELSE c - n
  BY <1>2, Wrap
<1>4. SlotAt(u, o, n) = c % n
  BY DEF SlotAt, c
<1> QED  BY <1>2, <1>3, <1>4

(* Elements at different distances are in different slots. *)
LEMMA SlotsDiffer ==
    ASSUME NEW n \in Nat \ {0}, NEW u \in 0..2 * n - 1, NEW o \in 0..n - 1, NEW p \in 0..n - 1,
           SlotAt(u, o, n) = SlotAt(u, p, n)
    PROVE  o = p
<1>1. o \in 0..n /\ p \in 0..n
  OBVIOUS
<1>2. SlotAt(u, o, n) = IF u + o < n THEN u + o
                        ELSE IF u + o < 2 * n THEN u + o - n ELSE u + o - 2 * n
  BY <1>1, SlotIs
<1>3. SlotAt(u, p, n) = IF u + p < n THEN u + p
                        ELSE IF u + p < 2 * n THEN u + p - n ELSE u + p - 2 * n
  BY <1>1, SlotIs
<1>4. PICK s, t \in Int : s = SlotAt(u, o, n) /\ t = SlotAt(u, p, n)
  BY <1>1, SlotIs
<1>5. s = t
  BY <1>4
<1> QED  BY <1>2, <1>3, <1>4, <1>5

(* The slot a counter stands for. *)
LEMMA SlotOfCounter ==
    ASSUME NEW n \in Nat \ {0}, NEW u \in 0..2 * n - 1, NEW a \in 0..2 * n - 1,
           Dist(a, u, n) <= n
    PROVE  a % n = SlotAt(u, Dist(a, u, n), n) /\ a % n \in 0..n - 1
<1> DEFINE d == Dist(a, u, n)
<1>1. d \in 0..n /\ d = IF a >= u THEN a - u ELSE a - u + 2 * n
  BY DistIs
<1> HIDE DEF d
<1>2. SlotAt(u, d, n) = IF u + d < n THEN u + d
                        ELSE IF u + d < 2 * n THEN u + d - n ELSE u + d - 2 * n
  BY <1>1, SlotIs
<1>3. a % n = IF a < n THEN a ELSE a - n
  BY Wrap
<1>4. a % n = SlotAt(u, d, n) /\ a % n \in 0..n - 1
  BY <1>1, <1>2, <1>3
<1> QED  BY <1>4 DEF d

LEMMA FullIs ==
    ASSUME NEW n \in Nat \ {0}, NEW u \in 0..2 * n - 1, NEW a \in 0..2 * n - 1
    PROVE  BuffFull(a, u, n) <=> Dist(a, u, n) = n
<1>1. a % n = IF a < n THEN a ELSE a - n
  BY Wrap
<1>2. u % n = IF u < n THEN u ELSE u - n
  BY Wrap
<1>3. Dist(a, u, n) = IF a >= u THEN a - u ELSE a - u + 2 * n
  BY DistIs
<1> QED  BY <1>1, <1>2, <1>3 DEF BuffFull

(* Adding v elements, and using v of them. *)
LEMMA DistAdded ==
    ASSUME NEW n \in Nat \ {0}, NEW u \in 0..2 * n - 1, NEW a \in 0..2 * n - 1,
           NEW v \in Nat, Dist(a, u, n) + v <= n
    PROVE  Dist(CounterAdd(a, v, n), u, n) = Dist(a, u, n) + v
<1>1. Dist(a, u, n) = (IF a >= u THEN a - u ELSE a - u + 2 * n) /\ Dist(a, u, n) >= 0
  BY DistIs
<1>2. v \in 0..2 * n - 1
  BY <1>1
<1> DEFINE c == CounterAdd(a, v, n)
<1>3. c \in 0..2 * n - 1 /\ c = IF a + v < 2 * n THEN a + v ELSE a + v - 2 * n
  BY <1>2, CounterAddIs
<1> HIDE DEF c
<1>4. Dist(c, u, n) = IF c >= u THEN c - u ELSE c - u + 2 * n
  BY <1>3, DistIs
<1>5. Dist(c, u, n) = Dist(a, u, n) + v
  BY <1>1, <1>3, <1>4
<1> QED  BY <1>5 DEF c

LEMMA DistUsed ==
    ASSUME NEW n \in Nat \ {0}, NEW u \in 0..2 * n - 1, NEW a \in 0..2 * n - 1,
           NEW v \in Nat, v <= Dist(a, u, n), Dist(a, u, n) <= n
    PROVE  Dist(a, CounterAdd(u, v, n), n) = Dist(a, u, n) - v
<1>1. Dist(a, u, n) = IF a >= u THEN a - u ELSE a - u + 2 * n
  BY DistIs
<1>2. v \in 0..2 * n - 1
  BY <1>1
<1> DEFINE c == CounterAdd(u, v, n)
<1>3. c \in 0..2 * n - 1 /\ c = IF u + v < 2 * n THEN u + v ELSE u + v - 2 * n
  BY <1>2, CounterAddIs
<1> HIDE DEF c
<1>4. Dist(a, c, n) = IF a >= c THEN a - c ELSE a - c + 2 * n
  BY <1>3, DistIs
<1>5. Dist(a, c, n) = Dist(a, u, n) - v
  BY <1>1, <1>3, <1>4
<1> QED  BY <1>5 DEF c

LEMMA SlotUsed ==
    ASSUME NEW n \in Nat \ {0}, NEW u \in 0..2 * n - 1, NEW v \in Nat, NEW o \in Nat, v + o <= n
    PROVE  SlotAt(CounterAdd(u, v, n), o, n) = SlotAt(u, v + o, n)
<1>1. v \in 0..2 * n - 1 /\ o \in 0..n /\ v + o \in 0..n
  OBVIOUS
<1> DEFINE c == CounterAdd(u, v, n)
<1>2. c \in 0..2 * n - 1 /\ c = IF u + v < 2 * n THEN u + v ELSE u + v - 2 * n
  BY <1>1, CounterAddIs
<1> HIDE DEF c
<1>3. SlotAt(c, o, n) = IF c + o < n THEN c + o
                        ELSE IF c + o < 2 * n THEN c + o - n ELSE c + o - 2 * n
  BY <1>1, <1>2, SlotIs
<1>4. SlotAt(u, v + o, n) = IF u + (v + o) < n THEN u + (v + o)
                        ELSE IF u + (v + o) < 2 * n THEN u + (v + o) - n ELSE u + (v + o) - 2 * n
  BY <1>1, SlotIs
<1>5. SlotAt(c, o, n) = SlotAt(u, v + o, n)
  BY <1>1, <1>2, <1>3, <1>4
<1> QED  BY <1>5 DEF c

-----------------------------------------------------------------------------
(* Facts about the constants and the invariant that are used everywhere.   *)

LEMMA Sizes ==
    /\ RequestNum \in Nat \ {0} /\ AckNum \in Nat \ {0}
    /\ Contexts \in Nat \ {0} /\ Contexts <= AckNum /\ MaxParts \in Nat \ {0}
    /\ PoolUsed = Contexts + 1 /\ Ids = 0..Contexts /\ PoolUsed \notin Ids
<1>1. RequestNum \in Nat \ {0} /\ AckNum \in Nat \ {0} /\ MaxParts \in Nat \ {0}
      /\ Contexts \in 1..AckNum
  BY SizesAssumption
<1> QED  BY <1>1 DEF PoolUsed, Ids

LEMMA PartsAre ==
    ASSUME NEW b \in Bios
    PROVE  /\ Parts[b] \in Seq(Seq(Sectors))
           /\ Len(Parts[b]) \in 1..RequestNum /\ Len(Parts[b]) <= MaxParts
           /\ \A p \in 1..Len(Parts[b]) : Len(Parts[b][p]) \in Nat \ {0}
<1>1. Parts \in [Bios -> Seq(Seq(Sectors))] /\ Len(Parts[b]) \in 1..RequestNum
      /\ Len(Parts[b]) <= MaxParts /\ \A p \in 1..Len(Parts[b]) : Len(Parts[b][p]) > 0
  BY SizesAssumption
<1>2. Parts[b] \in Seq(Seq(Sectors))
  BY <1>1
<1>3. \A p \in 1..Len(Parts[b]) : Parts[b][p] \in Seq(Sectors)
  BY <1>2
<1> QED  BY <1>1, <1>2, <1>3

LEMMA UsedAre == UsedIds \subseteq Ids
  BY DEF UsedIds

LEMMA Counts ==
    ASSUME FrontendTyped, RingsTyped
    PROVE  /\ Published \in 0..2 * RequestNum - 1 /\ Prepared \in 0..2 * RequestNum - 1
           /\ Answers \in 0..2 * AckNum - 1
  BY Sizes, DistIs DEF RingsTyped, Published, Prepared, FrontendTyped, Answers

(* What is somewhere on its way has a context in use. *)
LEMMA InUse ==
    ASSUME FrontendTyped, BackendTyped, RingsTyped, RequestsQueued, AnswersQueued, BackendAt, Placed
    PROVE  /\ ThreadBusy => thread.id \in UsedIds
           /\ \A o \in 0..Published - 1 : QueuedAt(o).cookie - 1 \in UsedIds
           /\ backend.pc # "idle" => Cookie \in 1..PoolUsed /\ Cookie - 1 \in UsedIds
           /\ \A i \in 1..Len(dma) : dma[i].cookie > 0 => dma[i].cookie - 1 \in UsedIds
           /\ \A o \in 0..Answers - 1 : AnswerAt(o).cookie - 1 \in UsedIds
<1>0. RequestNum \in Nat \ {0} /\ AckNum \in Nat \ {0} /\ Contexts \in Nat
      /\ PoolUsed = Contexts + 1 /\ Ids = 0..Contexts
  BY Sizes
<1>1. ThreadBusy => thread.id \in UsedIds
  <2>1. thread.id \in Ids
    BY DEF FrontendTyped
  <2> QED  BY <2>1 DEF Placed, At, Stages
<1>2. ASSUME NEW o \in 0..Published - 1
      PROVE  QueuedAt(o).cookie - 1 \in UsedIds
  <2>1. Published \in Int /\ Published <= RequestNum /\ request_ring.last_used \in 0..2 * RequestNum - 1
    <3>1. Published \in 0..2 * RequestNum - 1 /\ Prepared \in 0..2 * RequestNum - 1
      BY <1>0, DistIs DEF RingsTyped, Published, Prepared, FrontendTyped
    <3> QED  BY <1>0, <3>1 DEF RingsTyped, RequestsQueued
  <2>2. o \in 0..RequestNum
    BY <1>0, <2>1
  <2>3. SlotAt(request_ring.last_used, o, RequestNum) \in 0..RequestNum - 1
    BY <1>0, <2>1, <2>2, SlotIs
  <2>4. QueuedAt(o) \in Entries
    BY <2>3 DEF RingsTyped, QueuedAt
  <2>5. QueuedAt(o).cookie > 0
    BY DEF RequestsQueued, PublishedWhole
  <2>6. QueuedAt(o).cookie - 1 \in Ids /\ QueuedAt(o).cookie = (QueuedAt(o).cookie - 1) + 1
    BY <1>0, <2>4, <2>5 DEF Entries
  <2>7. At("ring", QueuedAt(o).cookie - 1)
    BY <2>6 DEF At
  <2> QED  BY <2>6, <2>7 DEF Placed, Stages
<1>3. ASSUME backend.pc # "idle"
      PROVE  Cookie \in 1..PoolUsed /\ Cookie - 1 \in UsedIds
  <2>1. backend.buff[1] \in Entries /\ Cookie > 0
    BY <1>3 DEF BackendAt, BackendTyped
  <2>2. Cookie \in 1..PoolUsed /\ Cookie - 1 \in Ids /\ Cookie = (Cookie - 1) + 1
    BY <1>0, <2>1 DEF Entries, Cookie
  <2>3. At("backend", Cookie - 1)
    BY <1>3, <2>2 DEF At
  <2> QED  BY <2>2, <2>3 DEF Placed, Stages
<1>4. ASSUME NEW i \in 1..Len(dma), dma[i].cookie > 0
      PROVE  dma[i].cookie - 1 \in UsedIds
  <2>1. dma[i] \in Transfers
    BY DEF BackendTyped
  <2>2. dma[i].cookie - 1 \in Ids /\ dma[i].cookie = (dma[i].cookie - 1) + 1
    BY <1>0, <1>4, <2>1 DEF Transfers
  <2>3. At("dma", dma[i].cookie - 1)
    BY <2>2 DEF At
  <2> QED  BY <2>2, <2>3 DEF Placed, Stages
<1>5. ASSUME NEW o \in 0..Answers - 1
      PROVE  AnswerAt(o).cookie - 1 \in UsedIds
  <2>1. Answers \in Int /\ Answers <= AckNum /\ completion_ring.last_used \in 0..2 * AckNum - 1
    BY <1>0, DistIs DEF RingsTyped, Answers, AnswersQueued
  <2>2. o \in 0..AckNum
    BY <1>0, <2>1
  <2>3. SlotAt(completion_ring.last_used, o, AckNum) \in 0..AckNum - 1
    BY <1>0, <2>1, <2>2, SlotIs
  <2>4. AnswerAt(o) \in Acks
    BY <2>3 DEF RingsTyped, AnswerAt
  <2>5. AnswerAt(o).cookie > 0
    BY DEF AnswersQueued
  <2>6. AnswerAt(o).cookie - 1 \in Ids /\ AnswerAt(o).cookie = (AnswerAt(o).cookie - 1) + 1
    BY <1>0, <2>4, <2>5 DEF Acks
  <2>7. At("answer", AnswerAt(o).cookie - 1)
    BY <2>6 DEF At
  <2> QED  BY <2>6, <2>7 DEF Placed, Stages
<1> QED  BY <1>1, <1>2, <1>3, <1>4, <1>5

-----------------------------------------------------------------------------
(* What a part of the invariant does not read may change.                  *)

SameBios == \A c \in UsedIds : bio_context'[c].bio = bio_context[c].bio

LEMMA PoolFrame ==
    ASSUME ContextsListed, Pushing, UNCHANGED <<bio_context_pool, thread, completion_work>>
    PROVE  ContextsListed' /\ Pushing'
  BY DEF ContextsListed, Pushing, HalfPushed, UsedIds, BeingPushed

LEMMA MappedFrame ==
    ASSUME Mapped, UNCHANGED <<bio_context_pool, bio_context, bvec_free>>
    PROVE  Mapped'
  BY ZenonT(30) DEF Mapped, UsedIds, Held

LEMMA BiosFrame ==
    ASSUME BiosHeld,
           UNCHANGED <<status, ends, request_bio_list, thread, completion_work,
                       bio_context_pool, bio_context>>
    PROVE  BiosHeld'
  BY DEF BiosHeld, Holds, InList, ThreadHas, WorkHas, ContextHas, UsedIds, BioOf

LEMMA ThreadFrame ==
    ASSUME ThreadAt, UNCHANGED <<thread, bio_context_pool, bio_context>>
    PROVE  ThreadAt'
  BY DEF ThreadAt, ThreadBusy, UsedIds, BioOf

LEMMA RequestsFrame ==
    ASSUME RequestsQueued, UNCHANGED <<request_ring, request_ring_alloc, thread, bio_context>>
    PROVE  RequestsQueued'
  BY SMTT(30) DEF RequestsQueued, Published, Prepared, QueuedAt, EntryOf, BioOf, Whole,
         PublishedWhole, ThreadsEntries

LEMMA PublishedFrame ==
    ASSUME PublishedWhole, SameBios, UNCHANGED request_ring,
           \A o \in 0..Published - 1 : QueuedAt(o).cookie - 1 \in UsedIds
    PROVE  PublishedWhole'
  BY DEF PublishedWhole, Published, QueuedAt, EntryOf, BioOf, Whole, SameBios

LEMMA AnswersFrame ==
    ASSUME AnswersQueued, UNCHANGED completion_ring
    PROVE  AnswersQueued'
  BY DEF AnswersQueued, Answers, AnswerAt

LEMMA RespondersFrame ==
    ASSUME Responders, UNCHANGED <<backend, callback, completion_ring>>
    PROVE  Responders'
  BY DEF Responders, Answering

LEMMA PlacedFrame ==
    ASSUME Placed,
           UNCHANGED <<thread, request_ring, backend, dma, completion_ring, bio_context_pool>>
    PROVE  Placed'
  BY DEF Placed, At, ThreadBusy, Published, QueuedAt, Cookie, Answers, AnswerAt, UsedIds

LEMMA BackendFrame ==
    ASSUME BackendAt, backend.pc # "idle" => Cookie - 1 \in UsedIds, SameBios, UNCHANGED backend
    PROVE  BackendAt'
  BY DEF BackendAt, SameBios, Cookie, BioOf, EntryOf

LEMMA TransfersFrame ==
    ASSUME TransfersQueued, SameBios, UNCHANGED <<callback, dma, moved>>,
           \A i \in 1..Len(dma) : dma[i].cookie > 0 => dma[i].cookie - 1 \in UsedIds
    PROVE  TransfersQueued'
  BY DEF TransfersQueued, SameBios, BioOf, InDma, IsMoved

LEMMA EndedFrame ==
    ASSUME Ended, SameBios, UNCHANGED <<status, completion_work, completion_ring, dma, moved>>,
           \A o \in 0..Answers - 1 : AnswerAt(o).cookie - 1 \in UsedIds
    PROVE  Ended'
  BY DEF Ended, SameBios, BioOf, Finished, AllMoved, Answers, AnswerAt

LEMMA ProgressFrame ==
    ASSUME BackendProgress, backend.pc # "idle" => Cookie - 1 \in UsedIds, SameBios,
           UNCHANGED <<backend, moved, dma>>
    PROVE  BackendProgress'
  BY DEF BackendProgress, SameBios, BioOf, Cookie, Submitted, IsMoved, InDma

LEMMA NotBegunFrame ==
    ASSUME NotBegun,
           UNCHANGED <<moved, dma, status, request_bio_list, thread, request_ring,
                       bio_context_pool, bio_context>>
    PROVE  NotBegun'
  BY DEF NotBegun, BioOf, Submitted, IsMoved, InDma, InList, Untouched, UsedIds,
         At, ThreadBusy, Published, QueuedAt

-----------------------------------------------------------------------------
(* The list of free contexts, for any pool, and the contexts P being       *)
(* pushed.                                                                 *)

PoolTyped(pool) == pool \in [head : Ids, tail : Ids, next_free : [Ids -> 0..PoolUsed]]
UsedIn(pool) == {i \in Ids : pool.next_free[i] = PoolUsed}
Listed(pool, P) ==
    \E n \in 1..Contexts + 1 : \E list \in [1..n -> Ids] :
        /\ IsFreeList(list, pool)
        /\ \A i \in Ids : i \in UsedIn(pool) \union P <=> \A j \in 1..n : list[j] # i

(* A list without repetitions is not longer than there are contexts. *)
LEMMA ShortList ==
    ASSUME NEW n \in Nat, NEW list \in [1..n -> Ids],
           \A i, j \in 1..n : list[i] = list[j] => i = j
    PROVE  n <= Contexts + 1
<1>1. IsFiniteSet(1..n) /\ Cardinality(1..n) = (IF 1 > n THEN 0 ELSE n - 1 + 1)
  BY FS_Interval
<1>2. Contexts \in Nat /\ Ids = 0..Contexts
  BY Sizes
<1>3. IsFiniteSet(Ids) /\ Cardinality(Ids) = Contexts + 1
  <2>1. Cardinality(0..Contexts) = IF 0 > Contexts THEN 0 ELSE Contexts - 0 + 1
    BY <1>2, FS_Interval
  <2> QED  BY <1>2, <2>1, FS_Interval
<1>4. list \in Injection(1..n, Ids)
  BY DEF Injection, IsInjective
<1>5. Cardinality(1..n) <= Cardinality(Ids)
  BY <1>3, <1>4, FS_Injection
<1> QED  BY <1>1, <1>2, <1>3, <1>5

LEMMA Popped ==
    ASSUME NEW pool, NEW P, PoolTyped(pool), Listed(pool, P), IsAvailable(pool)
    PROVE  LET q == PoolPop(pool)
           IN  /\ PoolTyped(q) /\ Listed(q, P)
               /\ pool.head \notin UsedIn(pool) \union P
               /\ UsedIn(q) = UsedIn(pool) \union {pool.head}
               /\ q.tail = pool.tail /\ q.next_free[q.tail] = pool.next_free[pool.tail]
<1> DEFINE q == PoolPop(pool)
           h == pool.head
<1>0. Contexts \in Nat /\ PoolUsed = Contexts + 1 /\ Ids = 0..Contexts /\ PoolUsed \notin Ids
  BY Sizes
<1>1. PICK n \in 1..Contexts + 1 : \E list \in [1..n -> Ids] :
        /\ IsFreeList(list, pool)
        /\ \A i \in Ids : i \in UsedIn(pool) \union P <=> \A j \in 1..n : list[j] # i
  BY DEF Listed
<1>2. PICK list \in [1..n -> Ids] :
        /\ IsFreeList(list, pool)
        /\ \A i \in Ids : i \in UsedIn(pool) \union P <=> \A j \in 1..n : list[j] # i
  BY <1>1
<1>3. n \in Nat /\ n >= 1 /\ Len(list) = n
  BY <1>0
<1>4. /\ list[1] = h /\ list[n] = pool.tail
      /\ \A i \in 1..n - 1 : pool.next_free[list[i]] = list[i + 1]
      /\ \A i, j \in 1..n : list[i] = list[j] => i = j
  BY <1>2, <1>3 DEF IsFreeList
<1>5. n >= 2 /\ h # pool.tail
  BY <1>3, <1>4 DEF IsAvailable
<1>6. h \in Ids /\ pool.tail \in Ids /\ pool.next_free \in [Ids -> 0..PoolUsed]
  BY DEF PoolTyped
<1>7. pool.next_free[h] = list[2] /\ list[2] \in Ids
  <2>1. 1 \in 1..n - 1 /\ 2 \in 1..n
    BY <1>3, <1>5
  <2> QED  BY <1>4, <2>1
<1>8. /\ q.head = list[2] /\ q.tail = pool.tail
      /\ q.next_free = [pool.next_free EXCEPT ![h] = PoolUsed]
  BY <1>7 DEF PoolTyped, PoolPop
<1>9. PoolTyped(q)
  <2>1. \A f \in [Ids -> 0..PoolUsed] : [f EXCEPT ![h] = PoolUsed] \in [Ids -> 0..PoolUsed]
    <3>1. PoolUsed \in 0..PoolUsed
      BY <1>0
    <3> QED  BY <1>6, <3>1
  <2>2. q.next_free \in [Ids -> 0..PoolUsed]
    BY <1>6, <1>8, <2>1
  <2> QED  BY <1>6, <1>7, <1>8, <2>2 DEF PoolTyped, PoolPop
<1> HIDE DEF q, h
<1>10. \A i \in Ids : q.next_free[i] = IF i = h THEN PoolUsed ELSE pool.next_free[i]
  BY <1>6, <1>8
<1>11. UsedIn(q) = UsedIn(pool) \union {h}
  BY <1>6, <1>10 DEF UsedIn
<1>12. h \notin UsedIn(pool) \union P
  BY <1>2, <1>3, <1>4, <1>6
<1>13. Listed(q, P)
  <2> DEFINE rest == [i \in 1..n - 1 |-> list[i + 1]]
  <2>1. \A i \in 1..n - 1 : i + 1 \in 1..n /\ rest[i] = list[i + 1]
    BY <1>3
  <2>2. rest \in [1..n - 1 -> Ids] /\ Len(rest) = n - 1 /\ n - 1 \in 1..Contexts + 1
    BY <1>0, <1>3, <1>5, <2>1
  <2> HIDE DEF rest
  <2>3. \A i \in 1..n - 1 : rest[i] # h
    BY <1>3, <1>4, <2>1
  <2>4. IsFreeList(rest, q)
    <3>1. rest[1] = q.head /\ rest[n - 1] = q.tail
      BY <1>3, <1>4, <1>5, <1>8, <2>1
    <3>2. ASSUME NEW i \in 1..n - 2
          PROVE  q.next_free[rest[i]] = rest[i + 1]
      <4>1. i \in 1..n - 1 /\ i + 1 \in 1..n - 1 /\ i + 1 + 1 \in 1..n
        BY <1>3
      <4>2. q.next_free[rest[i]] = pool.next_free[rest[i]]
        BY <1>10, <2>2, <2>3, <4>1
      <4> QED  BY <1>4, <2>1, <4>1, <4>2
    <3>3. \A i, j \in 1..n - 1 : rest[i] = rest[j] => i = j
      <4> SUFFICES ASSUME NEW i \in 1..n - 1, NEW j \in 1..n - 1, rest[i] = rest[j]
                   PROVE  i = j
        OBVIOUS
      <4>1. i + 1 = j + 1
        BY <1>4, <2>1
      <4> QED  BY <4>1, <1>3
    <3> QED  BY <1>3, <2>2, <3>1, <3>2, <3>3 DEF IsFreeList
  <2>5. ASSUME NEW i \in Ids
        PROVE  i \in UsedIn(q) \union P <=> \A j \in 1..n - 1 : rest[j] # i
    <3>1. i \in UsedIn(q) \union P <=> i = h \/ \A j \in 1..n : list[j] # i
      BY <1>2, <1>11
    <3>2. (\A j \in 1..n : list[j] # i) => \A j \in 1..n - 1 : rest[j] # i
      BY <2>1
    <3>3. ASSUME \A j \in 1..n - 1 : rest[j] # i, i # h, NEW j \in 1..n
          PROVE  list[j] # i
      <4>1. CASE j = 1
        BY <4>1, <3>3, <1>4
      <4>2. CASE j # 1
        <5>1. j - 1 \in 1..n - 1 /\ rest[j - 1] = list[j]
          BY <4>2, <2>1, <1>3
        <5> QED  BY <5>1, <3>3
      <4> QED  BY <4>1, <4>2
    <3> QED  BY <2>3, <3>1, <3>2, <3>3
  <2> QED  BY <2>2, <2>4, <2>5 DEF Listed
<1>14. q.next_free[q.tail] = pool.next_free[pool.tail]
  BY <1>5, <1>6, <1>8, <1>10
<1> QED  BY <1>8, <1>9, <1>11, <1>12, <1>13, <1>14 DEF q, h

LEMMA Linked ==
    ASSUME NEW pool, NEW id, PoolTyped(pool), Listed(pool, {}), id \in UsedIn(pool)
    PROVE  LET q == PoolLink(pool, id)
           IN  /\ PoolTyped(q) /\ Listed(q, {id})
               /\ UsedIn(q) = UsedIn(pool) \ {id}
               /\ q.tail = pool.tail /\ q.next_free[q.tail] = id
<1> DEFINE q == PoolLink(pool, id)
<1>0. Contexts \in Nat /\ PoolUsed = Contexts + 1 /\ Ids = 0..Contexts /\ PoolUsed \notin Ids
  BY Sizes
<1>1. PICK n \in 1..Contexts + 1 : \E list \in [1..n -> Ids] :
        /\ IsFreeList(list, pool)
        /\ \A i \in Ids : i \in UsedIn(pool) \union {} <=> \A j \in 1..n : list[j] # i
  BY DEF Listed
<1>2. PICK list \in [1..n -> Ids] :
        /\ IsFreeList(list, pool)
        /\ \A i \in Ids : i \in UsedIn(pool) <=> \A j \in 1..n : list[j] # i
  BY <1>1
<1>3. n \in Nat /\ n >= 1 /\ Len(list) = n
  BY <1>0
<1>4. /\ list[1] = pool.head /\ list[n] = pool.tail
      /\ \A i \in 1..n - 1 : pool.next_free[list[i]] = list[i + 1]
      /\ \A i, j \in 1..n : list[i] = list[j] => i = j
  BY <1>2, <1>3 DEF IsFreeList
<1>5. /\ id \in Ids /\ pool.tail \in Ids /\ pool.head \in Ids
      /\ pool.next_free \in [Ids -> 0..PoolUsed]
  BY DEF PoolTyped, UsedIn
<1>6. \A j \in 1..n : list[j] # id
  BY <1>2, <1>5
<1>7. /\ q.head = pool.head /\ q.tail = pool.tail
      /\ q.next_free = [pool.next_free EXCEPT ![id] = 0, ![pool.tail] = id]
  BY DEF PoolTyped, PoolLink
<1>9. PoolTyped(q)
  <2>1. \A f \in [Ids -> 0..PoolUsed] :
           [f EXCEPT ![id] = 0, ![pool.tail] = id] \in [Ids -> 0..PoolUsed]
    <3>1. 0 \in 0..PoolUsed /\ id \in 0..PoolUsed
      BY <1>0, <1>5
    <3> QED  BY <1>5, <3>1
  <2>2. q.next_free \in [Ids -> 0..PoolUsed]
    <3>1. PICK f \in [Ids -> 0..PoolUsed] : f = pool.next_free
      BY <1>5
    <3>2. [f EXCEPT ![id] = 0, ![pool.tail] = id] \in [Ids -> 0..PoolUsed]
      BY <2>1
    <3> QED  BY <1>7, <3>1, <3>2, Zenon
  <2> QED  BY <1>5, <1>7, <2>2 DEF PoolTyped, PoolLink
<1> HIDE DEF q
<1>8. \A i \in Ids : q.next_free[i] = IF i = pool.tail THEN id
                                      ELSE IF i = id THEN 0 ELSE pool.next_free[i]
  BY <1>5, <1>7
<1>10. pool.tail # id /\ pool.tail \notin UsedIn(pool)
  BY <1>2, <1>3, <1>4, <1>5, <1>6
<1>11. UsedIn(q) = UsedIn(pool) \ {id}
  <2>1. 0 # PoolUsed /\ id # PoolUsed
    BY <1>0, <1>5
  <2> QED  BY <1>5, <1>8, <1>10, <2>1 DEF UsedIn
<1>12. Listed(q, {id})
  <2>1. IsFreeList(list, q)
    <3>1. list[1] = q.head /\ list[n] = q.tail
      BY <1>4, <1>7
    <3>2. ASSUME NEW i \in 1..n - 1
          PROVE  q.next_free[list[i]] = list[i + 1]
      <4>1. i \in 1..n /\ n \in 1..n /\ i # n
        BY <1>3
      <4>2. list[i] # pool.tail /\ list[i] # id /\ list[i] \in Ids
        BY <1>4, <1>6, <4>1
      <4> QED  BY <1>4, <1>8, <4>2
    <3> QED  BY <1>3, <1>4, <3>1, <3>2 DEF IsFreeList
  <2>2. \A i \in Ids : i \in UsedIn(q) \union {id} <=> \A j \in 1..n : list[j] # i
    BY <1>2, <1>6, <1>11
  <2> QED  BY <2>1, <2>2 DEF Listed
<1>13. q.next_free[q.tail] = id
  BY <1>5, <1>7, <1>8
<1> QED  BY <1>7, <1>9, <1>11, <1>12, <1>13 DEF q

LEMMA Tailed ==
    ASSUME NEW pool, NEW id \in Ids, PoolTyped(pool), Listed(pool, {id}), id \notin UsedIn(pool),
           pool.next_free[pool.tail] = id
    PROVE  LET q == PoolTail(pool, id)
           IN  PoolTyped(q) /\ Listed(q, {}) /\ UsedIn(q) = UsedIn(pool)
<1> DEFINE q == PoolTail(pool, id)
<1>0. Contexts \in Nat /\ PoolUsed = Contexts + 1 /\ Ids = 0..Contexts /\ PoolUsed \notin Ids
  BY Sizes
<1>1. PICK n \in 1..Contexts + 1 : \E list \in [1..n -> Ids] :
        /\ IsFreeList(list, pool)
        /\ \A i \in Ids : i \in UsedIn(pool) \union {id} <=> \A j \in 1..n : list[j] # i
  BY DEF Listed
<1>2. PICK list \in [1..n -> Ids] :
        /\ IsFreeList(list, pool)
        /\ \A i \in Ids : i \in UsedIn(pool) \union {id} <=> \A j \in 1..n : list[j] # i
  BY <1>1
<1>3. n \in Nat /\ n >= 1 /\ Len(list) = n
  BY <1>0
<1>4. /\ list[1] = pool.head /\ list[n] = pool.tail
      /\ \A i \in 1..n - 1 : pool.next_free[list[i]] = list[i + 1]
      /\ \A i, j \in 1..n : list[i] = list[j] => i = j
  BY <1>2, <1>3 DEF IsFreeList
<1>5. q.head = pool.head /\ q.tail = id /\ q.next_free = pool.next_free /\ PoolTyped(q)
  BY DEF PoolTyped, PoolTail
<1>6. UsedIn(q) = UsedIn(pool)
  BY <1>5 DEF UsedIn
<1> HIDE DEF q
<1>7. \A j \in 1..n : list[j] # id
  BY <1>2
<1>8. Listed(q, {})
  <2> DEFINE longer == [i \in 1..n + 1 |-> IF i = n + 1 THEN id ELSE list[i]]
  <2>1. \A i \in 1..n : i \in 1..n + 1 /\ i # n + 1
    BY <1>3
  <2>2. (\A i \in 1..n : longer[i] = list[i]) /\ longer[n + 1] = id
    BY <1>3, <2>1
  <2>3. longer \in [1..n + 1 -> Ids] /\ Len(longer) = n + 1
    <3>1. \A i \in 1..n + 1 : i = n + 1 \/ i \in 1..n
      BY <1>3
    <3> QED  BY <1>3, <3>1
  <2> HIDE DEF longer
  <2>4. \A i, j \in 1..n + 1 : longer[i] = longer[j] => i = j
    <3> SUFFICES ASSUME NEW i \in 1..n + 1, NEW j \in 1..n + 1, longer[i] = longer[j]
                 PROVE  i = j
      OBVIOUS
    <3>1. (i = n + 1 \/ i \in 1..n) /\ (j = n + 1 \/ j \in 1..n)
      BY <1>3
    <3> QED  BY <1>4, <1>7, <2>2, <3>1
  <2>5. n + 1 \in 1..Contexts + 1
    <3>1. n + 1 \in Nat
      BY <1>3
    <3>2. n + 1 <= Contexts + 1
      BY <2>3, <2>4, <3>1, ShortList
    <3> QED  BY <1>0, <3>1, <3>2, <1>3
  <2>6. IsFreeList(longer, q)
    <3>1. longer[1] = q.head /\ longer[n + 1] = q.tail
      BY <1>3, <1>4, <1>5, <2>2
    <3>2. ASSUME NEW i \in 1..n
          PROVE  q.next_free[longer[i]] = longer[i + 1]
      <4>1. CASE i = n
        BY <4>1, <1>4, <1>5, <2>2
      <4>2. CASE i # n
        <5>1. i \in 1..n - 1 /\ i + 1 \in 1..n
          BY <4>2, <1>3
        <5> QED  BY <5>1, <1>4, <1>5, <2>2
      <4> QED  BY <4>1, <4>2
    <3>3. Len(longer) - 1 = n
      BY <1>3, <2>3
    <3> QED  BY <2>3, <2>4, <3>1, <3>2, <3>3 DEF IsFreeList
  <2>7. ASSUME NEW i \in Ids
        PROVE  i \in UsedIn(q) \union {} <=> \A j \in 1..n + 1 : longer[j] # i
    <3>1. \A j \in 1..n + 1 : j = n + 1 \/ j \in 1..n
      BY <1>3
    <3>2. (\A j \in 1..n + 1 : longer[j] # i) <=> i # id /\ \A j \in 1..n : list[j] # i
      BY <1>3, <2>1, <2>2, <3>1
    <3> QED  BY <1>2, <1>6, <3>2
  <2> QED  BY <2>3, <2>5, <2>6, <2>7 DEF Listed
<1> QED  BY <1>5, <1>6, <1>8 DEF q

LEMMA PoolViews ==
    /\ UsedIds = UsedIn(bio_context_pool) /\ UsedIds' = UsedIn(bio_context_pool')
    /\ ContextsListed = Listed(bio_context_pool, BeingPushed)
    /\ ContextsListed' = Listed(bio_context_pool', BeingPushed')
  BY DEF UsedIds, UsedIn, ContextsListed, Listed

-----------------------------------------------------------------------------
(* Submitters.                                                             *)

Submitting == UNCHANGED <<bio_context_pool, bio_context, bvec_free, request_ring_alloc, thread,
                          completion_work, bvars, request_ring, completion_ring, faults>>

LEMMA SubmittingKeeps ==
    ASSUME BlockInv, Submitting, FrontendTyped', BiosHeld', NotBegun', Ended'
    PROVE  BlockInv'
<1> USE DEF BlockInv, Submitting, bvars
<1>1. BackendTyped' /\ RingsTyped'
  BY DEF BackendTyped, RingsTyped
<1>2. SameBios
  BY DEF SameBios
<1>3. BackendAt' /\ TransfersQueued' /\ BackendProgress'
  BY <1>2, InUse, BackendFrame, TransfersFrame, ProgressFrame
<1> QED
  BY <1>1, <1>3, PoolFrame, MappedFrame, ThreadFrame, RequestsFrame, AnswersFrame,
     RespondersFrame, PlacedFrame

(* A bio nobody has yet gets another status.                               *)
LEMMA Unheld ==
    ASSUME BiosHeld, NEW b \in Bios, status[b] # "listed"
    PROVE  \A p \in Holders : ~Holds(p, b)
  BY DEF BiosHeld

(* The bio is put at the end of the list. *)
LEMMA Enlisted ==
    ASSUME BlockInv, NEW b \in Bios, status[b] \in {"new", "waiting"}, Submitting, UNCHANGED ends,
           status' = [status EXCEPT ![b] = "listed"],
           request_bio_list' = Append(request_bio_list, b)
    PROVE  BlockInv'
<1> USE DEF BlockInv, Submitting, bvars
<1> DEFINE n == Len(request_bio_list)
<1>1. /\ n \in Nat /\ Len(request_bio_list') = n + 1 /\ request_bio_list' \in Seq(Bios)
      /\ \A i \in 1..n : request_bio_list'[i] = request_bio_list[i]
      /\ request_bio_list'[n + 1] = b
  BY SMTT(30) DEF FrontendTyped
<1>2. FrontendTyped'
  BY <1>1 DEF FrontendTyped, Statuses
<1>3. \A x \in Bios : InList(x)' <=> InList(x) \/ x = b
  BY <1>1 DEF InList
<1>4. \A p \in Holders : ~Holds(p, b)
  BY Unheld
<1>5. \A x \in Bios, p \in Holders : Holds(p, x)' <=> Holds(p, x) \/ (p = "list" /\ x = b)
  BY <1>3 DEF Holds, Holders, ThreadHas, WorkHas, ContextHas, UsedIds, BioOf
<1>6. \A x \in Bios : status'[x] = IF x = b THEN "listed" ELSE status[x]
  BY DEF FrontendTyped
<1>7. BiosHeld'
  <2>1. /\ thread'.pc # "idle" => thread'.bio \in Bios
        /\ completion_work'.pc # "idle" => completion_work'.bio \in Bios
        /\ \A c \in UsedIds' : BioOf(c)' \in Bios
        /\ \A c, d \in UsedIds' : BioOf(c)' = BioOf(d)' => c = d
    BY DEF BiosHeld, UsedIds, BioOf
  <2>2. \A x \in Bios : \A p, q \in Holders : Holds(p, x)' => (Holds(q, x)' => p = q)
    BY <1>4, <1>5 DEF BiosHeld
  <2>3. \A x \in Bios : \A p \in Holders : Holds(p, x)' => status'[x] = "listed"
    BY <1>5, <1>6 DEF BiosHeld
  <2>4. ~InList(b)
    BY <1>4 DEF Holds, Holders
  <2>5. \A i, j \in 1..n + 1 : request_bio_list'[i] = request_bio_list'[j] => i = j
    BY <1>1, <2>4 DEF BiosHeld, InList
  <2>6. \A x \in Bios : ends'[x] = IF status'[x] \in {"ok", "error"} THEN 1 ELSE 0
    BY <1>6 DEF BiosHeld
  <2> QED  BY <1>1, <2>1, <2>2, <2>3, <2>5, <2>6 DEF BiosHeld
<1>8. NotBegun'
  <2>1. \A x \in Bios : Untouched(x)' <=> Untouched(x)
    BY DEF Untouched, Submitted, IsMoved, InDma
  <2>2. \A x \in Bios : status'[x] \in {"new", "waiting"} \/ InList(x)' => Untouched(x)'
    BY <1>3, <1>6, <2>1 DEF NotBegun
  <2> QED
    BY <2>2 DEF NotBegun, BioOf, Submitted, IsMoved, InDma, Untouched, UsedIds,
                At, ThreadBusy, Published, QueuedAt
<1>9. Ended'
  BY <1>6 DEF Ended, Finished, AllMoved, Answers, AnswerAt, BioOf
<1> QED  BY <1>2, <1>7, <1>8, <1>9, SubmittingKeeps

(* The bio is refused, or its submitter waits.                             *)
LEMMA MakeRequestKeeps ==
    ASSUME BlockInv, NEW b \in Bios, MakeRequest(b)
    PROVE  BlockInv'
<1> USE DEF BlockInv
<1>1. Submitting
  BY DEF MakeRequest, Submitting
<1>2. CASE status' = [status EXCEPT ![b] = "listed"] /\ ~(ReadOnly /\ b \in Writes)
  <2>1. status[b] = "new" /\ UNCHANGED ends /\ request_bio_list' = Append(request_bio_list, b)
    <3>1. status' # [status EXCEPT ![b] = "waiting"]
      BY <1>2 DEF FrontendTyped
    <3> QED  BY <1>2, <3>1 DEF MakeRequest
  <2> QED  BY <1>1, <1>2, <2>1, Enlisted
<1>3. CASE ~(status' = [status EXCEPT ![b] = "listed"] /\ ~(ReadOnly /\ b \in Writes))
  <2> USE DEF Submitting, bvars
  <2>1. PICK s \in {"error", "waiting"} :
           /\ status' = [status EXCEPT ![b] = s]
           /\ ends' = [ends EXCEPT ![b] = IF s = "error" THEN @ + 1 ELSE @]
    <3>1. ends = [ends EXCEPT ![b] = @]
      BY DEF FrontendTyped
    <3> QED  BY <1>3, <3>1 DEF MakeRequest, BioEnd
  <2>2. UNCHANGED request_bio_list /\ status[b] = "new"
    BY <1>3 DEF MakeRequest
  <2>3. FrontendTyped'
    <3>1. status' \in [Bios -> Statuses]
      BY <2>1 DEF FrontendTyped, Statuses
    <3>2. (IF s = "error" THEN ends[b] + 1 ELSE ends[b]) \in Nat
      BY DEF FrontendTyped
    <3>3. ends' \in [Bios -> Nat]
      BY <2>1, <3>2 DEF FrontendTyped
    <3> QED  BY <3>1, <3>3, <2>2, <1>1 DEF FrontendTyped
  <2>4. \A x \in Bios : /\ status'[x] = IF x = b THEN s ELSE status[x]
                        /\ ends'[x] = IF x = b /\ s = "error" THEN ends[x] + 1 ELSE ends[x]
    BY <2>1 DEF FrontendTyped
  <2>5. \A x \in Bios, p \in Holders : Holds(p, x)' <=> Holds(p, x)
    BY <2>2, <1>1 DEF Holds, Holders, InList, ThreadHas, WorkHas, ContextHas, UsedIds, BioOf
  <2>6. \A p \in Holders : ~Holds(p, b)
    BY <2>2, Unheld
  <2>7. BiosHeld'
    <3>1. \A x \in Bios : \A p \in Holders : Holds(p, x)' => status'[x] = "listed"
      BY <2>4, <2>5, <2>6 DEF BiosHeld
    <3>2. \A x \in Bios : ends'[x] = IF status'[x] \in {"ok", "error"} THEN 1 ELSE 0
      <4>1. ends[b] = 0 /\ \A x \in Bios : ends[x] = IF status[x] \in {"ok", "error"} THEN 1 ELSE 0
        BY <2>2 DEF BiosHeld
      <4> QED  BY <2>1, <2>4, <4>1
    <3> QED  BY <1>1, <2>2, <2>5, <3>1, <3>2 DEF BiosHeld, UsedIds, BioOf
  <2>8. NotBegun'
    <3>1. \A x \in Bios : (Untouched(x)' <=> Untouched(x)) /\ (InList(x)' <=> InList(x))
      BY <1>1, <2>2 DEF Untouched, Submitted, IsMoved, InDma, InList
    <3>2. \A x \in Bios : status'[x] \in {"new", "waiting"} \/ InList(x)' => Untouched(x)'
      BY <2>2, <2>4, <3>1 DEF NotBegun
    <3> QED
      BY <1>1, <3>2 DEF NotBegun, BioOf, Submitted, IsMoved, InDma, Untouched, UsedIds,
                        At, ThreadBusy, Published, QueuedAt
  <2>9. Ended'
    <3>1. \A x \in Bios : status'[x] = "ok" => status[x] = "ok"
      BY <2>1, <2>4
    <3>2. UNCHANGED <<moved, dma, completion_work, completion_ring, bio_context>>
      BY <1>1
    <3>3. \A x : Finished(x)' <=> Finished(x)
      BY <3>2 DEF Finished, AllMoved
    <3>4. \A x \in Bios : status'[x] = "ok" => Finished(x)'
      BY <3>1, <3>3 DEF Ended
    <3>5. (completion_work.pc # "idle" /\ completion_work.ret = "ok"
             => Finished(completion_work.bio))'
      BY <3>2 DEF Ended, Finished, AllMoved
    <3>6. (\A o \in 0..Answers - 1 :
             AnswerAt(o).ret = "ok" => Finished(BioOf(AnswerAt(o).cookie - 1)))'
      BY <3>2 DEF Ended, Finished, AllMoved, Answers, AnswerAt, BioOf
    <3> QED  BY <3>4, <3>5, <3>6 DEF Ended
  <2> QED  BY <1>1, <2>3, <2>7, <2>8, <2>9, SubmittingKeeps
<1> QED  BY <1>2, <1>3

LEMMA DecongestedKeeps ==
    ASSUME BlockInv, NEW b \in Bios, Decongested(b)
    PROVE  BlockInv'
  BY Enlisted DEF Decongested, Submitting

-----------------------------------------------------------------------------
(* The frontend's request thread.                                          *)

ThreadStep == SameBios /\ UNCHANGED <<completion_work, bvars, completion_ring>>

LEMMA ThreadStepKeeps ==
    ASSUME BlockInv, ThreadStep, faults' \in 0..MaxFaults, FrontendTyped', RingsTyped',
           ContextsListed', Pushing', Mapped', BiosHeld', ThreadAt', RequestsQueued', Placed',
           NotBegun', status' = status \/ Ended'
    PROVE  BlockInv'
<1> USE DEF BlockInv, ThreadStep, bvars
<1>1. BackendTyped'
  BY DEF BackendTyped
<1>2. BackendAt' /\ TransfersQueued' /\ BackendProgress'
  BY InUse, BackendFrame, TransfersFrame, ProgressFrame
<1>3. Ended'
  BY InUse, EndedFrame
<1> QED  BY <1>1, <1>2, <1>3, AnswersFrame, RespondersFrame

LEMMA TakeBioKeeps ==
    ASSUME BlockInv, TakeBio
    PROVE  BlockInv'
<1> USE DEF BlockInv
<1> DEFINE n == Len(request_bio_list)
<1>0. PICK h : h = Head(request_bio_list)
  OBVIOUS
<1>1. /\ thread.pc = "idle" /\ request_bio_list # <<>> /\ request_bio_list' = Tail(request_bio_list)
      /\ thread' = [thread EXCEPT !.pc = "context", !.bio = h]
      /\ UNCHANGED <<status, ends, bio_context_pool, bio_context, bvec_free, request_ring_alloc,
                     request_ring, faults, completion_work, bvars, completion_ring>>
  BY <1>0 DEF TakeBio, RequestThread
<1>2. /\ n \in Nat \ {0} /\ Len(request_bio_list') = n - 1 /\ request_bio_list' \in Seq(Bios)
      /\ h = request_bio_list[1] /\ h \in Bios
      /\ \A i \in 1..n - 1 : request_bio_list'[i] = request_bio_list[i + 1]
  BY <1>0, <1>1, SMTT(30) DEF FrontendTyped
<1>3. /\ thread'.pc = "context" /\ thread'.bio = h /\ thread'.id = thread.id
      /\ thread'.part = thread.part
  BY <1>1 DEF FrontendTyped
<1> HIDE DEF n
<1>4. FrontendTyped'
  BY <1>1, <1>2 DEF FrontendTyped, SomeBio
<1>5. ThreadStep
  BY <1>1 DEF ThreadStep, SameBios
<1>6. RingsTyped' /\ Mapped' /\ faults' \in 0..MaxFaults
  BY <1>1, MappedFrame DEF RingsTyped, BackendTyped
<1>7. ContextsListed' /\ Pushing'
  BY <1>1, <1>3 DEF ContextsListed, Pushing, HalfPushed, UsedIds, BeingPushed
<1>8. \A x \in Bios : InList(x)' <=> InList(x) /\ x # h
  <2>1. \A i, j \in 1..n : request_bio_list[i] = request_bio_list[j] => i = j
    BY DEF BiosHeld, n
  <2>2. ASSUME NEW x \in Bios, InList(x), x # h
        PROVE  InList(x)'
    <3>1. PICK i \in 1..n : request_bio_list[i] = x
      BY <2>2 DEF InList, n
    <3>2. i - 1 \in 1..n - 1 /\ request_bio_list'[i - 1] = x
      BY <1>2, <2>2, <3>1
    <3> QED  BY <1>2, <3>2 DEF InList
  <2>3. ASSUME NEW x \in Bios, InList(x)'
        PROVE  InList(x) /\ x # h
    <3>1. PICK i \in 1..n - 1 : request_bio_list'[i] = x
      BY <1>2, <2>3 DEF InList
    <3>2. i + 1 \in 1..n /\ request_bio_list[i + 1] = x /\ 1 \in 1..n
      BY <1>2, <3>1
    <3> QED  BY <1>2, <2>1, <3>2 DEF InList, n
  <2> QED  BY <2>2, <2>3
<1>9. InList(h)
  BY <1>2 DEF InList, n
<1>10. BiosHeld'
  <2>1. \A x \in Bios, p \in Holders :
           Holds(p, x)' <=> IF p = "list" THEN Holds(p, x) /\ x # h
                            ELSE IF p = "thread" THEN x = h ELSE Holds(p, x)
    BY <1>1, <1>3, <1>8 DEF Holds, Holders, ThreadHas, WorkHas, ContextHas, UsedIds, BioOf
  <2>2. Holds("list", h) /\ \A p \in Holders : Holds(p, h) => p = "list"
    BY <1>2, <1>9 DEF Holds, BiosHeld, Holders
  <2>3. status[h] = "listed"
    BY <2>2, <1>2 DEF BiosHeld, Holders
  <2>4. \A x \in Bios : \A p, q \in Holders : Holds(p, x)' => (Holds(q, x)' => p = q)
    BY <2>1, <2>2 DEF BiosHeld
  <2>5. \A x \in Bios : \A p \in Holders : Holds(p, x)' => status'[x] = "listed"
    BY <1>1, <2>1, <2>3 DEF BiosHeld
  <2>6. \A i, j \in 1..n - 1 : request_bio_list'[i] = request_bio_list'[j] => i = j
    <3>1. \A i, j \in 1..n : request_bio_list[i] = request_bio_list[j] => i = j
      BY DEF BiosHeld, n
    <3>2. \A i \in 1..n - 1 : i + 1 \in 1..n
      BY <1>2
    <3> QED  BY <1>2, <3>1, <3>2
  <2> QED
    BY <1>1, <1>2, <1>3, <2>4, <2>5, <2>6 DEF BiosHeld, UsedIds, BioOf
<1>11. ThreadAt'
  BY <1>3 DEF ThreadAt, ThreadBusy
<1>12. RequestsQueued'
  <2>1. PublishedWhole'
    BY <1>1, <1>5, InUse, PublishedFrame DEF RequestsQueued, ThreadStep
  <2>2. Published' = Published /\ Prepared' = Prepared /\ ThreadsEntries' = 0 /\ ThreadsEntries = 0
    BY <1>1, <1>3 DEF Published, Prepared, ThreadsEntries
  <2>3. Prepared = Published /\ Published \in Int
    BY <2>2, Counts, Sizes DEF RequestsQueued
  <2> QED
    BY <2>1, <2>2, <2>3 DEF RequestsQueued
<1>13. Placed'
  BY <1>1, <1>3 DEF Placed, At, ThreadBusy, Published, QueuedAt, Cookie, Answers, AnswerAt,
                    UsedIds, bvars
<1>14. NotBegun'
  <2>1. \A x \in Bios : Untouched(x)' <=> Untouched(x)
    BY <1>1 DEF Untouched, Submitted, IsMoved, InDma, bvars
  <2>2. \A x \in Bios : status'[x] \in {"new", "waiting"} \/ InList(x)' => Untouched(x)'
    BY <1>1, <1>8, <2>1 DEF NotBegun
  <2>3. (thread.pc = "context" => Untouched(thread.bio))'
    <3>1. Untouched(h)'
      BY <1>2, <1>9, <2>1 DEF NotBegun
    <3> QED  BY <1>3, <3>1 DEF Untouched, Submitted, IsMoved, InDma
  <2>4. \A c \in UsedIds : (At("thread", c)' => At("thread", c)) /\ (At("ring", c)' <=> At("ring", c))
    BY <1>1, <1>3 DEF At, ThreadBusy, Published, QueuedAt
  <2>5. UsedIds' = UsedIds /\ \A c \in UsedIds : BioOf(c)' = BioOf(c) /\ BioOf(c) \in Bios
    BY <1>1 DEF UsedIds, BioOf, BiosHeld
  <2> QED  BY <2>1, <2>2, <2>3, <2>4, <2>5 DEF NotBegun
<1> QED
  BY <1>1, <1>4, <1>5, <1>6, <1>7, <1>10, <1>11, <1>12, <1>13, <1>14, ThreadStepKeeps

LEMMA HeldAre ==
    ASSUME NEW owner \in [1..RequestNum -> 0..PoolUsed], NEW i
    PROVE  IsFiniteSet(Held(owner, i)) /\ Cardinality(Held(owner, i)) \in 0..RequestNum
<1>1. RequestNum \in Nat \ {0}
  BY Sizes
<1>2. IsFiniteSet(1..RequestNum) /\ Cardinality(1..RequestNum) = RequestNum
  <2>1. Cardinality(1..RequestNum) = IF 1 > RequestNum THEN 0 ELSE RequestNum - 1 + 1
    BY <1>1, FS_Interval
  <2> QED  BY <1>1, <2>1, FS_Interval
<1>3. Held(owner, i) \in SUBSET (1..RequestNum)
  BY DEF Held
<1>4. IsFiniteSet(Held(owner, i)) /\ Cardinality(Held(owner, i)) <= RequestNum
  <2>1. \A T \in SUBSET (1..RequestNum) :
           IsFiniteSet(T) /\ Cardinality(T) <= Cardinality(1..RequestNum)
    BY <1>2, FS_Subset
  <2> QED  BY <1>2, <1>3, <2>1
<1>5. Cardinality(Held(owner, i)) \in Nat
  BY <1>4, FS_CardinalityType
<1> QED  BY <1>1, <1>4, <1>5

LEMMA GetBioContextKeeps ==
    ASSUME BlockInv, GetBioContext
    PROVE  BlockInv'
<1> USE DEF BlockInv
<1>0. PICK h : h = bio_context_pool.head
  OBVIOUS
<1>1. /\ thread.pc = "context" /\ IsAvailable(bio_context_pool)
      /\ bio_context_pool' = PoolPop(bio_context_pool)
      /\ bio_context' = [bio_context EXCEPT ![h] = [bio |-> thread.bio, bvecs |-> 0]]
      /\ thread' = [thread EXCEPT !.pc = "step", !.id = h, !.part = 1]
      /\ UNCHANGED <<status, ends, request_bio_list, bvec_free, request_ring_alloc, request_ring,
                     faults, completion_work, bvars, completion_ring>>
  BY <1>0 DEF GetBioContext, RequestThread
<1>2. /\ PoolTyped(bio_context_pool) /\ Listed(bio_context_pool, BeingPushed)
      /\ UsedIds = UsedIn(bio_context_pool) /\ UsedIds' = UsedIn(bio_context_pool')
  BY PoolViews DEF PoolTyped, FrontendTyped
<1>3. /\ PoolTyped(bio_context_pool') /\ Listed(bio_context_pool', BeingPushed)
      /\ h \notin UsedIds \union BeingPushed /\ UsedIds' = UsedIds \union {h}
      /\ bio_context_pool'.tail = bio_context_pool.tail
      /\ bio_context_pool'.next_free[bio_context_pool'.tail]
            = bio_context_pool.next_free[bio_context_pool.tail]
  BY <1>0, <1>1, <1>2, Popped
<1>4. /\ thread'.pc = "step" /\ thread'.bio = thread.bio /\ thread'.id = h /\ thread'.part = 1
      /\ h \in Ids /\ thread.bio \in Bios
  BY <1>0, <1>1 DEF FrontendTyped, BiosHeld
<1>5. FrontendTyped'
  <2>1. [bio |-> thread.bio, bvecs |-> 0] \in [bio : SomeBio, bvecs : 0..RequestNum]
    BY <1>4, Sizes DEF SomeBio
  <2>2. bio_context' \in [Ids -> [bio : SomeBio, bvecs : 0..RequestNum]]
    BY <1>1, <1>4, <2>1 DEF FrontendTyped
  <2> QED  BY <1>1, <1>3, <1>4, <2>2 DEF FrontendTyped, PoolTyped
<1>6. bio_context'[h].bio = thread.bio /\ bio_context'[h].bvecs = 0
      /\ \A c \in Ids : c # h => bio_context'[c] = bio_context[c]
  BY <1>1, <1>4 DEF FrontendTyped
<1>7. ThreadStep
  BY <1>1, <1>3, <1>6, UsedAre DEF ThreadStep, SameBios
<1>8. RingsTyped' /\ faults' \in 0..MaxFaults
  BY <1>1 DEF RingsTyped, BackendTyped
<1>9. BeingPushed' = BeingPushed
  BY <1>1, <1>4 DEF BeingPushed
<1>10. ContextsListed'
  BY <1>3, <1>9, PoolViews
<1>11. Pushing'
  <2>1. completion_work.pc = "tail" => completion_work.id \in BeingPushed
    BY DEF BeingPushed
  <2> QED  BY <1>1, <1>3, <1>4, <2>1 DEF Pushing, HalfPushed
<1>12. Mapped'
  <2>1. PICK owner \in [1..RequestNum -> 0..PoolUsed] :
        /\ \A i \in UsedIds : Cardinality(Held(owner, i)) = bio_context[i].bvecs
        /\ \A i \in Ids \ UsedIds : Held(owner, i) = {}
        /\ Cardinality(Held(owner, PoolUsed)) = bvec_free
    BY DEF Mapped
  <2>2. Cardinality(Held(owner, h)) = 0
    BY <1>3, <1>4, <2>1, FS_EmptySet
  <2>3. /\ \A i \in UsedIds' : Cardinality(Held(owner, i)) = bio_context'[i].bvecs
        /\ \A i \in Ids \ UsedIds' : Held(owner, i) = {}
        /\ Cardinality(Held(owner, PoolUsed)) = bvec_free'
    BY <1>1, <1>3, <1>6, <2>1, <2>2, UsedAre
  <2>4. \A i : Held(owner, i)' = Held(owner, i)
    BY DEF Held
  <2> QED  BY <2>3, <2>4 DEF Mapped
<1>13. BiosHeld'
  <2>1. \A x \in Bios : ContextHas(x)' <=> ContextHas(x) \/ x = thread.bio
    BY <1>3, <1>6, UsedAre DEF ContextHas, BioOf
  <2>2. \A x \in Bios, p \in Holders :
           Holds(p, x)' <=> IF p = "thread" THEN FALSE
                            ELSE IF p = "context" THEN Holds(p, x) \/ x = thread.bio ELSE Holds(p, x)
    BY <1>1, <1>4, <2>1 DEF Holds, Holders, ThreadHas, WorkHas, InList
  <2>3. Holds("thread", thread.bio) /\ \A p \in Holders : Holds(p, thread.bio) => p = "thread"
    <3>1. Holds("thread", thread.bio)
      BY <1>1 DEF Holds, ThreadHas
    <3> QED  BY <3>1, <1>4 DEF BiosHeld, Holders
  <2>4. status[thread.bio] = "listed"
    BY <2>3, <1>4 DEF BiosHeld, Holders
  <2>5. \A x \in Bios : \A p, q \in Holders : Holds(p, x)' => (Holds(q, x)' => p = q)
    BY <2>2, <2>3 DEF BiosHeld
  <2>6. \A x \in Bios : \A p \in Holders : Holds(p, x)' => status'[x] = "listed"
    BY <1>1, <2>2, <2>4 DEF BiosHeld
  <2>7. \A c \in UsedIds : BioOf(c) \in Bios /\ BioOf(c) # thread.bio
    <3>1. ~ContextHas(thread.bio)
      BY <2>3 DEF Holds, Holders
    <3> QED  BY <3>1 DEF ContextHas, BiosHeld
  <2>8. (\A c \in UsedIds' : BioOf(c)' \in Bios)
        /\ \A c, d \in UsedIds' : BioOf(c)' = BioOf(d)' => c = d
    <3>1. \A c \in UsedIds : BioOf(c)' = BioOf(c)
      BY <1>7 DEF BioOf, ThreadStep, SameBios
    <3>2. \A c : c = h => BioOf(c)' = thread.bio
      BY <1>6 DEF BioOf
    <3> QED  BY <1>3, <1>4, <2>7, <3>1, <3>2 DEF BiosHeld
  <2> QED  BY <1>1, <1>4, <2>5, <2>6, <2>8 DEF BiosHeld
<1>14. ThreadAt'
  <2>1. 1 \in 1..Len(Parts[thread.bio])
    BY <1>4, PartsAre, Sizes
  <2> QED  BY <1>3, <1>4, <1>6, <2>1 DEF ThreadAt, ThreadBusy, BioOf
<1>15. RequestsQueued'
  <2>1. PublishedWhole'
    BY <1>1, <1>7, InUse, PublishedFrame DEF RequestsQueued, ThreadStep
  <2>2. Published' = Published /\ Prepared' = Prepared /\ ThreadsEntries' = 0 /\ ThreadsEntries = 0
    BY <1>1, <1>4 DEF Published, Prepared, ThreadsEntries
  <2>3. Prepared = Published /\ Published \in Int
    BY <2>2, Counts, Sizes DEF RequestsQueued
  <2> QED
    BY <2>1, <2>2, <2>3 DEF RequestsQueued
<1>16. \A c \in Ids, p \in Stages : At(p, c)' <=> At(p, c) \/ (p = "thread" /\ c = h)
  BY <1>1, <1>4 DEF At, Stages, ThreadBusy, Published, QueuedAt, Cookie, Answers, AnswerAt, bvars
<1>17. Placed'
  <2>1. \A p \in Stages : ~At(p, h)
    BY <1>3, <1>4 DEF Placed
  <2> QED  BY <1>3, <1>16, <2>1 DEF Placed
<1>18. NotBegun'
  <2>1. \A x \in Bios : (Untouched(x)' <=> Untouched(x)) /\ (InList(x)' <=> InList(x))
    BY <1>1 DEF Untouched, Submitted, IsMoved, InDma, InList, bvars
  <2>2. \A x \in Bios : status'[x] \in {"new", "waiting"} \/ InList(x)' => Untouched(x)'
    BY <1>1, <2>1 DEF NotBegun
  <2>3. Untouched(thread.bio)
    BY <1>1 DEF NotBegun
  <2>4. \A c \in UsedIds : BioOf(c)' = BioOf(c) /\ BioOf(c) \in Bios
    BY <1>7 DEF BioOf, BiosHeld, ThreadStep, SameBios
  <2>5. \A c : c = h => BioOf(c)' = thread.bio
    BY <1>6 DEF BioOf
  <2>6. ASSUME NEW c \in UsedIds', At("thread", c)' \/ At("ring", c)'
        PROVE  Untouched(BioOf(c))'
    <3>1. \A b \in Bios : BioOf(c)' = b /\ Untouched(b) => Untouched(BioOf(c))'
      BY <2>1 DEF Untouched, Submitted, IsMoved, InDma
    <3>2. CASE c = h
      BY <1>4, <2>3, <2>5, <3>1, <3>2
    <3>3. CASE c # h
      <4>1. c \in UsedIds /\ (At("thread", c) \/ At("ring", c))
        BY <1>3, <1>16, <2>6, <3>3, UsedAre DEF Stages
      <4>2. Untouched(BioOf(c))
        BY <4>1 DEF NotBegun
      <4> QED  BY <2>4, <3>1, <4>1, <4>2
    <3> QED  BY <3>2, <3>3
  <2> QED  BY <1>4, <2>2, <2>6 DEF NotBegun
<1> QED
  BY <1>1, <1>5, <1>7, <1>8, <1>10, <1>11, <1>12, <1>13, <1>14, <1>15, <1>17, <1>18,
     ThreadStepKeeps

(* The thread ends its bio with an error, without a context.               *)
GivesUp ==
    /\ thread.pc \in {"context", "tail"} /\ thread' = Idle
    /\ request_ring_alloc' \in {request_ring.last_add, request_ring_alloc}
    /\ BioEnd(thread.bio, "error")
    /\ UNCHANGED <<request_bio_list, bio_context, bvec_free, request_ring,
                   completion_work, bvars, completion_ring>>

LEMMA GivesUpKeeps ==
    ASSUME BlockInv, GivesUp, UsedIds' = UsedIds, PoolTyped(bio_context_pool'),
           ContextsListed', Pushing', faults' \in 0..MaxFaults
    PROVE  BlockInv'
<1> USE DEF BlockInv
<1>0. PICK b : b = thread.bio
  OBVIOUS
<1>1. /\ thread.pc \in {"context", "tail"} /\ thread' = Idle
      /\ request_ring_alloc' \in {request_ring.last_add, request_ring_alloc}
      /\ status' = [status EXCEPT ![b] = "error"] /\ ends' = [ends EXCEPT ![b] = @ + 1]
      /\ UNCHANGED <<request_bio_list, bio_context, bvec_free, request_ring,
                     completion_work, bvars, completion_ring>>
  BY <1>0 DEF GivesUp, BioEnd
<1>2. b \in Bios /\ thread'.pc = "idle" /\ thread'.id = 0 /\ thread'.bio = NoValue /\ thread'.part = 0
  BY <1>0, <1>1 DEF BiosHeld, Idle
<1>3. FrontendTyped'
  <2>1. ends[b] + 1 \in Nat
    BY <1>2, SMTT(30) DEF FrontendTyped
  <2>2. status' \in [Bios -> Statuses] /\ ends' \in [Bios -> Nat]
    BY <1>1, <1>2, <2>1 DEF FrontendTyped, Statuses
  <2>3. request_ring_alloc' \in 0..2 * RequestNum - 1
    BY <1>1 DEF RingsTyped, FrontendTyped
  <2>4. 0 \in Ids
    BY Sizes
  <2>5. thread' \in [pc : {"idle", "context", "step", "start", "tail"},
                     bio : SomeBio, id : Ids, part : Nat]
    BY <1>1, <2>4 DEF Idle, SomeBio
  <2> QED  BY <1>1, <2>2, <2>3, <2>5 DEF FrontendTyped, PoolTyped
<1>4. RingsTyped'
  BY <1>1 DEF RingsTyped
<1>5. ThreadStep
  BY <1>1 DEF ThreadStep, SameBios
<1>6. Mapped'
  BY <1>1 DEF Mapped, Held
<1>7. \A x \in Bios : /\ status'[x] = IF x = b THEN "error" ELSE status[x]
                      /\ ends'[x] = IF x = b THEN ends[x] + 1 ELSE ends[x]
  BY <1>1, <1>2 DEF FrontendTyped
<1>8. BiosHeld'
  <2>1. \A x \in Bios, p \in Holders : Holds(p, x)' <=> p # "thread" /\ Holds(p, x)
    BY <1>1, <1>2 DEF Holds, Holders, ThreadHas, WorkHas, InList, ContextHas, BioOf
  <2>2. Holds("thread", b) /\ \A p \in Holders : Holds(p, b) => p = "thread"
    <3>1. Holds("thread", b)
      BY <1>0, <1>1 DEF Holds, ThreadHas
    <3> QED  BY <3>1, <1>2 DEF BiosHeld, Holders
  <2>3. \A x \in Bios : \A p, q \in Holders : Holds(p, x)' => (Holds(q, x)' => p = q)
    BY <2>1 DEF BiosHeld
  <2>4. \A x \in Bios : \A p \in Holders : Holds(p, x)' => status'[x] = "listed"
    BY <1>7, <2>1, <2>2 DEF BiosHeld
  <2>5. status[b] = "listed"
    BY <2>2, <1>2 DEF BiosHeld, Holders
  <2>6. \A x \in Bios : ends'[x] = IF status'[x] \in {"ok", "error"} THEN 1 ELSE 0
    <3>1. ends[b] = 0 /\ \A x \in Bios : ends[x] = IF status[x] \in {"ok", "error"} THEN 1 ELSE 0
      BY <1>2, <2>5 DEF BiosHeld
    <3> QED  BY <1>7, <3>1
  <2> QED  BY <1>1, <1>2, <2>3, <2>4, <2>6 DEF BiosHeld, BioOf
<1>9. ThreadAt'
  BY <1>2 DEF ThreadAt, ThreadBusy
<1>10. RequestsQueued'
  <2>1. PublishedWhole'
    BY <1>1, <1>5, InUse, PublishedFrame DEF RequestsQueued, ThreadStep
  <2>2. Published' = Published /\ Prepared' \in {Published, Prepared} /\ ThreadsEntries' = 0
    BY <1>1, <1>2 DEF Published, Prepared, ThreadsEntries
  <2>3. Published \in Int /\ Prepared = Published /\ Published <= RequestNum
    <3>1. Published \in Int /\ Prepared \in Int /\ RequestNum \in Int /\ ThreadsEntries = 0
      BY <1>1, Counts, Sizes DEF ThreadsEntries
    <3> QED  BY <3>1 DEF RequestsQueued
  <2>4. Prepared' = Published' /\ Published' \in Int /\ Published' <= RequestNum
    BY <2>2, <2>3
  <2> HIDE DEF BlockInv
  <2> QED  BY <2>1, <2>2, <2>4 DEF RequestsQueued
<1>11. Placed'
  BY <1>1, <1>2 DEF Placed, At, ThreadBusy, Published, QueuedAt, Cookie, Answers, AnswerAt,
                    bvars
<1>12. NotBegun'
  <2>1. \A x \in Bios : (Untouched(x)' <=> Untouched(x)) /\ (InList(x)' <=> InList(x))
    BY <1>1 DEF Untouched, Submitted, IsMoved, InDma, InList, bvars
  <2>2. \A x \in Bios : status'[x] \in {"new", "waiting"} \/ InList(x)' => Untouched(x)'
    BY <1>7, <2>1 DEF NotBegun
  <2>3. \A c \in UsedIds : At("thread", c)' \/ At("ring", c)' => At("ring", c)
    BY <1>1, <1>2 DEF At, ThreadBusy, Published, QueuedAt
  <2>4. UsedIds' = UsedIds /\ \A c \in UsedIds : BioOf(c)' = BioOf(c) /\ BioOf(c) \in Bios
    BY <1>1 DEF BioOf, BiosHeld
  <2> QED  BY <1>2, <2>1, <2>2, <2>3, <2>4 DEF NotBegun
<1>13. Ended'
  <2>1. \A x \in Bios : status'[x] = "ok" => status[x] = "ok"
    BY <1>7
  <2> QED  BY <1>1, <2>1 DEF Ended, Finished, AllMoved, Answers, AnswerAt, BioOf, bvars
<1> QED
  BY <1>3, <1>4, <1>5, <1>6, <1>8, <1>9, <1>10, <1>11, <1>12, <1>13, ThreadStepKeeps

LEMMA NoBioContextKeeps ==
    ASSUME BlockInv, NoBioContext
    PROVE  BlockInv'
<1> USE DEF BlockInv
<1>1. GivesUp /\ thread.pc = "context" /\ UNCHANGED <<bio_context_pool, completion_work>>
  BY DEF NoBioContext, GivesUp, RequestThread, RequestBreak
<1>2. thread'.pc = "idle"
  BY <1>1 DEF GivesUp, Idle
<1>3. ContextsListed' /\ Pushing' /\ UsedIds' = UsedIds
  BY <1>1, <1>2 DEF ContextsListed, Pushing, HalfPushed, UsedIds, BeingPushed
<1>4. faults' \in 0..MaxFaults
  BY ModesAssumption DEF NoBioContext, Fail, BackendTyped
<1>5. PoolTyped(bio_context_pool')
  BY <1>1 DEF PoolTyped, FrontendTyped
<1> QED  BY <1>1, <1>3, <1>4, <1>5, GivesUpKeeps

LEMMA BreakEndKeeps ==
    ASSUME BlockInv, BreakEnd
    PROVE  BlockInv'
<1> USE DEF BlockInv
<1>1. GivesUp /\ thread.pc = "tail" /\ UNCHANGED <<faults, completion_work>>
      /\ bio_context_pool' = PoolTail(bio_context_pool, thread.id)
  BY DEF BreakEnd, GivesUp, RequestThread
<1>2. thread'.pc = "idle" /\ completion_work.pc # "tail" /\ thread.id \in Ids
  BY <1>1 DEF GivesUp, Idle, Pushing, FrontendTyped
<1>3. BeingPushed = {thread.id} /\ BeingPushed' = {}
  BY <1>1, <1>2 DEF BeingPushed
<1>4. /\ PoolTyped(bio_context_pool) /\ Listed(bio_context_pool, {thread.id})
      /\ UsedIds = UsedIn(bio_context_pool) /\ UsedIds' = UsedIn(bio_context_pool')
  BY <1>3, PoolViews DEF PoolTyped, FrontendTyped
<1>5. thread.id \notin UsedIn(bio_context_pool)
      /\ bio_context_pool.next_free[bio_context_pool.tail] = thread.id
  BY <1>1, <1>4 DEF Pushing, HalfPushed
<1>6. /\ PoolTyped(bio_context_pool') /\ Listed(bio_context_pool', {})
      /\ UsedIds' = UsedIds
  BY <1>1, <1>2, <1>4, <1>5, Tailed
<1>7. ContextsListed' /\ Pushing'
  BY <1>1, <1>2, <1>3, <1>6, PoolViews DEF Pushing
<1>8. faults' \in 0..MaxFaults
  BY <1>1 DEF BackendTyped
<1> QED  BY <1>1, <1>6, <1>7, <1>8, GivesUpKeeps

-----------------------------------------------------------------------------
(* Mappings.                                                               *)

LEMMA TakesMapping ==
    ASSUME Mapped, FrontendTyped, NEW id \in UsedIds, bvec_free > 0, UsedIds' = UsedIds,
           bvec_free' = bvec_free - 1,
           \A c \in UsedIds : bio_context'[c].bvecs = IF c = id THEN bio_context[c].bvecs + 1
                                                     ELSE bio_context[c].bvecs
    PROVE  Mapped' /\ bio_context[id].bvecs + 1 \in 0..RequestNum
<1>0. /\ RequestNum \in Nat \ {0} /\ PoolUsed \notin Ids /\ id \in Ids /\ id \in 0..PoolUsed
      /\ UsedIds \subseteq Ids /\ bvec_free \in Nat
  <2>1. id \in Ids /\ bvec_free \in 0..RequestNum
    BY UsedAre DEF FrontendTyped
  <2> QED  BY <2>1, Sizes, UsedAre
<1>1. PICK owner \in [1..RequestNum -> 0..PoolUsed] :
        /\ \A i \in UsedIds : Cardinality(Held(owner, i)) = bio_context[i].bvecs
        /\ \A i \in Ids \ UsedIds : Held(owner, i) = {}
        /\ Cardinality(Held(owner, PoolUsed)) = bvec_free
  BY DEF Mapped
<1>2. PICK m \in 1..RequestNum : owner[m] = PoolUsed
  <2>1. ASSUME Held(owner, PoolUsed) = {}
        PROVE  FALSE
    <3>1. Cardinality(Held(owner, PoolUsed)) = 0
      BY <2>1, FS_EmptySet
    <3> QED  BY <1>0, <1>1, <3>1
  <2> QED  BY <2>1 DEF Held
<1> DEFINE new == [owner EXCEPT ![m] = id]
<1>3. new \in [1..RequestNum -> 0..PoolUsed]
      /\ \A x \in 1..RequestNum : new[x] = IF x = m THEN id ELSE owner[x]
  BY <1>0
<1> HIDE DEF new
<1>4. Cardinality(Held(new, id)) = bio_context[id].bvecs + 1
  <2>1. Held(new, id) = Held(owner, id) \union {m} /\ m \notin Held(owner, id)
    BY <1>0, <1>2, <1>3 DEF Held
  <2> QED  BY <1>1, <2>1, HeldAre, FS_AddElement
<1>5. Cardinality(Held(new, PoolUsed)) = bvec_free - 1
  <2>1. Held(new, PoolUsed) = Held(owner, PoolUsed) \ {m} /\ m \in Held(owner, PoolUsed)
    BY <1>0, <1>2, <1>3 DEF Held
  <2> QED  BY <1>1, <2>1, HeldAre, FS_RemoveElement
<1>6. \A i \in Ids : i # id => Held(new, i) = Held(owner, i)
  BY <1>0, <1>2, <1>3 DEF Held
<1>7. /\ \A i \in UsedIds' : Cardinality(Held(new, i)) = bio_context'[i].bvecs
      /\ \A i \in Ids \ UsedIds' : Held(new, i) = {}
      /\ Cardinality(Held(new, PoolUsed)) = bvec_free'
  BY <1>0, <1>1, <1>4, <1>5, <1>6
<1>8. \A i : Held(new, i)' = Held(new, i)
  BY DEF Held
<1>9. Mapped'
  BY <1>3, <1>7, <1>8 DEF Mapped
<1>10. Cardinality(Held(new, id)) \in 0..RequestNum
  BY <1>3, HeldAre
<1> QED  BY <1>4, <1>9, <1>10

LEMMA ReturnsMappings ==
    ASSUME Mapped, FrontendTyped, NEW id \in UsedIds, UsedIds' = UsedIds \ {id},
           bvec_free' = bvec_free + bio_context[id].bvecs, UNCHANGED bio_context
    PROVE  Mapped' /\ bvec_free' \in 0..RequestNum
<1>0. /\ RequestNum \in Nat \ {0} /\ PoolUsed \notin Ids /\ id \in Ids /\ PoolUsed \in 0..PoolUsed
      /\ UsedIds \subseteq Ids /\ bvec_free \in Nat /\ bio_context[id].bvecs \in Nat
  BY Sizes, UsedAre, SMTT(30) DEF FrontendTyped
<1>1. PICK owner \in [1..RequestNum -> 0..PoolUsed] :
        /\ \A i \in UsedIds : Cardinality(Held(owner, i)) = bio_context[i].bvecs
        /\ \A i \in Ids \ UsedIds : Held(owner, i) = {}
        /\ Cardinality(Held(owner, PoolUsed)) = bvec_free
  BY DEF Mapped
<1> DEFINE new == [x \in 1..RequestNum |-> IF owner[x] = id THEN PoolUsed ELSE owner[x]]
<1>2. new \in [1..RequestNum -> 0..PoolUsed]
      /\ \A x \in 1..RequestNum : new[x] = IF owner[x] = id THEN PoolUsed ELSE owner[x]
  BY <1>0
<1> HIDE DEF new
<1>3. Cardinality(Held(new, PoolUsed)) = bvec_free'
  <2>1. Held(new, PoolUsed) = Held(owner, PoolUsed) \union Held(owner, id)
        /\ Held(owner, PoolUsed) \intersect Held(owner, id) = {}
    BY <1>0, <1>2 DEF Held
  <2>2. Cardinality(Held(owner, PoolUsed) \union Held(owner, id))
           = Cardinality(Held(owner, PoolUsed)) + Cardinality(Held(owner, id))
             - Cardinality(Held(owner, PoolUsed) \intersect Held(owner, id))
    BY HeldAre, FS_Union
  <2>3. Cardinality(Held(owner, PoolUsed) \intersect Held(owner, id)) = 0
    BY <2>1, FS_EmptySet
  <2> QED  BY <1>0, <1>1, <2>1, <2>2, <2>3
<1>4. \A i \in Ids : Held(new, i) = IF i = id THEN {} ELSE Held(owner, i)
  BY <1>0, <1>2 DEF Held
<1>5. /\ \A i \in UsedIds' : Cardinality(Held(new, i)) = bio_context'[i].bvecs
      /\ \A i \in Ids \ UsedIds' : Held(new, i) = {}
  BY <1>0, <1>1, <1>4
<1>6. \A i : Held(new, i)' = Held(new, i)
  BY DEF Held
<1>7. Mapped'
  BY <1>2, <1>3, <1>5, <1>6 DEF Mapped
<1>8. Cardinality(Held(new, PoolUsed)) \in 0..RequestNum
  BY <1>2, HeldAre
<1> QED  BY <1>3, <1>7, <1>8

(* An entry is put behind the entries prepared.                            *)
LEMMA EntryPrepared ==
    ASSUME BlockInv, RingRoom, NEW e, UNCHANGED request_ring.last_used,
           request_ring'.elems = [request_ring.elems EXCEPT ![request_ring_alloc % RequestNum] = e]
    PROVE  /\ Prepared \in 0..RequestNum - 1 /\ Published \in 0..Prepared
           /\ \A o \in 0..RequestNum - 1 : QueuedAt(o)' = IF o = Prepared THEN e ELSE QueuedAt(o)
           /\ request_ring_alloc % RequestNum \in 0..RequestNum - 1
<1> USE DEF BlockInv
<1> DEFINE N == RequestNum
           u == request_ring.last_used
           a == request_ring_alloc
<1>1. N \in Nat \ {0} /\ u \in 0..2 * N - 1 /\ a \in 0..2 * N - 1
  BY Sizes DEF RingsTyped, FrontendTyped
<1>2. Prepared \in 0..N - 1 /\ Published \in 0..Prepared /\ Dist(a, u, N) = Prepared
  <2>1. Prepared # N
    BY <1>1, FullIs DEF RingRoom, Prepared
  <2> QED  BY <1>1, <2>1, Counts DEF RequestsQueued, Prepared
<1>3. a % N = SlotAt(u, Prepared, N) /\ a % N \in 0..N - 1
  BY <1>1, <1>2, SlotOfCounter
<1>4. ASSUME NEW o \in 0..N - 1
      PROVE  QueuedAt(o)' = IF o = Prepared THEN e ELSE QueuedAt(o)
  <2>1. SlotAt(u, o, N) \in 0..N - 1
    <3>1. o \in 0..N
      BY <1>1
    <3> QED  BY <1>1, <3>1, SlotIs
  <2>2. QueuedAt(o)' = request_ring'.elems[SlotAt(u, o, N)]
    BY DEF QueuedAt, SlotAt, CounterAdd
  <2>3. request_ring.elems \in [0..N - 1 -> Entries]
    BY DEF RingsTyped
  <2>4. SlotAt(u, o, N) = SlotAt(u, Prepared, N) => o = Prepared
    BY <1>1, <1>2, SlotsDiffer
  <2> QED  BY <1>3, <2>1, <2>2, <2>3, <2>4 DEF QueuedAt
<1> QED  BY <1>2, <1>3, <1>4

(* What is published, or not begun, as long as its entries, or transfers,  *)
(* stay.                                                                   *)
LEMMA PublishedKept ==
    ASSUME PublishedWhole, SameBios, Published \in Int, Published' = Published,
           \A o \in 0..Published - 1 : QueuedAt(o).cookie - 1 \in UsedIds,
           \A o \in 0..Published - 1 : QueuedAt(o)' = QueuedAt(o)
    PROVE  PublishedWhole'
<1>1. \A c \in UsedIds : BioOf(c)' = BioOf(c)
  BY DEF SameBios, BioOf
<1>2. ASSUME NEW o \in 0..Published - 1
      PROVE  (QueuedAt(o).cookie > 0 /\ QueuedAt(o).bio = BioOf(QueuedAt(o).cookie - 1) /\ Whole(o))'
  <2>1. PICK e : e = QueuedAt(o)
    OBVIOUS
  <2>2. PICK c \in UsedIds : c = e.cookie - 1
    BY <2>1
  <2>3. /\ e.cookie > 0 /\ e.bio = BioOf(c) /\ e.part \in 1..Len(Parts[e.bio])
        /\ \A p \in 1..Len(Parts[e.bio]) :
              o - e.part + p \in 0..Published - 1 /\ QueuedAt(o - e.part + p) = EntryOf(c, p)
    BY <2>1, <2>2 DEF PublishedWhole, Whole
  <2>4. \A p : EntryOf(c, p)' = EntryOf(c, p)
    BY <1>1 DEF EntryOf
  <2>5. QueuedAt(o)' = e
    BY <2>1
  <2>6. \A p \in 1..Len(Parts[e.bio]) : QueuedAt(o - e.part + p)' = EntryOf(c, p)'
    BY <2>3, <2>4
  <2>7. Whole(o)'
    BY <2>2, <2>3, <2>5, <2>6 DEF Whole, EntryOf, BioOf
  <2> QED  BY <1>1, <2>2, <2>3, <2>5, <2>7 DEF BioOf
<1> QED  BY <1>2 DEF PublishedWhole

LEMMA NotBegunKept ==
    ASSUME NotBegun, BiosHeld, SameBios,
           \A b \in Bios : Untouched(b) => Untouched(b)',
           \A b \in Bios : status'[b] \in {"new", "waiting"} \/ InList(b)'
                              => status[b] \in {"new", "waiting"} \/ InList(b),
           thread'.pc = "context" => thread.pc = "context" /\ thread'.bio = thread.bio,
           \A c \in UsedIds' : At("thread", c)' \/ At("ring", c)'
                                => c \in UsedIds /\ (At("thread", c) \/ At("ring", c))
    PROVE  NotBegun'
<1>1. \A b \in Bios : status'[b] \in {"new", "waiting"} \/ InList(b)' => Untouched(b)'
  BY DEF NotBegun
<1>2. (thread.pc = "context" => Untouched(thread.bio))'
  <2>1. PICK b : b = thread.bio
    OBVIOUS
  <2>2. thread'.pc = "context" => thread'.bio = b /\ Untouched(b)'
    BY <2>1 DEF NotBegun, BiosHeld
  <2> QED  BY <2>2 DEF Untouched, Submitted, IsMoved, InDma
<1>3. ASSUME NEW c \in UsedIds', At("thread", c)' \/ At("ring", c)'
      PROVE  Untouched(BioOf(c))'
  <2>1. PICK b : b = BioOf(c)
    OBVIOUS
  <2>2. c \in UsedIds /\ Untouched(b) /\ b \in Bios
    BY <1>3, <2>1 DEF NotBegun, BiosHeld
  <2>3. BioOf(c)' = b /\ Untouched(b)'
    BY <2>1, <2>2 DEF SameBios, BioOf
  <2> QED  BY <2>3 DEF Untouched, Submitted, IsMoved, InDma
<1> QED  BY <1>1, <1>2, <1>3 DEF NotBegun

LEMMA UntouchedKept ==
    ASSUME UNCHANGED <<dma, moved>>, NEW b
    PROVE  Untouched(b)' <=> Untouched(b)
  BY DEF Untouched, Submitted, IsMoved, InDma

LEMMA RequestStepKeeps ==
    ASSUME BlockInv, RequestStep
    PROVE  BlockInv'
<1> USE DEF BlockInv
<1>0. PICK id, b, part, e : /\ id = thread.id /\ b = thread.bio /\ part = thread.part
                            /\ e = [cookie |-> id + 1, bio |-> b, part |-> part]
  OBVIOUS
<1>1. /\ thread.pc = "step" /\ RingRoom /\ bvec_free > 0
      /\ request_ring' = [request_ring EXCEPT !.elems[request_ring_alloc % RequestNum] = e]
      /\ request_ring_alloc' = CounterAdd(request_ring_alloc, 1, RequestNum)
      /\ bvec_free' = bvec_free - 1
      /\ bio_context' = [bio_context EXCEPT ![id].bvecs = @ + 1]
      /\ thread' = IF part = Len(Parts[b]) THEN [thread EXCEPT !.pc = "start"]
                   ELSE [thread EXCEPT !.part = @ + 1]
      /\ UNCHANGED <<status, ends, request_bio_list, bio_context_pool, faults,
                     completion_work, bvars, completion_ring>>
  BY <1>0 DEF RequestStep, RequestThread
<1>2. /\ id \in UsedIds /\ id \in Ids /\ b \in Bios /\ BioOf(id) = b
      /\ part \in 1..Len(Parts[b]) /\ part \in Nat /\ Len(Parts[b]) \in Nat
  <2>1. id \in UsedIds /\ b \in Bios /\ BioOf(id) = b /\ part \in 1..Len(Parts[b])
    BY <1>0, <1>1 DEF ThreadAt, ThreadBusy, BiosHeld
  <2>2. Len(Parts[b]) \in 1..RequestNum /\ RequestNum \in Nat
    BY <2>1, PartsAre, Sizes
  <2> QED  BY <2>1, <2>2, UsedAre
<1>3. /\ thread'.id = id /\ thread'.bio = b
      /\ thread'.pc = (IF part = Len(Parts[b]) THEN "start" ELSE "step")
      /\ thread'.part = (IF part = Len(Parts[b]) THEN part ELSE part + 1)
  BY <1>0, <1>1 DEF FrontendTyped
<1>4. UsedIds' = UsedIds
  BY <1>1 DEF UsedIds
<1>5. /\ \A c \in Ids : c # id => bio_context'[c] = bio_context[c]
      /\ bio_context'[id].bio = b /\ bio_context'[id].bvecs = bio_context[id].bvecs + 1
  BY <1>1, <1>2 DEF FrontendTyped, BioOf
<1>6. SameBios
  BY <1>2, <1>5, UsedAre DEF SameBios, BioOf
<1>7. ThreadStep
  BY <1>1, <1>6 DEF ThreadStep
<1>8. Mapped' /\ bio_context[id].bvecs + 1 \in 0..RequestNum
  <2>1. \A c \in UsedIds : bio_context'[c].bvecs = IF c = id THEN bio_context[c].bvecs + 1
                                                  ELSE bio_context[c].bvecs
    BY <1>5, UsedAre
  <2> QED  BY <1>1, <1>2, <1>4, <2>1, TakesMapping
<1>9. e \in Entries
  BY <1>0, <1>2, Sizes DEF Entries, SomeBio
<1>10. /\ request_ring'.elems = [request_ring.elems EXCEPT ![request_ring_alloc % RequestNum] = e]
       /\ request_ring'.last_used = request_ring.last_used
       /\ request_ring'.last_add = request_ring.last_add
  BY <1>1 DEF RingsTyped
<1>11. /\ Prepared \in 0..RequestNum - 1 /\ Published \in 0..Prepared
       /\ \A o \in 0..RequestNum - 1 : QueuedAt(o)' = IF o = Prepared THEN e ELSE QueuedAt(o)
       /\ request_ring_alloc % RequestNum \in 0..RequestNum - 1
  BY <1>1, <1>10, EntryPrepared
<1>12. /\ request_ring_alloc' \in 0..2 * RequestNum - 1
       /\ Prepared' = Prepared + 1 /\ Published' = Published
  <2>1. RequestNum \in Nat \ {0} /\ request_ring.last_used \in 0..2 * RequestNum - 1
        /\ request_ring_alloc \in 0..2 * RequestNum - 1 /\ 1 \in 0..2 * RequestNum - 1
    BY Sizes DEF RingsTyped, FrontendTyped
  <2>2. Prepared + 1 <= RequestNum
    BY <1>11, <2>1
  <2>3. CounterAdd(request_ring_alloc, 1, RequestNum) \in 0..2 * RequestNum - 1
    BY <2>1, CounterAddIs
  <2>4. Dist(CounterAdd(request_ring_alloc, 1, RequestNum), request_ring.last_used, RequestNum)
           = Dist(request_ring_alloc, request_ring.last_used, RequestNum) + 1
    BY <2>1, <2>2, DistAdded DEF Prepared
  <2> QED  BY <1>1, <1>10, <2>3, <2>4 DEF Prepared, Published
<1>13. RingsTyped'
  <2>1. request_ring'.elems \in [0..RequestNum - 1 -> Entries]
    BY <1>9, <1>10 DEF RingsTyped
  <2>2. request_ring' \in [last_add : 0..2 * RequestNum - 1, last_used : 0..2 * RequestNum - 1,
                           elems : [0..RequestNum - 1 -> Entries]]
    BY <1>1, <1>10, <2>1 DEF RingsTyped
  <2> QED  BY <1>1, <2>2 DEF RingsTyped
<1>14. FrontendTyped'
  <2>1. bio_context' \in [Ids -> [bio : SomeBio, bvecs : 0..RequestNum]]
    BY <1>1, <1>2, <1>8 DEF FrontendTyped
  <2>2. bvec_free' \in 0..RequestNum
    <3>1. bvec_free \in 0..RequestNum /\ RequestNum \in Nat
      BY Sizes DEF FrontendTyped
    <3> QED  BY <1>1, <3>1
  <2>3. thread' \in [pc : {"idle", "context", "step", "start", "tail"},
                     bio : SomeBio, id : Ids, part : Nat]
    <3>1. \A t \in [pc : {"idle", "context", "step", "start", "tail"},
                   bio : SomeBio, id : Ids, part : Nat] :
             /\ [t EXCEPT !.pc = "start"] \in [pc : {"idle", "context", "step", "start", "tail"},
                                                bio : SomeBio, id : Ids, part : Nat]
             /\ [t EXCEPT !.part = @ + 1] \in [pc : {"idle", "context", "step", "start", "tail"},
                                                bio : SomeBio, id : Ids, part : Nat]
      OBVIOUS
    <3> QED  BY <1>1, <3>1 DEF FrontendTyped
  <2> QED  BY <1>1, <1>12, <2>1, <2>2, <2>3 DEF FrontendTyped
<1>15. ContextsListed' /\ Pushing'
  <2>1. thread.pc # "tail" /\ thread'.pc # "tail"
    BY <1>1, <1>3
  <2>2. BeingPushed' = BeingPushed
    BY <1>1, <2>1 DEF BeingPushed
  <2> QED  BY <1>1, <1>4, <2>1, <2>2 DEF ContextsListed, Pushing, HalfPushed
<1>16. BiosHeld'
  <2>1. \A c \in UsedIds : BioOf(c)' = BioOf(c)
    BY <1>6 DEF SameBios, BioOf
  <2>2. \A x \in Bios, p \in Holders : Holds(p, x)' <=> Holds(p, x)
    BY <1>1, <1>3, <1>4, <2>1 DEF Holds, Holders, ThreadHas, WorkHas, InList, ContextHas
  <2> QED  BY <1>1, <1>2, <1>3, <1>4, <2>1, <2>2 DEF BiosHeld
<1>17. ThreadAt'
  BY <1>2, <1>3, <1>4, <1>5 DEF ThreadAt, ThreadBusy, BioOf
<1>18. RequestsQueued'
  <2>1. PublishedWhole'
    <3>1. \A o \in 0..Published - 1 : QueuedAt(o)' = QueuedAt(o)
      BY <1>11, Sizes
    <3> QED  BY <1>6, <1>11, <1>12, <3>1, InUse, PublishedKept DEF RequestsQueued
  <2>2. ThreadsEntries = part - 1 /\ ThreadsEntries' = part
    BY <1>0, <1>1, <1>2, <1>3 DEF ThreadsEntries
  <2>3. Prepared = Published + (part - 1)
    BY <2>2 DEF RequestsQueued
  <2>4. ASSUME NEW o \in Published'..Prepared' - 1
        PROVE  (QueuedAt(o) = EntryOf(thread.id, o - Published + 1))'
    <3>1. o \in 0..RequestNum - 1 /\ Published \in Int /\ o \in Published..Prepared
      BY <1>11, <1>12, Sizes
    <3>2. \A p : EntryOf(id, p)' = [cookie |-> id + 1, bio |-> b, part |-> p]
                 /\ EntryOf(id, p) = [cookie |-> id + 1, bio |-> b, part |-> p]
      BY <1>2, <1>5 DEF EntryOf, BioOf
    <3>3. CASE o = Prepared
      <4>1. QueuedAt(o)' = e /\ o - Published' + 1 = part
        BY <1>2, <1>11, <1>12, <2>3, <3>1, <3>3
      <4> QED  BY <1>0, <1>3, <3>2, <4>1 DEF EntryOf, BioOf
    <3>4. CASE o # Prepared
      <4>1. QueuedAt(o)' = QueuedAt(o) /\ o \in Published..Prepared - 1
        BY <1>11, <3>1, <3>4
      <4>2. QueuedAt(o) = EntryOf(id, o - Published + 1)
        BY <1>0, <4>1 DEF RequestsQueued
      <4> QED  BY <1>3, <1>12, <3>2, <4>1, <4>2 DEF EntryOf, BioOf
    <3> QED  BY <3>3, <3>4
  <2>5. Published' <= Prepared' /\ Prepared' <= RequestNum /\ Prepared' = Published' + ThreadsEntries'
    BY <1>2, <1>11, <1>12, <2>2, <2>3, Sizes
  <2> QED  BY <2>1, <2>4, <2>5 DEF RequestsQueued
<1>19. \A c \in Ids, p \in Stages : At(p, c)' <=> At(p, c)
  <2>1. \A o \in 0..Published - 1 : QueuedAt(o)' = QueuedAt(o)
    BY <1>11, Sizes
  <2>2. ThreadBusy /\ ThreadBusy' /\ thread'.id = thread.id
    BY <1>0, <1>1, <1>3 DEF ThreadBusy
  <2> QED  BY <1>1, <1>12, <2>1, <2>2 DEF At, Stages, Cookie, Answers, AnswerAt, bvars
<1>20. Placed'
  BY <1>4, <1>19 DEF Placed
<1>21. NotBegun'
  <2>1. \A x \in Bios : Untouched(x)' <=> Untouched(x)
    BY <1>1, UntouchedKept DEF bvars
  <2>2. \A x \in Bios : InList(x)' <=> InList(x)
    BY <1>1 DEF InList
  <2> QED  BY <1>1, <1>3, <1>4, <1>6, <1>19, <2>1, <2>2, UsedAre, NotBegunKept DEF Stages
<1>22. faults' \in 0..MaxFaults
  BY <1>1 DEF BackendTyped
<1> QED
  BY <1>1, <1>7, <1>8, <1>13, <1>14, <1>15, <1>16, <1>17, <1>18, <1>20, <1>21, <1>22,
     ThreadStepKeeps

(* A context and its mappings are given back, the context half pushed.     *)
LEMMA CleanLinkGives ==
    ASSUME BlockInv, NEW id \in UsedIds, BeingPushed = {}, CleanLink(id), UNCHANGED bio_context
    PROVE  /\ PoolTyped(bio_context_pool') /\ Listed(bio_context_pool', {id})
           /\ UsedIds' = UsedIds \ {id} /\ HalfPushed(id)'
           /\ Mapped' /\ bvec_free' \in 0..RequestNum /\ SameBios
           /\ \A x \in Bios : ContextHas(x)' <=> ContextHas(x) /\ x # BioOf(id)
<1> USE DEF BlockInv
<1>1. /\ PoolTyped(bio_context_pool) /\ Listed(bio_context_pool, {})
      /\ UsedIds = UsedIn(bio_context_pool) /\ UsedIds' = UsedIn(bio_context_pool')
  BY PoolViews DEF PoolTyped, FrontendTyped
<1>2. /\ PoolTyped(bio_context_pool') /\ Listed(bio_context_pool', {id})
      /\ UsedIds' = UsedIds \ {id}
      /\ bio_context_pool'.next_free[bio_context_pool'.tail] = id
  BY <1>1, Linked DEF CleanLink
<1>3. HalfPushed(id)'
  BY <1>2 DEF HalfPushed
<1>4. Mapped' /\ bvec_free' \in 0..RequestNum
  BY <1>2, ReturnsMappings DEF CleanLink
<1>5. \A x \in Bios : ContextHas(x)' <=> ContextHas(x) /\ x # BioOf(id)
  BY <1>2 DEF ContextHas, BioOf, BiosHeld
<1> QED  BY <1>2, <1>3, <1>4, <1>5 DEF SameBios

LEMMA RequestStepFailsKeeps ==
    ASSUME BlockInv, RequestStepFails, ~Together'
    PROVE  BlockInv'
<1> USE DEF BlockInv
<1>0. PICK id, b : id = thread.id /\ b = thread.bio
  OBVIOUS
<1>1. /\ thread.pc = "step" /\ completion_work.pc # "tail" /\ faults' \in 0..MaxFaults
      /\ request_ring_alloc' = request_ring.last_add /\ CleanLink(id)
      /\ thread' = [thread EXCEPT !.pc = "tail"]
      /\ UNCHANGED <<status, ends, request_bio_list, bio_context, request_ring,
                     completion_work, bvars, completion_ring>>
  <2>1. faults' \in 0..MaxFaults
    BY ModesAssumption DEF RequestStepFails, Fail, BackendTyped
  <2>2. thread'.pc = "tail" /\ completion_work' = completion_work
    BY DEF RequestStepFails, RequestThread, FrontendTyped
  <2>3. completion_work.pc # "tail"
    BY <2>2 DEF Together
  <2> QED  BY <1>0, <2>1, <2>3 DEF RequestStepFails, RequestThread, RequestBreak
<1>2. id \in UsedIds /\ id \in Ids /\ b \in Bios /\ BioOf(id) = b
  BY <1>0, <1>1, UsedAre DEF ThreadAt, ThreadBusy, BiosHeld
<1>3. thread'.pc = "tail" /\ thread'.id = id /\ thread'.bio = b /\ thread'.part = thread.part
  BY <1>0, <1>1 DEF FrontendTyped
<1>4. BeingPushed = {} /\ BeingPushed' = {id}
  BY <1>1, <1>3 DEF BeingPushed
<1>5. /\ PoolTyped(bio_context_pool') /\ Listed(bio_context_pool', {id})
      /\ UsedIds' = UsedIds \ {id} /\ HalfPushed(id)'
      /\ Mapped' /\ bvec_free' \in 0..RequestNum /\ SameBios
      /\ \A x \in Bios : ContextHas(x)' <=> ContextHas(x) /\ x # BioOf(id)
  BY <1>1, <1>2, <1>4, CleanLinkGives
<1>6. FrontendTyped'
  <2>1. thread' \in [pc : {"idle", "context", "step", "start", "tail"},
                     bio : SomeBio, id : Ids, part : Nat]
    BY <1>1 DEF FrontendTyped
  <2> QED  BY <1>1, <1>5, <2>1 DEF FrontendTyped, PoolTyped, RingsTyped
<1>7. RingsTyped' /\ ThreadStep
  BY <1>1, <1>5 DEF RingsTyped, ThreadStep
<1>8. ContextsListed' /\ Pushing'
  <2>1. ContextsListed'
    BY <1>4, <1>5, PoolViews
  <2> QED  BY <1>1, <1>3, <1>5, <2>1 DEF Pushing, HalfPushed
<1>9. BiosHeld'
  <2>1. \A x \in Bios, p \in Holders :
           Holds(p, x)' <=> IF p = "context" THEN Holds(p, x) /\ x # b
                            ELSE IF p = "thread" THEN x = b ELSE Holds(p, x)
    BY <1>1, <1>2, <1>3, <1>5 DEF Holds, Holders, ThreadHas, WorkHas, InList
  <2>2. Holds("context", b) /\ \A p \in Holders : Holds(p, b) => p = "context"
    <3>1. Holds("context", b)
      BY <1>2 DEF Holds, ContextHas
    <3> QED  BY <3>1, <1>2 DEF BiosHeld, Holders
  <2>3. status[b] = "listed"
    BY <2>2, <1>2 DEF BiosHeld, Holders
  <2>4. \A x \in Bios : \A p, q \in Holders : Holds(p, x)' => (Holds(q, x)' => p = q)
    BY <2>1, <2>2 DEF BiosHeld
  <2>5. \A x \in Bios : \A p \in Holders : Holds(p, x)' => status'[x] = "listed"
    BY <1>1, <2>1, <2>3 DEF BiosHeld
  <2>6. (\A c \in UsedIds' : BioOf(c)' \in Bios)
        /\ \A c, d \in UsedIds' : BioOf(c)' = BioOf(d)' => c = d
    BY <1>1, <1>5 DEF BioOf, BiosHeld
  <2> QED  BY <1>1, <1>2, <1>3, <2>4, <2>5, <2>6 DEF BiosHeld
<1>10. ThreadAt'
  BY <1>3 DEF ThreadAt, ThreadBusy
<1>11. RequestsQueued'
  <2>1. PublishedWhole'
    BY <1>1, <1>5, InUse, PublishedFrame DEF RequestsQueued
  <2>2. Published' = Published /\ Prepared' = Published /\ ThreadsEntries' = 0
    BY <1>1, <1>3 DEF Published, Prepared, ThreadsEntries
  <2>3. Published \in Int /\ Published <= RequestNum
    BY Counts, Sizes DEF RequestsQueued
  <2> HIDE DEF BlockInv
  <2> QED  BY <2>1, <2>2, <2>3 DEF RequestsQueued
<1>12. \A c \in Ids, p \in Stages : At(p, c)' <=> p # "thread" /\ At(p, c)
  BY <1>1, <1>3 DEF At, Stages, ThreadBusy, Published, QueuedAt, Cookie, Answers, AnswerAt, bvars
<1>13. At("thread", id)
  BY <1>0, <1>1 DEF At, ThreadBusy
<1>14. Placed'
  BY <1>2, <1>5, <1>12, <1>13 DEF Placed, Stages
<1>15. NotBegun'
  <2>1. \A x \in Bios : (Untouched(x)' <=> Untouched(x)) /\ (InList(x)' <=> InList(x))
    BY <1>1, UntouchedKept DEF bvars, InList
  <2>2. \A c \in UsedIds' : At("thread", c)' \/ At("ring", c)'
                              => c \in UsedIds /\ (At("thread", c) \/ At("ring", c))
    BY <1>5, <1>12, UsedAre DEF Stages
  <2> QED  BY <1>1, <1>3, <1>5, <2>1, <2>2, NotBegunKept
<1> QED
  BY <1>1, <1>5, <1>6, <1>7, <1>8, <1>9, <1>10, <1>11, <1>14, <1>15, ThreadStepKeeps

LEMMA RequestStartKeeps ==
    ASSUME BlockInv, RequestStart
    PROVE  BlockInv'
<1> USE DEF BlockInv
<1>0. PICK id, b, n : id = thread.id /\ b = thread.bio /\ n = Len(Parts[b])
  OBVIOUS
<1>1. /\ thread.pc = "start" /\ thread' = Idle
      /\ request_ring' = [request_ring EXCEPT !.last_add = request_ring_alloc]
      /\ UNCHANGED <<status, ends, request_bio_list, bio_context_pool, bio_context, bvec_free,
                     request_ring_alloc, faults, completion_work, bvars, completion_ring>>
  BY DEF RequestStart, RequestThread
<1>2. /\ id \in UsedIds /\ id \in Ids /\ b \in Bios /\ BioOf(id) = b
      /\ n \in Nat \ {0} /\ thread.part = n
  <2>1. id \in UsedIds /\ b \in Bios /\ BioOf(id) = b /\ thread.part = n
    BY <1>0, <1>1 DEF ThreadAt, ThreadBusy, BiosHeld
  <2>2. n \in 1..RequestNum /\ RequestNum \in Nat
    BY <1>0, <2>1, PartsAre, Sizes
  <2> QED  BY <2>1, <2>2, UsedAre
<1>3. thread'.pc = "idle" /\ thread'.id = 0 /\ thread'.bio = NoValue /\ thread'.part = 0
  BY <1>1 DEF Idle
<1>4. UsedIds' = UsedIds /\ \A c : BioOf(c)' = BioOf(c)
  BY <1>1 DEF UsedIds, BioOf
<1>5. ThreadStep
  BY <1>1 DEF ThreadStep, SameBios
<1>6. /\ request_ring'.last_add = request_ring_alloc
      /\ request_ring'.last_used = request_ring.last_used
      /\ request_ring'.elems = request_ring.elems
  BY <1>1 DEF RingsTyped
<1>7. FrontendTyped'
  <2>1. 0 \in Ids
    BY Sizes
  <2>2. thread' \in [pc : {"idle", "context", "step", "start", "tail"},
                     bio : SomeBio, id : Ids, part : Nat]
    BY <1>1, <2>1 DEF Idle, SomeBio
  <2> QED  BY <1>1, <2>2 DEF FrontendTyped
<1>8. RingsTyped' /\ Mapped' /\ faults' \in 0..MaxFaults
  BY <1>1, MappedFrame DEF RingsTyped, FrontendTyped, BackendTyped
<1>9. ContextsListed' /\ Pushing'
  BY <1>1, <1>3 DEF ContextsListed, Pushing, HalfPushed, UsedIds, BeingPushed
<1>10. BiosHeld'
  <2>1. \A x \in Bios, p \in Holders : Holds(p, x)' <=> Holds(p, x)
    BY <1>1, <1>3, <1>4 DEF Holds, Holders, ThreadHas, WorkHas, InList, ContextHas
  <2> QED  BY <1>1, <1>3, <1>4, <2>1 DEF BiosHeld
<1>11. ThreadAt'
  BY <1>3 DEF ThreadAt, ThreadBusy
<1>12. /\ Published \in Nat /\ Prepared = Published + n /\ Prepared <= RequestNum
       /\ Published' = Prepared /\ Prepared' = Prepared
       /\ \A o : QueuedAt(o)' = QueuedAt(o)
  <2>1. Published \in Nat /\ RequestNum \in Nat
    BY Counts, Sizes
  <2>2. ThreadsEntries = n
    BY <1>1, <1>2 DEF ThreadsEntries
  <2>3. Prepared = Published + n /\ Prepared <= RequestNum
    BY <2>2 DEF RequestsQueued
  <2>4. Published' = Prepared /\ Prepared' = Prepared /\ \A o : QueuedAt(o)' = QueuedAt(o)
    BY <1>1, <1>6 DEF Published, Prepared, QueuedAt
  <2> QED  BY <2>1, <2>3, <2>4
<1>13. \A o \in Published..Prepared - 1 :
          QueuedAt(o) = [cookie |-> id + 1, bio |-> b, part |-> o - Published + 1]
  BY <1>0, <1>2 DEF RequestsQueued, EntryOf
<1>14. \A o \in 0..Published - 1 : QueuedAt(o).cookie # id + 1
  <2>1. At("thread", id)
    BY <1>0, <1>1 DEF At, ThreadBusy
  <2>2. ~At("ring", id)
    BY <1>2, <2>1 DEF Placed, Stages
  <2> QED  BY <2>2 DEF At
<1>15. PublishedWhole'
  <2>1. ASSUME NEW o \in 0..Prepared - 1
        PROVE  QueuedAt(o)'.cookie > 0 /\ QueuedAt(o)'.bio = BioOf(QueuedAt(o)'.cookie - 1) /\ Whole(o)'
    <3>1. CASE o \in 0..Published - 1
      <4>1. QueuedAt(o).cookie > 0 /\ QueuedAt(o).bio = BioOf(QueuedAt(o).cookie - 1) /\ Whole(o)
        BY <3>1 DEF RequestsQueued, PublishedWhole
      <4>2. \A x : x \in 0..Published - 1 => x \in 0..Prepared - 1
        BY <1>2, <1>12
      <4>3. Whole(o)'
        BY <1>4, <1>12, <4>1, <4>2 DEF Whole, EntryOf
      <4> QED  BY <1>12, <4>1, <4>3
    <3>2. CASE o \in Published..Prepared - 1
      <4>1. PICK e : e = QueuedAt(o)
        OBVIOUS
      <4>2. e.cookie = id + 1 /\ e.bio = b /\ e.part = o - Published + 1 /\ e.cookie - 1 = id
        BY <1>2, <1>13, <3>2, <4>1, Sizes
      <4>3. e.part \in 1..Len(Parts[e.bio])
        BY <1>0, <1>2, <1>12, <3>2, <4>2
      <4>4. ASSUME NEW p \in 1..Len(Parts[e.bio])
            PROVE  o - e.part + p \in 0..Prepared - 1 /\ QueuedAt(o - e.part + p) = EntryOf(id, p)
        <5>1. p \in 1..n
          BY <1>0, <4>2
        <5>2. o - e.part + p = Published + p - 1 /\ Published + p - 1 \in Published..Prepared - 1
          BY <1>2, <1>12, <3>2, <4>2, <5>1
        <5>3. (Published + p - 1) - Published + 1 = p
          BY <1>12, <5>1
        <5>4. QueuedAt(Published + p - 1) = [cookie |-> id + 1, bio |-> b, part |-> p]
          BY <1>13, <5>2, <5>3
        <5> QED  BY <1>2, <1>12, <5>2, <5>4 DEF EntryOf
      <4>5. Whole(o)'
        BY <1>4, <1>12, <4>1, <4>2, <4>3, <4>4 DEF Whole, EntryOf
      <4> QED  BY <1>2, <1>12, <4>1, <4>2, <4>5, Sizes
    <3> QED  BY <1>2, <1>12, <3>1, <3>2
  <2>2. ASSUME NEW o \in 0..Prepared - 1, NEW p \in 0..Prepared - 1,
               QueuedAt(o).cookie = QueuedAt(p).cookie
        PROVE  QueuedAt(p).part - QueuedAt(o).part = p - o
    <3>1. (o \in 0..Published - 1 \/ o \in Published..Prepared - 1)
          /\ (p \in 0..Published - 1 \/ p \in Published..Prepared - 1)
      BY <1>2, <1>12
    <3>2. CASE o \in 0..Published - 1
      <4>1. p \in 0..Published - 1
        BY <1>13, <1>14, <2>2, <3>1, <3>2
      <4> QED  BY <2>2, <3>2, <4>1 DEF RequestsQueued, PublishedWhole
    <3>3. CASE o \in Published..Prepared - 1
      <4>1. p \in Published..Prepared - 1
        BY <1>13, <1>14, <2>2, <3>1, <3>3
      <4> QED  BY <1>12, <1>13, <3>3, <4>1
    <3> QED  BY <3>1, <3>2, <3>3
  <2>3. \A o \in 0..Prepared - 1 : (BioOf(QueuedAt(o).cookie - 1))' = BioOf(QueuedAt(o)'.cookie - 1)
    BY <1>4
  <2> QED  BY <1>12, <2>1, <2>2, <2>3 DEF PublishedWhole
<1>16. RequestsQueued'
  <2>1. ThreadsEntries' = 0 /\ RequestNum \in Nat
    BY <1>3, Sizes DEF ThreadsEntries
  <2>2. PICK m \in Nat : m = Prepared /\ m <= RequestNum
    BY <1>2, <1>12
  <2>3. Published' = m /\ Prepared' = m
    BY <1>12, <2>2
  <2> HIDE DEF BlockInv
  <2> QED  BY <1>15, <2>1, <2>2, <2>3 DEF RequestsQueued
<1>17. \A c \in Ids, p \in Stages :
          At(p, c)' => IF p = "ring" THEN At(p, c) \/ c = id ELSE p # "thread" /\ At(p, c)
  <2>1. ASSUME NEW c \in Ids, At("ring", c)'
        PROVE  At("ring", c) \/ c = id
    <3>1. PICK o \in 0..Prepared - 1 : QueuedAt(o).cookie = c + 1
      BY <1>12, <2>1 DEF At
    <3>2. o \in 0..Published - 1 \/ o \in Published..Prepared - 1
      BY <1>2, <1>12
    <3>3. o \in Published..Prepared - 1 => c + 1 = id + 1
      BY <1>13, <3>1
    <3>4. c + 1 = id + 1 => c = id
      BY <1>2, Sizes
    <3> QED  BY <3>1, <3>2, <3>3, <3>4 DEF At
  <2> QED  BY <1>1, <1>3, <2>1 DEF At, Stages, ThreadBusy, Cookie, Answers, AnswerAt, bvars
<1>18. At("thread", id)
  BY <1>0, <1>1 DEF At, ThreadBusy
<1>19. Placed'
  BY <1>2, <1>4, <1>17, <1>18 DEF Placed, Stages
<1>20. NotBegun'
  <2>1. \A x \in Bios : (Untouched(x)' <=> Untouched(x)) /\ (InList(x)' <=> InList(x))
    BY <1>1, UntouchedKept DEF bvars, InList
  <2>2. \A c \in UsedIds' : At("thread", c)' \/ At("ring", c)'
                              => c \in UsedIds /\ (At("thread", c) \/ At("ring", c))
    BY <1>4, <1>17, <1>18, UsedAre DEF Stages
  <2> QED  BY <1>1, <1>3, <1>5, <2>1, <2>2, NotBegunKept DEF ThreadStep
<1> QED
  BY <1>1, <1>5, <1>7, <1>8, <1>9, <1>10, <1>11, <1>16, <1>19, <1>20, ThreadStepKeeps

-----------------------------------------------------------------------------
(* The completion ring.                                                    *)

(* A context in use without an answer leaves room for one: the pool never  *)
(* gives its last context away, and the ring has an element for each of    *)
(* the others.                                                             *)
LEMMA RoomFor ==
    ASSUME BlockInv, NEW c \in UsedIds, ~At("answer", c)
    PROVE  Answers \in Nat /\ Answers < AckNum
<1> USE DEF BlockInv
<1>0. PICK t, k : t = bio_context_pool.tail /\ k = Answers
  OBVIOUS
<1>1. /\ k \in Nat /\ AckNum \in Nat /\ Contexts \in Nat /\ Contexts <= AckNum
      /\ Ids = 0..Contexts /\ c \in Ids /\ t \in Ids
  <2>1. k \in 0..2 * AckNum - 1
    BY <1>0, Counts
  <2>2. t \in Ids /\ c \in Ids
    BY <1>0, UsedAre DEF FrontendTyped
  <2> QED  BY <2>1, <2>2, Sizes
<1>2. t \notin UsedIds
  <2>1. PICK n \in 1..Contexts + 1 : \E list \in [1..n -> Ids] :
          /\ IsFreeList(list, bio_context_pool)
          /\ \A i \in Ids : i \in UsedIds \union BeingPushed <=> \A j \in 1..n : list[j] # i
    BY DEF ContextsListed
  <2>2. PICK list \in [1..n -> Ids] :
          /\ IsFreeList(list, bio_context_pool)
          /\ \A i \in Ids : i \in UsedIds \union BeingPushed <=> \A j \in 1..n : list[j] # i
    BY <2>1
  <2>3. n \in 1..n /\ Len(list) = n
    BY <1>1
  <2>4. list[n] = t
    BY <1>0, <2>2, <2>3 DEF IsFreeList
  <2> QED  BY <1>1, <2>2, <2>3, <2>4
<1> DEFINE T == (Ids \ {t}) \ {c}
<1>3. IsFiniteSet(T) /\ Cardinality(T) = Contexts - 1
  <2>1. IsFiniteSet(Ids) /\ Cardinality(Ids) = Contexts + 1
    <3>1. Cardinality(0..Contexts) = IF 0 > Contexts THEN 0 ELSE Contexts - 0 + 1
      BY <1>1, FS_Interval
    <3> QED  BY <1>1, <3>1, FS_Interval
  <2>2. IsFiniteSet(Ids \ {t}) /\ Cardinality(Ids \ {t}) = Contexts
    <3>1. IsFiniteSet(Ids \ {t}) /\ Cardinality(Ids \ {t}) = Cardinality(Ids) - 1
      BY <1>1, <2>1, FS_RemoveElement
    <3> QED  BY <1>1, <2>1, <3>1
  <2>3. c \in Ids \ {t}
    BY <1>1, <1>2
  <2> QED  BY <1>1, <2>2, <2>3, FS_RemoveElement, ZenonT(30)
<1> DEFINE f == [o \in 0..k - 1 |-> AnswerAt(o).cookie - 1]
<1>4. f \in Injection(0..k - 1, T)
  <2>1. \A o \in 0..k - 1 : f[o] \in UsedIds /\ f[o] # c
    <3>1. \A o \in 0..k - 1 : AnswerAt(o).cookie - 1 \in UsedIds /\ AnswerAt(o).cookie # c + 1
      BY <1>0, InUse DEF At
    <3>2. \A o \in 0..k - 1 : AnswerAt(o).cookie \in Int
      <4>1. AckNum \in Nat \ {0} /\ completion_ring.last_used \in 0..2 * AckNum - 1
            /\ k <= AckNum
        BY <1>0, Sizes DEF RingsTyped, AnswersQueued
      <4>2. \A o \in 0..k - 1 : o \in 0..AckNum
        BY <1>1, <4>1
      <4>3. \A o \in 0..k - 1 : SlotAt(completion_ring.last_used, o, AckNum) \in 0..AckNum - 1
        BY <4>1, <4>2, SlotIs
      <4>4. \A o \in 0..k - 1 : AnswerAt(o) \in Acks
        BY <4>3 DEF RingsTyped, AnswerAt
      <4> QED  BY <4>4, Sizes DEF Acks
    <3> QED  BY <1>1, <3>1, <3>2
  <2>2. f \in [0..k - 1 -> T]
    <3>1. \A o \in 0..k - 1 : f[o] \in T
      BY <1>1, <1>2, <2>1, UsedAre
    <3> QED  BY <3>1
  <2>3. ASSUME NEW o \in 0..k - 1, NEW p \in 0..k - 1, f[o] = f[p]
        PROVE  o = p
    <3>1. AnswerAt(o).cookie - 1 = AnswerAt(p).cookie - 1
      BY <2>3
    <3>2. AnswerAt(o).cookie - 1 \in Ids /\ AnswerAt(p).cookie - 1 \in Ids
          /\ AnswerAt(o).cookie \in Int /\ AnswerAt(p).cookie \in Int
      <4>1. AckNum \in Nat \ {0} /\ completion_ring.last_used \in 0..2 * AckNum - 1
            /\ k <= AckNum
        BY <1>0, Sizes DEF RingsTyped, AnswersQueued
      <4>2. o \in 0..AckNum /\ p \in 0..AckNum
        BY <1>1, <4>1
      <4>3. SlotAt(completion_ring.last_used, o, AckNum) \in 0..AckNum - 1
            /\ SlotAt(completion_ring.last_used, p, AckNum) \in 0..AckNum - 1
        BY <4>1, <4>2, SlotIs
      <4>4. AnswerAt(o) \in Acks /\ AnswerAt(p) \in Acks
        BY <4>3 DEF RingsTyped, AnswerAt
      <4> QED  BY <1>0, <4>4, Sizes, InUse, UsedAre DEF Acks
    <3>3. AnswerAt(o).cookie = AnswerAt(p).cookie
      BY <3>1, <3>2
    <3> QED  BY <1>0, <3>3 DEF AnswersQueued
  <2> HIDE DEF f, T
  <2> QED  BY <2>2, <2>3 DEF Injection, IsInjective
<1>5. Cardinality(0..k - 1) <= Cardinality(T)
  BY <1>3, <1>4, FS_Injection
<1>6. Cardinality(0..k - 1) = IF 0 > k - 1 THEN 0 ELSE k - 1 - 0 + 1
  BY <1>1, FS_Interval
<1>7. k <= Contexts - 1
  <2> HIDE DEF f, T
  <2> QED  BY <1>1, <1>3, <1>5, <1>6
<1> QED  BY <1>0, <1>1, <1>7

LEMMA RoomToAnswer ==
    ASSUME BlockInv, Responding(backend.pc) \/ Responding(callback.pc)
    PROVE  Answers \in Nat /\ Answers < AckNum
<1> USE DEF BlockInv
<1>1. CASE Responding(backend.pc)
  <2>1. backend.pc # "idle"
    BY <1>1 DEF Responding
  <2>2. PICK c \in UsedIds : Cookie = c + 1
    <3>1. Cookie - 1 \in UsedIds /\ Cookie = (Cookie - 1) + 1
      BY <2>1, InUse, Sizes
    <3> QED  BY <3>1
  <2>3. At("backend", c)
    BY <2>1, <2>2 DEF At
  <2>4. ~At("answer", c)
    BY <2>3, UsedAre DEF Placed, Stages
  <2> QED  BY <2>4, RoomFor
<1>2. CASE Responding(callback.pc)
  <2>1. callback.pc # "idle"
    BY <1>2 DEF Responding
  <2>2. 1 \in 1..Len(dma) /\ dma[1].cookie > 0 /\ dma[1] \in Transfers
    <3>1. dma # <<>> /\ dma \in Seq(Transfers) /\ dma[1].cookie > 0
      BY <2>1 DEF TransfersQueued, BackendTyped
    <3> QED  BY <3>1
  <2>3. PICK c \in UsedIds : dma[1].cookie = c + 1
    <3>1. dma[1].cookie - 1 \in UsedIds
      BY <2>2, InUse
    <3>2. dma[1].cookie \in Int
      BY <2>2, Sizes DEF Transfers
    <3> QED  BY <3>1, <3>2
  <2>4. At("dma", c)
    BY <2>2, <2>3 DEF At
  <2>5. ~At("answer", c)
    BY <2>4, UsedAre DEF Placed, Stages
  <2> QED  BY <2>5, RoomFor
<1> QED  BY <1>1, <1>2

LEMMA AnswersTyped ==
    ASSUME RingsTyped, AnswersQueued, NEW o \in 0..Answers - 1
    PROVE  AnswerAt(o) \in Acks
<1>1. AckNum \in Nat \ {0} /\ completion_ring.last_used \in 0..2 * AckNum - 1
      /\ Answers \in 0..AckNum
  <2>1. AckNum \in Nat \ {0} /\ completion_ring.last_used \in 0..2 * AckNum - 1
        /\ completion_ring.last_add \in 0..2 * AckNum - 1
    BY Sizes DEF RingsTyped
  <2>2. Answers \in 0..2 * AckNum - 1
    BY <2>1, DistIs DEF Answers
  <2> QED  BY <2>1, <2>2 DEF AnswersQueued
<1>2. o \in 0..AckNum
  BY <1>1
<1>3. SlotAt(completion_ring.last_used, o, AckNum) \in 0..AckNum - 1
  BY <1>1, <1>2, SlotIs
<1> QED  BY <1>3 DEF RingsTyped, AnswerAt

(* The oldest answer is taken.                                             *)
LEMMA AnswerTaken ==
    ASSUME RingsTyped, AnswersQueued, completion_ring.last_used # completion_ring.last_add,
           completion_ring' = AckTaken(completion_ring), UNCHANGED request_ring
    PROVE  /\ RingsTyped' /\ Answers \in Nat \ {0} /\ Answers' = Answers - 1
           /\ AnswerAt(0) = completion_ring.elems[completion_ring.last_used % AckNum]
           /\ \A o \in 0..Answers - 2 : AnswerAt(o)' = AnswerAt(o + 1)
           /\ completion_ring'.last_add = completion_ring.last_add
           /\ Answers < AckNum => completion_ring'.elems[completion_ring.last_add % AckNum]
                                     = completion_ring.elems[completion_ring.last_add % AckNum]
<1>0. PICK n, u, a, u2 : /\ n = AckNum /\ u = completion_ring.last_used
                         /\ a = completion_ring.last_add /\ u2 = CounterAdd(u, 1, n)
  OBVIOUS
<1>1. n \in Nat \ {0} /\ u \in 0..2 * n - 1 /\ a \in 0..2 * n - 1 /\ 1 \in 0..2 * n - 1
      /\ completion_ring.elems \in [0..n - 1 -> Acks]
  BY <1>0, Sizes DEF RingsTyped
<1>2. Answers = Dist(a, u, n) /\ Answers \in Nat \ {0} /\ Answers <= n
  <2>1. Dist(a, u, n) = (IF a >= u THEN a - u ELSE a - u + 2 * n) /\ Dist(a, u, n) \in 0..2 * n - 1
    BY <1>1, DistIs
  <2>2. Answers = Dist(a, u, n) /\ Answers <= n /\ a # u
    BY <1>0 DEF Answers, AnswersQueued
  <2> QED  BY <1>1, <2>1, <2>2
<1>3. /\ completion_ring'.last_add = a /\ completion_ring'.last_used = u2
      /\ completion_ring'.elems = [completion_ring.elems EXCEPT ![u % n] = NoAck]
  BY <1>0 DEF AckTaken, RingsTyped
<1>4. u2 \in 0..2 * n - 1
  BY <1>0, <1>1, CounterAddIs
<1>5. u % n = SlotAt(u, 0, n) /\ u % n \in 0..n - 1
  <2>1. SlotAt(u, 0, n) = IF u + 0 < n THEN u + 0
                          ELSE IF u + 0 < 2 * n THEN u + 0 - n ELSE u + 0 - 2 * n
    <3>1. 0 \in 0..n
      BY <1>1
    <3> QED  BY <1>1, <3>1, SlotIs
  <2>2. u % n = IF u < n THEN u ELSE u - n
    BY <1>1, Wrap
  <2> QED  BY <1>1, <2>1, <2>2
<1>6. NoAck \in Acks
  BY Sizes DEF NoAck, Acks
<1>7. RingsTyped'
  <2>1. completion_ring'.elems \in [0..n - 1 -> Acks]
    BY <1>1, <1>3, <1>6
  <2>2. completion_ring' \in [last_add : 0..2 * AckNum - 1, last_used : 0..2 * AckNum - 1,
                              elems : [0..AckNum - 1 -> Acks]]
    BY <1>0, <1>1, <1>3, <1>4, <2>1 DEF AckTaken, RingsTyped
  <2> QED  BY <2>2 DEF RingsTyped
<1>8. Answers' = Answers - 1
  <2>1. Dist(a, CounterAdd(u, 1, n), n) = Dist(a, u, n) - 1
    BY <1>1, <1>2, DistUsed
  <2> QED  BY <1>0, <1>2, <1>3, <2>1 DEF Answers
<1>9. ASSUME NEW o \in 0..Answers - 2
      PROVE  AnswerAt(o)' = AnswerAt(o + 1)
  <2>1. o \in Nat /\ o + 1 \in 0..n - 1 /\ 1 + o <= n /\ 0 \in 0..n - 1 /\ o + 1 \in 0..n
    BY <1>1, <1>2
  <2>2. SlotAt(CounterAdd(u, 1, n), o, n) = SlotAt(u, 1 + o, n)
    BY <1>1, <2>1, SlotUsed
  <2>3. SlotAt(u, o + 1, n) # SlotAt(u, 0, n)
    <3>1. o + 1 # 0
      BY <2>1
    <3> QED  BY <1>1, <2>1, <3>1, SlotsDiffer
  <2>4. SlotAt(u, o + 1, n) \in 0..n - 1 /\ 1 + o = o + 1
    <3>1. \A x \in 0..n : SlotAt(u, x, n) \in 0..n - 1
      BY <1>1, SlotIs
    <3> QED  BY <2>1, <3>1
  <2>5. AnswerAt(o)' = completion_ring'.elems[SlotAt(u2, o, n)]
    BY <1>0, <1>3 DEF AnswerAt
  <2> QED  BY <1>1, <1>3, <1>5, <1>0, <2>2, <2>3, <2>4, <2>5 DEF AnswerAt
<1>10. ASSUME Answers < n
       PROVE  completion_ring'.elems[a % n] = completion_ring.elems[a % n]
  <2>1. a % n = SlotAt(u, Answers, n) /\ a % n \in 0..n - 1
    BY <1>1, <1>2, SlotOfCounter
  <2>2. SlotAt(u, Answers, n) # SlotAt(u, 0, n)
    <3>1. Answers \in 0..n - 1 /\ 0 \in 0..n - 1 /\ Answers # 0
      BY <1>1, <1>2, <1>10
    <3> QED  BY <1>1, <3>1, SlotsDiffer
  <2> QED  BY <1>1, <1>3, <1>5, <2>1, <2>2
<1>11. AnswerAt(0) = completion_ring.elems[u % n]
  BY <1>0, <1>5 DEF AnswerAt
<1> QED  BY <1>0, <1>2, <1>3, <1>7, <1>8, <1>9, <1>10, <1>11

-----------------------------------------------------------------------------
(* The completion work.                                                    *)

WorkStep == UNCHANGED <<request_bio_list, bio_context, request_ring_alloc, thread, bvars,
                        request_ring, faults>>

LEMMA WorkStepKeeps ==
    ASSUME BlockInv, WorkStep, FrontendTyped', RingsTyped', ContextsListed', Pushing', Mapped',
           BiosHeld', AnswersQueued', Responders', Placed', Ended', UsedIds' \subseteq UsedIds,
           ThreadBusy => thread.id \in UsedIds',
           \A b \in Bios : status'[b] \in {"new", "waiting"} => status[b] \in {"new", "waiting"}
    PROVE  BlockInv'
<1> USE DEF BlockInv, WorkStep, bvars
<1>1. BackendTyped'
  BY DEF BackendTyped
<1>2. SameBios
  BY DEF SameBios
<1>3. BackendAt' /\ TransfersQueued' /\ BackendProgress'
  BY <1>2, InUse, BackendFrame, TransfersFrame, ProgressFrame
<1>4. ThreadAt'
  BY DEF ThreadAt, ThreadBusy, BioOf
<1>5. NotBegun'
  <2>1. \A x \in Bios : (Untouched(x)' <=> Untouched(x)) /\ (InList(x)' <=> InList(x))
    BY UntouchedKept DEF InList
  <2>2. \A c \in UsedIds' : At("thread", c)' \/ At("ring", c)'
                              => c \in UsedIds /\ (At("thread", c) \/ At("ring", c))
    BY DEF At, ThreadBusy, Published, QueuedAt
  <2> QED  BY <1>2, <2>1, <2>2, NotBegunKept
<1> QED  BY <1>1, <1>3, <1>4, <1>5, RequestsFrame

LEMMA TakeAckKeeps ==
    ASSUME BlockInv, TakeAck, ~Together'
    PROVE  BlockInv'
<1> USE DEF BlockInv
<1>0. PICK ack, id, b : ack = AnswerAt(0) /\ id = ack.cookie - 1 /\ b = BioOf(id)
  OBVIOUS
<1>1. /\ completion_work.pc = "idle"
      /\ completion_ring.last_used # completion_ring.last_add
      /\ completion_ring' = AckTaken(completion_ring) /\ WorkStep /\ UNCHANGED <<status, ends>>
  BY DEF TakeAck, CompletionWork, WorkStep
<1>2. /\ RingsTyped' /\ Answers \in Nat \ {0} /\ Answers' = Answers - 1
      /\ AnswerAt(0) = completion_ring.elems[completion_ring.last_used % AckNum]
      /\ \A o \in 0..Answers - 2 : AnswerAt(o)' = AnswerAt(o + 1)
      /\ completion_ring'.last_add = completion_ring.last_add
      /\ Answers < AckNum => completion_ring'.elems[completion_ring.last_add % AckNum]
                                = completion_ring.elems[completion_ring.last_add % AckNum]
  BY <1>1, AnswerTaken DEF WorkStep
<1>3. 0 \in 0..Answers - 1 /\ \A o \in 0..Answers - 2 : o + 1 \in 0..Answers - 1
  BY <1>2
<1>4. /\ id \in UsedIds /\ id \in Ids /\ ack \in Acks /\ ack.cookie = id + 1 /\ b \in Bios
  <2>1. id \in UsedIds /\ ack \in Acks
    BY <1>0, <1>3, InUse, AnswersTyped
  <2>2. ack.cookie \in Int
    BY <2>1, Sizes DEF Acks
  <2> QED  BY <1>0, <2>1, <2>2, UsedAre DEF BiosHeld
<1>5. /\ CleanLink(id)
      /\ completion_work' = [pc |-> "tail", id |-> id, ret |-> ack.ret, bio |-> b]
  BY <1>0, <1>2, <1>4 DEF TakeAck, CompletionWork, BioOf
<1>6. completion_work'.pc = "tail" /\ completion_work'.id = id /\ completion_work'.bio = b
      /\ completion_work'.ret = ack.ret /\ thread.pc # "tail"
  BY <1>1, <1>5 DEF WorkStep, Together
<1>7. BeingPushed = {} /\ BeingPushed' = {id}
  BY <1>1, <1>6 DEF BeingPushed, WorkStep
<1>8. /\ PoolTyped(bio_context_pool') /\ Listed(bio_context_pool', {id})
      /\ UsedIds' = UsedIds \ {id} /\ HalfPushed(id)'
      /\ Mapped' /\ bvec_free' \in 0..RequestNum /\ SameBios
      /\ \A x \in Bios : ContextHas(x)' <=> ContextHas(x) /\ x # BioOf(id)
  BY <1>1, <1>4, <1>5, <1>7, CleanLinkGives DEF WorkStep
<1>9. FrontendTyped'
  <2>1. completion_work' \in [pc : {"idle", "tail", "end"}, id : Ids, bio : SomeBio,
                              ret : {"ok", "error"}]
    BY <1>4, <1>5 DEF Acks, SomeBio
  <2> QED  BY <1>1, <1>8, <2>1 DEF FrontendTyped, PoolTyped, WorkStep
<1>10. ContextsListed' /\ Pushing'
  <2>1. ContextsListed'
    BY <1>7, <1>8, PoolViews
  <2> QED  BY <1>1, <1>6, <1>8, <2>1 DEF Pushing, HalfPushed, WorkStep
<1>11. BiosHeld'
  <2>1. \A x \in Bios, p \in Holders :
           Holds(p, x)' <=> IF p = "context" THEN Holds(p, x) /\ x # b
                            ELSE IF p = "work" THEN x = b ELSE Holds(p, x)
    BY <1>0, <1>1, <1>6, <1>8 DEF Holds, Holders, ThreadHas, WorkHas, InList, WorkStep
  <2>2. Holds("context", b) /\ \A p \in Holders : Holds(p, b) => p = "context"
    <3>1. Holds("context", b)
      BY <1>0, <1>4 DEF Holds, ContextHas
    <3> QED  BY <3>1, <1>4 DEF BiosHeld, Holders
  <2>3. status[b] = "listed"
    BY <2>2, <1>4 DEF BiosHeld, Holders
  <2>4. \A x \in Bios : \A p, q \in Holders : Holds(p, x)' => (Holds(q, x)' => p = q)
    BY <2>1, <2>2 DEF BiosHeld
  <2>5. \A x \in Bios : \A p \in Holders : Holds(p, x)' => status'[x] = "listed"
    BY <1>1, <2>1, <2>3 DEF BiosHeld
  <2>6. (\A c \in UsedIds' : BioOf(c)' \in Bios)
        /\ \A c, d \in UsedIds' : BioOf(c)' = BioOf(d)' => c = d
    BY <1>1, <1>8 DEF BioOf, BiosHeld, WorkStep
  <2> QED  BY <1>1, <1>4, <1>6, <2>4, <2>5, <2>6 DEF BiosHeld, WorkStep
<1>12. AnswersQueued'
  <2>1. Answers' <= AckNum
    BY <1>2, Sizes DEF AnswersQueued
  <2>2. \A o \in 0..Answers' - 1 : o \in 0..Answers - 2 /\ o + 1 \in 0..Answers - 1
    BY <1>2
  <2>3. \A o \in 0..Answers' - 1 : AnswerAt(o)'.cookie > 0
    BY <1>2, <2>2 DEF AnswersQueued
  <2>4. ASSUME NEW o \in 0..Answers' - 1, NEW p \in 0..Answers' - 1,
               AnswerAt(o)'.cookie = AnswerAt(p)'.cookie
        PROVE  o = p
    <3>1. AnswerAt(o + 1).cookie = AnswerAt(p + 1).cookie
      BY <1>2, <2>2, <2>4
    <3>2. o + 1 = p + 1
      BY <2>2, <3>1 DEF AnswersQueued
    <3> QED  BY <1>2, <3>2
  <2> QED  BY <2>1, <2>3, <2>4 DEF AnswersQueued
<1>13. Responders'
  <2>1. UNCHANGED <<backend, callback>>
    BY <1>1 DEF WorkStep, bvars
  <2>2. Responding(backend.pc) \/ Responding(callback.pc)
           => completion_ring'.elems[completion_ring.last_add % AckNum]
                = completion_ring.elems[completion_ring.last_add % AckNum]
    BY <1>2, RoomToAnswer
  <2> QED  BY <1>2, <2>1, <2>2 DEF Responders, Answering, Responding
<1>14. \A c \in Ids, p \in Stages :
          At(p, c)' => At(p, c) /\ (p = "answer" => c # id)
  <2>1. ASSUME NEW c \in Ids, At("answer", c)'
        PROVE  At("answer", c) /\ c # id
    <3>1. PICK o \in 0..Answers' - 1 : AnswerAt(o)'.cookie = c + 1
      BY <2>1 DEF At
    <3>2. o \in 0..Answers - 2 /\ o + 1 \in 0..Answers - 1 /\ o + 1 # 0
      BY <1>2
    <3>3. AnswerAt(o + 1).cookie = c + 1
      BY <1>2, <3>1, <3>2
    <3>4. AnswerAt(o + 1).cookie # AnswerAt(0).cookie
      BY <1>3, <3>2 DEF AnswersQueued
    <3> QED  BY <1>0, <1>4, <3>2, <3>3, <3>4 DEF At
  <2> QED  BY <1>1, <2>1 DEF At, Stages, ThreadBusy, Published, QueuedAt, Cookie, WorkStep, bvars
<1>15. At("answer", id)
  BY <1>0, <1>3, <1>4 DEF At
<1>16. Placed'
  BY <1>4, <1>8, <1>14, <1>15 DEF Placed, Stages
<1>17. ThreadBusy => thread.id \in UsedIds'
  <2>1. ThreadBusy => At("thread", thread.id) /\ thread.id \in Ids
    BY DEF At, FrontendTyped
  <2>2. ThreadBusy => thread.id # id
    BY <1>4, <1>15, <2>1 DEF Placed, Stages
  <2> QED  BY <1>8, <2>2, InUse
<1>18. Ended'
  <2>1. \A x : Finished(x)' <=> Finished(x)
    BY <1>1 DEF Finished, AllMoved, WorkStep, bvars
  <2>2. \A x \in Bios : status'[x] = "ok" => Finished(x)'
    BY <1>1, <2>1 DEF Ended
  <2>3. ack.ret = "ok" => Finished(b)
    BY <1>0, <1>3 DEF Ended
  <2>4. (completion_work.pc # "idle" /\ completion_work.ret = "ok" => Finished(completion_work.bio))'
    BY <1>6, <2>1, <2>3, SMTT(30) DEF Finished, AllMoved
  <2>5. ASSUME NEW o \in 0..Answers' - 1, AnswerAt(o)'.ret = "ok"
        PROVE  (Finished(BioOf(AnswerAt(o).cookie - 1)))'
    <3>1. o \in 0..Answers - 2 /\ o + 1 \in 0..Answers - 1
      BY <1>2
    <3>2. PICK x : x = BioOf(AnswerAt(o + 1).cookie - 1)
      OBVIOUS
    <3>3. AnswerAt(o)' = AnswerAt(o + 1)
      BY <1>2, <3>1
    <3>4. Finished(x)'
      BY <2>1, <2>5, <3>1, <3>2, <3>3 DEF Ended
    <3>5. BioOf(AnswerAt(o).cookie - 1)' = x
      BY <1>1, <3>2, <3>3 DEF BioOf, WorkStep
    <3> QED  BY <3>4, <3>5 DEF Finished, AllMoved
  <2> QED  BY <2>2, <2>4, <2>5 DEF Ended
<1> QED
  BY <1>1, <1>2, <1>8, <1>9, <1>10, <1>11, <1>12, <1>13, <1>16, <1>17, <1>18, WorkStepKeeps

LEMMA DoneTailKeeps ==
    ASSUME BlockInv, DoneTail
    PROVE  BlockInv'
<1> USE DEF BlockInv
<1>0. PICK id : id = completion_work.id
  OBVIOUS
<1>1. /\ completion_work.pc = "tail" /\ bio_context_pool' = PoolTail(bio_context_pool, id)
      /\ completion_work' = [completion_work EXCEPT !.pc = "end"] /\ WorkStep
      /\ UNCHANGED <<status, ends, bvec_free, completion_ring>>
  BY <1>0 DEF DoneTail, CompletionWork, WorkStep
<1>2. /\ completion_work'.pc = "end" /\ completion_work'.bio = completion_work.bio
      /\ completion_work'.ret = completion_work.ret /\ completion_work'.id = id
      /\ thread.pc # "tail" /\ id \in Ids /\ UNCHANGED thread
  BY <1>0, <1>1 DEF FrontendTyped, Pushing, WorkStep
<1>3. BeingPushed = {id} /\ BeingPushed' = {}
  BY <1>0, <1>1, <1>2 DEF BeingPushed
<1>4. /\ PoolTyped(bio_context_pool) /\ Listed(bio_context_pool, {id})
      /\ UsedIds = UsedIn(bio_context_pool) /\ UsedIds' = UsedIn(bio_context_pool')
  BY <1>3, PoolViews DEF PoolTyped, FrontendTyped
<1>5. id \notin UsedIn(bio_context_pool) /\ bio_context_pool.next_free[bio_context_pool.tail] = id
  BY <1>0, <1>1, <1>4 DEF Pushing, HalfPushed
<1>6. /\ PoolTyped(bio_context_pool') /\ Listed(bio_context_pool', {})
      /\ UsedIds' = UsedIds
  BY <1>1, <1>2, <1>4, <1>5, Tailed
<1>7. ContextsListed' /\ Pushing'
  BY <1>2, <1>3, <1>6, PoolViews DEF Pushing
<1>8. FrontendTyped'
  <2>1. completion_work' \in [pc : {"idle", "tail", "end"}, id : Ids, bio : SomeBio,
                              ret : {"ok", "error"}]
    BY <1>1 DEF FrontendTyped
  <2> QED  BY <1>1, <1>6, <2>1 DEF FrontendTyped, PoolTyped, WorkStep
<1>9. RingsTyped' /\ Mapped' /\ AnswersQueued' /\ Responders'
  <2>1. Mapped'
    BY <1>1, <1>6 DEF Mapped, Held, WorkStep
  <2> QED  BY <1>1, <2>1, AnswersFrame, RespondersFrame DEF RingsTyped, WorkStep, bvars
<1>10. BiosHeld'
  <2>1. \A x \in Bios, p \in Holders : Holds(p, x)' <=> Holds(p, x)
    BY <1>1, <1>2, <1>6 DEF Holds, Holders, ThreadHas, WorkHas, InList, ContextHas, BioOf, WorkStep
  <2> QED  BY <1>1, <1>2, <1>6, <2>1 DEF BiosHeld, BioOf, WorkStep
<1>11. Placed'
  BY <1>1, <1>6 DEF Placed, At, ThreadBusy, Published, QueuedAt, Cookie, Answers, AnswerAt,
                    WorkStep, bvars
<1>12. Ended'
  BY <1>1, <1>2 DEF Ended, Finished, AllMoved, Answers, AnswerAt, BioOf, WorkStep, bvars
<1> QED
  BY <1>1, <1>6, <1>7, <1>8, <1>9, <1>10, <1>11, <1>12, InUse, WorkStepKeeps

LEMMA DoneEndKeeps ==
    ASSUME BlockInv, DoneEnd
    PROVE  BlockInv'
<1> USE DEF BlockInv
<1>0. PICK b, r : b = completion_work.bio /\ r = completion_work.ret
  OBVIOUS
<1>1. /\ completion_work.pc = "end" /\ completion_work' = WorkIdle /\ WorkStep
      /\ status' = [status EXCEPT ![b] = r] /\ ends' = [ends EXCEPT ![b] = @ + 1]
      /\ UNCHANGED <<bio_context_pool, bvec_free, completion_ring>>
  BY <1>0 DEF DoneEnd, DoneBio, BioEnd, CompletionWork, WorkStep
<1>2. b \in Bios /\ r \in {"ok", "error"} /\ completion_work'.pc = "idle"
  BY <1>0, <1>1 DEF FrontendTyped, BiosHeld, WorkIdle
<1>3. FrontendTyped'
  <2>1. ends[b] + 1 \in Nat
    BY <1>2 DEF FrontendTyped
  <2>2. status' \in [Bios -> Statuses] /\ ends' \in [Bios -> Nat]
    BY <1>1, <1>2, <2>1 DEF FrontendTyped, Statuses
  <2>3. 0 \in Ids
    BY Sizes
  <2>4. completion_work' \in [pc : {"idle", "tail", "end"}, id : Ids, bio : SomeBio,
                              ret : {"ok", "error"}]
    BY <1>1, <2>3 DEF WorkIdle, SomeBio
  <2> QED  BY <1>1, <2>2, <2>4 DEF FrontendTyped, WorkStep
<1>4. RingsTyped' /\ Mapped' /\ AnswersQueued' /\ Responders' /\ UsedIds' = UsedIds
  BY <1>1, MappedFrame, AnswersFrame, RespondersFrame DEF RingsTyped, WorkStep, bvars, UsedIds
<1>5. ContextsListed' /\ Pushing'
  BY <1>1, <1>2 DEF ContextsListed, Pushing, HalfPushed, UsedIds, BeingPushed, WorkStep
<1>6. \A x \in Bios : /\ status'[x] = IF x = b THEN r ELSE status[x]
                      /\ ends'[x] = IF x = b THEN ends[x] + 1 ELSE ends[x]
  BY <1>1, <1>2 DEF FrontendTyped
<1>7. BiosHeld'
  <2>1. \A x \in Bios, p \in Holders : Holds(p, x)' <=> p # "work" /\ Holds(p, x)
    BY <1>1, <1>2 DEF Holds, Holders, ThreadHas, WorkHas, InList, ContextHas, BioOf, UsedIds, WorkStep
  <2>2. Holds("work", b) /\ \A p \in Holders : Holds(p, b) => p = "work"
    <3>1. Holds("work", b)
      BY <1>0, <1>1 DEF Holds, WorkHas
    <3> QED  BY <3>1, <1>2 DEF BiosHeld, Holders
  <2>3. \A x \in Bios : \A p, q \in Holders : Holds(p, x)' => (Holds(q, x)' => p = q)
    BY <2>1 DEF BiosHeld
  <2>4. \A x \in Bios : \A p \in Holders : Holds(p, x)' => status'[x] = "listed"
    BY <1>6, <2>1, <2>2 DEF BiosHeld
  <2>5. status[b] = "listed"
    BY <2>2, <1>2 DEF BiosHeld, Holders
  <2>6. \A x \in Bios : ends'[x] = IF status'[x] \in {"ok", "error"} THEN 1 ELSE 0
    <3>1. ends[b] = 0 /\ \A x \in Bios : ends[x] = IF status[x] \in {"ok", "error"} THEN 1 ELSE 0
      BY <1>2, <2>5 DEF BiosHeld
    <3> QED  BY <1>2, <1>6, <3>1
  <2> QED  BY <1>1, <1>2, <1>4, <2>3, <2>4, <2>6 DEF BiosHeld, BioOf, WorkStep
<1>8. Placed'
  BY <1>1, PlacedFrame DEF WorkStep, bvars
<1>9. Ended'
  <2>1. \A x : Finished(x)' <=> Finished(x)
    BY <1>1 DEF Finished, AllMoved, WorkStep, bvars
  <2>2. r = "ok" => Finished(b)
    BY <1>0, <1>1 DEF Ended
  <2>3. \A x \in Bios : status'[x] = "ok" => Finished(x)'
    BY <1>6, <2>1, <2>2 DEF Ended
  <2> QED  BY <1>1, <1>2, <2>3 DEF Ended, Finished, AllMoved, Answers, AnswerAt, BioOf, WorkStep, bvars
<1>10. \A x \in Bios : status'[x] \in {"new", "waiting"} => status[x] \in {"new", "waiting"}
  BY <1>2, <1>6
<1> QED
  BY <1>1, <1>3, <1>4, <1>5, <1>7, <1>8, <1>9, <1>10, InUse, WorkStepKeeps

-----------------------------------------------------------------------------
(* The backend's request thread.                                           *)

LEMMA BackendStepKeeps ==
    ASSUME BlockInv, BackendThread, BackendTyped', RingsTyped', RequestsQueued', AnswersQueued',
           Responders', Placed', BackendAt', TransfersQueued', BackendProgress', NotBegun', Ended'
    PROVE  BlockInv'
<1> USE DEF BlockInv, BackendThread, fvars
<1>1. FrontendTyped'
  BY DEF FrontendTyped
<1> QED
  BY <1>1, PoolFrame, MappedFrame, BiosFrame, ThreadFrame

LEMMA UnitsAre ==
    ASSUME NEW b \in Bios
    PROVE  /\ \A p \in 1..Len(Parts[b]), k \in Nat :
                 <<p, k>> \in Units(b) <=> k \in 1..Len(Parts[b][p])
           /\ \A u \in Units(b) : \E p \in 1..Len(Parts[b]) :
                 \E k \in 1..Len(Parts[b][p]) : u = <<p, k>>
<1>1. \A u \in Units(b) : \E p \in 1..Len(Parts[b]) : \E k \in 1..Len(Parts[b][p]) : u = <<p, k>>
  BY DEF Units
<1>2. ASSUME NEW p \in 1..Len(Parts[b]), NEW k \in 1..Len(Parts[b][p])
      PROVE  <<p, k>> \in Units(b)
  BY DEF Units
<1>3. ASSUME NEW p \in 1..Len(Parts[b]), NEW k \in Nat, <<p, k>> \in Units(b)
      PROVE  k \in 1..Len(Parts[b][p])
  <2>1. PICK q \in 1..Len(Parts[b]) : \E l \in 1..Len(Parts[b][q]) : <<p, k>> = <<q, l>>
    BY <1>1, <1>3
  <2> QED  BY <2>1
<1> QED  BY <1>1, <1>2, <1>3

(* The bio of a context in use is nowhere else.                            *)
LEMMA ContextsBio ==
    ASSUME BlockInv, NEW c \in UsedIds, NEW b, b = BioOf(c)
    PROVE  /\ b \in Bios /\ status[b] = "listed" /\ ~InList(b) /\ ~ThreadHas(b) /\ ~WorkHas(b)
           /\ \A d \in UsedIds : BioOf(d) = b => d = c
<1> USE DEF BlockInv
<1>1. b \in Bios /\ Holds("context", b)
  BY DEF BiosHeld, Holds, ContextHas
<1>2. status[b] = "listed" /\ \A p \in Holders : Holds(p, b) => p = "context"
  BY <1>1 DEF BiosHeld, Holders
<1>3. ~InList(b) /\ ~ThreadHas(b) /\ ~WorkHas(b)
  BY <1>2 DEF Holds, Holders
<1> QED  BY <1>1, <1>2, <1>3 DEF BiosHeld

(* The first entries published are those of one bio.                       *)
LEMMA FirstBio ==
    ASSUME BlockInv, request_ring.last_used # request_ring.last_add,
           NEW c, NEW b, NEW n, c = QueuedAt(0).cookie - 1, b = BioOf(c), n = Len(Parts[b])
    PROVE  /\ c \in UsedIds /\ b \in Bios /\ At("ring", c) /\ Published \in Nat
           /\ n \in 1..Published /\ n <= MaxParts
           /\ \A p \in 1..n : QueuedAt(p - 1) = EntryOf(c, p)
           /\ \A o \in 0..Published - 1 : QueuedAt(o).cookie = c + 1 => o < n
<1> USE DEF BlockInv
<1>1. /\ Published \in Nat \ {0}
  <2>1. RequestNum \in Nat \ {0} /\ request_ring.last_used \in 0..2 * RequestNum - 1
        /\ request_ring.last_add \in 0..2 * RequestNum - 1
    BY Sizes DEF RingsTyped
  <2>2. Published = Dist(request_ring.last_add, request_ring.last_used, RequestNum)
    BY DEF Published
  <2>3. PICK a, u \in 0..2 * RequestNum - 1 : a = request_ring.last_add /\ u = request_ring.last_used
    BY <2>1
  <2>4. Dist(a, u, RequestNum) = (IF a >= u THEN a - u ELSE a - u + 2 * RequestNum)
        /\ Dist(a, u, RequestNum) \in 0..2 * RequestNum - 1
    BY <2>1, DistIs
  <2> QED  BY <2>1, <2>2, <2>3, <2>4
<1>2. 0 \in 0..Published - 1
  BY <1>1
<1>3. c \in UsedIds /\ QueuedAt(0).cookie > 0 /\ QueuedAt(0).bio = b /\ Whole(0) /\ b \in Bios
  BY <1>2, InUse DEF RequestsQueued, PublishedWhole, BiosHeld
<1>4. n \in Nat \ {0} /\ n <= MaxParts
  <2>1. n \in 1..RequestNum /\ n <= MaxParts
    BY <1>3, PartsAre
  <2> QED  BY <2>1, Sizes
<1>5. PICK e : e = QueuedAt(0)
  OBVIOUS
<1>6. /\ e.part \in 1..n
      /\ \A p \in 1..n : 0 - e.part + p \in 0..Published - 1 /\ QueuedAt(0 - e.part + p) = EntryOf(c, p)
  BY <1>3, <1>5 DEF Whole
<1>7. e.part = 1
  <2>1. 1 \in 1..n
    BY <1>4
  <2>2. 0 - e.part + 1 \in 0..Published - 1 /\ e.part \in 1..n
    BY <1>6, <2>1
  <2> QED  BY <1>1, <1>4, <2>2
<1>8. \A p \in 1..n : p - 1 \in 0..Published - 1 /\ QueuedAt(p - 1) = EntryOf(c, p)
  <2> TAKE p \in 1..n
  <2>1. 0 - e.part + p = p - 1
    BY <1>4, <1>7
  <2> QED  BY <1>6, <2>1
<1>9. n \in 1..Published
  <2>1. n - 1 \in 0..Published - 1
    BY <1>4, <1>8
  <2> QED  BY <1>1, <1>4, <2>1
<1>10. e.cookie = c + 1
  <2>1. \A p \in 1..n : p = 1 => p - 1 = 0 /\ QueuedAt(p - 1) = EntryOf(c, p)
    BY <1>8
  <2>2. 1 \in 1..n
    BY <1>4
  <2>3. QueuedAt(0) = EntryOf(c, 1)
    BY <2>1, <2>2
  <2> HIDE DEF BlockInv
  <2> QED  BY <1>5, <2>3 DEF EntryOf
<1>11. ASSUME NEW o \in 0..Published - 1, QueuedAt(o).cookie = c + 1
       PROVE  o < n
  <2>1. PICK q : q = QueuedAt(o)
    OBVIOUS
  <2>2. q.part - e.part = o - 0
    BY <1>2, <1>5, <1>10, <1>11, <2>1 DEF RequestsQueued, PublishedWhole
  <2>3. q.cookie - 1 = c
    BY <1>3, <1>11, <2>1, UsedAre, Sizes
  <2>4. q.bio = b /\ q.part \in 1..Len(Parts[q.bio])
    BY <1>3, <2>1, <2>3 DEF RequestsQueued, PublishedWhole, Whole
  <2>5. q.part \in 1..n
    BY <2>4
  <2> QED  BY <1>1, <1>4, <1>7, <2>2, <2>5
<1>12. At("ring", c)
  BY <1>2, <1>5, <1>10 DEF At
<1> QED  BY <1>1, <1>3, <1>4, <1>8, <1>9, <1>11, <1>12

LEMMA NextRequestIs ==
    ASSUME BlockInv, request_ring.last_used # request_ring.last_add,
           NEW c, NEW b, NEW n, c = QueuedAt(0).cookie - 1, b = BioOf(c), n = Len(Parts[b])
    PROVE  NextRequest(request_ring) = [i \in 1..n |-> EntryOf(c, i)]
<1>1. /\ c \in UsedIds /\ Published \in Nat /\ n \in 1..Published /\ n <= MaxParts
      /\ \A p \in 1..n : QueuedAt(p - 1) = EntryOf(c, p)
      /\ \A o \in 0..Published - 1 : QueuedAt(o).cookie = c + 1 => o < n
  BY FirstBio
<1> DEFINE same(m) == \A i \in 0..m - 1 : QueuedAt(i).cookie = QueuedAt(0).cookie
           sizes == {m \in 1..Published : m <= MaxParts /\ same(m)}
           size == CHOOSE m \in sizes : \A l \in sizes : l <= m
<1>2. Pending(request_ring, RequestNum) = Published
  BY DEF Pending, Published, Dist
<1>3. NextRequest(request_ring) = [i \in 1..size |-> QueuedAt(i - 1)]
  BY <1>2 DEF NextRequest, QueuedAt, SlotAt
<1>4. \A i \in 0..n - 1 : QueuedAt(i).cookie = c + 1
  <2> TAKE i \in 0..n - 1
  <2>1. i + 1 \in 1..n /\ (i + 1) - 1 = i
    BY <1>1
  <2>2. QueuedAt(i) = EntryOf(c, i + 1)
    BY <1>1, <2>1
  <2> QED  BY <2>2 DEF EntryOf
<1>5. n \in sizes
  <2>1. 0 \in 0..n - 1
    BY <1>1
  <2> QED  BY <1>1, <1>4, <2>1
<1>6. ASSUME NEW m \in sizes
      PROVE  m <= n
  <2>1. m \in 1..Published /\ same(m)
    OBVIOUS
  <2>2. ASSUME m > n
        PROVE  FALSE
    <3>1. n \in 0..m - 1 /\ n \in 0..Published - 1 /\ 0 \in 0..n - 1
      BY <1>1, <2>1, <2>2
    <3>2. QueuedAt(n).cookie = c + 1
      BY <1>4, <2>1, <3>1
    <3>3. n < n
      BY <1>1, <3>1, <3>2
    <3> QED  BY <1>1, <3>3
  <2> QED  BY <1>1, <2>1, <2>2
<1>7. sizes \subseteq Int
  BY <1>1
<1> HIDE DEF sizes
<1>8. size = n
  <2>1. size \in sizes /\ \A l \in sizes : l <= size
    BY <1>5, <1>6
  <2> HIDE DEF size
  <2> QED  BY <1>1, <1>5, <1>6, <1>7, <2>1
<1> QED  BY <1>1, <1>3, <1>8

(* The first entries, those of one bio, are used.                          *)
LEMMA RequestsTaken ==
    ASSUME BlockInv, NEW c \in UsedIds, NEW n \in Nat, n <= Published,
           \A p \in 1..n : QueuedAt(p - 1) = EntryOf(c, p),
           \A o \in 0..Published - 1 : QueuedAt(o).cookie = c + 1 => o < n,
           NEW u2, u2 = CounterAdd(request_ring.last_used, n, RequestNum),
           request_ring'.last_used = u2, request_ring'.last_add = request_ring.last_add,
           request_ring'.elems = request_ring.elems,
           UNCHANGED <<request_ring_alloc, thread, bio_context>>
    PROVE  /\ u2 \in 0..2 * RequestNum - 1 /\ RequestsQueued'
           /\ \A d \in Ids : At("ring", d)' => At("ring", d) /\ d # c
<1>1. PICK N \in Nat \ {0}, P \in Nat, Q \in Nat :
           N = RequestNum /\ P = Published /\ Q = Prepared
  <2>1. RequestNum \in Nat \ {0}
    BY Sizes
  <2>2. Published \in 0..2 * RequestNum - 1 /\ Prepared \in 0..2 * RequestNum - 1
    BY Counts DEF BlockInv
  <2>3. Published \in Nat /\ Prepared \in Nat
    BY <2>1, <2>2
  <2> QED  BY <2>1, <2>3
<1>2. PICK u \in 0..2 * N - 1, a \in 0..2 * N - 1, l \in 0..2 * N - 1 :
           u = request_ring.last_used /\ a = request_ring_alloc /\ l = request_ring.last_add
  BY <1>1 DEF BlockInv, RingsTyped, FrontendTyped
<1>3. /\ P <= Q /\ Q <= N /\ n <= N /\ n <= P
  <2>1. P <= Q /\ Q <= N
    BY <1>1 DEF BlockInv, RequestsQueued
  <2> QED  BY <1>1, <2>1
<1>4. /\ P = Dist(l, u, N) /\ Q = Dist(a, u, N)
  BY <1>1, <1>2 DEF Published, Prepared
<1>5. /\ u2 = CounterAdd(u, n, N) /\ u2 \in 0..2 * N - 1
      /\ Dist(l, u2, N) = P - n /\ Dist(a, u2, N) = Q - n
      /\ \A o \in 0..Q - n - 1 : SlotAt(u2, o, N) = SlotAt(u, n + o, N)
  <2>1. u2 = CounterAdd(u, n, N)
    BY <1>1, <1>2
  <2>2. /\ CounterAdd(u, n, N) \in 0..2 * N - 1
        /\ Dist(l, CounterAdd(u, n, N), N) = P - n
        /\ Dist(a, CounterAdd(u, n, N), N) = Q - n
        /\ \A o \in 0..Q - n - 1 : SlotAt(CounterAdd(u, n, N), o, N) = SlotAt(u, n + o, N)
    <3>1. P = Dist(l, u, N) /\ Q = Dist(a, u, N) /\ n <= P /\ P <= Q /\ Q <= N
      BY <1>3, <1>4
    <3>2. n \in 0..2 * N - 1 /\ n <= P /\ n <= Q /\ Dist(l, u, N) <= N /\ Dist(a, u, N) <= N
      BY <3>1
    <3>3. CounterAdd(u, n, N) \in 0..2 * N - 1
      BY <3>2, CounterAddIs
    <3>4. Dist(l, CounterAdd(u, n, N), N) = P - n
      BY <3>1, <3>2, DistUsed
    <3>5. Dist(a, CounterAdd(u, n, N), N) = Q - n
      BY <3>1, <3>2, DistUsed
    <3>6. ASSUME NEW o \in 0..Q - n - 1
          PROVE  SlotAt(CounterAdd(u, n, N), o, N) = SlotAt(u, n + o, N)
      <4>1. o \in Nat /\ n + o <= N
        BY <3>1
      <4> QED  BY <4>1, SlotUsed
    <3> QED  BY <3>3, <3>4, <3>5, <3>6
  <2> QED  BY <2>1, <2>2
<1>6. /\ request_ring'.last_used = u2 /\ request_ring'.last_add = l
      /\ request_ring'.elems = request_ring.elems /\ request_ring_alloc' = a
      /\ thread' = thread /\ bio_context' = bio_context
  BY <1>2
<1>7. \A o \in 0..P - 1 : n > o => QueuedAt(o).cookie = c + 1
  <2> TAKE o \in 0..P - 1
  <2> HAVE n > o
  <2>1. o + 1 \in 1..n /\ (o + 1) - 1 = o
    OBVIOUS
  <2>2. QueuedAt(o) = EntryOf(c, o + 1)
    BY <1>1, <2>1
  <2> QED  BY <2>2 DEF EntryOf
<1>8. Published' = P - n /\ Prepared' = Q - n
  BY <1>1, <1>5, <1>6 DEF Published, Prepared
<1>9. \A o \in 0..Q - n - 1 : QueuedAt(o)' = QueuedAt(n + o)
  BY <1>1, <1>2, <1>5, <1>6 DEF QueuedAt
<1>10. \A o \in 0..P - n - 1 :
          /\ o \in 0..Q - n - 1 /\ n + o \in 0..P - 1 /\ o \in Nat
          /\ QueuedAt(o)' = QueuedAt(n + o) /\ QueuedAt(n + o).cookie # c + 1
  <2> TAKE o \in 0..P - n - 1
  <2>1. o \in 0..Q - n - 1 /\ n + o \in 0..P - 1 /\ o \in Nat /\ ~(n + o < n)
    BY <1>3
  <2> QED  BY <1>1, <1>9, <2>1
<1>11. \A d : BioOf(d)' = BioOf(d)
  BY <1>6 DEF BioOf
<1>12. \A o \in 0..P - 1 :
          QueuedAt(o).cookie \in Int /\ QueuedAt(o).cookie - 1 \in UsedIds
  <2> TAKE o \in 0..P - 1
  <2>1. o \in 0..N
    BY <1>3
  <2>2. SlotAt(u, o, N) \in 0..N - 1
    BY <2>1, SlotIs
  <2>3. QueuedAt(o) \in Entries
    BY <1>1, <1>2, <2>2 DEF BlockInv, RingsTyped, QueuedAt
  <2>4. QueuedAt(o).cookie \in Int
    BY <2>3, Sizes DEF Entries
  <2> QED  BY <1>1, <2>4, InUse DEF BlockInv
<1>13. /\ \A o \in 0..P - 1 :
             QueuedAt(o).cookie > 0 /\ QueuedAt(o).bio = BioOf(QueuedAt(o).cookie - 1) /\ Whole(o)
       /\ \A o, p \in 0..P - 1 : QueuedAt(o).cookie = QueuedAt(p).cookie
                                   => QueuedAt(p).part - QueuedAt(o).part = p - o
  BY <1>1 DEF BlockInv, RequestsQueued, PublishedWhole
<1>14. PublishedWhole'
  <2>1. ASSUME NEW o \in 0..P - n - 1
        PROVE  (QueuedAt(o).cookie > 0 /\ QueuedAt(o).bio = BioOf(QueuedAt(o).cookie - 1)
                /\ Whole(o))'
    <3>1. PICK e, d, s : e = QueuedAt(n + o) /\ d = e.cookie - 1 /\ s = n + o
      OBVIOUS
    <3>2. /\ s \in 0..P - 1 /\ QueuedAt(o)' = e /\ e.cookie # c + 1 /\ o \in Nat /\ e = QueuedAt(s)
      BY <1>10, <3>1
    <3>3. /\ e.cookie > 0 /\ e.bio = BioOf(d) /\ e.part \in 1..Len(Parts[e.bio])
          /\ \A p \in 1..Len(Parts[e.bio]) : /\ s - e.part + p \in 0..P - 1
                                             /\ QueuedAt(s - e.part + p) = EntryOf(d, p)
      <4>1. QueuedAt(s).cookie > 0 /\ QueuedAt(s).bio = BioOf(QueuedAt(s).cookie - 1) /\ Whole(s)
        BY <1>13, <3>2
      <4> QED  BY <1>1, <3>1, <3>2, <4>1 DEF Whole
    <3>4. d \in UsedIds /\ d \in Ids /\ d # c /\ e.cookie = d + 1
      <4>1. d \in UsedIds /\ e.cookie \in Int
        BY <1>12, <3>1, <3>2
      <4>2. d \in Ids /\ d \in Int
        BY <4>1, UsedAre, Sizes
      <4> QED  BY <3>1, <3>2, <4>1, <4>2
    <3>5. Len(Parts[e.bio]) \in Nat
      <4>1. e.bio \in Bios
        BY <3>3, <3>4 DEF BlockInv, BiosHeld
      <4> QED  BY <4>1, PartsAre, Sizes
    <3>6. ASSUME NEW p \in 1..Len(Parts[e.bio])
          PROVE  o - e.part + p \in 0..P - n - 1 /\ QueuedAt(o - e.part + p)' = EntryOf(d, p)
      <4>1. PICK x, y : x = s - e.part + p /\ y = o - e.part + p
        OBVIOUS
      <4>2. x \in 0..P - 1 /\ QueuedAt(x) = EntryOf(d, p)
        BY <3>3, <4>1
      <4>3. QueuedAt(x).cookie # c + 1
        BY <3>2, <3>4, <4>2 DEF EntryOf
      <4>4. ~(n > x)
        BY <1>7, <4>2, <4>3
      <4>5. y \in 0..P - n - 1 /\ n + y = x
        <5>1. PICK q, r \in Int : q = e.part /\ r = p
          BY <3>3, <3>5
        <5>2. x = (n + o) - q + r /\ y = o - q + r /\ n \in Nat /\ o \in Nat /\ P \in Nat
          BY <1>3, <3>1, <3>2, <4>1, <5>1
        <5>3. y = x - n
          BY <5>1, <5>2
        <5>4. x \in 0..P - 1 /\ ~(n > x)
          BY <4>2, <4>4
        <5> QED  BY <5>2, <5>3, <5>4
      <4>6. QueuedAt(y)' = QueuedAt(n + y)
        BY <1>10, <4>5
      <4>7. QueuedAt(y)' = EntryOf(d, p)
        BY <4>2, <4>5, <4>6
      <4> QED  BY <4>1, <4>5, <4>7
    <3>7. Whole(o)'
      BY <1>8, <1>11, <3>1, <3>2, <3>3, <3>6 DEF Whole, EntryOf
    <3>8. BioOf(QueuedAt(o).cookie - 1)' = BioOf(d)
      BY <1>11, <3>1, <3>2 DEF BioOf
    <3> QED  BY <3>2, <3>3, <3>7, <3>8
  <2>2. ASSUME NEW o \in 0..P - n - 1, NEW p \in 0..P - n - 1,
               QueuedAt(o)'.cookie = QueuedAt(p)'.cookie
        PROVE  QueuedAt(p)'.part - QueuedAt(o)'.part = p - o
    <3>1. /\ n + o \in 0..P - 1 /\ n + p \in 0..P - 1
          /\ QueuedAt(o)' = QueuedAt(n + o) /\ QueuedAt(p)' = QueuedAt(n + p)
          /\ o \in Nat /\ p \in Nat
      BY <1>10
    <3>2. QueuedAt(n + p).part - QueuedAt(n + o).part = (n + p) - (n + o)
      BY <1>13, <2>2, <3>1
    <3>3. (n + p) - (n + o) = p - o
      BY <3>1
    <3> QED  BY <3>1, <3>2, <3>3
  <2> QED  BY <1>8, <2>1, <2>2 DEF PublishedWhole
<1>15. RequestsQueued'
  <2>1. PICK t \in Int : t = ThreadsEntries
    <3>1. thread.part \in Nat
      BY DEF BlockInv, FrontendTyped
    <3> QED  BY <3>1 DEF ThreadsEntries
  <2>2. ThreadsEntries' = t /\ Q = P + t
    BY <1>1, <1>6, <2>1 DEF ThreadsEntries, BlockInv, RequestsQueued
  <2>3. \A o \in P..Q - 1 : QueuedAt(o) = EntryOf(thread.id, o - P + 1)
    BY <1>1 DEF BlockInv, RequestsQueued
  <2>4. ASSUME NEW o \in P - n..Q - n - 1
        PROVE  (QueuedAt(o) = EntryOf(thread.id, o - Published + 1))'
    <3>1. o \in 0..Q - n - 1 /\ n + o \in P..Q - 1 /\ (n + o) - P + 1 = o - (P - n) + 1
      <4>1. P \in Nat /\ Q \in Nat /\ n \in Nat /\ n <= P
        BY <1>3
      <4>2. o \in Nat /\ o >= P - n /\ o <= Q - n - 1
        BY <4>1
      <4> QED  BY <4>1, <4>2
    <3>2. QueuedAt(n + o) = EntryOf(thread.id, o - (P - n) + 1)
      BY <2>3, <3>1
    <3>3. QueuedAt(o)' = QueuedAt(n + o)
      BY <1>9, <3>1
    <3> QED  BY <1>6, <1>8, <3>2, <3>3 DEF EntryOf, BioOf
  <2>5. P - n <= Q - n /\ Q - n <= RequestNum /\ Q - n = (P - n) + t
    BY <1>1, <1>3, <2>1, <2>2
  <2> QED  BY <1>8, <1>14, <2>2, <2>4, <2>5 DEF RequestsQueued
<1>16. ASSUME NEW d \in Ids, At("ring", d)'
       PROVE  At("ring", d) /\ d # c
  <2>1. PICK o \in 0..P - n - 1 : QueuedAt(o)'.cookie = d + 1
    BY <1>8, <1>16 DEF At
  <2>2. n + o \in 0..P - 1 /\ QueuedAt(n + o).cookie = d + 1 /\ d + 1 # c + 1
    BY <1>10, <2>1
  <2> QED  BY <1>1, <2>2, UsedAre, Sizes DEF At
<1> QED  BY <1>1, <1>5, <1>15, <1>16

LEMMA GetNextRequestKeeps ==
    ASSUME BlockInv, GetNextRequest
    PROVE  BlockInv'
<1> USE DEF BlockInv
<1>0. PICK c, b, n, u2 : /\ c = QueuedAt(0).cookie - 1 /\ b = BioOf(c) /\ n = Len(Parts[b])
                         /\ u2 = CounterAdd(request_ring.last_used, n, RequestNum)
  OBVIOUS
<1>1. /\ backend.pc = "idle" /\ request_ring.last_used # request_ring.last_add
      /\ BackendThread /\ UNCHANGED <<buffer_free, dma, completion_ring, faults>>
  BY DEF GetNextRequest
<1>2. /\ c \in UsedIds /\ c \in Ids /\ b \in Bios /\ At("ring", c)
      /\ n \in Nat \ {0}
  <2>1. /\ c \in UsedIds /\ b \in Bios /\ At("ring", c)
    BY <1>0, <1>1, FirstBio
  <2>2. n \in 1..RequestNum
    BY <1>0, <2>1, PartsAre
  <2> QED  BY <2>1, <2>2, UsedAre, Sizes
<1>3. PICK buff : buff = [i \in 1..n |-> EntryOf(c, i)]
  OBVIOUS
<1>4. buff \in Seq(Entries) /\ Len(buff) = n /\ \A i \in 1..n : buff[i] = EntryOf(c, i)
  <2>1. \A i \in 1..n : EntryOf(c, i) \in Entries
    BY <1>0, <1>2, Sizes DEF EntryOf, Entries, SomeBio
  <2> QED  BY <1>2, <1>3, <2>1
<1>5. /\ backend' = [BackendIdle EXCEPT !.pc = "transfer", !.buff = buff, !.id = 1, !.k = 1]
      /\ request_ring' = [request_ring EXCEPT !.last_used = u2]
  <2>1. NextRequest(request_ring) = buff
    BY <1>0, <1>1, <1>3, NextRequestIs
  <2> QED  BY <1>0, <1>4, <2>1 DEF GetNextRequest
<1>6. /\ backend'.pc = "transfer" /\ backend'.buff = buff /\ backend'.id = 1 /\ backend'.k = 1
      /\ backend'.last_add = 0
  BY <1>5 DEF BackendIdle
<1>7. RingsTyped' /\ RequestsQueued' /\ \A d \in Ids : At("ring", d)' => At("ring", d) /\ d # c
  <2>1. /\ request_ring'.last_used = u2 /\ request_ring'.last_add = request_ring.last_add
        /\ request_ring'.elems = request_ring.elems
    BY <1>5 DEF RingsTyped
  <2>2. /\ u2 \in 0..2 * RequestNum - 1 /\ RequestsQueued'
        /\ \A d \in Ids : At("ring", d)' => At("ring", d) /\ d # c
    <3>1. /\ n \in 1..Published /\ Published \in Nat
          /\ \A p \in 1..n : QueuedAt(p - 1) = EntryOf(c, p)
          /\ \A o \in 0..Published - 1 : QueuedAt(o).cookie = c + 1 => o < n
      BY <1>0, <1>1, FirstBio
    <3>2. n <= Published
      BY <3>1
    <3> QED  BY <1>0, <1>1, <1>2, <2>1, <3>1, <3>2, RequestsTaken DEF BackendThread, fvars
  <2>3. RingsTyped'
    BY <1>1, <1>5, <2>2 DEF RingsTyped
  <2> QED  BY <2>2, <2>3
<1>8. BackendTyped'
  <2>1. 0 \in 0..2 * AckNum - 1
    BY Sizes
  <2>2. backend' \in [pc : {"idle", "transfer", "respond", "publish"}, buff : Seq(Entries),
                      id : Nat, k : Nat, last_add : 0..2 * AckNum - 1]
    BY <1>4, <1>5, <2>1 DEF BackendIdle
  <2> QED  BY <1>1, <2>2 DEF BackendTyped, BackendThread
<1>9. UsedIds' = UsedIds /\ (\A d : BioOf(d)' = BioOf(d)) /\ SameBios
  BY <1>1 DEF UsedIds, BioOf, BackendThread, fvars, SameBios
<1>10. Cookie' = c + 1 /\ Cookie' - 1 = c
  <2>1. 1 \in 1..n
    BY <1>2
  <2>2. Cookie' = c + 1
    BY <1>4, <1>6, <2>1 DEF Cookie, EntryOf
  <2> QED  BY <1>2, <2>2, Sizes
<1>11. AnswersQueued' /\ Responders'
  BY <1>1, <1>6, AnswersFrame DEF Responders, Answering, Responding, BackendThread
<1>12. Placed'
  <2>1. \A d \in Ids, p \in Stages :
           At(p, d)' => IF p = "ring" THEN At(p, d) /\ d # c
                        ELSE IF p = "backend" THEN d = c ELSE At(p, d)
    <3>1. \A d \in Ids : c + 1 = d + 1 => d = c
      BY <1>2, Sizes
    <3> QED
      BY <1>1, <1>7, <1>10, <3>1 DEF At, Stages, ThreadBusy, Answers, AnswerAt, BackendThread, fvars
  <2> QED  BY <1>2, <1>9, <2>1 DEF Placed, Stages
<1>13. BackendAt'
  <2>1. \A p \in 1..n : (EntryOf(c, p))' = EntryOf(c, p)
    BY <1>9 DEF EntryOf
  <2>2. 1 \in 1..n /\ 1 \in 1..Len(Parts[b][1])
    <3>1. 1 \in 1..n
      BY <1>2
    <3>2. Len(Parts[b][1]) \in Nat \ {0}
      BY <1>0, <1>2, <3>1, PartsAre
    <3> QED  BY <3>1, <3>2
  <2>3. BioOf(Cookie - 1)' = b
    BY <1>0, <1>9, <1>10 DEF BioOf
  <2>4. \A p : EntryOf(Cookie - 1, p)' = [cookie |-> c + 1, bio |-> b, part |-> p]
    BY <1>10, <2>3 DEF EntryOf, BioOf
  <2>5. \A p : EntryOf(c, p) = [cookie |-> c + 1, bio |-> b, part |-> p]
    BY <1>0 DEF EntryOf
  <2>6. Cookie' > 0
    BY <1>2, <1>10, Sizes
  <2>7. n > 0
    BY <1>2
  <2>8. Len(backend'.buff) > 0 /\ Len(backend'.buff) = Len(Parts[b])
        /\ \A p \in 1..Len(Parts[b]) : backend'.buff[p] = EntryOf(Cookie - 1, p)'
    <3>1. Len(backend'.buff) = n /\ n = Len(Parts[b])
      BY <1>0, <1>4, <1>6
    <3>2. \A p \in 1..n : backend'.buff[p] = EntryOf(c, p)
      BY <1>4, <1>6
    <3>3. \A p \in 1..n : backend'.buff[p] = EntryOf(Cookie - 1, p)'
      BY <3>2, <2>4, <2>5
    <3> HIDE DEF BlockInv
    <3> QED  BY <3>1, <3>3, <2>7
  <2>9. backend'.id \in 1..Len(Parts[b]) /\ backend'.k \in 1..Len(Parts[b][backend'.id])
    BY <1>0, <1>6, <2>2
  <2> HIDE DEF BlockInv
  <2> QED  BY <2>3, <2>6, <2>8, <2>9 DEF BackendAt
<1>14. TransfersQueued'
  BY <1>1, <1>9, InUse, TransfersFrame DEF BackendThread
<1>15. BackendProgress'
  <2>1. Untouched(b)
    BY <1>0, <1>2 DEF NotBegun
  <2>2. \A u \in Units(b) : ~Submitted(b, u)' /\ ~Before(u, 1, 1)
    <3>1. \A u \in Units(b) : ~Before(u, 1, 1)
      BY <1>2, UnitsAre DEF Before
    <3> QED  BY <1>1, <2>1, <3>1 DEF Untouched, Submitted, IsMoved, InDma, BackendThread
  <2>3. BioOf(Cookie - 1)' = b
    BY <1>0, <1>9, <1>10 DEF BioOf
  <2>4. \A u \in Units(b) : (Submitted(b, u)' <=> Before(u, backend'.id, backend'.k))
    BY <1>6, <2>2
  <2> QED  BY <2>3, <2>4 DEF BackendProgress, Submitted, IsMoved, InDma
<1>16. NotBegun'
  <2>1. \A x \in Bios : (Untouched(x)' <=> Untouched(x)) /\ (InList(x)' <=> InList(x))
    BY <1>1, UntouchedKept DEF InList, BackendThread, fvars
  <2>2. \A d \in UsedIds' : At("thread", d)' \/ At("ring", d)'
                              => d \in UsedIds /\ (At("thread", d) \/ At("ring", d))
    BY <1>1, <1>7, <1>9, UsedAre DEF At, ThreadBusy, BackendThread, fvars
  <2> QED  BY <1>1, <1>9, <2>1, <2>2, NotBegunKept DEF BackendThread, fvars
<1>17. Ended'
  BY <1>1, <1>9, InUse, EndedFrame DEF BackendThread, fvars
<1> QED
  BY <1>1, <1>7, <1>8, <1>11, <1>12, <1>13, <1>14, <1>15, <1>16, <1>17, BackendStepKeeps

(* What the backend's request thread is working on.                        *)
LEMMA BackendHas ==
    ASSUME BlockInv, backend.pc # "idle",
           NEW c, NEW b, NEW p, NEW k,
           c = Cookie - 1, b = BioOf(c), p = backend.id, k = backend.k
    PROVE  /\ c \in UsedIds /\ c \in Ids /\ Cookie = c + 1 /\ b \in Bios /\ At("backend", c)
           /\ Entry.bio = b /\ Entry.part = p /\ Unit = <<p, k>>
           /\ Len(Parts[b]) \in Nat /\ Len(backend.buff) = Len(Parts[b])
           /\ p \in 1..Len(Parts[b]) /\ Len(Parts[b][p]) \in Nat /\ k \in 1..Len(Parts[b][p])
           /\ <<p, k>> \in Units(b) /\ Parts[b][p][k] \in Sectors
           /\ LastPart <=> p = Len(Parts[b])
           /\ LastBuffer <=> k = Len(Parts[b][p])
<1> USE DEF BlockInv
<1>1. Cookie \in 1..PoolUsed /\ c \in UsedIds
  BY InUse
<1>2. c \in Ids /\ Cookie = c + 1 /\ b \in Bios
  BY <1>1, UsedAre, Sizes DEF BiosHeld
<1>3. At("backend", c)
  BY <1>2 DEF At
<1>4. /\ Len(backend.buff) = Len(Parts[b])
      /\ \A q \in 1..Len(Parts[b]) : backend.buff[q] = EntryOf(c, q)
      /\ p \in 1..Len(Parts[b]) /\ k \in 1..Len(Parts[b][p])
  BY DEF BackendAt
<1>5. Entry.bio = b /\ Entry.part = p
  <2>1. Entry = EntryOf(c, p)
    BY <1>4 DEF Entry
  <2>2. EntryOf(c, p).bio = b /\ EntryOf(c, p).part = p
    BY DEF EntryOf
  <2> HIDE DEF BlockInv
  <2> QED  BY <2>1, <2>2
<1>6. Len(Parts[b]) \in Nat /\ Len(Parts[b][p]) \in Nat
  <2>1. Len(Parts[b]) \in 1..RequestNum /\ Len(Parts[b][p]) \in Nat \ {0}
    BY <1>2, <1>4, PartsAre
  <2> QED  BY <2>1, Sizes
<1>7. <<p, k>> \in Units(b)
  BY <1>4, <1>6 DEF Units
<1>8. Parts[b][p][k] \in Sectors
  <2>1. Parts[b] \in Seq(Seq(Sectors))
    BY <1>2, PartsAre
  <2>2. Parts[b][p] \in Seq(Sectors)
    BY <2>1, <1>4
  <2> QED  BY <2>2, <1>4
<1>9. Unit = <<p, k>> /\ (LastPart <=> p = Len(Parts[b])) /\ (LastBuffer <=> k = Len(Parts[b][p]))
  BY <1>4, <1>5 DEF Unit, LastPart, LastBuffer
<1> QED  BY <1>1, <1>2, <1>3, <1>4, <1>5, <1>6, <1>7, <1>8, <1>9

(* A bio whose units are being moved is neither before that nor after it.  *)
LEMMA Underway ==
    ASSUME BlockInv, NEW c \in UsedIds, NEW b, b = BioOf(c), At("backend", c) \/ At("dma", c)
    PROVE  /\ status[b] \notin {"new", "waiting", "ok"} /\ ~InList(b)
           /\ ~(thread.pc = "context" /\ thread.bio = b)
           /\ ~(completion_work.pc # "idle" /\ completion_work.bio = b)
           /\ \A d \in UsedIds : At("thread", d) \/ At("ring", d) => BioOf(d) # b
           /\ \A o \in 0..Answers - 1 : BioOf(AnswerAt(o).cookie - 1) # b
<1> USE DEF BlockInv
<1>1. /\ b \in Bios /\ status[b] = "listed" /\ ~InList(b) /\ ~ThreadHas(b) /\ ~WorkHas(b)
      /\ \A d \in UsedIds : BioOf(d) = b => d = c
  BY ContextsBio
<1>2. ~(thread.pc = "context" /\ thread.bio = b)
  BY <1>1 DEF ThreadHas
<1>3. ~(completion_work.pc # "idle" /\ completion_work.bio = b)
  <2>1. completion_work.pc \in {"idle", "tail", "end"}
    BY DEF FrontendTyped
  <2> QED  BY <1>1, <2>1 DEF WorkHas
<1>4. c \in Ids /\ ~At("thread", c) /\ ~At("ring", c) /\ ~At("answer", c)
  BY UsedAre DEF Placed, Stages
<1>5. ASSUME NEW o \in 0..Answers - 1, BioOf(AnswerAt(o).cookie - 1) = b
      PROVE  FALSE
  <2>1. AnswerAt(o).cookie - 1 \in UsedIds /\ AnswerAt(o) \in Acks
    BY InUse, AnswersTyped
  <2>2. AnswerAt(o).cookie - 1 = c
    BY <1>1, <1>5, <2>1
  <2>3. AnswerAt(o).cookie = c + 1
    BY <2>1, <2>2, <1>4, Sizes DEF Acks
  <2> QED  BY <1>4, <2>3 DEF At
<1> QED  BY <1>1, <1>2, <1>3, <1>4, <1>5

(* One more transfer.                                                      *)
LEMMA Submits ==
    ASSUME BackendTyped, NEW t, dma' = Append(dma, t), UNCHANGED moved
    PROVE  /\ Len(dma) \in Nat /\ Len(dma') = Len(dma) + 1
           /\ \A i \in 1..Len(dma) : dma'[i] = dma[i]
           /\ dma'[Len(dma) + 1] = t
           /\ \A x, u : IsMoved(x, u)' <=> IsMoved(x, u)
           /\ \A x, u : Submitted(x, u)' <=> Submitted(x, u) \/ (t.bio = x /\ t.unit = u)
<1>1. dma \in Seq(Transfers)
  BY DEF BackendTyped
<1>2. /\ Len(dma) \in Nat /\ Len(dma') = Len(dma) + 1
      /\ \A i \in 1..Len(dma) : dma'[i] = dma[i]
      /\ dma'[Len(dma) + 1] = t
  BY <1>1
<1>3. \A x, u : IsMoved(x, u)' <=> IsMoved(x, u)
  BY DEF IsMoved
<1>4. ASSUME NEW x, NEW u
      PROVE  (\E j \in 1..Len(dma') : dma'[j].bio = x /\ dma'[j].unit = u)
                <=> (\E j \in 1..Len(dma) : dma[j].bio = x /\ dma[j].unit = u)
                    \/ (t.bio = x /\ t.unit = u)
  <2>1. ASSUME NEW j \in 1..Len(dma')
        PROVE  j \in 1..Len(dma) \/ j = Len(dma) + 1
    BY <1>2
  <2>2. 1..Len(dma) \subseteq 1..Len(dma') /\ Len(dma) + 1 \in 1..Len(dma')
    BY <1>2
  <2> QED  BY <1>2, <2>1, <2>2
<1>5. \A x, u : Submitted(x, u)' <=> Submitted(x, u) \/ (t.bio = x /\ t.unit = u)
  BY <1>3, <1>4 DEF Submitted, InDma
<1> QED  BY <1>2, <1>3, <1>5

LEMMA TransferKeeps ==
    ASSUME BlockInv, Transfer
    PROVE  BlockInv'
<1> USE DEF BlockInv
<1>0. PICK c, b, p, k, t, L : /\ c = Cookie - 1 /\ b = BioOf(c) /\ p = backend.id /\ k = backend.k
         /\ L = Len(dma)
         /\ t = [bio |-> Entry.bio, unit |-> Unit,
                 data |-> IF Entry.bio \in Writes THEN Entry.bio
                          ELSE media[Parts[Entry.bio][Entry.part][backend.k]],
                 cookie |-> ResponseCookie]
  OBVIOUS
<1>1. /\ backend.pc = "transfer" /\ buffer_free > 0 /\ buffer_free' = buffer_free - 1
      /\ dma' = Append(dma, t)
      /\ backend' = IF ~LastBuffer THEN [backend EXCEPT !.k = @ + 1]
                    ELSE IF ~LastPart THEN [backend EXCEPT !.id = @ + 1, !.k = 1]
                    ELSE BackendIdle
      /\ BackendThread /\ UNCHANGED <<request_ring, completion_ring, faults>>
  BY <1>0 DEF Transfer
<1>2. /\ c \in UsedIds /\ c \in Ids /\ Cookie = c + 1 /\ b \in Bios /\ At("backend", c)
      /\ Entry.bio = b /\ Entry.part = p /\ Unit = <<p, k>>
      /\ Len(Parts[b]) \in Nat /\ Len(backend.buff) = Len(Parts[b])
      /\ p \in 1..Len(Parts[b]) /\ Len(Parts[b][p]) \in Nat /\ k \in 1..Len(Parts[b][p])
      /\ <<p, k>> \in Units(b) /\ Parts[b][p][k] \in Sectors
      /\ LastPart <=> p = Len(Parts[b])
      /\ LastBuffer <=> k = Len(Parts[b][p])
  BY <1>0, <1>1, BackendHas, SMTT(30)
<1>3. PICK n \in Nat, m \in Nat : n = Len(Parts[b]) /\ m = Len(Parts[b][p])
  BY <1>2
<1>4. p \in 1..n /\ k \in 1..m
  BY <1>2, <1>3
<1> DEFINE last == p = n /\ k = m
<1>5. /\ t.bio = b /\ t.unit = <<p, k>> /\ t.cookie = (IF last THEN c + 1 ELSE -1)
      /\ b \in Writes => t.data = b
  BY <1>0, <1>2, <1>3 DEF ResponseCookie
<1>6. c + 1 \in 1..PoolUsed /\ c + 1 > 0 /\ ~(-1 > 0) /\ \A d \in Ids : d + 1 = c + 1 => d = c
  BY <1>2, Sizes
<1>7. t \in Transfers
  <2>1. media[Parts[b][p][k]] \in Bios \union {Blank}
    BY <1>2 DEF BackendTyped
  <2>2. t.data \in Bios \union {Blank}
    BY <1>0, <1>2, <2>1
  <2>3. t.cookie \in {-1} \union (1..PoolUsed)
    BY <1>5, <1>6
  <2>4. t.unit \in Nat \X Nat
    BY <1>4, <1>5
  <2> HIDE DEF BlockInv
  <2>5. t = [bio |-> t.bio, unit |-> t.unit, data |-> t.data, cookie |-> t.cookie]
    BY <1>0
  <2> QED  BY <1>2, <1>5, <2>2, <2>3, <2>4, <2>5 DEF Transfers
<1>8. /\ L \in Nat /\ Len(dma') = L + 1
      /\ \A i \in 1..L : dma'[i] = dma[i]
      /\ dma'[L + 1] = t
      /\ \A x, u : IsMoved(x, u)' <=> IsMoved(x, u)
      /\ \A x, u : Submitted(x, u)' <=> Submitted(x, u) \/ (b = x /\ <<p, k>> = u)
  <2>1. /\ Len(dma) \in Nat /\ Len(dma') = Len(dma) + 1
        /\ \A i \in 1..Len(dma) : dma'[i] = dma[i]
        /\ dma'[Len(dma) + 1] = t
        /\ \A x, u : IsMoved(x, u)' <=> IsMoved(x, u)
        /\ \A x, u : Submitted(x, u)' <=> Submitted(x, u) \/ (t.bio = x /\ t.unit = u)
    BY <1>1, Submits DEF BackendThread
  <2> HIDE DEF BlockInv
  <2> QED  BY <1>0, <1>5, <2>1
<1>9. /\ ~last => /\ backend'.pc = "transfer" /\ backend'.buff = backend.buff
                  /\ backend'.id = (IF k = m THEN p + 1 ELSE p)
                  /\ backend'.k = (IF k = m THEN 1 ELSE k + 1)
      /\ last => backend' = BackendIdle /\ backend'.pc = "idle"
  BY <1>0, <1>1, <1>2, <1>3 DEF BackendTyped, BackendIdle
<1>10. UsedIds' = UsedIds /\ (\A d : BioOf(d)' = BioOf(d)) /\ SameBios
  BY <1>1 DEF UsedIds, BioOf, BackendThread, fvars, SameBios
<1>11. BackendTyped'
  <2>1. dma' \in Seq(Transfers)
    BY <1>1, <1>7 DEF BackendTyped
  <2>2. backend' \in [pc : {"idle", "transfer", "respond", "publish"}, buff : Seq(Entries),
                      id : Nat, k : Nat, last_add : 0..2 * AckNum - 1]
    <3>1. 0 \in 0..2 * AckNum - 1 /\ <<>> \in Seq(Entries)
      BY Sizes
    <3>2. BackendIdle \in [pc : {"idle", "transfer", "respond", "publish"}, buff : Seq(Entries),
                      id : Nat, k : Nat, last_add : 0..2 * AckNum - 1]
      BY <3>1 DEF BackendIdle
    <3>3. PICK be \in [pc : {"idle", "transfer", "respond", "publish"}, buff : Seq(Entries),
                      id : Nat, k : Nat, last_add : 0..2 * AckNum - 1] : be = backend
      BY DEF BackendTyped
    <3>4. be.id + 1 \in Nat /\ be.k + 1 \in Nat
      OBVIOUS
    <3>5. backend' = IF ~LastBuffer THEN [be EXCEPT !.k = be.k + 1]
                    ELSE IF ~LastPart THEN [be EXCEPT !.id = be.id + 1, !.k = 1]
                    ELSE BackendIdle
      BY <1>1, <3>3
    <3> HIDE DEF BlockInv
    <3> QED  BY <3>2, <3>3, <3>4, <3>5
  <2>3. buffer_free' \in Nat /\ buffer_free' + Len(dma') <= MaxParts
    <3>1. buffer_free \in Nat /\ buffer_free + L <= MaxParts /\ MaxParts \in Nat
      BY <1>0, Sizes DEF BackendTyped
    <3> QED  BY <1>1, <1>8, <3>1
  <2> QED  BY <1>1, <2>1, <2>2, <2>3 DEF BackendTyped, BackendThread
<1>12. RingsTyped' /\ RequestsQueued' /\ AnswersQueued'
  BY <1>1, AnswersFrame, RequestsFrame DEF RingsTyped, BackendThread, fvars
<1>13. Responders'
  BY <1>1, <1>9 DEF Responders, Answering, Responding, BackendThread
<1>14. ~last => Cookie' = c + 1
  BY <1>2, <1>9 DEF Cookie
<1>15. Placed'
  <2>1. ASSUME NEW d \in Ids
        PROVE  At("dma", d)' <=> At("dma", d) \/ (last /\ d = c)
    <3>1. \A i \in 1..L + 1 : i \in 1..L \/ i = L + 1
      BY <1>8
    <3>2. 1..L \subseteq 1..L + 1 /\ L + 1 \in 1..L + 1
      BY <1>8
    <3>3. d + 1 # -1 /\ (d = c <=> c + 1 = d + 1)
      BY <1>6, Sizes
    <3>4. (\E i \in 1..L + 1 : dma'[i].cookie = d + 1)
            <=> (\E i \in 1..L : dma[i].cookie = d + 1) \/ (last /\ d = c)
      <4> HIDE DEF last, BlockInv
      <4> QED  BY <1>5, <1>8, <3>1, <3>2, <3>3
    <3> QED  BY <1>0, <1>8, <3>4 DEF At
  <2>2. \A d \in Ids, q \in Stages :
           At(q, d)' <=> IF q = "dma" THEN At(q, d) \/ (last /\ d = c)
                         ELSE IF q = "backend" THEN At(q, d) /\ ~last ELSE At(q, d)
    BY <1>1, <1>2, <1>9, <1>14, <2>1, SMTT(30)
       DEF At, Stages, ThreadBusy, Published, QueuedAt, Answers, AnswerAt, BackendThread, fvars
  <2>3. \A d \in Ids : At("backend", d) => d = c
    BY <1>2, <1>6 DEF At
  <2> HIDE DEF last
  <2> QED  BY <1>2, <1>10, <2>2, <2>3 DEF Placed, Stages
<1>16. BackendAt'
  <2>1. CASE last
    BY <1>9, <2>1 DEF BackendAt
  <2>2. CASE ~last
    <3>1. backend'.id \in 1..n /\ backend'.k \in 1..Len(Parts[b][backend'.id])
      <4>1. CASE k = m
        <5>1. p + 1 \in 1..n
          BY <1>4, <2>2, <4>1
        <5>2. Len(Parts[b][p + 1]) \in Nat \ {0}
          BY <1>2, <1>3, <5>1, PartsAre
        <5>3. 1 \in 1..Len(Parts[b][p + 1])
          BY <5>2
        <5> QED  BY <1>9, <2>2, <4>1, <5>1, <5>3
      <4>2. CASE k # m
        <5>1. k + 1 \in 1..m
          BY <1>4, <4>2
        <5> QED  BY <1>3, <1>4, <1>9, <2>2, <4>2, <5>1
      <4> QED  BY <4>1, <4>2
    <3>2. BioOf(Cookie - 1)' = b /\ Cookie' - 1 = c
      <4>1. Cookie' - 1 = c
        BY <1>2, <1>14, <2>2, Sizes
      <4> QED  BY <1>0, <1>10, <4>1 DEF BioOf
    <3>3. \A q : EntryOf(Cookie - 1, q)' = EntryOf(c, q)
      BY <1>10, <3>2 DEF EntryOf, BioOf
    <3>4. /\ Len(backend.buff) > 0 /\ Len(backend.buff) = Len(Parts[b])
          /\ \A q \in 1..Len(Parts[b]) : backend.buff[q] = EntryOf(c, q)
      BY <1>0, <1>1 DEF BackendAt
    <3>5. Cookie' > 0
      BY <1>6, <1>14, <2>2
    <3> HIDE DEF BlockInv
    <3> QED  BY <1>3, <1>9, <2>2, <3>1, <3>2, <3>3, <3>4, <3>5 DEF BackendAt
  <2> QED  BY <2>1, <2>2
<1>17. (\A u \in Units(b) : Submitted(b, u) <=> Before(u, p, k)) /\ ~Submitted(b, <<p, k>>)
  <2>1. \A u \in Units(b) : Submitted(b, u) <=> Before(u, p, k)
    BY <1>0, <1>1 DEF BackendProgress
  <2>2. ~Before(<<p, k>>, p, k)
    BY <1>4 DEF Before
  <2> QED  BY <1>2, <2>1, <2>2
<1>18. \A u \in Units(b) : \E q \in 1..n, l \in Nat : u = <<q, l>> /\ l \in 1..Len(Parts[b][q])
  <2>1. \A q \in 1..n : Len(Parts[b][q]) \in Nat
    BY <1>2, <1>3, PartsAre
  <2>2. \A q \in 1..n : \A l \in 1..Len(Parts[b][q]) : l \in Nat
    BY <2>1
  <2> QED  BY <1>2, <1>3, <2>2, UnitsAre
<1>19. last => \A u \in Units(b) : Before(u, p, k) \/ u = <<p, k>>
  <2> SUFFICES ASSUME last, NEW u \in Units(b)
               PROVE  Before(u, p, k) \/ u = <<p, k>>
    OBVIOUS
  <2>1. PICK q \in 1..n, l \in Nat : u = <<q, l>> /\ l \in 1..Len(Parts[b][q])
    BY <1>18
  <2>2. u[1] = q /\ u[2] = l
    BY <2>1
  <2>3. q < p \/ (q = p /\ l \in 1..m)
    BY <1>3, <1>4, <2>1
  <2>4. q < p \/ (q = p /\ l < k) \/ (q = p /\ l = k)
    BY <1>4, <2>3
  <2> QED  BY <2>1, <2>2, <2>4 DEF Before
<1>20. TransfersQueued'
  <2>1. (callback.pc # "idle" => dma # <<>> /\ dma[1].cookie > 0 /\ Moved(dma[1]) \in moved)'
    <3>1. callback.pc # "idle" => 1 \in 1..L /\ dma[1].cookie > 0 /\ Moved(dma[1]) \in moved
      <4>1. dma # <<>> => 1 \in 1..L
        BY <1>0 DEF BackendTyped
      <4> QED  BY <4>1 DEF TransfersQueued
    <3>2. dma' # <<>>
      BY <1>8
    <3> QED  BY <1>1, <1>8, <3>1, <3>2 DEF BackendThread, Moved
  <2>2. ASSUME NEW i \in 1..L + 1, i # L + 1
        PROVE  i \in 1..L
    BY <1>8, <2>2
  <2>3. \A i \in 1..L : /\ ~(dma[i].bio = b /\ dma[i].unit = <<p, k>>)
                        /\ dma[i].cookie # c + 1
    <3>1. ~At("dma", c)
      BY <1>2 DEF Placed, Stages
    <3> QED  BY <1>0, <1>17, <3>1 DEF Submitted, InDma, At
  <2>4. \A i, j \in 1..L + 1 : /\ dma'[i].bio = dma'[j].bio /\ dma'[i].unit = dma'[j].unit => i = j
                               /\ dma'[i].cookie > 0 /\ dma'[j].cookie = dma'[i].cookie => i = j
    <3> TAKE i, j \in 1..L + 1
    <3>1. CASE i = L + 1 /\ j = L + 1
      BY <3>1
    <3>2. CASE i # L + 1 /\ j = L + 1
      <4>1. i \in 1..L
        BY <2>2, <3>2
      <4> HIDE DEF BlockInv
      <4> QED  BY <1>5, <1>6, <1>8, <2>3, <3>2, <4>1
    <3>3. CASE i = L + 1 /\ j # L + 1
      <4>1. j \in 1..L
        BY <2>2, <3>3
      <4> HIDE DEF BlockInv
      <4> QED  BY <1>5, <1>6, <1>8, <2>3, <3>3, <4>1
    <3>4. CASE i # L + 1 /\ j # L + 1
      <4>1. i \in 1..L /\ j \in 1..L
        BY <2>2, <3>4
      <4> QED  BY <1>0, <1>8, <4>1 DEF TransfersQueued, InDma
    <3> QED  BY <3>1, <3>2, <3>3, <3>4
  <2>5. ASSUME NEW i \in 1..L + 1
        PROVE  /\ dma'[i].unit \in Units(dma'[i].bio)
               /\ dma'[i].bio \in Writes => dma'[i].data = dma'[i].bio
               /\ i > 1 \/ callback'.pc = "idle" => ~IsMoved(dma[i].bio, dma[i].unit)'
               /\ dma'[i].cookie > 0 =>
                     /\ dma'[i].bio = BioOf(dma[i].cookie - 1)'
                     /\ \A u \in Units(dma'[i].bio) :
                           IsMoved(dma[i].bio, u)' \/ \E j \in 1..i : InDma(j, dma[i].bio, u)'
    <3>1. CASE i # L + 1
      <4>1. i \in 1..L /\ \A j \in 1..i : j \in 1..L
        <5>1. i \in 1..L
          BY <2>2, <3>1
        <5> HIDE DEF BlockInv
        <5> QED  BY <1>8, <5>1
      <4>2. PICK e : e = dma[i] /\ e = dma'[i]
        BY <1>8, <4>1
      <4>3. /\ e.unit \in Units(e.bio) /\ (e.bio \in Writes => e.data = e.bio)
            /\ i > 1 \/ callback.pc = "idle" => ~IsMoved(e.bio, e.unit)
            /\ e.cookie > 0 => /\ e.bio = BioOf(e.cookie - 1)
                               /\ \A u \in Units(e.bio) :
                                     IsMoved(e.bio, u) \/ \E j \in 1..i : InDma(j, e.bio, u)
        BY <1>0, <4>1, <4>2 DEF TransfersQueued
      <4>4. \A u : \A j \in 1..i : InDma(j, e.bio, u) => InDma(j, e.bio, u)'
        BY <1>8, <4>1 DEF InDma
      <4>5. BioOf(dma[i].cookie - 1)' = BioOf(e.cookie - 1)
        BY <1>10, <4>2 DEF BioOf
      <4>6. IsMoved(dma[i].bio, dma[i].unit)' <=> IsMoved(e.bio, e.unit)
        BY <1>8, <4>2 DEF IsMoved
      <4>7. \A u : IsMoved(dma[i].bio, u)' <=> IsMoved(e.bio, u)
        BY <1>8, <4>2 DEF IsMoved
      <4>8. \A u : \A j \in 1..i : InDma(j, dma[i].bio, u)' <=> InDma(j, e.bio, u)'
        BY <4>2 DEF InDma
      <4>9. callback' = callback
        BY <1>1 DEF BackendThread
      <4> HIDE DEF BlockInv
      <4> QED  BY <4>2, <4>3, <4>4, <4>5, <4>6, <4>7, <4>8, <4>9
    <3>2. CASE i = L + 1
      <4>1. dma'[i] = t
        BY <1>8, <3>2
      <4>2. ~IsMoved(b, <<p, k>>)'
        BY <1>8, <1>17 DEF Submitted
      <4>3. ~IsMoved(dma[i].bio, dma[i].unit)'
        BY <1>5, <4>1, <4>2 DEF IsMoved
      <4>4. ASSUME last
            PROVE  /\ b = BioOf(dma[i].cookie - 1)'
                   /\ \A u \in Units(b) :
                         IsMoved(dma[i].bio, u)' \/ \E j \in 1..i : InDma(j, dma[i].bio, u)'
        <5>1. (c + 1) - 1 = c
          BY <1>2, Sizes
        <5>2. BioOf(dma[i].cookie - 1)' = b
          BY <1>0, <1>5, <1>10, <4>1, <4>4, <5>1 DEF BioOf
        <5>3. ASSUME NEW u \in Units(b)
              PROVE  IsMoved(b, u) \/ \E j \in 1..i : dma'[j].bio = b /\ dma'[j].unit = u
          <6>1. CASE u = <<p, k>>
            <7>1. i \in 1..i
              BY <1>8, <3>2
            <7> QED  BY <1>5, <4>1, <6>1, <7>1
          <6>2. CASE Before(u, p, k)
            <7>1. IsMoved(b, u) \/ \E j \in 1..L : dma[j].bio = b /\ dma[j].unit = u
              BY <1>0, <1>17, <6>2 DEF Submitted, InDma
            <7>2. 1..L \subseteq 1..i
              BY <1>8, <3>2
            <7> QED  BY <1>8, <7>1, <7>2
          <6> QED  BY <1>19, <4>4, <6>1, <6>2
        <5>4. \A u : IsMoved(dma[i].bio, u)' <=> IsMoved(b, u)
          BY <1>1, <1>5, <4>1 DEF IsMoved, BackendThread
        <5>5. \A u : \A j \in 1..i : InDma(j, dma[i].bio, u)' <=> dma'[j].bio = b /\ dma'[j].unit = u
          BY <1>5, <4>1 DEF InDma
        <5> QED  BY <5>2, <5>3, <5>4, <5>5
      <4> HIDE DEF BlockInv
      <4> QED  BY <1>2, <1>5, <1>6, <4>1, <4>3, <4>4
    <3> QED  BY <3>1, <3>2
  <2>6. \A i, j \in 1..L + 1 : InDma(j, dma[i].bio, dma[i].unit)'
                                 <=> dma'[i].bio = dma'[j].bio /\ dma'[i].unit = dma'[j].unit
    BY DEF InDma
  <2> HIDE DEF BlockInv
  <2> QED  BY <1>8, <2>1, <2>4, <2>5, <2>6 DEF TransfersQueued
<1>21. BackendProgress'
  <2> SUFFICES ASSUME ~last
               PROVE  BackendProgress'
    BY <1>9 DEF BackendProgress
  <2>1. ASSUME NEW u \in Units(b)
        PROVE  Submitted(b, u)' <=> Before(u, backend'.id, backend'.k)
    <3>1. PICK q \in 1..n, l \in Nat : u = <<q, l>> /\ l \in 1..Len(Parts[b][q])
      BY <1>18
    <3>2. u[1] = q /\ u[2] = l
      BY <3>1
    <3>3. Submitted(b, u)' <=> (q < p \/ (q = p /\ l < k)) \/ (q = p /\ l = k)
      BY <1>8, <1>17, <3>1, <3>2 DEF Before
    <3>4. q = p => l \in 1..m
      BY <1>3, <3>1
    <3>5. (q < p \/ (q = p /\ l < k)) \/ (q = p /\ l = k)
             <=> q < (IF k = m THEN p + 1 ELSE p)
                 \/ (q = (IF k = m THEN p + 1 ELSE p) /\ l < (IF k = m THEN 1 ELSE k + 1))
      <4>0. ~(l < 1)
        <5>1. Len(Parts[b][q]) \in Nat
          BY <1>2, <1>3, PartsAre
        <5> QED  BY <3>1, <5>1
      <4>1. CASE k = m
        BY <1>4, <3>4, <4>0, <4>1
      <4>2. CASE k # m
        BY <1>4, <4>2
      <4> QED  BY <4>1, <4>2
    <3> QED  BY <1>9, <3>2, <3>3, <3>5 DEF Before
  <2>2. BioOf(Cookie - 1)' = b
    <3>1. Cookie' - 1 = c
      BY <1>2, <1>14, Sizes
    <3> QED  BY <1>0, <1>10, <3>1 DEF BioOf
  <2> HIDE DEF BlockInv
  <2> QED  BY <2>1, <2>2 DEF BackendProgress, Submitted, IsMoved, InDma
<1>22. /\ status[b] \notin {"new", "waiting", "ok"} /\ ~InList(b)
       /\ ~(thread.pc = "context" /\ thread.bio = b)
       /\ ~(completion_work.pc # "idle" /\ completion_work.bio = b)
       /\ \A d \in UsedIds : At("thread", d) \/ At("ring", d) => BioOf(d) # b
       /\ \A o \in 0..Answers - 1 : BioOf(AnswerAt(o).cookie - 1) # b
  BY <1>0, <1>2, Underway
<1>23. NotBegun'
  <2>1. \A x : x # b => (Untouched(x)' <=> Untouched(x))
    BY <1>8 DEF Untouched
  <2>2. \A d \in UsedIds' : At("thread", d)' \/ At("ring", d)'
                              => d \in UsedIds /\ (At("thread", d) \/ At("ring", d))
    BY <1>1, <1>10, UsedAre DEF At, ThreadBusy, Published, QueuedAt, BackendThread, fvars
  <2>3. (\A x \in Bios : status[x] \in {"new", "waiting"} \/ InList(x) => Untouched(x))'
    <3>1. \A x \in Bios : status'[x] \in {"new", "waiting"} \/ InList(x)' => Untouched(x)'
      BY <1>1, <1>22, <2>1 DEF NotBegun, InList, BackendThread, fvars
    <3> QED  BY <3>1
  <2>4. (thread.pc = "context" => Untouched(thread.bio))'
    <3>1. PICK x : x = thread.bio /\ x = thread'.bio
      BY <1>1 DEF BackendThread, fvars
    <3>2. thread'.pc = "context" => Untouched(x)'
      BY <1>1, <1>22, <2>1, <3>1 DEF NotBegun, BackendThread, fvars
    <3> QED  BY <3>1, <3>2 DEF Untouched, Submitted, IsMoved, InDma
  <2>5. ASSUME NEW d \in UsedIds', At("thread", d)' \/ At("ring", d)'
        PROVE  Untouched(BioOf(d))'
    <3>1. PICK x : x = BioOf(d)
      OBVIOUS
    <3>2. Untouched(x)'
      BY <1>22, <2>1, <2>2, <2>5, <3>1 DEF NotBegun
    <3>3. BioOf(d)' = x
      BY <1>10, <3>1
    <3> QED  BY <3>2, <3>3 DEF Untouched, Submitted, IsMoved, InDma
  <2> HIDE DEF BlockInv
  <2> QED  BY <2>3, <2>4, <2>5 DEF NotBegun
<1>24. Ended'
  <2>1. \A x : x # b /\ Finished(x) => Finished(x)'
    <3> SUFFICES ASSUME NEW x, x # b, Finished(x)
                 PROVE  Finished(x)'
      OBVIOUS
    <3>1. AllMoved(x)'
      BY <1>1 DEF Finished, AllMoved, BackendThread
    <3>2. \A j \in 1..L + 1 : dma'[j].bio # x
      <4>1. \A j \in 1..L : dma'[j].bio # x
        BY <1>0, <1>8 DEF Finished
      <4>2. \A j \in 1..L + 1 : j \in 1..L \/ j = L + 1
        BY <1>8
      <4> QED  BY <1>5, <1>8, <4>1, <4>2
    <3> QED  BY <1>8, <3>1, <3>2 DEF Finished
  <2>2. \A x \in Bios : status'[x] = "ok" => Finished(x)'
    BY <1>1, <1>22, <2>1 DEF Ended, BackendThread, fvars
  <2>3. (completion_work.pc # "idle" /\ completion_work.ret = "ok" => Finished(completion_work.bio))'
    <3>1. PICK w : w = completion_work.bio /\ w = completion_work'.bio
      BY <1>1 DEF BackendThread
    <3>2. completion_work'.pc # "idle" /\ completion_work'.ret = "ok" => Finished(w)'
      BY <1>1, <1>22, <2>1, <3>1 DEF Ended, BackendThread
    <3> QED  BY <3>1, <3>2 DEF Finished, AllMoved
  <2>4. ASSUME NEW o \in 0..Answers' - 1, AnswerAt(o)'.ret = "ok"
        PROVE  (Finished(BioOf(AnswerAt(o).cookie - 1)))'
    <3>1. Answers' = Answers /\ AnswerAt(o)' = AnswerAt(o)
      BY <1>1 DEF Answers, AnswerAt
    <3>2. PICK x : x = BioOf(AnswerAt(o).cookie - 1)
      OBVIOUS
    <3>3. Finished(x)'
      BY <1>22, <2>1, <2>4, <3>1, <3>2 DEF Ended
    <3>4. BioOf(AnswerAt(o).cookie - 1)' = x
      BY <1>10, <3>1, <3>2 DEF BioOf
    <3> QED  BY <3>3, <3>4 DEF Finished, AllMoved
  <2> QED  BY <2>2, <2>3, <2>4 DEF Ended
<1> QED
  BY <1>1, <1>11, <1>12, <1>13, <1>15, <1>16, <1>20, <1>21, <1>23, <1>24, BackendStepKeeps

(* The result is written behind the answers that are published.            *)
LEMMA RetWritten ==
    ASSUME RingsTyped, AnswersQueued, Answers \in Nat, Answers < AckNum,
           NEW a, a = completion_ring.last_add, NEW ret \in {"ok", "error"},
           completion_ring' = [completion_ring EXCEPT !.elems[a % AckNum].ret = ret],
           UNCHANGED request_ring
    PROVE  /\ RingsTyped' /\ Answers' = Answers /\ completion_ring'.last_add = a
           /\ \A o \in 0..Answers - 1 : AnswerAt(o)' = AnswerAt(o)
           /\ completion_ring'.elems[a % AckNum].ret = ret
<1>0. PICK n \in Nat \ {0} : n = AckNum
  BY Sizes
<1>1. PICK u \in 0..2 * n - 1 : n = AckNum /\ u = completion_ring.last_used
  BY <1>0 DEF RingsTyped
<1>2. a \in 0..2 * n - 1 /\ completion_ring.elems \in [0..n - 1 -> Acks]
  BY <1>1 DEF RingsTyped
<1>3. PICK A \in Nat : A = Answers /\ A = Dist(a, u, n) /\ A < n
  BY <1>1 DEF Answers
<1>4. PICK s \in 0..n - 1 : s = a % n /\ s = SlotAt(u, A, n)
  <2>1. Dist(a, u, n) <= n
    BY <1>3
  <2> QED  BY <1>2, <1>3, <2>1, SlotOfCounter
<1>5. PICK e \in Acks : e = completion_ring.elems[s]
  BY <1>2, <1>4
<1>6. PICK f \in [0..n - 1 -> Acks] : f = completion_ring.elems
  BY <1>2
<1>7. [e EXCEPT !.ret = ret] \in Acks /\ [e EXCEPT !.ret = ret].ret = ret
  BY DEF Acks
<1>8. completion_ring' = [completion_ring EXCEPT !.elems = [f EXCEPT ![s] = [e EXCEPT !.ret = ret]]]
  BY <1>1, <1>4, <1>5, <1>6
<1>9. /\ completion_ring'.elems = [f EXCEPT ![s] = [e EXCEPT !.ret = ret]]
      /\ completion_ring'.last_add = a /\ completion_ring'.last_used = u
  BY <1>1, <1>8 DEF RingsTyped
<1>10. completion_ring'.elems \in [0..n - 1 -> Acks]
  BY <1>7, <1>9
<1>11. RingsTyped'
  BY <1>1, <1>8, <1>9, <1>10 DEF RingsTyped
<1>12. Answers' = Answers
  BY <1>1, <1>9 DEF Answers
<1>13. ASSUME NEW o \in 0..Answers - 1
       PROVE  AnswerAt(o)' = AnswerAt(o)
  <2>1. o \in 0..n - 1 /\ A \in 0..n - 1 /\ o # A /\ o \in 0..n
    BY <1>3
  <2>2. SlotAt(u, o, n) # s /\ SlotAt(u, o, n) \in 0..n - 1
    BY <1>4, <2>1, SlotsDiffer, SlotIs
  <2> QED  BY <1>1, <1>6, <1>9, <2>2, SMTT(30) DEF AnswerAt
<1>14. completion_ring'.elems[a % AckNum].ret = ret
  BY <1>1, <1>4, <1>7, <1>9
<1> QED  BY <1>9, <1>11, <1>12, <1>13, <1>14

Acknowledged(a, cookie) == [completion_ring EXCEPT !.elems[a % AckNum].cookie = cookie,
                                                  !.last_add = CounterAdd(a, 1, AckNum)]

(* The answer for context c is published.                                  *)
LEMMA AckPublished ==
    ASSUME RingsTyped, AnswersQueued, NEW A \in Nat, A = Answers, A < AckNum,
           NEW c \in Ids, ~At("answer", c), NEW cookie, cookie = c + 1,
           NEW a, a = completion_ring.last_add,
           completion_ring' = Acknowledged(a, cookie),
           UNCHANGED request_ring
    PROVE  /\ RingsTyped' /\ AnswersQueued' /\ Answers' = Answers + 1
           /\ \A o \in 0..A - 1 : AnswerAt(o)' = AnswerAt(o)
           /\ AnswerAt(A)'.cookie = cookie
           /\ AnswerAt(A)'.ret = completion_ring.elems[a % AckNum].ret
           /\ \A d \in Ids : At("answer", d)' <=> At("answer", d) \/ d = c
<1>0. PICK n \in Nat \ {0} : n = AckNum
  BY Sizes
<1>1. PICK u \in 0..2 * n - 1 : n = AckNum /\ u = completion_ring.last_used
  BY <1>0 DEF RingsTyped
<1>2. a \in 0..2 * n - 1 /\ completion_ring.elems \in [0..n - 1 -> Acks]
  BY <1>1 DEF RingsTyped
<1>3. A = Dist(a, u, n) /\ A < n
  BY <1>1 DEF Answers
<1>4. PICK s \in 0..n - 1 : s = a % n /\ s = SlotAt(u, A, n)
  <2>1. Dist(a, u, n) <= n
    BY <1>3
  <2> QED  BY <1>2, <1>3, <2>1, SlotOfCounter
<1>5. PICK e \in Acks : e = completion_ring.elems[s]
  BY <1>2, <1>4
<1>6. PICK f \in [0..n - 1 -> Acks] : f = completion_ring.elems
  BY <1>2
<1>7. cookie \in 0..PoolUsed /\ cookie > 0
  BY Sizes
<1>8. PICK g : g = [e EXCEPT !.cookie = cookie]
  OBVIOUS
<1>9. g \in Acks /\ g.cookie = cookie /\ g.ret = e.ret
  BY <1>7, <1>8 DEF Acks
<1>10. PICK a2 \in 0..2 * n - 1 : a2 = CounterAdd(a, 1, n) /\ Dist(a2, u, n) = A + 1
  <2>1. 1 \in 0..2 * n - 1 /\ Dist(a, u, n) + 1 <= n /\ 1 \in Nat
    BY <1>3
  <2>2. CounterAdd(a, 1, n) \in 0..2 * n - 1
    BY <1>2, <2>1, CounterAddIs
  <2>3. Dist(CounterAdd(a, 1, n), u, n) = Dist(a, u, n) + 1
    BY <1>2, <2>1, DistAdded
  <2> QED  BY <1>3, <2>2, <2>3
<1>11. completion_ring' = [completion_ring EXCEPT !.elems = [f EXCEPT ![s] = g], !.last_add = a2]
  BY <1>1, <1>4, <1>5, <1>6, <1>8, <1>10 DEF Acknowledged
<1>12. /\ completion_ring'.elems = [f EXCEPT ![s] = g]
       /\ completion_ring'.last_add = a2 /\ completion_ring'.last_used = u
  BY <1>1, <1>11 DEF RingsTyped
<1>13. RingsTyped'
  <2>1. completion_ring'.elems \in [0..n - 1 -> Acks]
    BY <1>9, <1>12
  <2> QED  BY <1>1, <1>11, <1>12, <2>1 DEF RingsTyped
<1>14. Answers' = A + 1
  BY <1>1, <1>10, <1>12 DEF Answers
<1>15. ASSUME NEW o \in 0..A - 1
       PROVE  AnswerAt(o)' = AnswerAt(o)
  <2>1. o \in 0..n - 1 /\ A \in 0..n - 1 /\ o # A /\ o \in 0..n
    BY <1>3
  <2>2. SlotAt(u, o, n) # s /\ SlotAt(u, o, n) \in 0..n - 1
    <3>1. SlotAt(u, o, n) # SlotAt(u, A, n)
      BY <2>1, SlotsDiffer
    <3>2. SlotAt(u, o, n) \in 0..n - 1
      BY <2>1, SlotIs
    <3> QED  BY <1>4, <3>1, <3>2
  <2>3. PICK z \in 0..n - 1 : z = SlotAt(u, o, n) /\ z # s
    BY <2>2
  <2>4. AnswerAt(o) = f[z] /\ AnswerAt(o)' = completion_ring'.elems[z]
    BY <1>1, <1>6, <1>12, <2>3 DEF AnswerAt
  <2> QED  BY <1>12, <2>3, <2>4
<1>16. AnswerAt(A)' = g
  BY <1>1, <1>4, <1>6, <1>12 DEF AnswerAt
<1>17. \A o \in 0..A : o \in 0..A - 1 \/ o = A
  OBVIOUS
<1>18. \A o \in 0..A - 1 : AnswerAt(o).cookie > 0 /\ AnswerAt(o).cookie # cookie
  BY <1>3 DEF AnswersQueued, At
<1>19. AnswersQueued'
  <2>1. Answers' <= AckNum /\ Answers' - 1 = A
    BY <1>1, <1>3, <1>14
  <2>2. \A o \in 0..A : AnswerAt(o)'.cookie > 0
    BY <1>7, <1>9, <1>15, <1>16, <1>17, <1>18
  <2>3. \A o, p \in 0..A : AnswerAt(o)'.cookie = AnswerAt(p)'.cookie => o = p
    <3> TAKE o, p \in 0..A
    <3>1. CASE o = A /\ p = A
      BY <3>1
    <3>2. CASE o # A /\ p = A
      BY <1>9, <1>15, <1>16, <1>17, <1>18, <3>2
    <3>3. CASE o = A /\ p # A
      BY <1>9, <1>15, <1>16, <1>17, <1>18, <3>3
    <3>4. CASE o # A /\ p # A
      <4>1. o \in 0..A - 1 /\ p \in 0..A - 1
        BY <1>17, <3>4
      <4> QED  BY <1>3, <1>15, <4>1 DEF AnswersQueued
    <3> QED  BY <3>1, <3>2, <3>3, <3>4
  <2> QED  BY <2>1, <2>2, <2>3 DEF AnswersQueued
<1>20. ASSUME NEW d \in Ids
       PROVE  At("answer", d)' <=> At("answer", d) \/ d = c
  <2>1. d + 1 = cookie <=> d = c
    <3>1. d \in Int /\ c \in Int
      BY Sizes
    <3> QED  BY <3>1
  <2>2. Answers' - 1 = A /\ A \in 0..A /\ \A o \in 0..A - 1 : o \in 0..A
    BY <1>14
  <2>3. (\E o \in 0..A : AnswerAt(o)'.cookie = d + 1)
           <=> (\E o \in 0..A - 1 : AnswerAt(o).cookie = d + 1) \/ d = c
    BY <1>9, <1>15, <1>16, <1>17, <2>1, <2>2
  <2> QED  BY <1>3, <2>2, <2>3 DEF At
<1>21. AnswerAt(A)'.cookie = cookie
       /\ AnswerAt(A)'.ret = completion_ring.elems[a % AckNum].ret
  BY <1>1, <1>3, <1>4, <1>5, <1>9, <1>14, <1>16
<1> QED  BY <1>3, <1>13, <1>14, <1>15, <1>19, <1>20, <1>21

LEMMA TransferFailsKeeps ==
    ASSUME BlockInv, TransferFails, ~Together'
    PROVE  BlockInv'
<1> USE DEF BlockInv
<1>1. /\ backend.pc = "transfer" /\ ~Responding(callback.pc)
      /\ backend' = [backend EXCEPT !.pc = "respond", !.last_add = completion_ring.last_add]
      /\ BackendThread /\ UNCHANGED <<dma, request_ring, completion_ring>>
  <2>1. /\ backend.pc = "transfer"
        /\ backend' = [backend EXCEPT !.pc = "respond", !.last_add = completion_ring.last_add]
        /\ BackendThread /\ UNCHANGED <<dma, request_ring, completion_ring>>
    BY DEF TransferFails
  <2>2. backend'.pc = "respond" /\ callback' = callback
    BY <2>1 DEF BackendTyped, BackendThread
  <2> QED  BY <2>1, <2>2 DEF Together, Responding
<1>2. /\ backend'.pc = "respond" /\ backend'.buff = backend.buff /\ backend'.id = backend.id
      /\ backend'.k = backend.k /\ backend'.last_add = completion_ring.last_add
  BY <1>1 DEF BackendTyped
<1>3. BackendTyped'
  <2>1. backend' \in [pc : {"idle", "transfer", "respond", "publish"}, buff : Seq(Entries),
                      id : Nat, k : Nat, last_add : 0..2 * AckNum - 1]
    BY <1>1 DEF BackendTyped, RingsTyped
  <2>2. faults' \in 0..MaxFaults
    <3>1. faults \in Nat /\ MaxFaults \in Nat /\ faults' = faults + 1 /\ faults < MaxFaults
      BY ModesAssumption DEF TransferFails, Fail, BackendTyped
    <3> QED  BY <3>1
  <2>3. buffer_free' \in Nat /\ buffer_free' + Len(dma') <= MaxParts
    <3>1. buffer_free \in Nat /\ buffer_free + Len(dma) <= MaxParts /\ MaxParts \in Nat
          /\ Len(dma) \in Nat
      BY Sizes DEF BackendTyped
    <3>2. buffer_free' = buffer_free \/ (buffer_free > 0 /\ buffer_free' = buffer_free - 1)
      BY DEF TransferFails
    <3> QED  BY <1>1, <3>1, <3>2
  <2> QED  BY <1>1, <2>1, <2>2, <2>3 DEF BackendTyped, BackendThread
<1>4. RingsTyped' /\ RequestsQueued' /\ AnswersQueued'
  BY <1>1, AnswersFrame, RequestsFrame DEF RingsTyped, BackendThread, fvars
<1>5. Responders'
  BY <1>1, <1>2 DEF Responders, Answering, Responding, BackendThread
<1>6. Cookie' = Cookie /\ UsedIds' = UsedIds /\ (\A d : BioOf(d)' = BioOf(d)) /\ SameBios
  BY <1>1, <1>2 DEF Cookie, UsedIds, BioOf, BackendThread, fvars, SameBios
<1>7. Placed'
  <2>1. \A d \in Ids, q \in Stages : At(q, d)' <=> At(q, d)
    BY <1>1, <1>2, <1>6
       DEF At, Stages, ThreadBusy, Published, QueuedAt, Answers, AnswerAt, BackendThread, fvars
  <2> QED  BY <1>6, <2>1 DEF Placed
<1>8. BackendAt'
  <2>1. BioOf(Cookie - 1)' = BioOf(Cookie - 1) /\ \A q : EntryOf(Cookie - 1, q)' = EntryOf(Cookie - 1, q)
    BY <1>6 DEF BioOf, EntryOf
  <2> QED  BY <1>1, <1>2, <1>6, <2>1 DEF BackendAt
<1>9. TransfersQueued' /\ Ended' /\ NotBegun'
  BY <1>1, <1>6, InUse, TransfersFrame, EndedFrame, NotBegunFrame DEF BackendThread, fvars
<1>10. BackendProgress'
  BY <1>2 DEF BackendProgress
<1> QED
  BY <1>1, <1>3, <1>4, <1>5, <1>7, <1>8, <1>9, <1>10, BackendStepKeeps

(* What is not changed by writing the result of an answer.                 *)
LEMMA RetFrames ==
    ASSUME AnswersQueued, Ended, Answers' = Answers,
           \A o \in 0..Answers - 1 : AnswerAt(o)' = AnswerAt(o),
           UNCHANGED <<status, completion_work, dma, moved, bio_context>>
    PROVE  /\ AnswersQueued' /\ Ended'
           /\ \A c : At("answer", c)' <=> At("answer", c)
<1>1. AnswersQueued'
  BY DEF AnswersQueued
<1>2. \A c : At("answer", c)' <=> At("answer", c)
  BY DEF At
<1>3. \A x : Finished(x)' <=> Finished(x)
  BY DEF Finished, AllMoved
<1>4. (\A b \in Bios : status[b] = "ok" => Finished(b))'
  BY <1>3 DEF Ended
<1>5. (completion_work.pc # "idle" /\ completion_work.ret = "ok" => Finished(completion_work.bio))'
  BY DEF Ended, Finished, AllMoved
<1>6. ASSUME NEW o \in 0..Answers' - 1, AnswerAt(o)'.ret = "ok"
      PROVE  Finished(BioOf(AnswerAt(o).cookie - 1))'
  <2>1. PICK x : x = BioOf(AnswerAt(o).cookie - 1)
    OBVIOUS
  <2>2. Finished(x)'
    BY <1>3, <1>6, <2>1 DEF Ended
  <2>3. BioOf(AnswerAt(o).cookie - 1)' = x
    BY <2>1 DEF BioOf
  <2> QED  BY <2>2, <2>3 DEF Finished, AllMoved
<1> QED  BY <1>1, <1>2, <1>4, <1>5, <1>6 DEF Ended

LEMMA RespondErrorKeeps ==
    ASSUME BlockInv, RespondError
    PROVE  BlockInv'
<1> USE DEF BlockInv
<1>1. /\ backend.pc = "respond" /\ backend' = [backend EXCEPT !.pc = "publish"]
      /\ completion_ring' = [completion_ring EXCEPT !.elems[backend.last_add % AckNum].ret = "error"]
      /\ BackendThread /\ UNCHANGED <<buffer_free, dma, request_ring, faults>>
  BY DEF RespondError, WriteRet
<1>2. /\ backend'.pc = "publish" /\ backend'.buff = backend.buff /\ backend'.id = backend.id
      /\ backend'.k = backend.k /\ backend'.last_add = backend.last_add
  BY <1>1 DEF BackendTyped
<1>3. /\ Responding(backend.pc) /\ ~Responding(callback.pc)
      /\ backend.last_add = completion_ring.last_add
  BY <1>1 DEF Responders, Answering, Responding
<1>4. PICK a : a = completion_ring.last_add
  OBVIOUS
<1>5. /\ RingsTyped' /\ Answers' = Answers /\ completion_ring'.last_add = a
      /\ \A o \in 0..Answers - 1 : AnswerAt(o)' = AnswerAt(o)
      /\ completion_ring'.elems[a % AckNum].ret = "error"
  <2>1. Answers \in Nat /\ Answers < AckNum
    BY <1>3, RoomToAnswer
  <2>2. completion_ring' = [completion_ring EXCEPT !.elems[a % AckNum].ret = "error"]
    BY <1>1, <1>3, <1>4
  <2> QED  BY <1>1, <1>4, <2>1, <2>2, RetWritten
<1>6. BackendTyped'
  <2>1. backend' \in [pc : {"idle", "transfer", "respond", "publish"}, buff : Seq(Entries),
                      id : Nat, k : Nat, last_add : 0..2 * AckNum - 1]
    BY <1>1 DEF BackendTyped
  <2> QED  BY <1>1, <2>1 DEF BackendTyped, BackendThread
<1>7. RequestsQueued'
  BY <1>1, RequestsFrame DEF BackendThread, fvars
<1>8. Responders'
  BY <1>1, <1>2, <1>3, <1>4, <1>5 DEF Responders, Answering, Responding, BackendThread
<1>9. Cookie' = Cookie /\ UsedIds' = UsedIds /\ (\A d : BioOf(d)' = BioOf(d)) /\ SameBios
  BY <1>1, <1>2 DEF Cookie, UsedIds, BioOf, BackendThread, fvars, SameBios
<1>10. AnswersQueued' /\ Ended' /\ \A c : At("answer", c)' <=> At("answer", c)
  BY <1>1, <1>5, RetFrames DEF BackendThread, fvars
<1>11. Placed'
  <2>1. \A d \in Ids, q \in Stages : At(q, d)' <=> At(q, d)
    BY <1>1, <1>2, <1>9, <1>10
       DEF At, Stages, ThreadBusy, Published, QueuedAt, BackendThread, fvars
  <2> QED  BY <1>9, <2>1 DEF Placed
<1>12. BackendAt'
  <2>1. BioOf(Cookie - 1)' = BioOf(Cookie - 1) /\ \A q : EntryOf(Cookie - 1, q)' = EntryOf(Cookie - 1, q)
    BY <1>9 DEF BioOf, EntryOf
  <2> QED  BY <1>1, <1>2, <1>9, <2>1 DEF BackendAt
<1>13. TransfersQueued' /\ NotBegun'
  BY <1>1, <1>9, InUse, TransfersFrame, NotBegunFrame DEF BackendThread, fvars
<1>14. BackendProgress'
  BY <1>2 DEF BackendProgress
<1> QED
  BY <1>1, <1>5, <1>6, <1>7, <1>8, <1>10, <1>11, <1>12, <1>13, <1>14, BackendStepKeeps

(* An answer is published; when it is not an error, its bio has finished.  *)
LEMMA AckEnds ==
    ASSUME BlockInv, NEW A \in Nat, A = Answers, Answers' = A + 1,
           \A o \in 0..A - 1 : AnswerAt(o)' = AnswerAt(o),
           NEW c \in Ids, AnswerAt(A)'.cookie = c + 1,
           NEW b, b = BioOf(c), AnswerAt(A)'.ret = "ok" => Finished(b)',
           UNCHANGED <<status, completion_work, bio_context>>,
           \A x : Finished(x) => Finished(x)'
    PROVE  Ended'
<1> USE DEF BlockInv
<1>1. (\A x \in Bios : status[x] = "ok" => Finished(x))'
  BY DEF Ended
<1>2. (completion_work.pc # "idle" /\ completion_work.ret = "ok" => Finished(completion_work.bio))'
  <2>1. PICK x : x = completion_work.bio
    OBVIOUS
  <2>2. completion_work'.pc # "idle" /\ completion_work'.ret = "ok" => Finished(x)'
    BY <2>1 DEF Ended
  <2> QED  BY <2>1, <2>2 DEF Finished, AllMoved
<1>3. ASSUME NEW o \in 0..A, AnswerAt(o)'.ret = "ok"
      PROVE  Finished(BioOf(AnswerAt(o).cookie - 1))'
  <2>1. CASE o = A
    <3>2. Finished(b)'
      BY <1>3, <2>1
    <3>3. AnswerAt(o)'.cookie - 1 = c
      <4>1. c \in Int
        BY Sizes
      <4> QED  BY <2>1, <4>1
    <3>4. BioOf(AnswerAt(o).cookie - 1)' = b
      BY <3>3 DEF BioOf
    <3> QED  BY <3>2, <3>4 DEF Finished, AllMoved
  <2>2. CASE o # A
    <3>1. o \in 0..A - 1
      BY <2>2
    <3>2. PICK x : x = BioOf(AnswerAt(o).cookie - 1)
      OBVIOUS
    <3>3. Finished(x)'
      BY <1>3, <3>1, <3>2 DEF Ended
    <3>4. BioOf(AnswerAt(o).cookie - 1)' = x
      BY <3>1, <3>2 DEF BioOf
    <3> QED  BY <3>3, <3>4 DEF Finished, AllMoved
  <2> QED  BY <2>1, <2>2
<1>4. Answers' - 1 = A
  OBVIOUS
<1> QED  BY <1>1, <1>2, <1>3, <1>4 DEF Ended

LEMMA PublishErrorKeeps ==
    ASSUME BlockInv, PublishError
    PROVE  BlockInv'
<1> USE DEF BlockInv
<1>0. PICK c, a, A : c = Cookie - 1 /\ a = completion_ring.last_add /\ A = Answers
  OBVIOUS
<1>1. /\ backend.pc = "publish" /\ backend' = BackendIdle
      /\ completion_ring' = [completion_ring EXCEPT
                !.elems[backend.last_add % AckNum].cookie = Cookie,
                !.last_add = CounterAdd(backend.last_add, 1, AckNum)]
      /\ BackendThread /\ UNCHANGED <<buffer_free, dma, request_ring, faults>>
  BY DEF PublishError, PublishAck
<1>2. backend'.pc = "idle"
  BY <1>1 DEF BackendIdle
<1>3. /\ Responding(backend.pc) /\ ~Responding(callback.pc)
      /\ backend.last_add = a /\ completion_ring.elems[a % AckNum].ret = "error"
  BY <1>0, <1>1 DEF Responders, Answering, Responding
<1>4. c \in UsedIds /\ c \in Ids /\ Cookie = c + 1 /\ At("backend", c)
  BY <1>0, <1>1, BackendHas
<1>5. A \in Nat /\ A < AckNum
  BY <1>0, <1>3, RoomToAnswer
<1>6. ~At("answer", c)
  BY <1>4 DEF Placed, Stages
<1>7. /\ RingsTyped' /\ AnswersQueued' /\ Answers' = Answers + 1
      /\ \A o \in 0..A - 1 : AnswerAt(o)' = AnswerAt(o)
      /\ AnswerAt(A)'.cookie = c + 1
      /\ AnswerAt(A)'.ret = completion_ring.elems[a % AckNum].ret
      /\ \A d \in Ids : At("answer", d)' <=> At("answer", d) \/ d = c
  <2>1. PICK k : k = c + 1
    OBVIOUS
  <2>2. completion_ring' = Acknowledged(a, k)
    BY <1>1, <1>3, <1>4, <2>1 DEF Acknowledged
  <2>3. RingsTyped /\ AnswersQueued /\ request_ring' = request_ring
    BY <1>1
  <2> HIDE DEF BlockInv
  <2>4. /\ RingsTyped' /\ AnswersQueued' /\ Answers' = Answers + 1
        /\ \A o \in 0..A - 1 : AnswerAt(o)' = AnswerAt(o)
        /\ AnswerAt(A)'.cookie = k
        /\ AnswerAt(A)'.ret = completion_ring.elems[a % AckNum].ret
        /\ \A d \in Ids : At("answer", d)' <=> At("answer", d) \/ d = c
    BY <1>0, <1>4, <1>5, <1>6, <2>1, <2>2, <2>3, AckPublished
  <2> QED  BY <2>1, <2>4
<1>8. BackendTyped'
  <2>1. 0 \in 0..2 * AckNum - 1 /\ <<>> \in Seq(Entries)
    BY Sizes
  <2>2. backend' \in [pc : {"idle", "transfer", "respond", "publish"}, buff : Seq(Entries),
                      id : Nat, k : Nat, last_add : 0..2 * AckNum - 1]
    BY <1>1, <2>1 DEF BackendIdle
  <2> QED  BY <1>1, <2>2 DEF BackendTyped, BackendThread
<1>9. RequestsQueued'
  BY <1>1, RequestsFrame DEF BackendThread, fvars
<1>10. Responders'
  BY <1>1, <1>2, <1>3 DEF Responders, Answering, Responding, BackendThread
<1>11. UsedIds' = UsedIds /\ (\A d : BioOf(d)' = BioOf(d)) /\ SameBios
  BY <1>1 DEF UsedIds, BioOf, BackendThread, fvars, SameBios
<1>12. Placed'
  <2>1. \A d \in Ids, q \in Stages :
           At(q, d)' <=> IF q = "answer" THEN At(q, d) \/ d = c
                         ELSE IF q = "backend" THEN FALSE ELSE At(q, d)
    BY <1>1, <1>2, <1>7
       DEF At, Stages, ThreadBusy, Published, QueuedAt, BackendThread, fvars
  <2> QED  BY <1>4, <1>11, <2>1 DEF Placed, Stages
<1>13. BackendAt' /\ BackendProgress'
  BY <1>2 DEF BackendAt, BackendProgress
<1>14. TransfersQueued' /\ NotBegun'
  BY <1>1, <1>11, InUse, TransfersFrame, NotBegunFrame DEF BackendThread, fvars
<1>15. Ended'
  <2>1. \A x : Finished(x) => Finished(x)'
    BY <1>1 DEF Finished, AllMoved, BackendThread
  <2>2. AnswerAt(A)'.ret # "ok"
    BY <1>3, <1>7
  <2>3. PICK b : b = BioOf(c)
    OBVIOUS
  <2> QED  BY <1>0, <1>1, <1>4, <1>5, <1>7, <2>1, <2>2, <2>3, AckEnds DEF BackendThread, fvars
<1> QED
  BY <1>1, <1>7, <1>8, <1>9, <1>10, <1>12, <1>13, <1>14, <1>15, BackendStepKeeps

-----------------------------------------------------------------------------
(* The callbacks of the DMA channel.                                       *)

LEMMA CallbackStepKeeps ==
    ASSUME BlockInv, Callback, BackendTyped', RingsTyped', AnswersQueued', Responders', Placed',
           TransfersQueued', BackendProgress', NotBegun', Ended'
    PROVE  BlockInv'
<1> USE DEF BlockInv, Callback, fvars
<1>1. FrontendTyped'
  BY DEF FrontendTyped
<1>2. SameBios
  BY DEF SameBios
<1> QED
  BY <1>1, <1>2, InUse, PoolFrame, MappedFrame, BiosFrame, ThreadFrame, RequestsFrame, BackendFrame

(* The parts of the invariant that only ask what has been submitted, and   *)
(* what has finished.                                                      *)
LEMMA SubmittedKept ==
    ASSUME BlockInv, Callback, \A x, u : Submitted(x, u)' <=> Submitted(x, u)
    PROVE  BackendProgress' /\ NotBegun'
<1> USE DEF BlockInv
<1>1. UsedIds' = UsedIds /\ (\A d : BioOf(d)' = BioOf(d)) /\ SameBios
  BY DEF UsedIds, BioOf, Callback, fvars, SameBios
<1>2. BackendProgress'
  <2>1. PICK b : b = BioOf(Cookie - 1)
    OBVIOUS
  <2>2. BioOf(Cookie - 1)' = b
    BY <2>1 DEF BioOf, Cookie, Callback, fvars
  <2>3. backend'.pc = "transfer" =>
           \A u \in Units(b) : Submitted(b, u)' <=> Before(u, backend'.id, backend'.k)
    BY <2>1 DEF BackendProgress, Callback
  <2> QED  BY <2>2, <2>3 DEF BackendProgress, Submitted, IsMoved, InDma
<1>3. \A b \in Bios : Untouched(b) => Untouched(b)'
  BY DEF Untouched
<1>4. \A c \in UsedIds' : At("thread", c)' \/ At("ring", c)'
                                => c \in UsedIds /\ (At("thread", c) \/ At("ring", c))
  BY <1>1 DEF At, ThreadBusy, Published, QueuedAt, Callback, fvars
<1>5. \A b : InList(b)' <=> InList(b)
  BY DEF InList, Callback, fvars
<1> QED  BY <1>1, <1>2, <1>3, <1>4, <1>5, NotBegunKept DEF Callback, fvars

LEMMA FinishedKept ==
    ASSUME BlockInv, Callback, UNCHANGED completion_ring, \A x : Finished(x) => Finished(x)'
    PROVE  Ended'
<1> USE DEF BlockInv
<1>1. (\A b \in Bios : status[b] = "ok" => Finished(b))'
  BY DEF Ended, Callback, fvars
<1>2. (completion_work.pc # "idle" /\ completion_work.ret = "ok" => Finished(completion_work.bio))'
  <2>1. PICK x : x = completion_work.bio
    OBVIOUS
  <2>2. completion_work'.pc # "idle" /\ completion_work'.ret = "ok" => Finished(x)'
    BY <2>1 DEF Ended, Callback
  <2> QED  BY <2>1, <2>2 DEF Finished, AllMoved, Callback
<1>3. ASSUME NEW o \in 0..Answers' - 1, AnswerAt(o)'.ret = "ok"
      PROVE  Finished(BioOf(AnswerAt(o).cookie - 1))'
  <2>1. PICK x : x = BioOf(AnswerAt(o).cookie - 1)
    OBVIOUS
  <2>2. Answers' = Answers /\ AnswerAt(o)' = AnswerAt(o)
    BY DEF Answers, AnswerAt
  <2>3. Finished(x)'
    BY <1>3, <2>1, <2>2 DEF Ended
  <2>4. BioOf(AnswerAt(o).cookie - 1)' = x
    BY <2>1, <2>2 DEF BioOf, Callback, fvars
  <2> QED  BY <2>3, <2>4 DEF Finished, AllMoved
<1> QED  BY <1>1, <1>2, <1>3 DEF Ended

(* The oldest transfer has moved its data.                                 *)
LEMMA DataMoved ==
    ASSUME NEW t, moved' = moved \union {Moved(t)}
    PROVE  /\ \A x, u : IsMoved(x, u)' <=> IsMoved(x, u) \/ (t.bio = x /\ t.unit = u)
           /\ \A x : AllMoved(x) => AllMoved(x)'
<1>1. Moved(t).bio = t.bio /\ Moved(t).unit = t.unit
  BY DEF Moved
<1> QED  BY <1>1 DEF IsMoved, AllMoved

(* The oldest transfer is over.                                            *)
LEMMA TransferGone ==
    ASSUME BackendTyped, TransfersQueued, dma # <<>>, NEW t, t = dma[1],
           dma' = Tail(dma), moved' = moved \union {Moved(t)}, callback'.pc = "idle",
           UNCHANGED bio_context
    PROVE  /\ TransfersQueued' /\ dma' \in Seq(Transfers) /\ Len(dma) \in Nat
           /\ Len(dma') = Len(dma) - 1
           /\ \A x, u : Submitted(x, u)' <=> Submitted(x, u)
           /\ \A x : Finished(x) => Finished(x)'
           /\ \A d \in Ids : At("dma", d)' <=> At("dma", d) /\ t.cookie # d + 1
<1>1. PICK L \in Nat : L = Len(dma) /\ L > 0 /\ Len(dma') = L - 1
  BY DEF BackendTyped
<1>2. \A i \in 1..L - 1 : i + 1 \in 1..L /\ i + 1 > 1 /\ dma'[i] = dma[i + 1]
  BY <1>1 DEF BackendTyped
<1>3. dma' \in Seq(Transfers)
  BY DEF BackendTyped
<1>4. 1 \in 1..L /\ \A j \in 1..L : j = 1 \/ (j - 1 \in 1..L - 1 /\ dma'[j - 1] = dma[j])
  <2> SUFFICES ASSUME NEW j \in 1..L, j # 1
               PROVE  j - 1 \in 1..L - 1 /\ dma'[j - 1] = dma[j]
    BY <1>1
  <2>1. j - 1 \in 1..L - 1 /\ (j - 1) + 1 = j
    BY <1>1
  <2> QED  BY <1>2, <2>1
<1>5. \A x, u : IsMoved(x, u)' <=> IsMoved(x, u) \/ (t.bio = x /\ t.unit = u)
  BY DataMoved
<1>6. \A x, u : Submitted(x, u)' <=> Submitted(x, u)
  <2> SUFFICES ASSUME NEW x, NEW u
               PROVE  Submitted(x, u)' <=> Submitted(x, u)
    OBVIOUS
  <2>1. ASSUME NEW j \in 1..L, dma[j].bio = x, dma[j].unit = u
        PROVE  (t.bio = x /\ t.unit = u) \/ \E l \in 1..L - 1 : dma'[l].bio = x /\ dma'[l].unit = u
    <3>1. CASE j = 1
      BY <2>1, <3>1
    <3>2. CASE j - 1 \in 1..L - 1 /\ dma'[j - 1] = dma[j]
      BY <2>1, <3>2
    <3> QED  BY <1>4, <3>1, <3>2
  <2>2. ASSUME NEW l \in 1..L - 1, dma'[l].bio = x, dma'[l].unit = u
        PROVE  \E j \in 1..L : dma[j].bio = x /\ dma[j].unit = u
    <3>1. PICK j : j = l + 1 /\ j \in 1..L /\ dma[j] = dma'[l]
      BY <1>2
    <3> QED  BY <2>2, <3>1
  <2>3. t.bio = x /\ t.unit = u => \E j \in 1..L : dma[j].bio = x /\ dma[j].unit = u
    BY <1>4
  <2>4. Submitted(x, u)' <=> IsMoved(x, u)' \/ \E j \in 1..L - 1 : dma'[j].bio = x /\ dma'[j].unit = u
    BY <1>1 DEF Submitted, InDma
  <2>5. Submitted(x, u) <=> IsMoved(x, u) \/ \E j \in 1..L : dma[j].bio = x /\ dma[j].unit = u
    BY <1>1 DEF Submitted, InDma
  <2>6. IsMoved(x, u)' <=> IsMoved(x, u) \/ (t.bio = x /\ t.unit = u)
    BY <1>5
  <2> QED  BY <2>1, <2>2, <2>3, <2>4, <2>5, <2>6
<1>7. \A x : Finished(x) => Finished(x)'
  <2> SUFFICES ASSUME NEW x, Finished(x)
               PROVE  Finished(x)'
    OBVIOUS
  <2>1. AllMoved(x)'
    BY DataMoved DEF Finished
  <2>2. \A j \in 1..L - 1 : dma'[j].bio # x
    BY <1>1, <1>2 DEF Finished
  <2> QED  BY <1>1, <2>1, <2>2 DEF Finished
<1>8. \A d \in Ids : At("dma", d)' <=> At("dma", d) /\ t.cookie # d + 1
  <2> SUFFICES ASSUME NEW d \in Ids
               PROVE  (\E i \in 1..L - 1 : dma'[i].cookie = d + 1)
                        <=> (\E i \in 1..L : dma[i].cookie = d + 1) /\ t.cookie # d + 1
    BY <1>1 DEF At
  <2>1. d + 1 > 0
    BY Sizes
  <2>2. \A i \in 1..L : dma[i].cookie = d + 1 /\ t.cookie = d + 1 => i = 1
    BY <1>1, <1>4, <2>1 DEF TransfersQueued
  <2>3. ASSUME NEW i \in 1..L - 1, dma'[i].cookie = d + 1
        PROVE  (\E j \in 1..L : dma[j].cookie = d + 1) /\ t.cookie # d + 1
    <3>1. PICK k : k = i + 1 /\ k \in 1..L /\ k > 1 /\ dma[k].cookie = d + 1
      BY <1>2, <2>3
    <3> QED  BY <2>2, <3>1
  <2>4. ASSUME NEW i \in 1..L, dma[i].cookie = d + 1, t.cookie # d + 1
        PROVE  \E j \in 1..L - 1 : dma'[j].cookie = d + 1
    BY <1>4, <2>4
  <2> QED  BY <2>3, <2>4
<1>9. TransfersQueued'
  <2>1. ASSUME NEW i \in 1..L - 1
        PROVE  /\ dma'[i].unit \in Units(dma'[i].bio)
               /\ dma'[i].bio \in Writes => dma'[i].data = dma'[i].bio
               /\ ~IsMoved(dma[i].bio, dma[i].unit)'
               /\ \A j \in 1..L - 1 :
                     /\ InDma(j, dma[i].bio, dma[i].unit)' => i = j
                     /\ dma'[i].cookie > 0 /\ dma'[j].cookie = dma'[i].cookie => i = j
               /\ dma'[i].cookie > 0 =>
                     /\ dma'[i].bio = BioOf(dma[i].cookie - 1)'
                     /\ \A u \in Units(dma'[i].bio) :
                           IsMoved(dma[i].bio, u)' \/ \E j \in 1..i : InDma(j, dma[i].bio, u)'
    <3>1. PICK e, k : k = i + 1 /\ e = dma[k] /\ dma'[i] = e /\ k \in 1..L /\ k > 1
      BY <1>2
    <3>2. /\ e.unit \in Units(e.bio) /\ (e.bio \in Writes => e.data = e.bio)
          /\ ~IsMoved(e.bio, e.unit)
          /\ \A j \in 1..L :
                /\ dma[j].bio = e.bio /\ dma[j].unit = e.unit => k = j
                /\ e.cookie > 0 /\ dma[j].cookie = e.cookie => k = j
          /\ e.cookie > 0 =>
                /\ e.bio = BioOf(e.cookie - 1)
                /\ \A u \in Units(e.bio) :
                      IsMoved(e.bio, u) \/ \E j \in 1..k : dma[j].bio = e.bio /\ dma[j].unit = u
      BY <1>1, <3>1 DEF TransfersQueued, InDma
    <3>3. ~IsMoved(dma[i].bio, dma[i].unit)'
      <4>1. ~IsMoved(e.bio, e.unit)
        BY <3>2
      <4>2. ~(t.bio = e.bio /\ t.unit = e.unit)
        BY <1>4, <3>1, <3>2
      <4>3. ~IsMoved(e.bio, e.unit)'
        BY <1>5, <4>1, <4>2
      <4> QED  BY <3>1, <4>3 DEF IsMoved
    <3>4. ASSUME NEW j \in 1..L - 1
          PROVE  /\ InDma(j, dma[i].bio, dma[i].unit)' => i = j
                 /\ e.cookie > 0 /\ dma'[j].cookie = e.cookie => i = j
      <4>1. j + 1 \in 1..L /\ dma'[j] = dma[j + 1] /\ (j + 1 = k => i = j)
        BY <1>1, <1>2, <3>1
      <4>2. InDma(j, dma[i].bio, dma[i].unit)' <=> dma'[j].bio = e.bio /\ dma'[j].unit = e.unit
        BY <3>1 DEF InDma
      <4>3. dma[j + 1].bio = e.bio /\ dma[j + 1].unit = e.unit => k = j + 1
        BY <3>2, <4>1
      <4>4. e.cookie > 0 /\ dma[j + 1].cookie = e.cookie => k = j + 1
        BY <3>2, <4>1
      <4> QED  BY <4>1, <4>2, <4>3, <4>4
    <3>5. ASSUME e.cookie > 0
          PROVE  /\ e.bio = BioOf(dma[i].cookie - 1)'
                 /\ \A u \in Units(e.bio) :
                       IsMoved(dma[i].bio, u)' \/ \E j \in 1..i : InDma(j, dma[i].bio, u)'
      <4>1. e.bio = BioOf(e.cookie - 1)
            /\ \A u \in Units(e.bio) :
                  IsMoved(e.bio, u) \/ \E j \in 1..k : dma[j].bio = e.bio /\ dma[j].unit = u
        BY <3>2, <3>5
      <4>2. BioOf(dma[i].cookie - 1)' = BioOf(e.cookie - 1)
        BY <3>1 DEF BioOf
      <4>3. \A u : IsMoved(dma[i].bio, u)' <=> IsMoved(e.bio, u) \/ (t.bio = e.bio /\ t.unit = u)
        <5>1. \A u : IsMoved(e.bio, u)' <=> IsMoved(e.bio, u) \/ (t.bio = e.bio /\ t.unit = u)
          BY <1>5
        <5>2. \A u : IsMoved(dma[i].bio, u)' <=> IsMoved(e.bio, u)'
          BY <3>1 DEF IsMoved
        <5> QED  BY <5>1, <5>2
      <4>4. ASSUME NEW u \in Units(e.bio), NEW j \in 1..k, dma[j].bio = e.bio, dma[j].unit = u,
                   j # 1
            PROVE  \E l \in 1..i : InDma(l, dma[i].bio, u)'
        <5>1. j \in 1..L /\ j - 1 \in 1..i
          BY <1>1, <3>1, <4>4
        <5>2. dma'[j - 1] = dma[j]
          BY <1>4, <4>4, <5>1
        <5> QED  BY <3>1, <4>4, <5>1, <5>2 DEF InDma
      <4> QED  BY <4>1, <4>2, <4>3, <4>4, ZenonT(30)
    <3> QED  BY <3>1, <3>2, <3>3, <3>4, <3>5
  <2> QED  BY <1>1, <2>1 DEF TransfersQueued
<1> QED  BY <1>1, <1>3, <1>6, <1>7, <1>8, <1>9

LEMMA TransferDoneKeeps ==
    ASSUME BlockInv, TransferDone, ~Together'
    PROVE  BlockInv'
<1> USE DEF BlockInv
<1>0. PICK t, L : t = Head(dma) /\ L = Len(dma)
  OBVIOUS
<1>1. /\ callback.pc = "idle" /\ dma # <<>> /\ Callback /\ UNCHANGED completion_ring
      /\ moved' = moved \union {Moved(t)}
      /\ media' = IF t.bio \in Writes THEN [media EXCEPT ![Parts[t.bio][t.unit[1]][t.unit[2]]] = t.data]
                  ELSE media
      /\ IF t.cookie >= 0
         THEN /\ callback' = [pc |-> "respond", last_add |-> completion_ring.last_add]
              /\ UNCHANGED <<dma, buffer_free>>
         ELSE BufferPushed /\ UNCHANGED callback
  <2> HIDE DEF BlockInv
  <2>1. callback.pc = "idle" /\ dma # <<>> /\ Callback /\ UNCHANGED completion_ring
    BY DEF TransferDone
  <2>2. /\ moved' = moved \union {Moved(t)}
        /\ media' = IF t.bio \in Writes THEN [media EXCEPT ![Parts[t.bio][t.unit[1]][t.unit[2]]] = t.data]
                    ELSE media
        /\ IF t.cookie >= 0
           THEN /\ callback' = [pc |-> "respond", last_add |-> completion_ring.last_add]
                /\ UNCHANGED <<dma, buffer_free>>
           ELSE BufferPushed /\ UNCHANGED callback
    BY <1>0, Zenon DEF TransferDone
  <2> QED  BY <2>1, <2>2, SMTT(30)
<1>2. t \in Transfers /\ 1 \in 1..L /\ L \in Nat /\ t = dma[1]
  <2>1. dma \in Seq(Transfers) /\ dma # <<>>
    BY <1>1 DEF BackendTyped
  <2> HIDE DEF BlockInv
  <2>2. L \in Nat /\ 1 \in 1..L /\ dma[1] \in Transfers /\ t = dma[1]
    BY <1>0, <2>1
  <2> QED  BY <2>2
<1>3. media' \in [Sectors -> Bios \union {Blank}]
  <2>1. t.data \in Bios \union {Blank}
    BY <1>2 DEF Transfers
  <2> QED  BY <1>1, <2>1 DEF BackendTyped
<1>4. \A x, u : IsMoved(x, u)' <=> IsMoved(x, u) \/ (t.bio = x /\ t.unit = u)
  BY <1>1, DataMoved
<1>5. UsedIds' = UsedIds /\ (\A d : BioOf(d)' = BioOf(d)) /\ SameBios
  BY <1>1 DEF UsedIds, BioOf, Callback, fvars, SameBios
<1>6. RingsTyped' /\ AnswersQueued'
  BY <1>1, AnswersFrame DEF RingsTyped, Callback
<1>7. CASE t.cookie >= 0
  <2>1. /\ ~Responding(backend.pc) /\ UNCHANGED <<dma, buffer_free>>
        /\ callback' = [pc |-> "respond", last_add |-> completion_ring.last_add]
    <3>1. /\ UNCHANGED <<dma, buffer_free>>
          /\ callback' = [pc |-> "respond", last_add |-> completion_ring.last_add]
      BY <1>1, <1>7
    <3>2. callback'.pc = "respond" /\ backend' = backend
      BY <1>1, <3>1 DEF Callback
    <3> QED  BY <3>1, <3>2 DEF Together, Responding
  <2>2. callback'.pc = "respond" /\ callback'.last_add = completion_ring.last_add
    BY <2>1
  <2>3. t.cookie > 0
    BY <1>2, <1>7, Sizes DEF Transfers
  <2>4. BackendTyped'
    <3>1. callback' \in [pc : {"idle", "respond", "publish"}, last_add : 0..2 * AckNum - 1]
      BY <2>1 DEF RingsTyped
    <3> QED  BY <1>1, <1>3, <2>1, <3>1 DEF BackendTyped, Callback
  <2>5. Responders'
    BY <1>1, <2>1, <2>2 DEF Responders, Answering, Responding, Callback
  <2>6. Placed'
    BY <1>1, <2>1, PlacedFrame DEF Callback, fvars
  <2>7. \A x, u : InDma(1, x, u) <=> t.bio = x /\ t.unit = u
    BY <1>2 DEF InDma
  <2>8. \A x, u : Submitted(x, u)' <=> Submitted(x, u)
    <3> SUFFICES ASSUME NEW x, NEW u
                 PROVE  Submitted(x, u)' <=> Submitted(x, u)
      OBVIOUS
    <3>1. Submitted(x, u)' <=> IsMoved(x, u)' \/ \E j \in 1..L : InDma(j, x, u)
      BY <1>0, <2>1 DEF Submitted, InDma
    <3>2. Submitted(x, u) <=> IsMoved(x, u) \/ \E j \in 1..L : InDma(j, x, u)
      BY <1>0 DEF Submitted
    <3>3. IsMoved(x, u)' <=> IsMoved(x, u) \/ InDma(1, x, u)
      BY <1>4, <2>7
    <3> QED  BY <1>2, <3>1, <3>2, <3>3
  <2>9. \A x : Finished(x) => Finished(x)'
    BY <1>1, <2>1, DataMoved DEF Finished
  <2>10. TransfersQueued'
    <3>1. (callback.pc # "idle" => dma # <<>> /\ dma[1].cookie > 0 /\ Moved(dma[1]) \in moved)'
      BY <1>1, <1>2, <2>1, <2>3 DEF Moved
    <3>2. ASSUME NEW i \in 1..L
          PROVE  /\ dma[i].unit \in Units(dma[i].bio)
                 /\ dma[i].bio \in Writes => dma[i].data = dma[i].bio
                 /\ i > 1 => ~IsMoved(dma[i].bio, dma[i].unit)'
                 /\ \A j \in 1..L : /\ InDma(j, dma[i].bio, dma[i].unit) => i = j
                                    /\ dma[i].cookie > 0 /\ dma[j].cookie = dma[i].cookie => i = j
                 /\ dma[i].cookie > 0 =>
                       /\ dma[i].bio = BioOf(dma[i].cookie - 1)
                       /\ \A u \in Units(dma[i].bio) :
                             IsMoved(dma[i].bio, u)' \/ \E j \in 1..i : InDma(j, dma[i].bio, u)
      <4>1. PICK x, v : x = dma[i].bio /\ v = dma[i].unit
        OBVIOUS
      <4>2. /\ v \in Units(x) /\ (x \in Writes => dma[i].data = x)
            /\ ~IsMoved(x, v)
            /\ \A j \in 1..L : /\ InDma(j, x, v) => i = j
                               /\ dma[i].cookie > 0 /\ dma[j].cookie = dma[i].cookie => i = j
            /\ dma[i].cookie > 0 =>
                  /\ x = BioOf(dma[i].cookie - 1)
                  /\ \A u \in Units(x) : IsMoved(x, u) \/ \E j \in 1..i : InDma(j, x, u)
        BY <1>0, <1>1, <4>1 DEF TransfersQueued
      <4>3. i > 1 => ~IsMoved(x, v)'
        BY <1>2, <1>4, <2>7, <4>2
      <4>4. (\A u : IsMoved(dma[i].bio, u)' <=> IsMoved(x, u)')
            /\ (IsMoved(dma[i].bio, dma[i].unit)' <=> IsMoved(x, v)')
        BY <2>1, <4>1 DEF IsMoved
      <4>5. \A u : IsMoved(x, u) => IsMoved(x, u)'
        BY <1>4
      <4> HIDE DEF BlockInv
      <4> QED  BY <4>1, <4>2, <4>3, <4>4, <4>5
    <3>3. callback'.pc # "idle" /\ dma' = dma /\ Len(dma') = L
      BY <1>0, <2>1, <2>2
    <3> HIDE DEF BlockInv
    <3>4. ASSUME NEW i \in 1..L
          PROVE  /\ dma'[i].unit \in Units(dma'[i].bio)
                 /\ dma'[i].bio \in Writes => dma'[i].data = dma'[i].bio
                 /\ i > 1 => ~IsMoved(dma[i].bio, dma[i].unit)'
                 /\ \A j \in 1..L :
                       /\ InDma(j, dma[i].bio, dma[i].unit)' => i = j
                       /\ dma'[i].cookie > 0 /\ dma'[j].cookie = dma'[i].cookie => i = j
                 /\ dma'[i].cookie > 0 =>
                       /\ dma'[i].bio = BioOf(dma[i].cookie - 1)'
                       /\ \A u \in Units(dma'[i].bio) :
                             IsMoved(dma[i].bio, u)' \/ \E j \in 1..i : InDma(j, dma[i].bio, u)'
      <4>1. \A j \in 1..L : InDma(j, dma[i].bio, dma[i].unit)' <=> InDma(j, dma[i].bio, dma[i].unit)
        BY <2>1 DEF InDma
      <4>2. \A u : \A j \in 1..i : InDma(j, dma[i].bio, u)' <=> InDma(j, dma[i].bio, u)
        BY <2>1 DEF InDma
      <4>3. BioOf(dma[i].cookie - 1)' = BioOf(dma[i].cookie - 1)
        BY <1>5, <2>1 DEF BioOf
      <4> QED  BY <3>2, <3>3, <4>1, <4>2, <4>3
    <3> QED  BY <3>1, <3>3, <3>4 DEF TransfersQueued
  <2>11. BackendProgress' /\ NotBegun'
    BY <1>1, <2>8, SubmittedKept
  <2>12. Ended'
    BY <1>1, <2>9, FinishedKept
  <2> QED  BY <1>1, <1>6, <2>4, <2>5, <2>6, <2>10, <2>11, <2>12, CallbackStepKeeps
<1>8. CASE ~(t.cookie >= 0)
  <2>1. dma' = Tail(dma) /\ buffer_free' = buffer_free + 1 /\ UNCHANGED callback
    BY <1>1, <1>8 DEF BufferPushed
  <2>2. /\ TransfersQueued' /\ dma' \in Seq(Transfers) /\ Len(dma) \in Nat
        /\ Len(dma') = Len(dma) - 1
        /\ \A x, u : Submitted(x, u)' <=> Submitted(x, u)
        /\ \A x : Finished(x) => Finished(x)'
        /\ \A d \in Ids : At("dma", d)' <=> At("dma", d) /\ t.cookie # d + 1
    BY <1>1, <1>2, <2>1, TransferGone DEF Callback, fvars
  <2>3. BackendTyped'
    <3>1. buffer_free' \in Nat /\ buffer_free' + Len(dma') <= MaxParts
      <4>1. buffer_free \in Nat /\ buffer_free + Len(dma) <= MaxParts /\ MaxParts \in Nat
        BY Sizes DEF BackendTyped
      <4> QED  BY <2>1, <2>2, <4>1
    <3> QED  BY <1>1, <1>3, <2>1, <2>2, <3>1 DEF BackendTyped, Callback
  <2>4. Responders'
    BY <1>1, <2>1 DEF Responders, Answering, Responding, Callback
  <2>5. Placed'
    <3>1. \A d \in Ids : t.cookie # d + 1
      BY <1>8, Sizes
    <3>2. \A d \in Ids, q \in Stages : At(q, d)' <=> At(q, d)
      BY <1>1, <2>2, <3>1 DEF At, Stages, ThreadBusy, Published, QueuedAt, Cookie, Answers, AnswerAt,
                              Callback, fvars
    <3> QED  BY <1>5, <3>2 DEF Placed
  <2>6. BackendProgress' /\ NotBegun' /\ Ended'
    BY <1>1, <2>2, SubmittedKept, FinishedKept
  <2> QED  BY <1>1, <1>6, <2>2, <2>3, <2>4, <2>5, <2>6, CallbackStepKeeps
<1> QED  BY <1>7, <1>8

LEMMA RespondDoneKeeps ==
    ASSUME BlockInv, RespondDone
    PROVE  BlockInv'
<1> USE DEF BlockInv
<1>1. /\ callback.pc = "respond" /\ callback' = [callback EXCEPT !.pc = "publish"]
      /\ completion_ring' = [completion_ring EXCEPT !.elems[callback.last_add % AckNum].ret = "ok"]
      /\ Callback /\ UNCHANGED <<buffer_free, dma, media, moved>>
  BY DEF RespondDone, WriteRet
<1>2. callback'.pc = "publish" /\ callback'.last_add = callback.last_add
  BY <1>1 DEF BackendTyped
<1>3. /\ Responding(callback.pc) /\ ~Responding(backend.pc)
      /\ callback.last_add = completion_ring.last_add
  BY <1>1 DEF Responders, Answering, Responding
<1>4. PICK a : a = completion_ring.last_add
  OBVIOUS
<1>5. /\ RingsTyped' /\ Answers' = Answers /\ completion_ring'.last_add = a
      /\ \A o \in 0..Answers - 1 : AnswerAt(o)' = AnswerAt(o)
      /\ completion_ring'.elems[a % AckNum].ret = "ok"
  <2>1. Answers \in Nat /\ Answers < AckNum
    BY <1>3, RoomToAnswer
  <2>2. completion_ring' = [completion_ring EXCEPT !.elems[a % AckNum].ret = "ok"]
    BY <1>1, <1>3, <1>4
  <2> QED  BY <1>1, <1>4, <2>1, <2>2, RetWritten DEF Callback
<1>6. BackendTyped'
  <2>1. callback' \in [pc : {"idle", "respond", "publish"}, last_add : 0..2 * AckNum - 1]
    BY <1>1 DEF BackendTyped
  <2> QED  BY <1>1, <2>1 DEF BackendTyped, Callback
<1>7. Responders'
  BY <1>1, <1>2, <1>3, <1>4, <1>5 DEF Responders, Answering, Responding, Callback
<1>8. UsedIds' = UsedIds
  BY <1>1 DEF UsedIds, Callback, fvars
<1>9. AnswersQueued' /\ Ended' /\ \A c : At("answer", c)' <=> At("answer", c)
  BY <1>1, <1>5, RetFrames DEF Callback, fvars
<1>10. Placed'
  <2>1. \A d \in Ids, q \in Stages : At(q, d)' <=> At(q, d)
    BY <1>1, <1>9
       DEF At, Stages, ThreadBusy, Published, QueuedAt, Cookie, Callback, fvars
  <2> QED  BY <1>8, <2>1 DEF Placed
<1>11. TransfersQueued'
  BY <1>1, <1>2 DEF TransfersQueued, BioOf, InDma, IsMoved, Moved, Callback, fvars
<1>12. BackendProgress' /\ NotBegun'
  <2>1. \A x, u : Submitted(x, u)' <=> Submitted(x, u)
    BY <1>1 DEF Submitted, IsMoved, InDma
  <2> QED  BY <1>1, <2>1, SubmittedKept
<1> QED
  BY <1>1, <1>5, <1>6, <1>7, <1>9, <1>10, <1>11, <1>12, CallbackStepKeeps

LEMMA PublishDoneKeeps ==
    ASSUME BlockInv, PublishDone
    PROVE  BlockInv'
<1> USE DEF BlockInv
<1>0. PICK t, c, b, a, A : /\ t = Head(dma) /\ c = t.cookie - 1 /\ b = BioOf(c)
                           /\ a = completion_ring.last_add /\ A = Answers
  OBVIOUS
<1>1. /\ callback.pc = "publish" /\ callback' = CallbackIdle
      /\ dma' = Tail(dma) /\ buffer_free' = buffer_free + 1
      /\ completion_ring' = [completion_ring EXCEPT
                !.elems[callback.last_add % AckNum].cookie = t.cookie,
                !.last_add = CounterAdd(callback.last_add, 1, AckNum)]
      /\ Callback /\ UNCHANGED <<media, moved>>
  <2> HIDE DEF BlockInv
  <2> QED  BY <1>0, Zenon DEF PublishDone, PublishAck, BufferPushed
<1>2. callback'.pc = "idle"
  BY <1>1 DEF CallbackIdle
<1>3. /\ Responding(callback.pc) /\ ~Responding(backend.pc)
      /\ callback.last_add = a /\ completion_ring.elems[a % AckNum].ret = "ok"
  BY <1>0, <1>1 DEF Responders, Answering, Responding
<1>4. /\ dma # <<>> /\ t.cookie > 0 /\ Moved(t) \in moved /\ moved' = moved \union {Moved(t)}
      /\ t = dma[1]
  <2>1. dma # <<>> /\ dma[1].cookie > 0 /\ Moved(dma[1]) \in moved
    BY <1>1 DEF TransfersQueued
  <2>2. t = dma[1]
    BY <1>0, <2>1 DEF BackendTyped
  <2> QED  BY <1>1, <2>1, <2>2
<1>5. PICK L \in Nat : L = Len(dma) /\ L > 0 /\ t \in Transfers /\ 1 \in 1..L
  BY <1>4 DEF BackendTyped
<1>6. c \in UsedIds /\ c \in Ids /\ t.cookie = c + 1 /\ At("dma", c)
  <2>1. c \in UsedIds
    BY <1>0, <1>4, <1>5, InUse
  <2>2. t.cookie = c + 1 /\ c \in Ids
    BY <1>0, <1>5, <2>1, Sizes, UsedAre DEF Transfers
  <2> QED  BY <1>4, <1>5, <2>1, <2>2 DEF At
<1>7. A \in Nat /\ A < AckNum
  BY <1>0, <1>3, RoomToAnswer
<1>8. ~At("answer", c)
  BY <1>6 DEF Placed, Stages
<1>9. /\ RingsTyped' /\ AnswersQueued' /\ Answers' = A + 1
      /\ \A o \in 0..A - 1 : AnswerAt(o)' = AnswerAt(o)
      /\ AnswerAt(A)'.cookie = c + 1
      /\ \A d \in Ids : At("answer", d)' <=> At("answer", d) \/ d = c
  <2>1. PICK k : k = c + 1
    OBVIOUS
  <2>2. completion_ring' = Acknowledged(a, k)
    BY <1>1, <1>3, <1>6, <2>1 DEF Acknowledged
  <2>3. RingsTyped /\ AnswersQueued /\ request_ring' = request_ring
    BY <1>1 DEF Callback
  <2> HIDE DEF BlockInv
  <2>4. /\ RingsTyped' /\ AnswersQueued' /\ Answers' = Answers + 1
        /\ \A o \in 0..A - 1 : AnswerAt(o)' = AnswerAt(o)
        /\ AnswerAt(A)'.cookie = k
        /\ AnswerAt(A)'.ret = completion_ring.elems[a % AckNum].ret
        /\ \A d \in Ids : At("answer", d)' <=> At("answer", d) \/ d = c
    BY <1>0, <1>6, <1>7, <1>8, <2>1, <2>2, <2>3, AckPublished
  <2> QED  BY <1>0, <2>1, <2>4
<1>10. /\ TransfersQueued' /\ dma' \in Seq(Transfers) /\ Len(dma) \in Nat
       /\ Len(dma') = Len(dma) - 1
       /\ \A x, u : Submitted(x, u)' <=> Submitted(x, u)
       /\ \A x : Finished(x) => Finished(x)'
       /\ \A d \in Ids : At("dma", d)' <=> At("dma", d) /\ t.cookie # d + 1
  BY <1>1, <1>2, <1>4, TransferGone DEF Callback, fvars
<1>11. BackendTyped'
  <2>1. buffer_free' \in Nat /\ buffer_free' + Len(dma') <= MaxParts
    <3>1. buffer_free \in Nat /\ buffer_free + Len(dma) <= MaxParts /\ MaxParts \in Nat
      BY Sizes DEF BackendTyped
    <3> QED  BY <1>1, <1>10, <3>1
  <2>2. callback' \in [pc : {"idle", "respond", "publish"}, last_add : 0..2 * AckNum - 1]
    <3>1. 0 \in 0..2 * AckNum - 1
      BY Sizes
    <3> QED  BY <1>1, <3>1 DEF CallbackIdle
  <2> QED  BY <1>1, <1>10, <2>1, <2>2 DEF BackendTyped, Callback
<1>12. Responders'
  BY <1>1, <1>2, <1>3 DEF Responders, Answering, Responding, Callback
<1>13. Placed'
  <2>1. UsedIds' = UsedIds
    BY <1>1 DEF UsedIds, Callback, fvars
  <2>2. \A d \in Ids : t.cookie # d + 1 <=> d # c
    BY <1>6, Sizes
  <2>3. \A d \in Ids, q \in Stages :
           At(q, d)' <=> IF q = "answer" THEN At(q, d) \/ d = c
                         ELSE IF q = "dma" THEN At(q, d) /\ d # c ELSE At(q, d)
    BY <1>1, <1>9, <1>10, <2>2
       DEF At, Stages, ThreadBusy, Published, QueuedAt, Cookie, Callback, fvars
  <2> QED  BY <1>6, <2>1, <2>3 DEF Placed, Stages
<1>14. BackendProgress' /\ NotBegun'
  BY <1>1, <1>10, SubmittedKept
<1>15. Finished(b)'
  <2>1. t.bio = b /\ \A u \in Units(b) : IsMoved(b, u) \/ \E j \in 1..1 : InDma(j, b, u)
    <3>1. dma[1].bio = BioOf(dma[1].cookie - 1)
          /\ \A u \in Units(dma[1].bio) :
                IsMoved(dma[1].bio, u) \/ \E j \in 1..1 : InDma(j, dma[1].bio, u)
      BY <1>4, <1>5 DEF TransfersQueued
    <3>2. dma[1].bio = b
      BY <1>0, <1>4, <3>1
    <3> HIDE DEF BlockInv
    <3> QED  BY <1>4, <3>1, <3>2
  <2>2. IsMoved(t.bio, t.unit)
    BY <1>4 DEF IsMoved, Moved
  <2>3. \A u \in Units(b) : IsMoved(b, u)
    <3>1. \A j \in 1..1 : j = 1
      OBVIOUS
    <3>2. \A u : InDma(1, b, u) => IsMoved(b, u)
      BY <1>4, <2>1, <2>2 DEF InDma
    <3> QED  BY <2>1, <3>1, <3>2
  <2>4. AllMoved(b)'
    BY <1>1, <2>3 DEF AllMoved, IsMoved
  <2>5. ASSUME NEW j \in 1..L - 1, dma'[j].bio = b
        PROVE  FALSE
    <3>1. PICK k \in 1..L : k > 1 /\ dma'[j] = dma[k]
      <4>1. j + 1 \in 1..L /\ j + 1 > 1 /\ dma'[j] = dma[j + 1]
        BY <1>1, <1>5, SMTT(30) DEF BackendTyped
      <4> QED  BY <4>1
    <3>2. dma[k].unit \in Units(dma[k].bio) /\ ~IsMoved(dma[k].bio, dma[k].unit)
      BY <1>5, <3>1 DEF TransfersQueued
    <3> QED  BY <2>3, <2>5, <3>1, <3>2
  <2>6. Len(dma') = L - 1
    BY <1>5, <1>10
  <2> QED  BY <2>4, <2>5, <2>6 DEF Finished
<1>16. Ended'
  BY <1>0, <1>1, <1>6, <1>7, <1>9, <1>10, <1>15, AckEnds DEF Callback, fvars
<1> QED
  BY <1>1, <1>9, <1>10, <1>11, <1>12, <1>13, <1>14, <1>16, CallbackStepKeeps

-----------------------------------------------------------------------------
(* The invariant holds at the start, and every step keeps it.              *)

LEMMA InitiallyClean ==
    ASSUME Init
    PROVE  BlockInv
<1> USE DEF Init
<1>1. /\ RequestNum \in Nat \ {0} /\ AckNum \in Nat \ {0} /\ Contexts \in Nat \ {0}
      /\ MaxParts \in Nat \ {0} /\ PoolUsed = Contexts + 1 /\ Ids = 0..Contexts
  BY Sizes
<1>2. /\ 0 \in Ids /\ 0 \in 0..RequestNum /\ RequestNum \in 0..RequestNum /\ 0 \in 0..PoolUsed
      /\ 0 \in 0..2 * RequestNum - 1 /\ 0 \in 0..2 * AckNum - 1 /\ Contexts \in Ids
      /\ 0 \in 0..MaxFaults
  <2>1. MaxFaults \in Nat
    BY ModesAssumption
  <2> QED  BY <1>1, <2>1
<1>3. UsedIds = {} /\ PoolClear \in [head : Ids, tail : Ids, next_free : [Ids -> 0..PoolUsed]]
  <2>1. \A i \in Ids : (IF i = Contexts THEN 0 ELSE i + 1) \in 0..PoolUsed
                       /\ (IF i = Contexts THEN 0 ELSE i + 1) # PoolUsed
    BY <1>1
  <2> QED  BY <1>2, <2>1 DEF UsedIds, PoolClear
<1>4. FrontendTyped
  <2>1. \A i \in Ids : bio_context[i] = NoBio /\ NoBio \in [bio : SomeBio, bvecs : 0..RequestNum]
    BY <1>2 DEF NoBio, SomeBio
  <2>2. thread \in [pc : {"idle", "context", "step", "start", "tail"},
                    bio : SomeBio, id : Ids, part : Nat]
    BY <1>2 DEF Idle, SomeBio
  <2>3. completion_work \in [pc : {"idle", "tail", "end"}, id : Ids, bio : SomeBio,
                             ret : {"ok", "error"}]
    BY <1>2 DEF WorkIdle, SomeBio
  <2>4. status \in [Bios -> Statuses] /\ ends \in [Bios -> Nat] /\ request_bio_list \in Seq(Bios)
    BY DEF Statuses
  <2>5. bio_context \in [Ids -> [bio : SomeBio, bvecs : 0..RequestNum]]
    BY <2>1
  <2> QED  BY <1>2, <1>3, <2>2, <2>3, <2>4, <2>5 DEF FrontendTyped
<1>5. BackendTyped
  <2>1. backend \in [pc : {"idle", "transfer", "respond", "publish"}, buff : Seq(Entries),
                     id : Nat, k : Nat, last_add : 0..2 * AckNum - 1]
    BY <1>2 DEF BackendIdle
  <2>2. callback \in [pc : {"idle", "respond", "publish"}, last_add : 0..2 * AckNum - 1]
    BY <1>2 DEF CallbackIdle
  <2>3. dma \in Seq(Transfers) /\ Len(dma) = 0
    OBVIOUS
  <2> QED  BY <1>1, <1>2, <2>1, <2>2, <2>3 DEF BackendTyped
<1>6. RingsTyped
  <2>1. NoEntry \in Entries /\ NoAck \in Acks
    BY <1>2 DEF NoEntry, NoAck, Entries, Acks, SomeBio
  <2> QED  BY <1>2, <2>1 DEF RingsTyped
<1>7. thread.pc = "idle" /\ completion_work.pc = "idle" /\ backend.pc = "idle" /\ callback.pc = "idle"
  BY DEF Idle, WorkIdle, BackendIdle, CallbackIdle
<1>8. ContextsListed
  <2> DEFINE list == [i \in 1..Contexts + 1 |-> i - 1]
  <2>1. list \in [1..Contexts + 1 -> Ids] /\ Contexts + 1 \in 1..Contexts + 1
        /\ Len(list) = Contexts + 1 /\ \A i \in 1..Contexts + 1 : list[i] = i - 1
    BY <1>1
  <2> HIDE DEF list
  <2>2. IsFreeList(list, bio_context_pool)
    <3>1. list[1] = 0 /\ list[Contexts + 1] = Contexts
      BY <1>1, <2>1
    <3>2. bio_context_pool.head = 0 /\ bio_context_pool.tail = Contexts
          /\ \A i \in Ids : bio_context_pool.next_free[i] = IF i = Contexts THEN 0 ELSE i + 1
      BY DEF PoolClear
    <3>3. \A i \in 1..Contexts : bio_context_pool.next_free[list[i]] = list[i + 1]
      <4> TAKE i \in 1..Contexts
      <4>1. i \in 1..Contexts + 1 /\ i + 1 \in 1..Contexts + 1 /\ i - 1 \in Ids /\ i - 1 # Contexts
            /\ (i - 1) + 1 = (i + 1) - 1
        BY <1>1
      <4> QED  BY <2>1, <3>2, <4>1
    <3>4. \A i, j \in 1..Contexts + 1 : list[i] = list[j] => i = j
      BY <1>1, <2>1
    <3>5. (Contexts + 1) - 1 = Contexts
      BY <1>1
    <3> QED  BY <2>1, <3>1, <3>2, <3>3, <3>4, <3>5 DEF IsFreeList
  <2>3. BeingPushed = {}
    BY <1>7 DEF BeingPushed
  <2>4. ASSUME NEW i \in Ids
        PROVE  i \in UsedIds \union BeingPushed <=> \A j \in 1..Contexts + 1 : list[j] # i
    <3>1. i + 1 \in 1..Contexts + 1 /\ (i + 1) - 1 = i
      BY <1>1
    <3>2. list[i + 1] = i
      BY <2>1, <3>1
    <3> QED  BY <1>3, <2>3, <3>1, <3>2
  <2> QED  BY <2>1, <2>2, <2>4 DEF ContextsListed
<1>9. Mapped
  <2> DEFINE owner == [m \in 1..RequestNum |-> PoolUsed]
  <2>1. owner \in [1..RequestNum -> 0..PoolUsed]
    BY <1>1
  <2>2. Held(owner, PoolUsed) = 1..RequestNum /\ \A i \in Ids : Held(owner, i) = {}
    BY <1>1 DEF Held
  <2>3. Cardinality(1..RequestNum) = RequestNum
    BY <1>1, FS_Interval
  <2> HIDE DEF owner
  <2> QED  BY <1>3, <2>1, <2>2, <2>3 DEF Mapped
<1>10. Len(request_bio_list) = 0 /\ Len(dma) = 0
  OBVIOUS
<1>11. Published = 0 /\ Prepared = 0 /\ Answers = 0
  <2>1. \A n \in Nat \ {0} : Dist(0, 0, n) = 0
    <3> TAKE n \in Nat \ {0}
    <3>1. 0 \in 0..2 * n - 1
      OBVIOUS
    <3> QED  BY <3>1, DistIs
  <2>2. /\ request_ring.last_add = 0 /\ request_ring.last_used = 0 /\ request_ring_alloc = 0
        /\ completion_ring.last_add = 0 /\ completion_ring.last_used = 0
    OBVIOUS
  <2> HIDE DEF Init
  <2> QED  BY <1>1, <2>1, <2>2 DEF Published, Prepared, Answers
<1>12. BiosHeld
  <2>1. \A b \in Bios, p \in Holders : ~Holds(p, b)
    BY <1>3, <1>7, <1>10 DEF Holds, Holders, InList, ThreadHas, WorkHas, ContextHas
  <2> QED  BY <1>3, <1>7, <1>10, <2>1 DEF BiosHeld
<1>13. ThreadAt /\ Pushing /\ Responders /\ BackendAt /\ BackendProgress
  BY <1>7 DEF ThreadAt, ThreadBusy, Pushing, Responders, Answering, Responding, BackendAt,
              BackendProgress
<1>14. RequestsQueued /\ AnswersQueued
  <2>1. ThreadsEntries = 0
    BY <1>7 DEF ThreadsEntries
  <2>2. 0..0 - 1 = {}
    OBVIOUS
  <2> QED  BY <1>1, <1>11, <2>1, <2>2 DEF RequestsQueued, PublishedWhole, AnswersQueued
<1>15. Placed
  BY <1>7, <1>10, <1>11 DEF Placed, At, Stages, ThreadBusy
<1>16. TransfersQueued
  BY <1>7, <1>10 DEF TransfersQueued
<1>17. NotBegun
  <2>1. \A b : Untouched(b)
    BY <1>10 DEF Untouched, Submitted, IsMoved
  <2> QED  BY <2>1 DEF NotBegun
<1>18. Ended
  BY <1>7, <1>11 DEF Ended
<1> QED
  BY <1>4, <1>5, <1>6, <1>8, <1>9, <1>12, <1>13, <1>14, <1>15, <1>16, <1>17, <1>18 DEF BlockInv

LEMMA StutterKeeps ==
    ASSUME BlockInv, UNCHANGED vars
    PROVE  BlockInv'
<1> USE DEF BlockInv, vars, fvars, bvars
<1>1. FrontendTyped' /\ BackendTyped' /\ RingsTyped'
  BY DEF FrontendTyped, BackendTyped, RingsTyped
<1>2. SameBios
  BY DEF SameBios
<1> QED
  BY <1>1, <1>2, InUse, PoolFrame, MappedFrame, BiosFrame, ThreadFrame, RequestsFrame,
     AnswersFrame, RespondersFrame, PlacedFrame, BackendFrame, TransfersFrame, EndedFrame,
     ProgressFrame, NotBegunFrame

LEMMA StepKeeps ==
    ASSUME BlockInv, [Next]_vars, ~Together'
    PROVE  BlockInv'
<1>1. CASE UNCHANGED vars
  BY <1>1, StutterKeeps
<1>2. ASSUME NEW b \in Bios, MakeRequest(b) \/ Decongested(b)
      PROVE  BlockInv'
  BY <1>2, MakeRequestKeeps, DecongestedKeeps
<1>3. CASE FrontendNext \/ NoBioContext \/ RequestStepFails
  BY <1>3, TakeBioKeeps, GetBioContextKeeps, RequestStepKeeps, RequestStartKeeps, BreakEndKeeps,
     NoBioContextKeeps, RequestStepFailsKeeps DEF FrontendNext
<1>4. CASE WorkNext
  BY <1>4, TakeAckKeeps, DoneTailKeeps, DoneEndKeeps DEF WorkNext
<1>5. CASE BackendNext \/ TransferFails
  BY <1>5, GetNextRequestKeeps, TransferKeeps, RespondErrorKeeps, PublishErrorKeeps,
     TransferFailsKeeps DEF BackendNext
<1>6. CASE CallbackNext
  BY <1>6, TransferDoneKeeps, RespondDoneKeeps, PublishDoneKeeps DEF CallbackNext
<1> QED  BY <1>1, <1>2, <1>3, <1>4, <1>5, <1>6 DEF Next, Step

-----------------------------------------------------------------------------
(***************************************************************************)
(* When two threads can have met.  The request thread only pushes, and the *)
(* backend's thread only answers, after a failure.                         *)
(***************************************************************************)
Mishap == thread.pc = "tail" \/ Responding(backend.pc) \/ met

FailureInv == /\ faults \in Nat /\ met \in BOOLEAN
              /\ Mishap => faults > 0

(* Actions after which there is a mishap only if there was one before.     *)
Calm == /\ UNCHANGED faults
        /\ thread'.pc = "tail" => thread.pc = "tail"
        /\ Responding(backend'.pc) => Responding(backend.pc)

LEMMA StepFails ==
    ASSUME FailureInv, Step
    PROVE  Calm \/ faults' = faults + 1
<1>1. CASE \E b \in Bios : MakeRequest(b) \/ Decongested(b)
  BY <1>1 DEF MakeRequest, Decongested, Calm, bvars
<1>2. CASE TakeBio
  <2>1. thread'.pc = "tail" => thread.pc = "tail"
    BY <1>2 DEF TakeBio, RequestThread
  <2> QED  BY <1>2, <2>1 DEF TakeBio, RequestThread, Calm, bvars
<1>3. CASE GetBioContext
  <2>1. thread'.pc = "tail" => thread.pc = "tail"
    BY <1>3 DEF GetBioContext, RequestThread
  <2> QED  BY <1>3, <2>1 DEF GetBioContext, RequestThread, Calm, bvars
<1>4. CASE RequestStep
  <2>1. thread'.pc = "tail" => thread.pc = "tail"
    BY <1>4 DEF RequestStep, RequestThread
  <2> QED  BY <1>4, <2>1 DEF RequestStep, RequestThread, Calm, bvars
<1>5. CASE RequestStart \/ BreakEnd
  <2>1. thread' = Idle /\ UNCHANGED <<faults, backend>>
    BY <1>5 DEF RequestStart, BreakEnd, RequestThread, bvars
  <2> QED  BY <2>1 DEF Idle, Calm
<1>6. CASE NoBioContext \/ RequestStepFails \/ TransferFails
  BY <1>6 DEF NoBioContext, RequestStepFails, TransferFails, Fail
<1>7. CASE WorkNext
  BY <1>7, Zenon DEF WorkNext, TakeAck, DoneTail, DoneEnd, CompletionWork, Calm, bvars
<1>8. CASE BackendNext
  <2>1. UNCHANGED <<faults, thread>>
    BY <1>8, Zenon DEF BackendNext, GetNextRequest, Transfer, RespondError, PublishError,
                       BackendThread, fvars
  <2>2. Responding(backend'.pc) => Responding(backend.pc)
    <3>1. CASE GetNextRequest
      <4>1. backend'.pc = "transfer"
        BY <3>1 DEF GetNextRequest, BackendIdle
      <4> QED  BY <4>1 DEF Responding
    <3>2. CASE Transfer
      <4>1. backend'.pc = "idle" \/ backend'.pc = backend.pc \/ ~Responding(backend'.pc)
        BY <3>2 DEF Transfer, BackendIdle
      <4> QED  BY <4>1 DEF Responding
    <3>3. CASE RespondError
      BY <3>3 DEF RespondError, WriteRet, Responding
    <3>4. CASE PublishError
      <4>1. backend'.pc = "idle"
        BY <3>4 DEF PublishError, BackendIdle
      <4> QED  BY <4>1 DEF Responding
    <3> QED  BY <1>8, <3>1, <3>2, <3>3, <3>4 DEF BackendNext
  <2> QED  BY <2>1, <2>2 DEF Calm
<1>9. CASE CallbackNext
  BY <1>9, Zenon DEF CallbackNext, TransferDone, RespondDone, PublishDone, Callback, Calm, fvars
<1> QED  BY <1>1, <1>2, <1>3, <1>4, <1>5, <1>6, <1>7, <1>8, <1>9 DEF Step, FrontendNext

LEMMA FailureStep ==
    ASSUME FailureInv, [Next]_vars
    PROVE  FailureInv'
<1>1. CASE UNCHANGED vars
  BY <1>1 DEF FailureInv, Mishap, vars, fvars, bvars
<1>2. CASE Next
  <2>1. Calm \/ faults' = faults + 1
    BY <1>2, StepFails DEF Next
  <2>2. met' = (met \/ Together')
    BY <1>2 DEF Next, History
  <2>3. met' \in BOOLEAN
    BY <2>2 DEF FailureInv
  <2>4. CASE faults' = faults + 1
    BY <2>3, <2>4 DEF FailureInv
  <2>5. CASE Calm
    <3>1. met' => met \/ thread.pc = "tail" \/ Responding(backend.pc)
      BY <2>2, <2>5 DEF Together, Calm
    <3> QED  BY <2>3, <2>5, <3>1 DEF FailureInv, Mishap, Calm
  <2> QED  BY <2>1, <2>4, <2>5
<1> QED  BY <1>1, <1>2

(***************************************************************************)
(* As long as nothing has failed no two threads meet in code that has no   *)
(* lock: what is proved below of the time before they meet holds of all    *)
(* behaviours without failures, of the code as it is.                      *)
(***************************************************************************)
THEOREM OnlyFailuresMeet == Spec => [](met => faults > 0)
<1>1. Init => FailureInv
  <2> SUFFICES ASSUME Init
               PROVE  FailureInv
    OBVIOUS
  <2>1. faults = 0 /\ met = FALSE
    BY DEF Init
  <2>2. thread.pc = "idle"
    BY DEF Init, Idle
  <2>3. backend.pc = "idle"
    BY DEF Init, BackendIdle
  <2> QED  BY <2>1, <2>2, <2>3 DEF FailureInv, Mishap, Responding
<1>2. FailureInv /\ [Next]_vars => FailureInv'
  BY FailureStep
<1>3. FailureInv => (met => faults > 0)
  BY DEF FailureInv, Mishap
<1> QED  BY <1>1, <1>2, <1>3, PTL DEF Spec

-----------------------------------------------------------------------------
(***************************************************************************)
(* The inductive invariant: bios, contexts, mappings, entries, transfers   *)
(* and answers are each at one place, whatever the interleaving of the     *)
(* submitters, the threads of vcablk_disk.c and vcablk_bcknd_disk.c, the   *)
(* completion work and the callbacks of the channel.  Until two pushes or  *)
(* two answers overlap.                                                    *)
(***************************************************************************)
THEOREM BlockInvariant == Spec => [](met \in BOOLEAN /\ (~met => BlockInv))
<1> DEFINE Inv == met \in BOOLEAN /\ (~met => BlockInv)
<1>1. Init => Inv
  <2>1. Init => met = FALSE
    BY DEF Init
  <2> QED  BY <2>1, InitiallyClean
<1>2. Inv /\ [Next]_vars => Inv'
  <2> SUFFICES ASSUME Inv, [Next]_vars
               PROVE  Inv'
    OBVIOUS
  <2>1. met' \in BOOLEAN /\ (~met' => ~met /\ (UNCHANGED vars \/ ~Together'))
    BY DEF Next, History, vars
  <2>2. ASSUME ~met'
        PROVE  BlockInv'
    <3>1. CASE UNCHANGED vars
      BY <2>1, <2>2, <3>1, StutterKeeps
    <3>2. CASE ~Together'
      BY <2>1, <2>2, <3>2, StepKeeps
    <3> QED  BY <2>1, <2>2, <3>1, <3>2
  <2> QED  BY <2>1, <2>2
<1> QED  BY <1>1, <1>2, PTL DEF Spec

LEMMA InvTypes ==
    ASSUME BlockInv
    PROVE  Typed
<1>1. FrontendTyped /\ BackendTyped /\ RingsTyped
  BY DEF BlockInv
<1>2. buffer_free \in 0..MaxParts
  <2>1. buffer_free \in Nat /\ Len(dma) \in Nat /\ buffer_free + Len(dma) <= MaxParts
        /\ MaxParts \in Nat
    BY <1>1, Sizes DEF BackendTyped
  <2> QED  BY <2>1
<1>3. /\ backend.pc \in {"idle", "transfer", "respond", "publish"}
      /\ callback.pc \in {"idle", "respond", "publish"}
      /\ media \in [Sectors -> Bios \union {Blank}] /\ faults \in 0..MaxFaults
  BY <1>1 DEF BackendTyped
<1>4. /\ request_ring.last_add \in 0..2 * RequestNum - 1
      /\ request_ring.last_used \in 0..2 * RequestNum - 1
      /\ completion_ring.last_add \in 0..2 * AckNum - 1
      /\ completion_ring.last_used \in 0..2 * AckNum - 1
  BY <1>1 DEF RingsTyped
<1>5. /\ status \in [Bios -> {"new", "waiting", "listed", "ok", "error"}]
      /\ ends \in [Bios -> Nat]
      /\ request_bio_list \in Seq(Bios)
      /\ bio_context_pool \in [head : Ids, tail : Ids, next_free : [Ids -> 0..PoolUsed]]
      /\ bio_context \in [Ids -> [bio : Bios \union {NoValue}, bvecs : 0..RequestNum]]
      /\ bvec_free \in 0..RequestNum
      /\ request_ring_alloc \in 0..2 * RequestNum - 1
      /\ thread \in [pc : {"idle", "context", "step", "start", "tail"},
                     bio : Bios \union {NoValue}, id : Ids, part : Nat]
      /\ completion_work \in [pc : {"idle", "tail", "end"}, id : Ids,
                              bio : Bios \union {NoValue}, ret : {"ok", "error"}]
  BY <1>1 DEF FrontendTyped, SomeBio, Statuses
<1> QED  BY <1>2, <1>3, <1>4, <1>5 DEF Typed

(* The variables of both drivers hold values of their kind: indices of     *)
(* rings and pools stay within them, at least until a failure lets two     *)
(* threads meet.                                                           *)
THEOREM BlockTypes == Spec => []TypeOK
<1>1. met \in BOOLEAN /\ (~met => BlockInv) /\ (met => faults > 0) => TypeOK
  BY InvTypes DEF TypeOK
<1> QED  BY <1>1, BlockInvariant, OnlyFailuresMeet, PTL

LEMMA InvConserves ==
    ASSUME BlockInv
    PROVE  ContextsListed /\ QuietMeansClean
<1> USE DEF BlockInv
<1>1. ASSUME \A b \in Bios : status[b] \in {"new", "ok", "error"}
      PROVE  UsedIds = {} /\ bvec_free = RequestNum
  <2>1. ASSUME NEW c \in UsedIds
        PROVE  FALSE
    <3>1. BioOf(c) \in Bios /\ status[BioOf(c)] = "listed"
      BY ContextsBio
    <3> QED  BY <1>1, <3>1
  <2>2. UsedIds = {}
    BY <2>1
  <2>3. PICK owner \in [1..RequestNum -> 0..PoolUsed] :
           /\ \A i \in Ids \ UsedIds : Held(owner, i) = {}
           /\ Cardinality(Held(owner, PoolUsed)) = bvec_free
    BY DEF Mapped
  <2>4. \A i \in 0..PoolUsed : i \in Ids \/ i = PoolUsed
    BY Sizes
  <2>5. Held(owner, PoolUsed) = 1..RequestNum
    <3>1. ASSUME NEW m \in 1..RequestNum
          PROVE  owner[m] = PoolUsed
      <4>1. owner[m] \in 0..PoolUsed /\ m \in Held(owner, owner[m])
        BY DEF Held
      <4> QED  BY <2>2, <2>3, <2>4, <4>1
    <3> QED  BY <3>1 DEF Held
  <2>6. Cardinality(1..RequestNum) = RequestNum
    BY FS_Interval, Sizes
  <2> QED  BY <2>2, <2>3, <2>5, <2>6
<1> QED  BY <1>1 DEF QuietMeansClean

(***************************************************************************)
(* The list of free contexts loses none and hands none out twice, although *)
(* the request thread pops from it while the completion work pushes to it  *)
(* without a lock (vcablk_pool.h), and once every bio has ended all        *)
(* contexts and mappings are back, as vcablk_disk_stop asserts.  Until the *)
(* request thread pushes too, after a failure, while the work does.        *)
(***************************************************************************)
THEOREM PoolIsConserved == Spec => []PoolConserved
<1>1. (~met => BlockInv) => PoolConserved
  BY InvConserves DEF PoolConserved
<1> QED  BY <1>1, BlockInvariant, PTL

LEMMA InvRoom ==
    ASSUME BlockInv
    PROVE  AckRoom
<1> USE DEF BlockInv
<1>1. ASSUME NEW a, a = completion_ring.last_add,
             Responding(backend.pc) \/ Responding(callback.pc)
      PROVE  ~BuffFull(a, completion_ring.last_used, AckNum)
  <2>1. Answers \in Nat /\ Answers < AckNum /\ AckNum \in Nat \ {0}
    BY <1>1, RoomToAnswer, Sizes
  <2>2. PICK n \in Nat \ {0} : n = AckNum
    BY <2>1
  <2>3. PICK u \in 0..2 * n - 1 : u = completion_ring.last_used
    BY <2>2 DEF RingsTyped
  <2>4. a \in 0..2 * n - 1
    BY <1>1, <2>2 DEF RingsTyped
  <2>5. BuffFull(a, u, n) <=> Dist(a, u, n) = n
    BY <2>4, FullIs
  <2>6. Dist(a, u, n) # n
    BY <1>1, <2>1, <2>2, <2>3 DEF Answers
  <2> QED  BY <2>2, <2>3, <2>5, <2>6
<1>2. backend.pc = "respond" => ~BuffFull(backend.last_add, completion_ring.last_used, AckNum)
  BY <1>1 DEF Responders, Answering, Responding
<1>3. callback.pc = "respond" => ~BuffFull(callback.last_add, completion_ring.last_used, AckNum)
  BY <1>1 DEF Responders, Answering, Responding
<1> QED  BY <1>2, <1>3 DEF AckRoom

(* Whenever vcablk_bcknd_disk_send_response is called, the completion ring *)
(* has room: the wait of 2 seconds in it is never needed, until an error   *)
(* is answered while a callback answers.                                   *)
THEOREM RoomForAnswers == Spec => []AckRoom
<1>1. met => AckRoom
  BY DEF AckRoom
<1>2. met \in BOOLEAN /\ (~met => BlockInv) => AckRoom
  BY <1>1, InvRoom
<1> QED  BY <1>2, BlockInvariant, PTL

-----------------------------------------------------------------------------
(* The frontend and the backend are a block device.                        *)

Took == moved \union Filled

(* No bio has ended twice, nor without an error before its data had moved. *)
LEMMA StatusIs ==
    ASSUME BlockInv, NEW b \in Bios
    PROVE  DeviceStatus(b) = IF status[b] \in {"waiting", "listed"} THEN "pending" ELSE status[b]
<1> USE DEF BlockInv
<1>1. ~(ends[b] > 1)
  BY DEF BiosHeld
<1>2. status[b] = "ok" => AllMoved(b)
  BY DEF Ended, Finished
<1> QED  BY <1>1, <1>2 DEF DeviceStatus

LEMMA StatusIsNext ==
    ASSUME BlockInv', NEW b \in Bios
    PROVE  DeviceStatus(b)' = IF status'[b] \in {"waiting", "listed"} THEN "pending" ELSE status'[b]
<1>1. ~(ends'[b] > 1)
  <2>1. ends'[b] = IF status'[b] \in {"ok", "error"} THEN 1 ELSE 0
    BY DEF BlockInv, BiosHeld
  <2> QED  BY <2>1
<1>2. status'[b] = "ok" => AllMoved(b)'
  BY DEF BlockInv, Ended, Finished
<1> QED  BY <1>1, <1>2 DEF DeviceStatus

SameStatus == \A x \in Bios : DeviceStatus(x)' = DeviceStatus(x)

LEMMA StatusFrame ==
    ASSUME BlockInv, BlockInv', UNCHANGED status
    PROVE  SameStatus
<1> SUFFICES ASSUME NEW x \in Bios
             PROVE  DeviceStatus(x)' = DeviceStatus(x)
  BY DEF SameStatus
<1>1. DeviceStatus(x)' = IF status'[x] \in {"waiting", "listed"} THEN "pending" ELSE status'[x]
  BY StatusIsNext
<1> QED  BY <1>1, StatusIs

LEMMA DeviceStutters ==
    ASSUME SameStatus, UNCHANGED media, Took' = Took
    PROVE  UNCHANGED Device!vars
  BY DEF SameStatus, Took, Device!vars

(* A bio is submitted or ends.                                             *)
LEMMA DeviceTurns ==
    ASSUME BlockInv, BlockInv', NEW b \in Bios, NEW s, UNCHANGED <<media, moved, dma>>,
           \A x \in Bios : status'[x] = IF x = b THEN s ELSE status[x],
           \/ status[b] = "new" /\ s \in {"waiting", "listed", "error"}
           \/ status[b] \in {"waiting", "listed"} /\ s \in {"ok", "error"}
    PROVE  Device!Next
<1>1. PICK p : p = IF s \in {"waiting", "listed"} THEN "pending" ELSE s
  OBVIOUS
<1>2. \A x \in Bios : DeviceStatus(x)' = IF x = b THEN p ELSE DeviceStatus(x)
  <2> TAKE x \in Bios
  <2>1. DeviceStatus(x)' = IF status'[x] \in {"waiting", "listed"} THEN "pending" ELSE status'[x]
    BY StatusIsNext
  <2>2. DeviceStatus(x) = IF status[x] \in {"waiting", "listed"} THEN "pending" ELSE status[x]
    BY StatusIs
  <2> QED  BY <1>1, <2>1, <2>2
<1>3. [x \in Bios |-> DeviceStatus(x)]' = [[x \in Bios |-> DeviceStatus(x)] EXCEPT ![b] = p]
  BY <1>2
<1>4. Took' = Took
  BY DEF Took, Filled
<1>5. DeviceStatus(b) = IF status[b] \in {"waiting", "listed"} THEN "pending" ELSE status[b]
  BY StatusIs
<1>6. CASE status[b] = "new" /\ s \in {"waiting", "listed"}
  <2>1. Device!Submit(b)
    BY <1>1, <1>3, <1>4, <1>5, <1>6 DEF Device!Submit, Took
  <2> QED  BY <2>1 DEF Device!Next
<1>7. CASE s = "error"
  <2>1. Device!Fail(b)
    BY <1>1, <1>3, <1>4, <1>5, <1>7 DEF Device!Fail, Took
  <2> QED  BY <2>1 DEF Device!Next
<1>8. CASE s = "ok"
  <2>1. status'[b] = "ok"
    BY <1>8
  <2>2. AllMoved(b)
    BY <2>1 DEF BlockInv, Ended, Finished, AllMoved
  <2>3. \A u \in Device!Units(b) : Device!Taken(b, u)
    BY <2>2 DEF AllMoved, Units, Device!Units, Device!Taken
  <2>4. Device!Succeed(b)
    BY <1>1, <1>3, <1>4, <1>5, <1>8, <2>3 DEF Device!Succeed, Took
  <2> QED  BY <2>4 DEF Device!Next
<1> QED  BY <1>6, <1>7, <1>8

(* A unit of a bio takes place.                                            *)
Takes(b, p, k, v) ==
    /\ SameStatus /\ DeviceStatus(b) \in {"pending", "error"}
    /\ <<p, k>> \in Units(b)
    /\ \A m \in Took : ~(m.bio = b /\ m.unit = <<p, k>>)
    /\ Took' = Took \union {[bio |-> b, unit |-> <<p, k>>, data |-> v]}
    /\ \/ b \in Writes /\ v = b /\ media' = [media EXCEPT ![Parts[b][p][k]] = b]
       \/ b \notin Writes /\ v = media[Parts[b][p][k]] /\ media' = media

LEMMA DeviceTakes ==
    ASSUME NEW b \in Bios, NEW p, NEW k, NEW v, Takes(b, p, k, v)
    PROVE  Device!Next
<1>0. /\ SameStatus /\ DeviceStatus(b) \in {"pending", "error"}
      /\ <<p, k>> \in Units(b)
      /\ \A m \in Took : ~(m.bio = b /\ m.unit = <<p, k>>)
      /\ Took' = Took \union {[bio |-> b, unit |-> <<p, k>>, data |-> v]}
      /\ \/ b \in Writes /\ v = b /\ media' = [media EXCEPT ![Parts[b][p][k]] = b]
         \/ b \notin Writes /\ v = media[Parts[b][p][k]] /\ media' = media
  BY Zenon DEF Takes
<1>1. PICK u : u = <<p, k>> /\ u[1] = p /\ u[2] = k
  <2>1. <<p, k>>[1] = p /\ <<p, k>>[2] = k
    OBVIOUS
  <2> QED  BY <2>1, Zenon
<1>2. [x \in Bios |-> DeviceStatus(x)]' = [x \in Bios |-> DeviceStatus(x)]
  BY <1>0 DEF SameStatus
<1>3. Device!TakePlace(b, u, v)
  BY <1>0, <1>1, <1>2 DEF Device!TakePlace, Device!Taken, Took
<1>4. Device!Write(b, u) \/ Device!Read(b, u)
  BY <1>0, <1>1, <1>3 DEF Device!Write, Device!Read, Device!SectorOf
<1>5. u \in Device!Units(b)
  BY <1>0, <1>1 DEF Units, Device!Units
<1> QED  BY <1>4, <1>5 DEF Device!Next

LEMMA FilledIs ==
    ASSUME NEW m
    PROVE  m \in Filled <=> \E i \in 1..Len(dma) : dma[i].bio \notin Writes /\ m = Moved(dma[i])
  BY DEF Filled

(* The action that moves nothing and ends no bio.                          *)
LEMMA NothingMoves ==
    ASSUME BlockInv, BlockInv', UNCHANGED <<status, media, moved, dma>>
    PROVE  UNCHANGED Device!vars
<1>1. SameStatus
  BY StatusFrame
<1>2. Took' = Took
  BY DEF Took, Filled
<1> QED  BY <1>1, <1>2, DeviceStutters

LEMMA EndsBio ==
    ASSUME BlockInv, BlockInv', NEW b \in Bios, NEW s \in {"ok", "error"},
           status[b] = "listed", BioEnd(b, s), UNCHANGED <<media, moved, dma>>
    PROVE  Device!Next
<1>1. \A x \in Bios : status'[x] = IF x = b THEN s ELSE status[x]
  BY DEF BioEnd, BlockInv, FrontendTyped
<1> HIDE DEF BlockInv
<1> QED  BY <1>1, DeviceTurns

LEMMA MakeRequestDevice ==
    ASSUME BlockInv, BlockInv', NEW b \in Bios, MakeRequest(b)
    PROVE  Device!Next
<1>1. PICK s \in {"waiting", "listed", "error"} : status' = [status EXCEPT ![b] = s]
  BY DEF MakeRequest, BioEnd
<1>2. \A x \in Bios : status'[x] = IF x = b THEN s ELSE status[x]
  BY <1>1 DEF BlockInv, FrontendTyped
<1>3. status[b] = "new" /\ UNCHANGED <<media, moved, dma>>
  BY DEF MakeRequest, bvars
<1> HIDE DEF BlockInv
<1> QED  BY <1>2, <1>3, DeviceTurns

(* A submitter that waited has submitted its bio before.                   *)
LEMMA DecongestedDevice ==
    ASSUME BlockInv, BlockInv', NEW b \in Bios, Decongested(b)
    PROVE  UNCHANGED Device!vars
<1>1. status[b] = "waiting" /\ \A x \in Bios : status'[x] = IF x = b THEN "listed" ELSE status[x]
  BY DEF Decongested, BlockInv, FrontendTyped
<1>2. UNCHANGED <<media, moved, dma>>
  BY DEF Decongested, bvars
<1> HIDE DEF BlockInv
<1>3. SameStatus
  <2> SUFFICES ASSUME NEW x \in Bios
               PROVE  DeviceStatus(x)' = DeviceStatus(x)
    BY DEF SameStatus
  <2>1. DeviceStatus(x)' = IF status'[x] \in {"waiting", "listed"} THEN "pending" ELSE status'[x]
    BY StatusIsNext
  <2>2. DeviceStatus(x) = IF status[x] \in {"waiting", "listed"} THEN "pending" ELSE status[x]
    BY StatusIs
  <2> QED  BY <1>1, <2>1, <2>2
<1>4. Took' = Took
  BY <1>2 DEF Took, Filled
<1> QED  BY <1>2, <1>3, <1>4, DeviceStutters

LEMMA ThreadEndsDevice ==
    ASSUME BlockInv, BlockInv', NoBioContext \/ BreakEnd
    PROVE  Device!Next
<1>1. PICK b : b = thread.bio
  OBVIOUS
<1>2. thread.pc \in {"context", "tail"}
  BY DEF NoBioContext, BreakEnd
<1>3. b \in Bios /\ ThreadHas(b)
  BY <1>1, <1>2 DEF BlockInv, BiosHeld, ThreadHas
<1>4. status[b] = "listed"
  <2>1. Holds("thread", b)
    BY <1>3 DEF Holds
  <2> QED  BY <1>3, <2>1 DEF BlockInv, BiosHeld, Holders
<1>5. BioEnd(b, "error") /\ UNCHANGED <<media, moved, dma>>
  BY <1>1 DEF NoBioContext, BreakEnd, RequestThread, bvars
<1> HIDE DEF BlockInv
<1> QED  BY <1>3, <1>4, <1>5, EndsBio

LEMMA DoneEndDevice ==
    ASSUME BlockInv, BlockInv', DoneEnd
    PROVE  Device!Next
<1>1. PICK b : b = completion_work.bio
  OBVIOUS
<1>2. PICK s \in {"ok", "error"} : s = completion_work.ret
  BY DEF BlockInv, FrontendTyped
<1>3. b \in Bios /\ WorkHas(b)
  BY <1>1 DEF BlockInv, BiosHeld, WorkHas, DoneEnd
<1>4. status[b] = "listed"
  <2>1. Holds("work", b)
    BY <1>3 DEF Holds
  <2> QED  BY <1>3, <2>1 DEF BlockInv, BiosHeld, Holders
<1>5. BioEnd(b, s) /\ UNCHANGED <<media, moved, dma>>
  BY <1>1, <1>2 DEF DoneEnd, DoneBio, CompletionWork, bvars
<1> HIDE DEF BlockInv
<1> QED  BY <1>3, <1>4, <1>5, EndsBio

(* The buffer of a part is given to the channel: what is read is read now. *)
LEMMA TransferDevice ==
    ASSUME BlockInv, BlockInv', Transfer
    PROVE  Device!Next \/ UNCHANGED Device!vars
<1>0. PICK c, b, p, k, t : /\ c = Cookie - 1 /\ b = BioOf(c) /\ p = backend.id /\ k = backend.k
         /\ t = [bio |-> Entry.bio, unit |-> Unit,
                 data |-> IF Entry.bio \in Writes THEN Entry.bio
                          ELSE media[Parts[Entry.bio][Entry.part][backend.k]],
                 cookie |-> ResponseCookie]
  OBVIOUS
<1>1. /\ backend.pc = "transfer" /\ dma' = Append(dma, t)
      /\ UNCHANGED <<status, ends, media, moved>>
  BY <1>0 DEF Transfer, BackendThread, fvars
<1>2. /\ c \in UsedIds /\ b \in Bios /\ At("backend", c)
      /\ Entry.bio = b /\ Entry.part = p /\ Unit = <<p, k>>
      /\ <<p, k>> \in Units(b)
  BY <1>0, <1>1, BackendHas
<1>3. t.bio = b /\ t.unit = <<p, k>> /\ (b \notin Writes => t.data = media[Parts[b][p][k]])
  BY <1>0, <1>2
<1>4. ~Submitted(b, <<p, k>>)
  <2>1. Submitted(b, <<p, k>>) <=> Before(<<p, k>>, p, k)
    BY <1>0, <1>1, <1>2 DEF BlockInv, BackendProgress
  <2>2. p \in Nat /\ k \in Nat
    BY <1>0 DEF BlockInv, BackendTyped
  <2> QED  BY <2>1, <2>2 DEF Before
<1>5. /\ Len(dma) \in Nat /\ Len(dma') = Len(dma) + 1
      /\ \A i \in 1..Len(dma) : dma'[i] = dma[i]
      /\ dma'[Len(dma) + 1] = t
  BY <1>1, Submits DEF BlockInv
<1>6. DeviceStatus(b) = "pending"
  <2>1. status[b] = "listed"
    BY <1>0, <1>2, ContextsBio
  <2> QED  BY <1>2, <2>1, StatusIs
<1> HIDE DEF BlockInv
<1>7. SameStatus
  BY <1>1, StatusFrame
<1>8. \A m : m \in Filled' <=> m \in Filled \/ (b \notin Writes /\ m = Moved(t))
  <2> SUFFICES ASSUME NEW m
               PROVE  m \in Filled' <=> m \in Filled \/ (b \notin Writes /\ m = Moved(t))
    OBVIOUS
  <2>1. m \in Filled <=> \E i \in 1..Len(dma) : dma[i].bio \notin Writes /\ m = Moved(dma[i])
    BY FilledIs
  <2>2. m \in Filled' <=> \E i \in 1..Len(dma) + 1 : dma'[i].bio \notin Writes /\ m = Moved(dma'[i])
    BY <1>5 DEF Filled, Moved
  <2>3. \A i \in 1..Len(dma) + 1 : i \in 1..Len(dma) \/ i = Len(dma) + 1
    BY <1>5
  <2>4. 1..Len(dma) \subseteq 1..Len(dma) + 1 /\ Len(dma) + 1 \in 1..Len(dma) + 1
    BY <1>5
  <2> QED  BY <1>3, <1>5, <2>1, <2>2, <2>3, <2>4
<1>9. CASE b \in Writes
  <2>1. Took' = Took
    BY <1>1, <1>8, <1>9 DEF Took
  <2> QED  BY <1>1, <1>7, <2>1, DeviceStutters
<1>10. CASE b \notin Writes
  <2>1. PICK v : v = media[Parts[b][p][k]]
    OBVIOUS
  <2>2. Moved(t) = [bio |-> b, unit |-> <<p, k>>, data |-> v]
    BY <1>3, <1>10, <2>1 DEF Moved
  <2>3. Took' = Took \union {[bio |-> b, unit |-> <<p, k>>, data |-> v]}
    BY <1>1, <1>8, <1>10, <2>2 DEF Took
  <2>4. \A m \in Took : ~(m.bio = b /\ m.unit = <<p, k>>)
    BY <1>4, FilledIs DEF Took, Submitted, IsMoved, InDma, Moved
  <2>5. \/ b \in Writes /\ v = b /\ media' = [media EXCEPT ![Parts[b][p][k]] = b]
        \/ b \notin Writes /\ v = media[Parts[b][p][k]] /\ media' = media
    BY <1>1, <1>10, <2>1
  <2>6. DeviceStatus(b) \in {"pending", "error"} /\ b \in Bios /\ <<p, k>> \in Units(b)
    BY <1>2, <1>6
  <2>7. Takes(b, p, k, v)
    BY <1>7, <2>3, <2>4, <2>5, <2>6, Zenon DEF Takes
  <2>8. Device!Next
    BY <1>2, <2>7, DeviceTakes
  <2> QED  BY <2>8
<1> QED  BY <1>9, <1>10

(* The data of a unit has moved: what is written is written now.           *)
LEMMA TransferDoneDevice ==
    ASSUME BlockInv, BlockInv', TransferDone
    PROVE  Device!Next \/ UNCHANGED Device!vars
<1>0. PICK t, b : t = Head(dma) /\ b = t.bio
  OBVIOUS
<1>1. /\ callback.pc = "idle" /\ dma # <<>> /\ UNCHANGED <<status, ends>>
      /\ moved' = moved \union {Moved(t)}
      /\ media' = IF t.bio \in Writes THEN [media EXCEPT ![Parts[t.bio][t.unit[1]][t.unit[2]]] = t.data]
                  ELSE media
      /\ dma' = dma \/ dma' = Tail(dma)
  <2>1. callback.pc = "idle" /\ dma # <<>> /\ UNCHANGED <<status, ends>>
    BY DEF TransferDone, Callback, fvars
  <2>2. /\ moved' = moved \union {Moved(t)}
        /\ media' = IF t.bio \in Writes THEN [media EXCEPT ![Parts[t.bio][t.unit[1]][t.unit[2]]] = t.data]
                    ELSE media
    BY <1>0, Zenon DEF TransferDone
  <2>3. dma' = dma \/ dma' = Tail(dma)
    BY DEF TransferDone, BufferPushed
  <2> QED  BY <2>1, <2>2, <2>3, Zenon
<1>2. PICK L \in Nat : L = Len(dma) /\ 1 \in 1..L /\ t = dma[1] /\ t \in Transfers
  <2>1. dma \in Seq(Transfers)
    BY DEF BlockInv, BackendTyped
  <2> HIDE DEF BlockInv
  <2>2. Len(dma) \in Nat /\ 1 \in 1..Len(dma) /\ t = dma[1] /\ t \in Transfers
    BY <1>0, <1>1, <2>1, SMTT(30)
  <2> QED  BY <2>2
<1>3. b \in Bios /\ t.unit \in Nat \X Nat
  BY <1>0, <1>2 DEF Transfers
<1>4. PICK p \in Nat, k \in Nat : t.unit = <<p, k>> /\ t.unit[1] = p /\ t.unit[2] = k
  BY <1>3
<1>5. /\ <<p, k>> \in Units(b) /\ (b \in Writes => t.data = b) /\ ~IsMoved(b, <<p, k>>)
  <2>1. /\ dma[1].unit \in Units(dma[1].bio)
        /\ dma[1].bio \in Writes => dma[1].data = dma[1].bio
        /\ ~IsMoved(dma[1].bio, dma[1].unit)
    BY <1>1, <1>2 DEF BlockInv, TransfersQueued
  <2> QED  BY <1>0, <1>2, <1>4, <2>1
<1>6. DeviceStatus(b) \in {"pending", "error"}
  <2>1. InDma(1, b, <<p, k>>)
    BY <1>0, <1>2, <1>4 DEF InDma
  <2>2. Submitted(b, <<p, k>>)
    BY <1>2, <2>1 DEF Submitted
  <2>3. ~Untouched(b)
    BY <1>5, <2>2 DEF Untouched
  <2>4. ~Finished(b)
    BY <1>0, <1>2 DEF Finished
  <2>5. status[b] \notin {"new", "ok"}
    BY <1>3, <2>3, <2>4 DEF BlockInv, NotBegun, Ended
  <2>6. status[b] \in Statuses
    BY <1>3 DEF BlockInv, FrontendTyped
  <2> QED  BY <1>3, <2>5, <2>6, StatusIs DEF Statuses
<1>7. /\ L = Len(dma) /\ \A i \in 1..L : dma[i].bio = b /\ dma[i].unit = <<p, k>> => i = 1
  BY <1>0, <1>2, <1>4 DEF BlockInv, TransfersQueued, InDma
<1>8. dma' = Tail(dma) => Len(dma') = L - 1 /\ \A i \in 1..L - 1 : dma'[i] = dma[i + 1]
  <2>1. dma \in Seq(Transfers)
    BY DEF BlockInv, BackendTyped
  <2> HIDE DEF BlockInv
  <2> QED  BY <1>1, <1>2, <2>1, SMTT(30)
<1> HIDE DEF BlockInv
<1>9. SameStatus
  BY <1>1, StatusFrame
<1>10. PICK F : F = {Moved(t)}
  OBVIOUS
<1>11. /\ Filled \subseteq Filled' \union F /\ Filled' \subseteq Filled
  <2>1. \A m : m \in Filled <=> \E i \in 1..L : dma[i].bio \notin Writes /\ m = Moved(dma[i])
    BY <1>2, FilledIs
  <2>2. \A m : m \in Filled' <=> \E i \in 1..Len(dma') : dma'[i].bio \notin Writes /\ m = Moved(dma'[i])
    BY DEF Filled, Moved
  <2>3. CASE dma' = dma
    BY <1>2, <2>1, <2>2, <2>3
  <2>4. CASE dma' = Tail(dma)
    <3>1. \A i \in 1..L : i = 1 \/ (i - 1 \in 1..L - 1 /\ (i - 1) + 1 = i)
      BY <1>2
    <3>2. \A i \in 1..L - 1 : i + 1 \in 1..L
      BY <1>2
    <3>3. Len(dma') = L - 1 /\ \A i \in 1..L - 1 : dma'[i] = dma[i + 1]
      BY <1>8, <2>4
    <3>4. ASSUME NEW m \in Filled, m # Moved(t)
          PROVE  m \in Filled'
      <4>1. PICK i \in 1..L : dma[i].bio \notin Writes /\ m = Moved(dma[i])
        BY <2>1
      <4>2. PICK j \in 1..L - 1 : j + 1 = i
        BY <1>2, <3>1, <3>4, <4>1
      <4>3. dma'[j] = dma[i]
        BY <3>3, <4>2
      <4> QED  BY <2>2, <3>3, <4>1, <4>3
    <3>5. ASSUME NEW m \in Filled'
          PROVE  m \in Filled
      <4>1. PICK j \in 1..L - 1 : dma'[j].bio \notin Writes /\ m = Moved(dma'[j])
        BY <2>2, <3>3
      <4> QED  BY <2>1, <3>2, <3>3, <4>1
    <3> QED  BY <1>10, <3>4, <3>5
  <2> QED  BY <1>1, <2>3, <2>4
<1>12. Took' = Took \union F
  BY <1>1, <1>10, <1>11 DEF Took
<1>13. CASE b \in Writes
  <2>1. F = {[bio |-> b, unit |-> <<p, k>>, data |-> b]}
    BY <1>0, <1>4, <1>5, <1>10, <1>13 DEF Moved
  <2>2. \A m \in Took : ~(m.bio = b /\ m.unit = <<p, k>>)
    BY <1>5, <1>13, FilledIs DEF Took, IsMoved, Moved
  <2>3. media' = [media EXCEPT ![Parts[b][p][k]] = b]
    BY <1>0, <1>1, <1>4, <1>5, <1>13
  <2>4. Took' = Took \union {[bio |-> b, unit |-> <<p, k>>, data |-> b]}
    BY <1>12, <2>1
  <2>5. \/ b \in Writes /\ b = b /\ media' = [media EXCEPT ![Parts[b][p][k]] = b]
        \/ b \notin Writes /\ b = media[Parts[b][p][k]] /\ media' = media
    BY <1>13, <2>3
  <2>6. b \in Bios /\ <<p, k>> \in Units(b)
    BY <1>3, <1>5
  <2>7. Takes(b, p, k, b)
    BY <1>6, <1>9, <2>2, <2>4, <2>5, <2>6, Zenon DEF Takes
  <2>8. Device!Next
    BY <1>3, <2>7, DeviceTakes
  <2> QED  BY <2>8
<1>14. CASE b \notin Writes
  <2>1. Moved(t) \in Filled
    BY <1>0, <1>2, <1>14, FilledIs
  <2>2. Took' = Took
    BY <1>10, <1>12, <2>1 DEF Took
  <2>3. media' = media
    BY <1>0, <1>1, <1>14
  <2> QED  BY <1>9, <2>2, <2>3, DeviceStutters
<1> QED  BY <1>13, <1>14

LEMMA PublishDoneDevice ==
    ASSUME BlockInv, BlockInv', PublishDone
    PROVE  UNCHANGED Device!vars
<1>1. /\ callback.pc = "publish" /\ dma' = Tail(dma)
      /\ UNCHANGED <<status, ends, media, moved>>
  BY DEF PublishDone, PublishAck, BufferPushed, Callback, fvars
<1>2. PICK L \in Nat : L = Len(dma) /\ 1 \in 1..L /\ Moved(dma[1]) \in moved
  BY <1>1 DEF BlockInv, BackendTyped, TransfersQueued
<1>3. Len(dma') = L - 1 /\ \A i \in 1..L - 1 : dma'[i] = dma[i + 1]
  BY <1>1, <1>2 DEF BlockInv, BackendTyped
<1> HIDE DEF BlockInv
<1>4. SameStatus
  BY <1>1, StatusFrame
<1>5. \A m : m \in Filled <=> \E i \in 1..L : dma[i].bio \notin Writes /\ m = Moved(dma[i])
  BY <1>2, FilledIs
<1>6. \A m : m \in Filled' <=> \E i \in 1..L - 1 : dma'[i].bio \notin Writes /\ m = Moved(dma'[i])
  BY <1>3 DEF Filled, Moved
<1>7. \A i \in 1..L : i = 1 \/ (i - 1 \in 1..L - 1 /\ (i - 1) + 1 = i)
  BY <1>2
<1>8. \A i \in 1..L - 1 : i + 1 \in 1..L
  BY <1>2
<1>9. /\ Filled \subseteq Filled' \union moved /\ Filled' \subseteq Filled
  <2>1. ASSUME NEW m \in Filled, m \notin moved
        PROVE  m \in Filled'
    <3>1. PICK i \in 1..L : dma[i].bio \notin Writes /\ m = Moved(dma[i])
      BY <1>5
    <3>2. PICK j \in 1..L - 1 : j + 1 = i
      BY <1>2, <1>7, <2>1, <3>1
    <3>3. dma'[j] = dma[i]
      BY <1>3, <3>2
    <3> QED  BY <1>6, <3>1, <3>3
  <2>2. ASSUME NEW m \in Filled'
        PROVE  m \in Filled
    <3>1. PICK j \in 1..L - 1 : dma'[j].bio \notin Writes /\ m = Moved(dma'[j])
      BY <1>6
    <3> QED  BY <1>3, <1>5, <1>8, <3>1
  <2> QED  BY <2>1, <2>2
<1>10. Took' = Took
  BY <1>1, <1>9 DEF Took
<1> QED  BY <1>1, <1>4, <1>10, DeviceStutters

(* Every step of the two drivers is a step of the block device, or none.   *)
LEMMA StepIsDevices ==
    ASSUME BlockInv, BlockInv', [Next]_vars
    PROVE  [Device!Next]_(Device!vars)
<1>1. CASE \E b \in Bios : MakeRequest(b) \/ Decongested(b)
  BY <1>1, MakeRequestDevice, DecongestedDevice
<1>2. CASE NoBioContext \/ BreakEnd
  BY <1>2, ThreadEndsDevice
<1>3. CASE DoneEnd
  BY <1>3, DoneEndDevice
<1>4. CASE Transfer
  BY <1>4, TransferDevice
<1>5. CASE TransferDone
  BY <1>5, TransferDoneDevice
<1>6. CASE PublishDone
  BY <1>6, PublishDoneDevice
<1>7. CASE \/ TakeBio \/ GetBioContext \/ RequestStep \/ RequestStart \/ RequestStepFails
           \/ TakeAck \/ DoneTail
           \/ GetNextRequest \/ RespondError \/ PublishError \/ TransferFails
           \/ RespondDone \/ UNCHANGED vars
  <2>1. CASE TakeBio \/ GetBioContext \/ RequestStep \/ RequestStart \/ RequestStepFails
    BY <2>1, NothingMoves DEF TakeBio, GetBioContext, RequestStep, RequestStart,
         RequestStepFails, RequestThread, bvars
  <2>2. CASE TakeAck
    BY <2>2, NothingMoves, Zenon DEF TakeAck, CompletionWork, bvars
  <2>3. CASE DoneTail
    BY <2>3, NothingMoves DEF DoneTail, CompletionWork, bvars
  <2>4. CASE GetNextRequest
    BY <2>4, NothingMoves, Zenon DEF GetNextRequest, BackendThread, fvars
  <2>5. CASE RespondError \/ PublishError \/ TransferFails
    BY <2>5, NothingMoves DEF RespondError, PublishError, TransferFails, BackendThread, fvars
  <2>6. CASE RespondDone
    BY <2>6, NothingMoves DEF RespondDone, Callback, fvars
  <2>7. CASE UNCHANGED vars
    BY <2>7, NothingMoves DEF vars, fvars, bvars
  <2> QED  BY <1>7, <2>1, <2>2, <2>3, <2>4, <2>5, <2>6, <2>7
<1> QED  BY <1>1, <1>2, <1>3, <1>4, <1>5, <1>6, <1>7
         DEF Next, Step, FrontendNext, WorkNext, BackendNext, CallbackNext

LEMMA InitIsDevices ==
    ASSUME Init
    PROVE  Device!Init
<1>1. \A b \in Bios : DeviceStatus(b) = "new"
  BY DEF Init, DeviceStatus
<1>2. moved \union Filled = {}
  BY DEF Init, Filled
<1> QED  BY <1>1, <1>2 DEF Init, Device!Init

(* What users see of vcablk_make_request and bio_endio is a block device:  *)
(* each page of a bio is read or written once, at one instant after the    *)
(* bio was submitted and never after it ended well; a bio ends once; and   *)
(* it ends without an error only when all of its data has moved.  This     *)
(* holds of every step until, after a failure, two pushes or two answers   *)
(* have overlapped, whatever the number of bios, contexts and ring         *)
(* elements and whichever of the failures happen.                          *)
THEOREM RefinesDevice == Spec => ImplementsDevice
<1> DEFINE Inv == met \in BOOLEAN /\ (~met => BlockInv)
<1>1. Init => Device!Init
  BY InitIsDevices
<1>2. Inv /\ Inv' /\ [Next]_vars => [~met' => Device!Next]_(Device!vars)
  <2> SUFFICES ASSUME Inv, Inv', [Next]_vars, ~met'
               PROVE  [Device!Next]_(Device!vars)
    OBVIOUS
  <2>1. ~met
    BY DEF Next, History, vars
  <2> QED  BY <2>1, StepIsDevices
<1> QED  BY <1>1, <1>2, BlockInvariant, PTL DEF Spec, ImplementsDevice
=============================================================================
