------------------------------ MODULE BlockIo -------------------------------
(***************************************************************************)
(* A block device of a node whose medium is on the host: the frontend      *)
(* (blockio/vcablk/vcablk_disk.c) turns bios into entries of a request     *)
(* ring, the backend (blockio/vcablk_bcknd/vcablk_bcknd_disk.c) executes   *)
(* them with an asynchronous DMA channel and answers in a completion ring. *)
(* Both rings are in the frontend's memory.  Modelled between the start of *)
(* the disk and its stop.                                                  *)
(*                                                                         *)
(* Five threads: submitters (make_request), the frontend's request thread, *)
(* its completion work, the backend's request thread and the callbacks of  *)
(* its DMA channel, which come one at a time in the order of submission    *)
(* (PlxDma!CallbacksInOrder).                                              *)
(*                                                                         *)
(* REQ_FLUSH is not modelled: the driver never tells the block layer that  *)
(* it has a cache to flush, so bios arrive without the flag.               *)
(***************************************************************************)
EXTENDS Integers, Sequences, FiniteSets

CONSTANTS
    Bios, Writes, Parts, Sectors, Blank, NoValue,   \* see BlockDevice
    ReadOnly,       \* whether the disk is read only
    Contexts,       \* VCABLK_BIO_CTX_POOL_SIZE
    AckNum,         \* VCABLK_QUEUE_ACK_NUMS, elements of the completion ring
    RequestNum,     \* elements of the request ring, and of the pool of mappings
    MaxParts,       \* VCABLK_MAX_PARTS_PER_REQUEST, and backend buffers
    CongestionOn, CongestionOff,
    Faults,         \* the failures considered
    MaxFaults       \* how many of them may happen: a bound

Failures == {"context", "room", "map", "remap", "buffer", "submit"}

(***************************************************************************)
(* The compile-time checks of vcablk_disk.h: ring sizes are powers of 2,   *)
(* there is an element for the answer of every context, and a bio fits     *)
(* into the request ring.                                                  *)
(***************************************************************************)
ASSUME SizesAssumption ==
    /\ {AckNum, RequestNum} \subseteq Nat \ {0}
    /\ {AckNum, RequestNum} \subseteq {2^i : i \in 0..16}
    /\ Contexts \in 1..AckNum
    /\ MaxParts \in Nat \ {0}
    /\ Parts \in [Bios -> Seq(Seq(Sectors))]
    /\ \A b \in Bios : Len(Parts[b]) \in 1..RequestNum /\ Len(Parts[b]) <= MaxParts
    /\ \A b \in Bios : \A p \in 1..Len(Parts[b]) : Len(Parts[b][p]) > 0
ASSUME ModesAssumption ==
    /\ ReadOnly \in BOOLEAN
    /\ Writes \subseteq Bios /\ Faults \subseteq Failures /\ MaxFaults \in Nat
    /\ CongestionOn \in Nat \ {0} /\ CongestionOff \in 1..CongestionOn

VARIABLES
    \* frontend
    status,             \* what became of each bio
    ends,               \* how often bio_endio was called for it
    request_bio_list,   \* bios waiting for the request thread
    bio_context_pool,   \* [head, tail, next_free]
    bio_context,        \* the bio of each context and its number of mappings
    bvec_free,          \* free elements of bvec_context_pool
    request_ring_alloc, \* the next entry to fill, ahead of last_add
    thread,             \* request thread: where it is, its bio, context, next segment
    completion_work,    \* where the work is, and the context it ends
    \* shared
    request_ring, completion_ring,  \* [last_add, last_used, elems]
    \* backend
    backend,            \* request thread: where it is, its entries, next buffer
    buffer_free,        \* free elements of transfer_buffer_pool
    dma,                \* transfers submitted and not yet called back
    callback,           \* where the callback is, the last_add it has read
    media, moved,       \* the medium; the data of each unit that has been moved
    faults,             \* failures so far
    met                 \* history: two threads were inside code without a lock

fvars == <<status, ends, request_bio_list, bio_context_pool, bio_context,
           bvec_free, request_ring_alloc, thread>>
bvars == <<backend, buffer_free, dma, callback, media, moved>>
vars == <<fvars, completion_work, bvars, request_ring, completion_ring, faults, met>>

Units(b) == UNION {{<<p, k>> : k \in 1..Len(Parts[b][p])} : p \in 1..Len(Parts[b])}

Fail(f) == f \in Faults /\ faults < MaxFaults /\ faults' = faults + 1

-----------------------------------------------------------------------------
(* Rings: counters run to twice the size, to tell full from empty.         *)
CounterAddNoWrap(c, val, n) == c + val
CounterAdd(c, val, n) == (c + val) % (2 * n)

BuffFull(head, tail, n) == head # tail /\ head % n = tail % n

Pending(ring, n) == (ring.last_add - ring.last_used + 2 * n) % (2 * n)

(* Pools: a list of the free elements, of which the last one is not used.  *)
PoolUsed == Contexts + 1
Ids == 0..Contexts

PoolClear == [head |-> 0, tail |-> Contexts,
              next_free |-> [i \in Ids |-> IF i = Contexts THEN 0 ELSE i + 1]]

IsAvailable(pool) == pool.head # pool.tail

PoolPopUnmarked(pool) == [pool EXCEPT !.head = pool.next_free[pool.head]]
PoolPop(pool) == [pool EXCEPT !.head = pool.next_free[pool.head],
                              !.next_free[pool.head] = PoolUsed]

(* Pushing in two steps: the element is linked behind the tail, which it   *)
(* then becomes.  After two pushes at once an element in use may get into  *)
(* the list; what is then popped from outside the pool is left open.       *)
PoolLink(pool, i) == [pool EXCEPT !.next_free = [@ EXCEPT ![i] = 0, ![pool.tail] = i]]

PoolTail(pool, i) == [pool EXCEPT !.tail = i]

UsedIds == {i \in Ids : bio_context_pool.next_free[i] = PoolUsed}

NoEntry == [cookie |-> 0, bio |-> NoValue, part |-> 0]
NoAck == [cookie |-> 0, ret |-> "ok"]
NoBio == [bio |-> NoValue, bvecs |-> 0]
Idle == [pc |-> "idle", bio |-> NoValue, id |-> 0, part |-> 0]
WorkIdle == [pc |-> "idle", id |-> 0, bio |-> NoValue, ret |-> "ok"]
BackendIdle == [pc |-> "idle", buff |-> <<>>, id |-> 0, k |-> 0, last_add |-> 0]
CallbackIdle == [pc |-> "idle", last_add |-> 0]

Init ==
    /\ status = [b \in Bios |-> "new"] /\ ends = [b \in Bios |-> 0]
    /\ request_bio_list = <<>>
    /\ bio_context_pool = PoolClear /\ bio_context = [i \in Ids |-> NoBio]
    /\ bvec_free = RequestNum /\ request_ring_alloc = 0
    /\ thread = Idle /\ completion_work = WorkIdle
    /\ request_ring = [last_add |-> 0, last_used |-> 0,
                       elems |-> [i \in 0..RequestNum - 1 |-> NoEntry]]
    /\ completion_ring = [last_add |-> 0, last_used |-> 0,
                          elems |-> [i \in 0..AckNum - 1 |-> NoAck]]
    /\ backend = BackendIdle /\ callback = CallbackIdle
    /\ buffer_free = MaxParts /\ dma = <<>>
    /\ media = [s \in Sectors |-> Blank]
    /\ moved = {}
    /\ faults = 0 /\ met = FALSE

-----------------------------------------------------------------------------
(* Frontend: submitters.                                                   *)

BioEnd(b, ret) == /\ status' = [status EXCEPT ![b] = ret]
                  /\ ends' = [ends EXCEPT ![b] = @ + 1]

MakeRequest(b) ==
    /\ status[b] = "new"
    /\ IF ReadOnly /\ b \in Writes
       THEN BioEnd(b, "error") /\ UNCHANGED request_bio_list
       ELSE /\ UNCHANGED ends
            /\ IF Len(request_bio_list) >= CongestionOn
               THEN /\ status' = [status EXCEPT ![b] = "waiting"]
                    /\ UNCHANGED request_bio_list
               ELSE /\ status' = [status EXCEPT ![b] = "listed"]
                    /\ request_bio_list' = Append(request_bio_list, b)
    /\ UNCHANGED <<bio_context_pool, bio_context, bvec_free, request_ring_alloc, thread,
                   completion_work, bvars, request_ring, completion_ring, faults>>

(* The submitter that waited for the list to become short enough.          *)
Decongested(b) ==
    /\ status[b] = "waiting" /\ Len(request_bio_list) < CongestionOff
    /\ status' = [status EXCEPT ![b] = "listed"]
    /\ request_bio_list' = Append(request_bio_list, b)
    /\ UNCHANGED <<ends, bio_context_pool, bio_context, bvec_free, request_ring_alloc,
                   thread, completion_work, bvars, request_ring, completion_ring, faults>>

-----------------------------------------------------------------------------
(* Frontend: the request thread.                                           *)

RequestThread(next) == /\ thread' = next
                       /\ UNCHANGED <<completion_work, bvars, completion_ring>>

TakeBio ==
    /\ thread.pc = "idle" /\ request_bio_list # <<>>
    /\ request_bio_list' = Tail(request_bio_list)
    /\ RequestThread([thread EXCEPT !.pc = "context", !.bio = Head(request_bio_list)])
    /\ UNCHANGED <<status, ends, bio_context_pool, bio_context, bvec_free,
                   request_ring_alloc, request_ring, faults>>

GetBioContext ==
    /\ thread.pc = "context" /\ IsAvailable(bio_context_pool)
    /\ bio_context_pool' = PoolPop(bio_context_pool)
    /\ bio_context' = [bio_context EXCEPT ![bio_context_pool.head] =
                          [bio |-> thread.bio, bvecs |-> 0]]
    /\ RequestThread([thread EXCEPT !.pc = "step", !.id = bio_context_pool.head, !.part = 1])
    /\ UNCHANGED <<status, ends, request_bio_list, bvec_free, request_ring_alloc,
                   request_ring, faults>>

(* vcablk_disk_request_break takes back the entries not yet published.     *)
RequestBreak == request_ring_alloc' = request_ring.last_add

(* No context within TIMEOUT_REQUEST_MS: request_break without a context.  *)
NoBioContext ==
    /\ thread.pc = "context" /\ ~IsAvailable(bio_context_pool) /\ Fail("context")
    /\ RequestBreak
    /\ BioEnd(thread.bio, "error")
    /\ RequestThread(Idle)
    /\ UNCHANGED <<request_bio_list, bio_context_pool, bio_context, bvec_free, request_ring>>

RingRoom == ~BuffFull(request_ring_alloc, request_ring.last_used, RequestNum)

(* One segment: an entry of the ring, and a mapping of its page.           *)
RequestStep ==
    /\ thread.pc = "step" /\ RingRoom /\ bvec_free > 0
    /\ request_ring' = [request_ring EXCEPT !.elems[request_ring_alloc % RequestNum] =
                           [cookie |-> thread.id + 1, bio |-> thread.bio, part |-> thread.part]]
    /\ request_ring_alloc' = CounterAdd(request_ring_alloc, 1, RequestNum)
    /\ bvec_free' = bvec_free - 1
    /\ bio_context' = [bio_context EXCEPT ![thread.id].bvecs = @ + 1]
    /\ RequestThread(IF thread.part = Len(Parts[thread.bio])
                     THEN [thread EXCEPT !.pc = "start"]
                     ELSE [thread EXCEPT !.part = @ + 1])
    /\ UNCHANGED <<status, ends, request_bio_list, bio_context_pool, faults>>

(***************************************************************************)
(* vcablk_disk_request_clean gives the mappings and the context back.  It  *)
(* is called by the request thread and by the completion work, without a   *)
(* lock.  The list of free mappings is the same kind of list, of which     *)
(* only the length is modelled.                                            *)
(***************************************************************************)
CleanLink(id) == /\ bio_context_pool' = PoolLink(bio_context_pool, id)
                 /\ bvec_free' = bvec_free + bio_context[id].bvecs

(* No entry or no mapping within TIMEOUT_REQUEST_MS, or the page cannot be *)
(* mapped: request_break takes back the entries of the bio.                *)
RequestStepFails ==
    /\ thread.pc = "step"
    /\ \/ ~(RingRoom /\ bvec_free > 0) /\ Fail("room")
       \/ RingRoom /\ bvec_free > 0 /\ Fail("map")
    /\ RequestBreak /\ CleanLink(thread.id) /\ UNCHANGED bio_context
    /\ RequestThread([thread EXCEPT !.pc = "tail"])
    /\ UNCHANGED <<status, ends, request_bio_list, request_ring>>

RequestStart ==
    /\ thread.pc = "start"
    /\ request_ring' = [request_ring EXCEPT !.last_add = request_ring_alloc]
    /\ RequestThread(Idle)
    /\ UNCHANGED <<status, ends, request_bio_list, bio_context_pool, bio_context,
                   bvec_free, request_ring_alloc, faults>>

BreakEnd ==
    /\ thread.pc = "tail"
    /\ bio_context_pool' = PoolTail(bio_context_pool, thread.id)
    /\ BioEnd(thread.bio, "error")
    /\ RequestThread(Idle)
    /\ UNCHANGED <<request_bio_list, bio_context, bvec_free, request_ring_alloc,
                   request_ring, faults>>

-----------------------------------------------------------------------------
(* Frontend: the completion work.                                          *)

CompletionWork(next) ==
    /\ completion_work' = next
    /\ UNCHANGED <<request_bio_list, bio_context, request_ring_alloc, thread, bvars,
                   request_ring, faults>>

AckNotCounted(ring) == [ring EXCEPT !.elems[ring.last_used % AckNum] = NoAck]
AckTaken(ring) == [ring EXCEPT !.elems[ring.last_used % AckNum] = NoAck,
                               !.last_used = CounterAdd(@, 1, AckNum)]

(* An answer is taken and its element cleared before it is used.  Cookie 0 *)
(* and the cookie of a context that is not in use are reported and ignored.*)
(* Every answer is followed by an interrupt, which schedules the work: it  *)
(* runs as long as there are answers.                                      *)
TakeAck ==
    /\ completion_work.pc = "idle"
    /\ completion_ring.last_used # completion_ring.last_add
    /\ completion_ring' = AckTaken(completion_ring)
    /\ LET ack == completion_ring.elems[completion_ring.last_used % AckNum]
           id == ack.cookie - 1
       IN  IF id \in UsedIds
           THEN /\ CleanLink(id)
                /\ CompletionWork([pc |-> "tail", id |-> id, ret |-> ack.ret,
                                   bio |-> bio_context[id].bio])
           ELSE /\ UNCHANGED <<bio_context_pool, bvec_free>>
                /\ CompletionWork(completion_work)
    /\ UNCHANGED <<status, ends>>

DoneTail ==
    /\ completion_work.pc = "tail"
    /\ bio_context_pool' = PoolTail(bio_context_pool, completion_work.id)
    /\ CompletionWork([completion_work EXCEPT !.pc = "end"])
    /\ UNCHANGED <<status, ends, bvec_free, completion_ring>>

(* The bio was read from the context before the context was given back:    *)
(* another bio may have it by now.                                         *)
DoneBio == completion_work.bio

DoneEnd ==
    /\ completion_work.pc = "end"
    /\ BioEnd(DoneBio, completion_work.ret)
    /\ CompletionWork(WorkIdle)
    /\ UNCHANGED <<bio_context_pool, bvec_free, completion_ring>>

-----------------------------------------------------------------------------
(* Backend: answers.                                                       *)

(***************************************************************************)
(* vcablk_bcknd_disk_send_response by the request thread or a callback:    *)
(* last_add is read; when there is room ret is written, then the cookie    *)
(* and last_add.  No lock keeps the other thread away: an answer may be    *)
(* overwritten, get the other's ret, or set last_add back.  That an answer *)
(* is given up after 2 seconds without room is not modelled: AckRoom shows *)
(* that there always is, until two threads have met.                       *)
(***************************************************************************)
Responding(pc) == pc \in {"respond", "publish"}

WriteRet(me, ret) ==
    /\ me.pc = "respond" /\ ~BuffFull(me.last_add, completion_ring.last_used, AckNum)
    /\ completion_ring' = [completion_ring EXCEPT !.elems[me.last_add % AckNum].ret = ret]

PublishAck(me, cookie) ==
    /\ me.pc = "publish"
    /\ completion_ring' = [completion_ring EXCEPT
            !.elems[me.last_add % AckNum].cookie = cookie,
            !.last_add = CounterAdd(me.last_add, 1, AckNum)]

-----------------------------------------------------------------------------
(* Backend: the request thread.                                            *)

BackendThread == UNCHANGED <<fvars, completion_work, callback, media, moved>>

(* The entries from last_used on that have the cookie of the first.        *)
NextRequest(ring) ==
    LET entry(i) == ring.elems[CounterAdd(ring.last_used, i, RequestNum) % RequestNum]
        same(n) == \A i \in 0..n - 1 : entry(i).cookie = entry(0).cookie
        sizes == {n \in 1..Pending(ring, RequestNum) : n <= MaxParts /\ same(n)}
        size == CHOOSE n \in sizes : \A m \in sizes : m <= n
    IN  [i \in 1..size |-> entry(i - 1)]

GetNextRequest ==
    /\ backend.pc = "idle" /\ request_ring.last_used # request_ring.last_add
    /\ LET buff == NextRequest(request_ring)
       IN  /\ backend' = [BackendIdle EXCEPT !.pc = "transfer", !.buff = buff, !.id = 1, !.k = 1]
           /\ request_ring' = [request_ring EXCEPT
                    !.last_used = CounterAdd(@, Len(buff), RequestNum)]
    /\ BackendThread
    /\ UNCHANGED <<buffer_free, dma, completion_ring, faults>>

Cookie == backend.buff[1].cookie
Entry == backend.buff[backend.id]
Unit == <<Entry.part, backend.k>>
LastBuffer == backend.k = Len(Parts[Entry.bio][Entry.part])
LastPart == backend.id = Len(backend.buff)

(* Only the last buffer of the last part answers for the bio.              *)
EveryPartAnswers == IF LastBuffer THEN Cookie ELSE -1
ResponseCookie == IF LastPart /\ LastBuffer THEN Cookie ELSE -1

(* One buffer of a part: filled from the medium if it is read, and given   *)
(* to the DMA channel.                                                     *)
Transfer ==
    /\ backend.pc = "transfer" /\ buffer_free > 0
    /\ buffer_free' = buffer_free - 1
    /\ dma' = Append(dma,
          [bio |-> Entry.bio, unit |-> Unit,
           data |-> IF Entry.bio \in Writes THEN Entry.bio
                    ELSE media[Parts[Entry.bio][Entry.part][backend.k]],
           cookie |-> ResponseCookie])
    /\ backend' = IF ~LastBuffer THEN [backend EXCEPT !.k = @ + 1]
                  ELSE IF ~LastPart THEN [backend EXCEPT !.id = @ + 1, !.k = 1]
                  ELSE BackendIdle
    /\ BackendThread
    /\ UNCHANGED <<request_ring, completion_ring, faults>>

(* The node's memory cannot be mapped, no buffer comes back within         *)
(* TIMEOUT_POOL_POP_MS, or the transfer is not accepted; the buffer of the *)
(* last case is not given back.  What was submitted before goes on.        *)
TransferFails ==
    /\ backend.pc = "transfer"
    /\ \/ backend.k = 1 /\ Fail("remap") /\ UNCHANGED buffer_free
       \/ buffer_free = 0 /\ Fail("buffer") /\ UNCHANGED buffer_free
       \/ buffer_free > 0 /\ Fail("submit") /\ buffer_free' = buffer_free - 1
    /\ backend' = [backend EXCEPT !.pc = "respond", !.last_add = completion_ring.last_add]
    /\ BackendThread
    /\ UNCHANGED <<dma, request_ring, completion_ring>>

RespondError ==
    /\ WriteRet(backend, "error")
    /\ backend' = [backend EXCEPT !.pc = "publish"]
    /\ BackendThread
    /\ UNCHANGED <<buffer_free, dma, request_ring, faults>>

PublishError ==
    /\ PublishAck(backend, Cookie)
    /\ backend' = BackendIdle
    /\ BackendThread
    /\ UNCHANGED <<buffer_free, dma, request_ring, faults>>

-----------------------------------------------------------------------------
(* Backend: the callbacks of the DMA channel (vca_bcknd_callback_write and *)
(* _read) after the data of the first transfer has moved.                  *)

Callback == UNCHANGED <<fvars, completion_work, backend, request_ring, faults>>

Moved(t) == [bio |-> t.bio, unit |-> t.unit, data |-> t.data]

BufferLost == dma' = Tail(dma) /\ UNCHANGED buffer_free
BufferPushed == dma' = Tail(dma) /\ buffer_free' = buffer_free + 1

(* A write reaches the medium here, where writing to a backing file never  *)
(* fails: media_transfer_file only prints a warning.                       *)
TransferDone ==
    /\ callback.pc = "idle" /\ dma # <<>>
    /\ LET t == Head(dma)
       IN  /\ moved' = moved \union {Moved(t)}
           /\ media' = IF t.bio \in Writes
                       THEN [media EXCEPT ![Parts[t.bio][t.unit[1]][t.unit[2]]] = t.data]
                       ELSE media
           /\ IF t.cookie >= 0
              THEN /\ callback' = [pc |-> "respond", last_add |-> completion_ring.last_add]
                   /\ UNCHANGED <<dma, buffer_free>>
              ELSE /\ BufferPushed
                   /\ UNCHANGED callback
    /\ Callback
    /\ UNCHANGED <<completion_ring>>

RespondDone ==
    /\ WriteRet(callback, "ok")
    /\ callback' = [callback EXCEPT !.pc = "publish"]
    /\ Callback
    /\ UNCHANGED <<buffer_free, dma, media, moved>>

PublishDone ==
    /\ PublishAck(callback, Head(dma).cookie)
    /\ callback' = CallbackIdle
    /\ BufferPushed
    /\ Callback
    /\ UNCHANGED <<media, moved>>

-----------------------------------------------------------------------------
FrontendNext == \/ TakeBio \/ GetBioContext \/ RequestStep \/ RequestStart
                \/ BreakEnd
WorkNext == TakeAck \/ DoneTail \/ DoneEnd
BackendNext == GetNextRequest \/ Transfer \/ RespondError \/ PublishError
CallbackNext == TransferDone \/ RespondDone \/ PublishDone

Step == \/ \E b \in Bios : MakeRequest(b) \/ Decongested(b)
        \/ FrontendNext \/ NoBioContext \/ RequestStepFails
        \/ WorkNext
        \/ BackendNext \/ TransferFails
        \/ CallbackNext

(***************************************************************************)
(* Nothing in the code keeps two threads from being between the two writes *)
(* of a push to the same pool, nor between reading last_add and writing    *)
(* it.  The history only records that they were.                           *)
(***************************************************************************)
Together == \/ thread.pc = "tail" /\ completion_work.pc = "tail"
            \/ Responding(backend.pc) /\ Responding(callback.pc)

History == met' = (met \/ Together')

Next == Step /\ History

Spec == Init /\ [][Next]_vars

(* The kernel runs threads, scheduled works and woken submitters, and the  *)
(* channel calls back what it was given: PlxDma!NothingStranded.           *)
FairSpec == /\ Spec
            /\ WF_vars(FrontendNext /\ History) /\ WF_vars(WorkNext /\ History)
            /\ WF_vars(BackendNext /\ History) /\ WF_vars(CallbackNext /\ History)
            /\ \A b \in Bios : WF_vars(Decongested(b) /\ History)

-----------------------------------------------------------------------------
(* Every variable holds values of the kind the driver gives it.            *)
Typed ==
    /\ status \in [Bios -> {"new", "waiting", "listed", "ok", "error"}]
    /\ ends \in [Bios -> Nat]
    /\ request_bio_list \in Seq(Bios)
    /\ bio_context_pool \in [head : Ids, tail : Ids, next_free : [Ids -> 0..PoolUsed]]
    /\ bio_context \in [Ids -> [bio : Bios \union {NoValue}, bvecs : 0..RequestNum]]
    /\ bvec_free \in 0..RequestNum
    /\ request_ring_alloc \in 0..2 * RequestNum - 1
    /\ thread \in [pc : {"idle", "context", "step", "start", "tail"},
                   bio : Bios \union {NoValue}, id : Ids, part : Nat]
    /\ completion_work \in [pc : {"idle", "tail", "end"}, id : Ids,
                            bio : Bios \union {NoValue}, ret : {"ok", "error"}]
    /\ request_ring.last_add \in 0..2 * RequestNum - 1
    /\ request_ring.last_used \in 0..2 * RequestNum - 1
    /\ completion_ring.last_add \in 0..2 * AckNum - 1
    /\ completion_ring.last_used \in 0..2 * AckNum - 1
    /\ backend.pc \in {"idle", "transfer", "respond", "publish"}
    /\ callback.pc \in {"idle", "respond", "publish"}
    /\ buffer_free \in 0..MaxParts
    /\ media \in [Sectors -> Bios \union {Blank}]
    /\ faults \in 0..MaxFaults

(* Until two threads have met: then indices leave the pool.  As long as    *)
(* nothing has failed they cannot have met.                                *)
TypeOK == /\ met \in BOOLEAN /\ (met => faults > 0)
          /\ ~met => Typed

(***************************************************************************)
(* The list of free contexts: what is met from head to tail is never in    *)
(* use, never met twice, and with the contexts in use and those being      *)
(* pushed it is all of them.  This is what vcablk_pool.h means by a simple *)
(* method to pop and push elements without locks.  When every bio          *)
(* submitted has ended, no context is in use and all mappings are back:    *)
(* what vcablk_disk_stop asserts with BUG_ON(1).                           *)
(***************************************************************************)
IsFreeList(list, pool) ==
    /\ list[1] = pool.head /\ list[Len(list)] = pool.tail
    /\ \A i \in 1..Len(list) - 1 : pool.next_free[list[i]] = list[i + 1]
    /\ \A i, j \in 1..Len(list) : list[i] = list[j] => i = j

BeingPushed == (IF thread.pc = "tail" THEN {thread.id} ELSE {})
          \union (IF completion_work.pc = "tail" THEN {completion_work.id} ELSE {})

ContextsListed ==
    \E n \in 1..Contexts + 1 : \E list \in [1..n -> Ids] :
        /\ IsFreeList(list, bio_context_pool)
        /\ \A i \in Ids : i \in UsedIds \union BeingPushed
                           <=> \A j \in 1..n : list[j] # i

QuietMeansClean ==
    (\A b \in Bios : status[b] \in {"new", "ok", "error"})
        => UsedIds = {} /\ bvec_free = RequestNum

PoolConserved == ~met => ContextsListed /\ QuietMeansClean

(***************************************************************************)
(* The same without a condition: contexts are pushed and popped without    *)
(* locks, which one element that is never used is to make possible         *)
(* (vcablk_pool.h).  Expected to fail: the request thread and the          *)
(* completion work push at once.                                           *)
(***************************************************************************)
PushNeedsNoLock == ContextsListed

(***************************************************************************)
(* There is room for every answer when it is sent: the completion ring has *)
(* an element for each context, as a compile-time check of vcablk_disk.h   *)
(* demands, and a context is used again only after its answer was taken.   *)
(***************************************************************************)
AckRoom == ~met => \A me \in {backend, callback} :
    me.pc = "respond" => ~BuffFull(me.last_add, completion_ring.last_used, AckNum)

(***************************************************************************)
(* Every answer the completion work can take is one of a context in use:   *)
(* vcablk_disk_request_done prints an error for others.  Expected to fail: *)
(* the backend's thread and a callback answer at once, and last_add goes   *)
(* back behind answers already taken.                                      *)
(***************************************************************************)
AnswersExpected ==
    completion_work.pc = "idle" /\ completion_ring.last_used # completion_ring.last_add
        => completion_ring.elems[completion_ring.last_used % AckNum].cookie - 1 \in UsedIds

(***************************************************************************)
(* The frontend and the backend together are a block device.  A unit that  *)
(* is read takes place when its buffer is filled.  A bio for which         *)
(* bio_endio was called twice, or that ended without an error before its   *)
(* data had moved, all of it (only the last transfer carries the answer    *)
(* that speaks for those before it), has no status of a block device.      *)
(***************************************************************************)
Filled == {Moved(dma[i]) : i \in {i \in DOMAIN dma : dma[i].bio \notin Writes}}

AllMoved(b) == \A u \in Units(b) : \E m \in moved : m.bio = b /\ m.unit = u

DeviceStatus(b) == IF ends[b] > 1 \/ (status[b] = "ok" /\ ~AllMoved(b)) THEN "broken"
                   ELSE IF status[b] \in {"waiting", "listed"} THEN "pending"
                   ELSE status[b]

Device == INSTANCE BlockDevice WITH
    status <- [b \in Bios |-> DeviceStatus(b)],
    media <- media,
    took <- moved \union Filled

(* Until two threads have met. *)
ImplementsDevice == Device!Init /\ [][~met' => Device!Next]_(Device!vars)

(***************************************************************************)
(* As long as nothing fails, all bios submitted so far end, without an     *)
(* error.  There are finitely many, and none is submitted twice.           *)
(***************************************************************************)
EveryBioEnds ==
    []<>(\/ \A b \in Bios : status[b] \in {"new", "ok"} \/ (ReadOnly /\ b \in Writes)
         \/ faults > 0)
=============================================================================
