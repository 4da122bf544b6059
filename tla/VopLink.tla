------------------------------ MODULE VopLink -------------------------------
(***************************************************************************)
(* One direction of a network link over PCIe (vop/vop_common.c and         *)
(* vop/vop_kvec_buff.c).  The receiver puts its receive buffers into rings *)
(* in the sender's memory, one ring per size; the sender moves each        *)
(* message by DMA into a buffer it takes from there, and returns the       *)
(* buffer in a ring in the receiver's memory.  Both sides only write to    *)
(* the memory of the other.                                                *)
(*                                                                         *)
(* Receiver: the thread vsd, which consumes the used ring; the poll of the *)
(* network driver (vca_virtio_net.c), which takes what was consumed, fills *)
(* the queue of buffers and, in its kick, runs vop_kvec_buf_update.        *)
(* Sender: the thread vrd, which takes messages and buffers;               *)
(* the thread vdm, which starts transfers when data is copied first; the   *)
(* callbacks of the DMA channel, which moves in order (PlxDma).  Modelled  *)
(* while both sides are up.                                                *)
(***************************************************************************)
EXTENDS Integers, Sequences, FiniteSets, SequencesExt

CONSTANTS
    Sizes,          \* receive buffers as first filled: the ring each size leads to
    Rings,          \* KVEC_BUF_NUM, rings 0..Rings - 1 of increasing size
    SizeOf,         \* the messages, in order: the smallest ring whose buffers hold it
    Items,          \* VOP_RING_SIZE, transfers prepared or under way
    Period,         \* KVEC_INDEX_UPDATE_PERIOD
    Rounds,         \* times all buffers may have been used before
    Budget,         \* napi_weight, messages one poll takes
    UInt,           \* unsigned int is modulo this
    MaxFaults       \* transfers that fail: a bound

ASSUME LinkAssumption ==
    /\ Rings \in Nat \ {0} /\ Sizes \in Seq(0..Rings - 1) /\ Sizes # <<>>
    /\ Sizes[1] = Rings - 1                     \* the driver fills big buffers first
    /\ \A i, j \in DOMAIN Sizes : i < j => Sizes[i] >= Sizes[j]
    /\ \A m \in DOMAIN SizeOf : SizeOf[m] \in 0..Rings - 1
    /\ Items \in {2^i : i \in 1..9} /\ Period \in Nat \ {0} /\ MaxFaults \in Nat
    /\ Rounds \subseteq Nat /\ Budget \in Nat \ {0} /\ UInt \in Nat /\ 4 * Len(Sizes) < UInt

(* A buffer takes two elements of a ring, and of the receiver's queue.     *)
Num == 2 * Len(Sizes)
Heads == 0..Len(Sizes) - 1
MaxOf(r) == Cardinality({i \in DOMAIN Sizes : Sizes[i] = r})   \* max_big, max_jumbo
RingIds == 0..Rings - 1
NoHead == -1        \* USHRT_MAX
NoMsg == 0
NoOff == -1

VARIABLES
    free,           \* free heads of the receiver's queue, last returned first
    ring_of,        \* the size of the buffer at a head
    vringh_rcv,     \* buffers in the queue
    update,         \* vop_kvec_buf_update: running, rings written to, puts so far
    rings,          \* for each ring [buf, put, cnt, last_cnt, sized]
    used_ring,      \* [buf, put, cnt, last_cnt]
    memory,         \* the message each buffer holds
    vq_used,        \* consumed, to be polled by the driver
    received,       \* history: what the driver got
    sent,           \* number of messages the sender's driver has queued
    vringh_tx,      \* those vrd has not taken
    tx_used,        \* used ring of the sender's driver: [ring, idx, next]
    aligned,        \* feature_desc_alignment: the peer strips an offset
    items, indicator_rcv, counter_dma_send, counter_dma_last, counter_done_transfer,
    vrd,            \* the thread: where it is, its item
    writer,         \* transfer_write, in vrd or vdm: [pc, id, dst, off]
    dma,            \* transfers the channel holds: [id, dst, msg, moved, callback]
    callback,       \* transfer_done_callback: [pc, next, end, off]
    faults,
    clashed         \* history: two threads were inside put_descriptors

rvars == <<free, ring_of, vringh_rcv, update, vq_used, received>>
counters == <<indicator_rcv, counter_dma_send, counter_dma_last, counter_done_transfer>>
transfers == <<writer, dma, callback, faults, clashed>>
svars == <<vringh_tx, tx_used, items, counters, vrd, transfers>>
vars == <<rvars, rings, used_ring, memory, sent, aligned, svars>>

-----------------------------------------------------------------------------
(* Counters run to twice the size of a ring.  Indices are their remainder. *)
KvecCounterAddNoWrap(cnt, val) == cnt + val
KvecCounterAdd(cnt, val) == (cnt + val) % (2 * Num)
KvecIdx(cnt) == cnt % Num
Between(from, to) == (to - from + 2 * Num) % (2 * Num)

(* The indicators of items are u16, a multiple of their number.            *)
ItemAdd(counter) == (counter + 1) % (2 * Items)
ItemAt(counter) == counter % Items

ItemReset == [status_ready |-> TRUE, started |-> FALSE, msg |-> NoMsg, head_from |-> FALSE,
              kvec_buff_id |-> -1, head_to |-> NoHead, kvec_to |-> 0, num_kvecs_to |-> 0]

WriterIdle == [pc |-> "idle", id |-> 0, dst |-> NoHead, off |-> NoOff]
CallbackIdle == [pc |-> "idle", next |-> 0, end |-> 0, off |-> NoOff]
UpdateStart == [on |-> TRUE, dirty |-> {}, total |-> 0]
NoKvec == [iov |-> NoHead, head |-> 0]

Init ==
    /\ free = <<>> /\ ring_of = [h \in Heads |-> Sizes[h + 1]]
    /\ vringh_rcv = [i \in DOMAIN Sizes |-> i - 1]
    /\ update = UpdateStart /\ vq_used = <<>>
    /\ \E n \in Rounds :
          LET put(r) == (n * 2 * MaxOf(r)) % (2 * Num)
              done == n * Len(Sizes)
          IN /\ rings = [r \in RingIds |->
                    [buf |-> [i \in 0..Num - 1 |-> NoKvec], put |-> put(r), cnt |-> put(r),
                     last_cnt |-> put(r), sized |-> (n > 0)]]
             /\ used_ring = [buf |-> [i \in 0..Num - 1 |-> NoHead], put |-> done % (2 * Num),
                              cnt |-> done % (2 * Num), last_cnt |-> done % (2 * Num)]
             /\ indicator_rcv = done % (2 * Items) /\ counter_dma_send = indicator_rcv
             /\ counter_dma_last = indicator_rcv /\ counter_done_transfer = indicator_rcv
    /\ memory = [h \in Heads |-> NoMsg] /\ received = <<>>
    /\ sent = 0 /\ vringh_tx = <<>>
    /\ tx_used = [ring |-> [k \in 1..Len(SizeOf) + MaxFaults |-> NoMsg], idx |-> 0, next |-> 0]
    /\ aligned \in BOOLEAN
    /\ items = [i \in 0..Items - 1 |-> ItemReset]
    /\ vrd = [pc |-> "item", id |-> 0]
    /\ writer = WriterIdle /\ dma = <<>> /\ callback = CallbackIdle
    /\ faults = 0 /\ clashed = FALSE

-----------------------------------------------------------------------------
(* The receiver. *)

(***************************************************************************)
(* virtnet_poll refills when a size runs low.  Buffers of a size that are  *)
(* not free: num_big, num_jumbo.  The smallest size is what is left of the *)
(* total when the others are full.                                         *)
(***************************************************************************)
RefillHalf(freed) == 2 * (Len(Sizes) - Len(freed)) < Len(Sizes)
Refill(freed) ==
    LET num(r) == MaxOf(r) - Cardinality({i \in DOMAIN freed : ring_of[freed[i]] = r})
        larger == Cardinality({i \in DOMAIN Sizes : Sizes[i] > 0})
    IN  \/ \E r \in RingIds \ {0} : 4 * num(r) < 3 * MaxOf(r)
        \/ (4 * ((Len(Sizes) - Len(freed) - larger) % UInt)) % UInt < 3 * MaxOf(0)

(* try_fill_recv: the missing sizes, the big ones first. *)
Refilled(freed) ==
    LET missing(r) == Cardinality({i \in DOMAIN freed : ring_of[freed[i]] >= r})
        size(i) == CHOOSE r \in RingIds : missing(r + 1) < i /\ i <= missing(r)
    IN  [h \in Heads |-> IF \E i \in DOMAIN freed : freed[i] = h
                         THEN size(CHOOSE i \in DOMAIN freed : freed[i] = h)
                         ELSE ring_of[h]]

(***************************************************************************)
(* virtnet_poll: messages are received, and heads return to the top of the *)
(* free list.  A refill ends with the kick, which is vop_kvec_buf_update.  *)
(***************************************************************************)
Poll ==
    /\ ~update.on /\ vq_used # <<>>
    /\ LET n == IF Len(vq_used) < Budget THEN Len(vq_used) ELSE Budget
           freed == [i \in 1..n |-> vq_used[n + 1 - i]] \o free
       IN /\ vq_used' = SubSeq(vq_used, n + 1, Len(vq_used))
          /\ received' = received \o [i \in 1..n |-> memory[vq_used[i]]]
          /\ IF Refill(freed)
             THEN /\ free' = <<>> /\ vringh_rcv' = freed
                  /\ ring_of' = Refilled(freed) /\ update' = UpdateStart
             ELSE free' = freed /\ UNCHANGED <<vringh_rcv, ring_of, update>>
    /\ UNCHANGED <<rings, used_ring, memory, sent, aligned, svars>>

PublishDue == vringh_rcv = <<>> \/ (update.total % Period = 0 /\ update.dirty # {})

(* vop_kvec_put: the size of the ring's buffers is announced first.        *)
KvecPut ==
    /\ update.on /\ ~PublishDue
    /\ LET h == Head(vringh_rcv)
           r == ring_of[h]
           i == KvecIdx(rings[r].put)
           j == KvecIdx(rings[r].put + 1)
           kvec == [iov |-> h, head |-> h]
       IN /\ rings' = [rings EXCEPT ![r].sized = TRUE,
                                    ![r].buf = [@ EXCEPT ![i] = kvec, ![j] = kvec],
                                    ![r].put = KvecCounterAdd(@, 2)]
          /\ update' = [update EXCEPT !.dirty = @ \union {r}, !.total = @ + 1]
    /\ vringh_rcv' = Tail(vringh_rcv)
    /\ UNCHANGED <<free, ring_of, vq_used, received, used_ring, memory, sent, aligned, svars>>

(* vop_kvec_buff_update_idx, after Period puts and at the end. *)
UpdateIdx ==
    /\ update.on /\ PublishDue
    /\ rings' = [r \in RingIds |-> IF r \in update.dirty
                                   THEN [rings[r] EXCEPT !.cnt = rings[r].put] ELSE rings[r]]
    /\ update' = [update EXCEPT !.dirty = {}, !.on = (vringh_rcv # <<>>)]
    /\ UNCHANGED <<free, ring_of, vringh_rcv, vq_used, received, used_ring, memory, sent,
                   aligned, svars>>

(* vop_kvec_buf_consume: the buffer goes back to the driver's queue.       *)
Consume ==
    /\ used_ring.cnt # used_ring.last_cnt
    /\ vq_used' = Append(vq_used, used_ring.buf[KvecIdx(used_ring.last_cnt)])
    /\ used_ring' = [used_ring EXCEPT !.last_cnt = KvecCounterAdd(@, 1)]
    /\ UNCHANGED <<free, ring_of, vringh_rcv, update, received, rings, memory, sent, aligned,
                   svars>>

-----------------------------------------------------------------------------
(* The sender: its driver, and the thread vrd. *)

Receiver == UNCHANGED <<rvars, aligned>>

Send ==
    /\ sent < Len(SizeOf)
    /\ sent' = sent + 1 /\ vringh_tx' = Append(vringh_tx, sent + 1)
    /\ Receiver
    /\ UNCHANGED <<rings, used_ring, memory, tx_used, items, counters, vrd, transfers>>

GetRead ==
    /\ vrd.pc = "item" /\ items[ItemAt(indicator_rcv)].status_ready
    /\ items' = [items EXCEPT ![ItemAt(indicator_rcv)].status_ready = FALSE]
    /\ vrd' = [pc |-> "desc", id |-> ItemAt(indicator_rcv)]
    /\ indicator_rcv' = ItemAdd(indicator_rcv)
    /\ Receiver
    /\ UNCHANGED <<rings, used_ring, memory, sent, vringh_tx, tx_used, counter_dma_send,
                   counter_dma_last, counter_done_transfer, transfers>>

(***************************************************************************)
(* put_descriptors: the index of the used ring is read and the entry       *)
(* written, then the index is published and the counters of the ring go    *)
(* on.  last_used_idx + completed is next.  The ring has no lock.          *)
(***************************************************************************)
PutEntry(off, m) == [tx_used EXCEPT !.ring[off + 1] = m]
PutIdx(ring, off) == [ring EXCEPT !.idx = off + 1, !.next = @ + 1]

(* transfer_read: without the alignment feature the data is copied and the *)
(* descriptor returned at once, by this thread only.                       *)
TransferRead ==
    /\ vrd.pc = "desc" /\ vringh_tx # <<>>
    /\ LET m == Head(vringh_tx)
       IN /\ items' = [items EXCEPT ![vrd.id].msg = m, ![vrd.id].head_from = aligned]
          /\ tx_used' = IF aligned THEN tx_used
                        ELSE PutIdx(PutEntry(tx_used.next, m), tx_used.next)
    /\ vringh_tx' = Tail(vringh_tx)
    /\ vrd' = [vrd EXCEPT !.pc = "ring"]
    /\ Receiver
    /\ UNCHANGED <<rings, used_ring, memory, sent, counters, transfers>>

(* vop_kvec_size_to_ring_id: the largest as long as sizes are not known.   *)
SizeToRingId(size) ==
    LET fit == {r \in RingIds : rings[r].sized /\ size <= r}
    IN  IF fit = {} THEN Rings - 1 ELSE CHOOSE r \in fit : \A q \in fit : r <= q

ChooseRing ==
    /\ vrd.pc = "ring"
    /\ items' = [items EXCEPT ![vrd.id].kvec_buff_id = SizeToRingId(SizeOf[items[vrd.id].msg])]
    /\ vrd' = [vrd EXCEPT !.pc = "get"]
    /\ Receiver
    /\ UNCHANGED <<rings, used_ring, memory, sent, vringh_tx, tx_used, counters, transfers>>

(* The kvecs at last_cnt that have the same head. *)
Adjacent(ring) ==
    LET head(n) == ring.buf[KvecIdx(ring.last_cnt + n)].head
        runs == {n \in 1..Between(ring.last_cnt, ring.cnt) :
                     n <= Num /\ \A k \in 0..n - 1 : head(k) = head(0)}
    IN  CHOOSE n \in runs : \A k \in runs : k <= n

KvecGot(ring, n) ==
    LET taken == {KvecIdx(ring.last_cnt + k) : k \in 0..n - 1}
    IN  [ring EXCEPT !.buf = [i \in DOMAIN @ |-> IF i \in taken THEN [@[i] EXCEPT !.head = 0]
                                                 ELSE @[i]],
                     !.last_cnt = KvecCounterAdd(@, n)]

(* vop_kvec_get, waiting for a buffer.  Then the item is written by this   *)
(* thread or passed to vdm.                                                *)
KvecGet ==
    /\ vrd.pc = "get"
    /\ LET r == items[vrd.id].kvec_buff_id
           ring == rings[r]
           n == Adjacent(ring)
       IN /\ ring.cnt # ring.last_cnt
          /\ items' = [items EXCEPT
                ![vrd.id].head_to = ring.buf[KvecIdx(ring.last_cnt)].head,
                ![vrd.id].kvec_to = KvecIdx(ring.last_cnt), ![vrd.id].num_kvecs_to = n]
          /\ rings' = [rings EXCEPT ![r] = KvecGot(ring, n)]
    /\ vrd' = [vrd EXCEPT !.pc = IF aligned THEN "write" ELSE "item"]
    /\ counter_dma_send' = IF aligned THEN counter_dma_send ELSE ItemAdd(counter_dma_send)
    /\ Receiver
    /\ UNCHANGED <<used_ring, memory, sent, vringh_tx, tx_used, indicator_rcv,
                   counter_dma_last, counter_done_transfer, transfers>>

-----------------------------------------------------------------------------
(* The sender: transfers. *)

(* vop_kvec_used, under the lock of the used ring. *)
KvecUsedAfter(ring, h) ==
    LET next == KvecCounterAdd(ring.put, 1)
    IN  [ring EXCEPT !.buf[KvecIdx(next)] = h, !.put = next, !.cnt = next]
KvecUsed(ring, h) ==
    LET next == KvecCounterAdd(ring.put, 1)
    IN  [ring EXCEPT !.buf[KvecIdx(ring.put)] = h, !.put = next, !.cnt = next]

(***************************************************************************)
(* transfer_done runs in the thread after a failed transfer and in the     *)
(* callback, at the same time for different items.  The buffer goes back   *)
(* and the descriptor's entry is written at off; then its index is         *)
(* published and the item reset.  The reset disables a callback that is    *)
(* still to come for the item.                                             *)
(***************************************************************************)
PutOff(i) == IF items[i].head_from THEN tx_used.next ELSE NoOff
TransferReturns(i) ==
    /\ used_ring' = IF items[i].head_to = NoHead THEN used_ring
                    ELSE KvecUsed(used_ring, items[i].head_to)
    /\ tx_used' = IF items[i].head_from THEN PutEntry(tx_used.next, items[i].msg) ELSE tx_used
    /\ items' = [items EXCEPT ![i].started = FALSE, ![i].head_to = NoHead]

Disabled(i) == [t \in DOMAIN dma |-> IF dma[t].id = i THEN [dma[t] EXCEPT !.callback = FALSE]
                                     ELSE dma[t]]
TransferEnds(i, off) ==
    /\ tx_used' = IF off = NoOff THEN tx_used ELSE PutIdx(tx_used, off)
    /\ items' = [items EXCEPT ![i] = ItemReset]
    /\ dma' = Disabled(i)
    /\ UNCHANGED used_ring

(* What runs transfer_write, and what it does when that has returned.      *)
Writing(i) == IF aligned THEN vrd.pc = "write" /\ i = vrd.id
              ELSE counter_dma_last # counter_dma_send /\ i = ItemAt(counter_dma_last)
WriteReturns ==
    /\ writer' = WriterIdle
    /\ IF aligned THEN vrd' = [vrd EXCEPT !.pc = "item"] /\ UNCHANGED counter_dma_last
       ELSE counter_dma_last' = ItemAdd(counter_dma_last) /\ UNCHANGED vrd

SenderOf(v) == /\ Receiver
               /\ UNCHANGED <<rings, sent, vringh_tx, indicator_rcv, counter_dma_send, v>>

(* A transfer that fails is reported like one that was moved.  The item    *)
(* may have been finished under the thread: then kvec_to is NULL.          *)
Fail(i) ==
    /\ faults < MaxFaults /\ faults' = faults + 1
    /\ IF items[i].num_kvecs_to = 0
       THEN /\ writer' = [WriterIdle EXCEPT !.pc = "lost"]
            /\ UNCHANGED <<used_ring, tx_used, items, clashed>>
       ELSE /\ TransferReturns(i)
            /\ writer' = [pc |-> "put", id |-> i, dst |-> NoHead, off |-> PutOff(i)]
            /\ clashed' = (clashed \/ (PutOff(i) # NoOff /\ callback.off # NoOff))
    /\ UNCHANGED <<dma, vrd, counter_dma_last>>

(* transfer_write: the destination is read from the second kvec, which is  *)
(* still in the ring.  The item counts as started before it is submitted.  *)
(* The buffer may not be mapped.                                           *)
WriteStart ==
    /\ writer.pc = "idle"
    /\ \E i \in DOMAIN items :
          /\ Writing(i)
          /\ \/ /\ items[i].num_kvecs_to = 2
                /\ writer' = [pc |-> "submit", id |-> i, off |-> NoOff,
                      dst |-> rings[items[i].kvec_buff_id].buf[KvecIdx(items[i].kvec_to + 1)].iov]
                /\ items' = [items EXCEPT ![i].started = TRUE]
                /\ UNCHANGED <<used_ring, tx_used, dma, vrd, counter_dma_last, faults, clashed>>
             \/ Fail(i)
    /\ SenderOf(<<memory, counter_done_transfer, callback>>)

(***************************************************************************)
(* transfer_dma_send: the channel takes the transfer, or refuses it.  When *)
(* the callback has meanwhile finished the item the thread may stop in a   *)
(* BUG_ON or at a mapping that is NULL.                                    *)
(***************************************************************************)
Submit ==
    /\ writer.pc = "submit"
    /\ LET i == writer.id
       IN \/ /\ dma' = Append(dma, [id |-> i, dst |-> writer.dst, msg |-> items[i].msg,
                                    moved |-> FALSE, callback |-> TRUE])
             /\ WriteReturns
             /\ UNCHANGED <<used_ring, tx_used, items, faults, clashed>>
          \/ Fail(i)
          \/ /\ ~items[i].started
             /\ writer' = [WriterIdle EXCEPT !.pc = "lost"]
             /\ UNCHANGED <<used_ring, tx_used, items, dma, vrd, counter_dma_last, faults, clashed>>
    /\ SenderOf(<<memory, counter_done_transfer, callback>>)

WriteFailed ==
    /\ writer.pc = "put"
    /\ TransferEnds(writer.id, writer.off)
    /\ WriteReturns
    /\ SenderOf(<<memory, counter_done_transfer, callback, faults, clashed>>)

(* The engine moves the data of the next transfer.  A transfer whose       *)
(* callback is disabled then leaves the channel.                           *)
DmaMove ==
    /\ \E t \in DOMAIN dma :
          /\ ~dma[t].moved /\ \A s \in 1..t - 1 : dma[s].moved
          /\ dma' = [dma EXCEPT ![t].moved = TRUE]
          /\ memory' = [memory EXCEPT ![dma[t].dst] = dma[t].msg]
    /\ SenderOf(<<used_ring, tx_used, items, counter_dma_last, counter_done_transfer, vrd,
                  writer, callback, faults, clashed>>)

DmaForget ==
    /\ callback.pc = "idle" /\ dma # <<>> /\ Head(dma).moved /\ ~Head(dma).callback
    /\ dma' = Tail(dma)
    /\ SenderOf(<<used_ring, memory, tx_used, items, counter_dma_last, counter_done_transfer, vrd,
                  writer, callback, faults, clashed>>)

(***************************************************************************)
(* transfer_done_callback finishes all items from the last one finished to *)
(* its own, in case callbacks were missed.  Items that were not started    *)
(* are passed over.                                                        *)
(***************************************************************************)
CallbackEndNext(id) == (id + 2) % Items
CallbackEnd(id) == (id + 1) % Items

CallbackStart ==
    /\ callback.pc = "idle" /\ dma # <<>> /\ Head(dma).moved /\ Head(dma).callback
    /\ callback' = [pc |-> "item", next |-> ItemAt(counter_done_transfer),
                    end |-> CallbackEnd(Head(dma).id), off |-> NoOff]
    /\ dma' = Tail(dma)
    /\ SenderOf(<<used_ring, memory, tx_used, items, counter_dma_last, counter_done_transfer, vrd,
                  writer, faults, clashed>>)

CallbackItem ==
    /\ callback.pc = "item" /\ callback.next # callback.end
    /\ LET i == callback.next
       IN IF items[i].started
          THEN /\ TransferReturns(i)
               /\ callback' = [callback EXCEPT !.pc = "put", !.off = PutOff(i)]
               /\ clashed' = (clashed \/ (PutOff(i) # NoOff /\ writer.off # NoOff))
               /\ UNCHANGED counter_done_transfer
          ELSE /\ callback' = [callback EXCEPT !.next = (@ + 1) % Items]
               /\ counter_done_transfer' = ItemAdd(counter_done_transfer)
               /\ UNCHANGED <<used_ring, tx_used, items, clashed>>
    /\ SenderOf(<<memory, counter_dma_last, vrd, writer, dma, faults>>)

CallbackItemEnd ==
    /\ callback.pc = "put"
    /\ TransferEnds(callback.next, callback.off)
    /\ callback' = [callback EXCEPT !.pc = "item", !.off = NoOff, !.next = (@ + 1) % Items]
    /\ counter_done_transfer' = ItemAdd(counter_done_transfer)
    /\ SenderOf(<<memory, counter_dma_last, vrd, writer, faults, clashed>>)

CallbackReturn ==
    /\ callback.pc = "item" /\ callback.next = callback.end
    /\ callback' = CallbackIdle
    /\ SenderOf(<<used_ring, memory, tx_used, items, counter_dma_last, counter_done_transfer, vrd,
                  writer, dma, faults, clashed>>)

-----------------------------------------------------------------------------
PollNext == Poll \/ KvecPut \/ UpdateIdx
VrdNext == GetRead \/ TransferRead \/ ChooseRing \/ KvecGet
WriteNext == WriteStart \/ Submit \/ WriteFailed
DmaNext == DmaMove \/ DmaForget
CallbackNext == CallbackStart \/ CallbackItem \/ CallbackItemEnd \/ CallbackReturn

Next == \/ PollNext \/ Consume
        \/ Send \/ VrdNext \/ WriteNext \/ DmaNext \/ CallbackNext

(***************************************************************************)
(* The driver polls after the interrupt that follows Consume, threads run  *)
(* and poll for what they wait for (a lost interrupt only costs a          *)
(* timeout), and the channel moves and calls back: PlxDma.  Nobody has to  *)
(* send.                                                                   *)
(***************************************************************************)
Spec == /\ Init /\ [][Next]_vars
        /\ WF_vars(PollNext) /\ WF_vars(Consume) /\ WF_vars(VrdNext)
        /\ WF_vars(WriteNext) /\ WF_vars(DmaNext) /\ WF_vars(CallbackNext)

-----------------------------------------------------------------------------
Messages == 0..Len(SizeOf)
HeadOrNone == Heads \union {NoHead}

(* Values of the kind the driver gives its variables; every counter is in  *)
(* its range, and a buffer is taken with both its elements.                *)
TypeOK ==
    /\ {free, vringh_rcv, vq_used} \subseteq Seq(Heads) /\ ring_of \in [Heads -> RingIds]
    /\ update.on \in BOOLEAN /\ update.dirty \subseteq RingIds
    /\ \A r \in RingIds : /\ {rings[r].put, rings[r].cnt, rings[r].last_cnt} \subseteq 0..2 * Num - 1
                          /\ \A i \in 0..Num - 1 : rings[r].buf[i].iov \in HeadOrNone
    /\ {used_ring.put, used_ring.cnt, used_ring.last_cnt} \subseteq 0..2 * Num - 1
    /\ memory \in [Heads -> Messages] /\ received \in Seq(Messages)
    /\ \A i \in 0..Items - 1 : /\ items[i].head_to \in HeadOrNone
                               /\ items[i].num_kvecs_to \in {0, 2}
    /\ \A i \in DOMAIN dma : dma[i].dst \in Heads

(***************************************************************************)
(* No buffer is lost and none is given to two: every buffer is free, in    *)
(* the driver's queue, in a ring and not yet taken, with an item, in the   *)
(* used ring and not yet consumed, or to be polled, and in one of them     *)
(* only.  Failed transfers included.                                       *)
(***************************************************************************)
Elements(r) == [k \in 1..Between(rings[r].last_cnt, rings[r].put) |->
                  rings[r].buf[KvecIdx(rings[r].last_cnt + k - 1)]]
Returned == [k \in 1..Between(used_ring.last_cnt, used_ring.cnt) |->
               used_ring.buf[KvecIdx(used_ring.last_cnt + k - 1)]]
Holders ==
    LET taken == SelectSeq([i \in 1..Items |-> items[i - 1].head_to], LAMBDA h : h # NoHead)
        offered(r) == [k \in 1..Len(Elements(r)) \div 2 |-> Elements(r)[2 * k - 1].head]
    IN  free \o vringh_rcv \o vq_used \o taken \o Returned
          \o FlattenSeq([r \in 1..Rings |-> offered(r - 1)])

BuffersConserved == Len(Holders) = Len(Sizes) /\ ToSet(Holders) = Heads

(***************************************************************************)
(* The receiver gets the messages that were sent, in order, each after its *)
(* data has moved.  As long as no transfer has failed.                     *)
(***************************************************************************)
Intact == faults = 0 => /\ Len(received) <= sent
                        /\ \A i \in DOMAIN received : received[i] = i

(***************************************************************************)
(* Every message sent is reported to the receiver in the end, and its      *)
(* descriptor comes back to the sender's driver, failed transfers          *)
(* included.  Except that a descriptor may be lost when two threads were   *)
(* returning one at the same time, and that nothing is claimed when a      *)
(* callback takes the ring for empty (which takes Items - 1 failed         *)
(* transfers), nor when a thread was lost.                                 *)
(***************************************************************************)
TxDone == {tx_used.ring[k] : k \in 1..tx_used.idx}
TakenForEmpty ==
    /\ callback.pc = "idle" /\ dma # <<>> /\ Head(dma).moved /\ Head(dma).callback
    /\ ItemAt(counter_done_transfer) = CallbackEnd(Head(dma).id)
EveryMessageArrives ==
    \/ <>TakenForEmpty
    \/ []<>(writer.pc = "lost" \/ (Len(received) = sent /\ (clashed \/ TxDone = 1..sent)))

(***************************************************************************)
(* No two threads are inside put_descriptors of one ring, which its        *)
(* comment asks of the callers.  Expected to fail: a callback finishes an  *)
(* item while vrd returns the descriptor of a transfer that failed.        *)
(***************************************************************************)
PutsSynchronized == ~clashed

(***************************************************************************)
(* A callback finds its own item among those it has to finish, which the   *)
(* error it prints otherwise says.  Expected to fail: after Items - 1      *)
(* failed transfers in a row it finds none.                                *)
(***************************************************************************)
CallbackIdRight == [][callback.pc = "idle" /\ callback'.pc = "item"
                      => callback'.next # callback'.end]_vars
=============================================================================
