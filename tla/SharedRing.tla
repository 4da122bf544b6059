----------------------------- MODULE SharedRing -----------------------------
(***************************************************************************)
(* The lock-free ring behind a queue_object of mem-sharing-library.        *)
(*                                                                         *)
(* ring_2mb lives in the memory of the consumer's machine: the words of    *)
(* all channels, then for every channel the index the producer publishes   *)
(* (REMOTE_PRODUCER, here RP) and the consumer's own index                 *)
(* (LOCAL_CONSUMER, here LC).  ring_4kb lives in the memory of the         *)
(* producer's machine: the producer's own index (LOCAL_PRODUCER, here LP)  *)
(* and the one the consumer publishes (REMOTE_CONSUMER, here RC).  Each    *)
(* side writes across the bus into the other one's memory and only ever    *)
(* reads its own.                                                          *)
(*                                                                         *)
(* Stores into remote memory go through a write-combining buffer: they     *)
(* become visible one by one, in any order, and an mfence waits for them.  *)
(* pend holds the words a memcpy has stored and the bus has not delivered, *)
(* rpWb and rcWb the last index stored remotely, visible or not.           *)
(***************************************************************************)
EXTENDS Integers, Sequences

CONSTANTS Channels,   \* the channels of the queue_object that are in use
          MaxChannels,\* MAX_CHANNELS_PER_VCA_SOCKET
          MaxItems,   \* MAX_ITEMS: ring slots of one channel
          UIntSpan,   \* number of values of an unsigned int
          Bursts,     \* the numbers of words one call may ask to transfer
          MaxWords    \* bound: words a producer offers to one channel

ASSUME RingAssumption ==
    /\ MaxChannels \in Nat /\ Channels \subseteq 0..(MaxChannels - 1)
    /\ MaxItems \in Nat \ {0, 1}
    /\ Bursts \subseteq Nat \ {0}
    /\ MaxWords \in Nat

(* An unsigned int holds every index, and wraps at a multiple of MAX_ITEMS. *)
ASSUME SpanAssumption ==
    /\ UIntSpan \in Nat
    /\ \E q \in (MaxChannels + 2)..UIntSpan : UIntSpan = q * MaxItems

VARIABLES ring,       \* the words of ring_2mb
          LP, RC,     \* ring_4kb
          RP, LC,     \* ring_2mb
          pend,       \* words stored by the producer, not yet visible
          rpWb, rcWb, \* remote indices stored, visible or not
          ppc, preq,  \* producer: where it is in the call, total_elements
          cpc, creq,  \* consumer: where it is in the call, max_requested
          buf,        \* the consumer's buffer
          sent, rcvd, delivered  \* history: see FifoChannels

prodVars == <<LP, pend, rpWb, ppc, preq, sent>>
consVars == <<LC, rcWb, cpc, creq, buf, rcvd, delivered>>
busVars  == <<ring, RP, RC>>
vars     == <<prodVars, consVars, busVars>>

Fifo == INSTANCE FifoChannels

Addresses == 0..(MaxChannels * MaxItems - 1)
Blank     == <<-1, -1>>
Words     == {Blank} \cup (Channels \X Nat)

LowerBound(c) == c * MaxItems
UpperBound(c) == LowerBound(c) + MaxItems
Indices(c)    == LowerBound(c)..UpperBound(c)

UInt(x)      == x % UIntSpan
Lesser(a, b) == IF a < b THEN a ELSE b

(* Faulty variant: the slot that tells a full ring from an empty one is used. *)
MaxDistNoSpare(c) == (UInt(RC[c] - UInt(LP[c] + 1)) % MaxItems) + 1
(* Words that may be stored without overtaking the consumer. *)
MaxDist(c)      == UInt(RC[c] - UInt(LP[c] + 1)) % MaxItems
(* Faulty variant: the difference of the indices is not reduced. *)
MaxAvailableNoWrap(c) == UInt(RP[c] - LC[c])
(* Words the producer has published and the consumer has not taken. *)
MaxAvailable(c) == UInt(RP[c] - LC[c]) % MaxItems

(* num_elements and remaining_elements of a transfer of n words at index i. *)
FirstPart(c, i, n) == Lesser(UpperBound(c) - i, n)
Remaining(c, i, n) == n - FirstPart(c, i, n)
(* Faulty variant: the index runs on past UPPER_BOUND. *)
AdvanceNoWrap(c, i, n) == i + n
(* The index after a transfer of n words at index i. *)
Advance(c, i, n) == IF Remaining(c, i, n) # 0
                    THEN LowerBound(c) + Remaining(c, i, n)
                    ELSE i + FirstPart(c, i, n)

(* The stores of a memcpy of n words of channel c, word k first, to index i. *)
Stores(c, i, k, n) == {<<i + j, <<c, k + j>>>> : j \in 0..(n - 1)}

-----------------------------------------------------------------------------
(* allocate_ring sets both indices of every channel to its first slot. *)
Init == /\ ring = [a \in Addresses |-> Blank]
        /\ LP = [c \in Channels |-> LowerBound(c)]
        /\ RC = [c \in Channels |-> LowerBound(c)]
        /\ RP = [c \in Channels |-> LowerBound(c)]
        /\ LC = [c \in Channels |-> LowerBound(c)]
        /\ pend = [c \in Channels |-> {}]
        /\ rpWb = [c \in Channels |-> LowerBound(c)]
        /\ rcWb = [c \in Channels |-> LowerBound(c)]
        /\ ppc = [c \in Channels |-> "idle"]
        /\ cpc = [c \in Channels |-> "idle"]
        /\ preq = [c \in Channels |-> 0]
        /\ creq = [c \in Channels |-> 0]
        /\ buf = [c \in Channels |-> <<>>]
        /\ Fifo!FifoInit

-----------------------------------------------------------------------------
(* s_variable_multi_enqueue, first the call that finds no room ... *)
EnqueueFull(c, n) ==
    /\ ppc[c] = "idle"
    /\ ~ (n <= MaxDist(c))
    /\ UNCHANGED vars

(* ... then the one that does: both indices are read, the check is passed. *)
EnqueueStart(c, n) ==
    /\ ppc[c] = "idle"
    /\ sent[c] + n <= MaxWords
    /\ n <= MaxDist(c)
    /\ ppc' = [ppc EXCEPT ![c] = "copy"]
    /\ preq' = [preq EXCEPT ![c] = n]
    /\ UNCHANGED <<LP, pend, rpWb, sent, consVars, busVars>>

EnqueueCopy(c) ==
    /\ ppc[c] = "copy"
    /\ pend' = [pend EXCEPT ![c] = @ \cup
                   Stores(c, LP[c], sent[c], FirstPart(c, LP[c], preq[c]))]
    /\ ppc' = [ppc EXCEPT ![c] = "fence"]
    /\ UNCHANGED <<LP, rpWb, preq, sent, consVars, busVars>>

(* mfence: every store of this producer is visible before it goes on. *)
Drained(c) == pend[c] = {} /\ RP[c] = rpWb[c]

(* Faulty variant: the fence after the copy is missing. *)
EnqueueFenceMissing(c) ==
    /\ ppc[c] = "fence"
    /\ ppc' = [ppc EXCEPT ![c] =
                  IF Remaining(c, LP[c], preq[c]) # 0 THEN "wrap" ELSE "lp"]
    /\ UNCHANGED <<LP, pend, rpWb, preq, sent, consVars, busVars>>

EnqueueFence(c) ==
    /\ ppc[c] = "fence"
    /\ Drained(c)
    /\ ppc' = [ppc EXCEPT ![c] =
                  IF Remaining(c, LP[c], preq[c]) # 0 THEN "wrap" ELSE "lp"]
    /\ UNCHANGED <<LP, pend, rpWb, preq, sent, consVars, busVars>>

EnqueueWrap(c) ==
    /\ ppc[c] = "wrap"
    /\ pend' = [pend EXCEPT ![c] = @ \cup
                   Stores(c, LowerBound(c), sent[c] + FirstPart(c, LP[c], preq[c]),
                          Remaining(c, LP[c], preq[c]))]
    /\ ppc' = [ppc EXCEPT ![c] = "wrapfence"]
    /\ UNCHANGED <<LP, rpWb, preq, sent, consVars, busVars>>

EnqueueWrapFence(c) ==
    /\ ppc[c] = "wrapfence"
    /\ Drained(c)
    /\ ppc' = [ppc EXCEPT ![c] = "lp"]
    /\ UNCHANGED <<LP, pend, rpWb, preq, sent, consVars, busVars>>

(* ring[RP] = prod_cons_array[LP] = ...: the local store comes first ... *)
EnqueueStoreLP(c) ==
    /\ ppc[c] = "lp"
    /\ LP' = [LP EXCEPT ![c] = Advance(c, @, preq[c])]
    /\ sent' = [sent EXCEPT ![c] = @ + preq[c]]
    /\ ppc' = [ppc EXCEPT ![c] = "rp"]
    /\ UNCHANGED <<pend, rpWb, preq, consVars, busVars>>

(* Faulty variant: the remote index is not stored. *)
EnqueueStoreRPLost(c) ==
    /\ ppc[c] = "rp"
    /\ ppc' = [ppc EXCEPT ![c] = "idle"]
    /\ UNCHANGED <<LP, pend, rpWb, preq, sent, consVars, busVars>>

(* ... then the remote one, and the call returns total_elements. *)
EnqueueStoreRP(c) ==
    /\ ppc[c] = "rp"
    /\ rpWb' = [rpWb EXCEPT ![c] = LP[c]]
    /\ ppc' = [ppc EXCEPT ![c] = "idle"]
    /\ UNCHANGED <<LP, pend, preq, sent, consVars, busVars>>

-----------------------------------------------------------------------------
(* s_variable_multi_dequeue.  The build for the card has no fence here, and *)
(* the one for the host only admits fewer orders, so none is modelled.      *)
DequeueEmpty(c, n) ==
    /\ cpc[c] = "idle"
    /\ ~ (n <= MaxAvailable(c))
    /\ UNCHANGED vars

DequeueStart(c, n) ==
    /\ cpc[c] = "idle"
    /\ n <= MaxAvailable(c)
    /\ cpc' = [cpc EXCEPT ![c] = "copy"]
    /\ creq' = [creq EXCEPT ![c] = n]
    /\ buf' = [buf EXCEPT ![c] = <<>>]
    /\ UNCHANGED <<LC, rcWb, rcvd, delivered, prodVars, busVars>>

DequeueCopy(c) ==
    /\ cpc[c] = "copy"
    /\ buf' = [buf EXCEPT ![c] =
                  [j \in 1..FirstPart(c, LC[c], creq[c]) |-> ring[LC[c] + j - 1]]]
    /\ cpc' = [cpc EXCEPT ![c] =
                  IF Remaining(c, LC[c], creq[c]) # 0 THEN "wrap" ELSE "lc"]
    /\ UNCHANGED <<LC, rcWb, creq, rcvd, delivered, prodVars, busVars>>

DequeueWrap(c) ==
    /\ cpc[c] = "wrap"
    /\ LET num == FirstPart(c, LC[c], creq[c])
       IN  buf' = [buf EXCEPT ![c] =
                      [j \in 1..creq[c] |-> IF j <= num THEN @[j]
                                            ELSE ring[LowerBound(c) + j - num - 1]]]
    /\ cpc' = [cpc EXCEPT ![c] = "lc"]
    /\ UNCHANGED <<LC, rcWb, creq, rcvd, delivered, prodVars, busVars>>

(* prod_cons_array[RC] = ring[LC] = ...: again the local store comes first. *)
DequeueStoreLC(c) ==
    /\ cpc[c] = "lc"
    /\ LC' = [LC EXCEPT ![c] = Advance(c, @, creq[c])]
    /\ rcvd' = [rcvd EXCEPT ![c] = @ + creq[c]]
    /\ delivered' = [delivered EXCEPT ![c] = buf[c]]
    /\ cpc' = [cpc EXCEPT ![c] = "rc"]
    /\ UNCHANGED <<rcWb, creq, buf, prodVars, busVars>>

DequeueStoreRC(c) ==
    /\ cpc[c] = "rc"
    /\ rcWb' = [rcWb EXCEPT ![c] = LC[c]]
    /\ cpc' = [cpc EXCEPT ![c] = "idle"]
    /\ UNCHANGED <<LC, creq, buf, rcvd, delivered, prodVars, busVars>>

-----------------------------------------------------------------------------
(* The bus makes a store of either side visible in the other one's memory. *)
DeliverWord(c) ==
    \E s \in pend[c] :
       /\ ring' = [ring EXCEPT ![s[1]] = s[2]]
       /\ pend' = [pend EXCEPT ![c] = @ \ {s}]
       /\ UNCHANGED <<LP, rpWb, ppc, preq, sent, consVars, RP, RC>>

DeliverRP(c) ==
    /\ RP[c] # rpWb[c]
    /\ RP' = [RP EXCEPT ![c] = rpWb[c]]
    /\ UNCHANGED <<ring, RC, prodVars, consVars>>

DeliverRC(c) ==
    /\ RC[c] # rcWb[c]
    /\ RC' = [RC EXCEPT ![c] = rcWb[c]]
    /\ UNCHANGED <<ring, RP, prodVars, consVars>>

-----------------------------------------------------------------------------
Producer(c) ==
    \/ \E n \in Bursts : EnqueueFull(c, n) \/ EnqueueStart(c, n)
    \/ EnqueueCopy(c) \/ EnqueueFence(c) \/ EnqueueWrap(c)
    \/ EnqueueWrapFence(c) \/ EnqueueStoreLP(c) \/ EnqueueStoreRP(c)

Consumer(c) ==
    \/ \E n \in Bursts : DequeueEmpty(c, n) \/ DequeueStart(c, n)
    \/ DequeueCopy(c) \/ DequeueWrap(c) \/ DequeueStoreLC(c) \/ DequeueStoreRC(c)

Bus(c) == DeliverWord(c) \/ DeliverRP(c) \/ DeliverRC(c)

Next == \E c \in Channels : Producer(c) \/ Consumer(c) \/ Bus(c)

Spec == Init /\ [][Next]_vars

(* A call that has begun runs to its end, the consumer keeps polling, and  *)
(* the bus does not hold a store back for ever.  A producer need not call. *)
Fairness ==
    \A c \in Channels :
       /\ WF_vars(Bus(c))
       /\ WF_vars(Consumer(c))
       /\ WF_vars(ppc[c] # "idle" /\ Producer(c))

FairSpec == Spec /\ Fairness

-----------------------------------------------------------------------------
TypeOK ==
    /\ ring \in [Addresses -> Words]
    /\ LP \in [Channels -> Nat] /\ RC \in [Channels -> Nat]
    /\ RP \in [Channels -> Nat] /\ LC \in [Channels -> Nat]
    /\ rpWb \in [Channels -> Nat] /\ rcWb \in [Channels -> Nat]
    /\ \A c \in Channels :
          {LP[c], RC[c], RP[c], LC[c], rpWb[c], rcWb[c]} \subseteq Indices(c)
    /\ pend \in [Channels -> SUBSET (Addresses \X Words)]
    /\ ppc \in [Channels -> {"idle", "copy", "fence", "wrap", "wrapfence", "lp", "rp"}]
    /\ cpc \in [Channels -> {"idle", "copy", "wrap", "lc", "rc"}]
    /\ preq \in [Channels -> Nat] /\ creq \in [Channels -> Nat]
    /\ buf \in [Channels -> Seq(Words)] /\ delivered \in [Channels -> Seq(Words)]
    /\ sent \in [Channels -> 0..MaxWords] /\ rcvd \in [Channels -> 0..MaxWords]

(* The slot j words after index i of channel c. *)
Slot(c, i, j) == IF i + j < UpperBound(c) THEN i + j ELSE i + j - MaxItems

(***************************************************************************)
(* A channel never writes outside its own slots, and never a slot that     *)
(* holds a word its consumer has yet to take: what MAX_ITEMS, the test     *)
(* against max_dist and the split at UPPER_BOUND of                        *)
(* s_variable_multi_enqueue are there for.                                 *)
(***************************************************************************)
NoOverwrite ==
    \A c \in Channels : \A s \in pend[c] :
       /\ LowerBound(c) <= s[1] /\ s[1] < UpperBound(c)
       /\ \A j \in 0..(sent[c] - rcvd[c] - 1) : s[1] # Slot(c, LC[c], j)

(***************************************************************************)
(* A word counted by the index the consumer sees is in its slot: the       *)
(* consumer's copy yields exactly the words that follow the ones it took   *)
(* before, whatever the producer does meanwhile.                           *)
(***************************************************************************)
CopiesInOrder ==
    \A c \in Channels :
       cpc[c] = "lc" => buf[c] = Fifo!Run(c, rcvd[c], creq[c])

(***************************************************************************)
(* The ring is a bounded lossless FIFO (FifoChannels): an enqueue takes    *)
(* effect when it stores LOCAL_PRODUCER, a dequeue when it stores          *)
(* LOCAL_CONSUMER.                                                         *)
(***************************************************************************)
ImplementsFifo == Fifo!FifoSpec

(***************************************************************************)
(* No published word stays in the ring for good while the consumer polls   *)
(* with some burst size: less than the smallest burst is left behind, again*)
(* and again.  Were an index lost or full taken for empty, both sides      *)
(* would spin.                                                             *)
(***************************************************************************)
DrainsAgain ==
    \A c \in Channels : []<>(\E n \in Bursts : sent[c] - rcvd[c] < n)

-----------------------------------------------------------------------------
(***************************************************************************)
(* The inductive invariant behind these properties.  Indices are compared  *)
(* by the number of words from one to the other, slots by their distance   *)
(* from an index, so that LOWER_BOUND and UPPER_BOUND name the same slot.  *)
(***************************************************************************)
Gap(a, b) == IF a - b = MaxItems THEN 0
             ELSE IF a >= b THEN a - b ELSE a - b + MaxItems

(* Word j after the ones sent is in its slot, or on its way there. *)
Stored(c, j)  == ring[Slot(c, LP[c], j)] = <<c, sent[c] + j>>
Posted(c, j)  == <<Slot(c, LP[c], j), <<c, sent[c] + j>>>> \in pend[c]

(* RC, LC, RP and LP follow one another round the ring, less than a lap apart. *)
IndexInv(c) ==
    /\ sent[c] - rcvd[c] = Gap(LP[c], LC[c])
    /\ Gap(LP[c], RP[c]) + Gap(RP[c], LC[c]) = Gap(LP[c], LC[c])
    /\ Gap(LP[c], LC[c]) + Gap(LC[c], RC[c]) = Gap(LP[c], RC[c])
    /\ ppc[c] # "rp" => rpWb[c] = LP[c]
    /\ ppc[c] = "rp" => Gap(LP[c], rpWb[c]) = preq[c]
    /\ ppc[c] \in {"wrap", "wrapfence", "lp", "rp"} => RP[c] = rpWb[c]
    /\ cpc[c] # "rc" => rcWb[c] = LC[c]
    /\ cpc[c] = "rc" => Gap(LC[c], rcWb[c]) = creq[c]
    /\ Gap(LC[c], rcWb[c]) + Gap(rcWb[c], RC[c]) = Gap(LC[c], RC[c])

CallInv(c) ==
    /\ ppc[c] \in {"copy", "fence", "wrap", "wrapfence", "lp"} =>
          /\ preq[c] \in Bursts
          /\ preq[c] < MaxItems - Gap(LP[c], RC[c])
          /\ sent[c] + preq[c] <= MaxWords
    /\ ppc[c] = "rp" => preq[c] \in Bursts
    /\ cpc[c] \in {"copy", "wrap", "lc"} =>
          creq[c] \in Bursts /\ creq[c] <= Gap(RP[c], LC[c])
    /\ cpc[c] = "rc" => creq[c] \in Bursts
    /\ ppc[c] \in {"wrap", "wrapfence"} => Remaining(c, LP[c], preq[c]) # 0
    /\ cpc[c] = "wrap" => Remaining(c, LC[c], creq[c]) # 0

(* The words sent and not yet taken are in the slots that follow LC. *)
UnreadInv(c) ==
    \A j \in 0..(sent[c] - rcvd[c] - 1) : ring[Slot(c, LC[c], j)] = <<c, rcvd[c] + j>>

(* Only words of the burst being copied are under way, each to its slot. *)
PendInv(c) ==
    /\ ppc[c] \notin {"fence", "wrapfence"} => pend[c] = {}
    /\ \A s \in pend[c] : \E j \in 0..(preq[c] - 1) :
          s = <<Slot(c, LP[c], j), <<c, sent[c] + j>>>>

(* How far the copy of a burst has come. *)
CopyInv(c) ==
    LET num == FirstPart(c, LP[c], preq[c])
    IN  /\ ppc[c] = "fence" => \A j \in 0..(num - 1) : Stored(c, j) \/ Posted(c, j)
        /\ ppc[c] \in {"wrap", "wrapfence"} => \A j \in 0..(num - 1) : Stored(c, j)
        /\ ppc[c] = "wrapfence" => \A j \in num..(preq[c] - 1) : Stored(c, j) \/ Posted(c, j)
        /\ ppc[c] = "lp" => \A j \in 0..(preq[c] - 1) : Stored(c, j)

BufInv(c) ==
    /\ cpc[c] = "wrap" => buf[c] = Fifo!Run(c, rcvd[c], FirstPart(c, LC[c], creq[c]))
    /\ cpc[c] = "lc" => buf[c] = Fifo!Run(c, rcvd[c], creq[c])

ChannelInv(c) == /\ IndexInv(c) /\ CallInv(c)
                 /\ UnreadInv(c) /\ PendInv(c) /\ CopyInv(c) /\ BufInv(c)

RingInv == TypeOK /\ \A c \in Channels : ChannelInv(c)
=============================================================================
