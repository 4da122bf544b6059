---------------------------- MODULE FifoChannels ----------------------------
(***************************************************************************)
(* What a queue_object of the memory sharing library promises its callers. *)
(*                                                                         *)
(* One producer and one consumer per channel exchange 8 byte words.  The   *)
(* k-th word (counting from 0) that is put into channel c is <<c, k>>.  A  *)
(* burst of words is accepted as a whole or not at all, at most            *)
(* MaxItems - 1 words are outstanding, and a burst that is handed out is   *)
(* exactly the next run of words of that channel.                          *)
(***************************************************************************)
EXTENDS Integers, Sequences

CONSTANTS Channels,   \* the channels of the queue_object that are in use
          MaxItems,   \* MAX_ITEMS: ring slots of one channel
          Bursts      \* the numbers of words one call may ask to transfer

VARIABLES sent,       \* sent[c]: words accepted from the producer so far
          rcvd,       \* rcvd[c]: words handed to the consumer so far
          delivered   \* delivered[c]: what the last dequeue handed out

fifoVars == <<sent, rcvd, delivered>>

(* The n words of channel c that follow word k - 1. *)
Run(c, k, n) == [i \in 1..n |-> <<c, k + i - 1>>]

FifoInit == /\ sent = [c \in Channels |-> 0]
            /\ rcvd = [c \in Channels |-> 0]
            /\ delivered = [c \in Channels |-> <<>>]

FifoEnqueue(c, n) ==
    /\ sent[c] + n - rcvd[c] < MaxItems
    /\ sent' = [sent EXCEPT ![c] = @ + n]
    /\ UNCHANGED <<rcvd, delivered>>

FifoDequeue(c, n) ==
    /\ rcvd[c] + n <= sent[c]
    /\ rcvd' = [rcvd EXCEPT ![c] = @ + n]
    /\ delivered' = [delivered EXCEPT ![c] = Run(c, rcvd[c], n)]
    /\ UNCHANGED sent

FifoNext == \E c \in Channels, n \in Bursts : FifoEnqueue(c, n) \/ FifoDequeue(c, n)

FifoSpec == FifoInit /\ [][FifoNext]_fifoVars
=============================================================================
