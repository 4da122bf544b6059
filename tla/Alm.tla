-------------------------------- MODULE Alm ---------------------------------
(***************************************************************************)
(* The manager of the A-LUT, the address lookup table of the PLX non       *)
(* transparent bridge (plx_alm.c), with the functions of plx_hw.c that     *)
(* program the table from it.                                              *)
(*                                                                         *)
(* The BAR of the bridge is cut into segments; a table entry redirects one *)
(* segment to a page of the peer's memory.  plx_ioremap asks for a block   *)
(* of consecutive segments or shares one that covers the request; a block  *)
(* whose last user is gone stays in place (ALUT_UNMAP_LAZY) until a        *)
(* request finds no room.  Both sides run under alm_lock, so one call is   *)
(* one action.                                                             *)
(***************************************************************************)
EXTENDS Integers, FiniteSets

CONSTANTS SegmentsNum,  \* segments_num: entries of the table
          SegmentSize,  \* segment_size in bytes
          CounterSpan,  \* number of values of a counter (u16)
          Requests,     \* the [addr, size] that callers ask to map
          Handles,      \* bound: one for each mapping held at a time
          StaleTables   \* what an earlier driver may have left in the table

Segments == 0..(SegmentsNum - 1)
Off      == -1          \* an entry without permissions

ASSUME AlmAssumption ==
    /\ SegmentsNum \in Nat \ {0} /\ SegmentSize \in Nat \ {0}
    /\ CounterSpan \in Nat \ {0, 1, 2}
    /\ Requests \subseteq [addr : Nat, size : Nat \ {0}]
    /\ IsFiniteSet(Handles)
    /\ StaleTables \subseteq [Segments -> Nat \cup {Off}]

VARIABLES entries,      \* mngr->entries
          hw,           \* hw[i]: the page segment i leads to, or Off
          live          \* live[h]: a mapping a caller holds, or None

vars == <<entries, hw, live>>

None == [bar |-> Off, addr |-> 0, size |-> 0]
Unused == [value |-> 0, counter |-> 0, segments_count |-> 0, start |-> 0]

Held == {h \in Handles : live[h] # None}

(* kzalloc; the table is cleared before segments_num is set, so not at all. *)
Init == /\ entries = [i \in Segments |-> Unused]
        /\ hw \in StaleTables
        /\ live = [h \in Handles |-> None]

-----------------------------------------------------------------------------
(* segment_size is a power of two, so that its mask takes a remainder. *)
Masked(addr) == addr - (addr % SegmentSize)

(* DIV_ROUND_UP of the bytes from the start of the first segment. *)
SegmentsOf(r) == ((r.addr % SegmentSize) + r.size + SegmentSize - 1) \div SegmentSize

Block(e, b)   == b..(b + e[b].segments_count - 1)
Blocks(e)     == {b \in Segments : e[b].counter # 0}
Free(e)       == {i \in Segments : \A b \in Blocks(e) : i \notin Block(e, b)}

(* Faulty variant: a block is shared whose end the request overruns. *)
SharesFirstSegment(e, b, r) ==
    LET idx == (Masked(r.addr) - e[b].value) \div SegmentSize
    IN  /\ Masked(r.addr) >= e[b].value
        /\ idx < e[b].segments_count
(* The request can be embedded into block b. *)
Shares(e, b, r) ==
    LET idx == (Masked(r.addr) - e[b].value) \div SegmentSize
    IN  /\ Masked(r.addr) >= e[b].value
        /\ idx < SegmentsNum
        /\ idx + SegmentsOf(r) <= e[b].segments_count

(* The loop of plx_alm_add_entry: it visits the first segment of each      *)
(* block and all free segments, and prefers the first block that covers    *)
(* the request to the first free run that is long enough.                  *)
Sharable(e, r) == {b \in Blocks(e) : Shares(e, b, r)}
Room(e, r)     == {m \in Segments : m..(m + SegmentsOf(r) - 1) \subseteq Free(e)}
(* Faulty variant: the search does not stop at the first place. *)
LastOne(S)     == CHOOSE m \in S : \A x \in S : m >= x
First(S)       == CHOOSE m \in S : \A x \in S : m <= x

(* Faulty variant: only the first entry of a block is cleared. *)
ClearedFirstOnly(e, S) == [i \in Segments |-> IF i \in S THEN Unused ELSE e[i]]
(* clear_entries of the blocks that start in S. *)
Cleared(e, S) == [i \in Segments |-> IF \E b \in S : i \in Block(e, b) THEN Unused ELSE e[i]]

(* Faulty variant: a block with one user left is taken for unused. *)
IdleInUse(e) == {b \in Blocks(e) : e[b].counter <= 2}
(* Blocks nobody uses. *)
Idle(e) == {b \in Blocks(e) : e[b].counter = 1}

(* Faulty variant: unused blocks are never cleaned up. *)
PreparedNoCleanup(r) == entries
(* plx_alm_cleanup_unused_entry, called when neither is found. *)
Prepared(r) == IF Sharable(entries, r) = {} /\ Room(entries, r) = {}
               THEN Cleared(entries, Idle(entries))
               ELSE entries

(* A new block at m.  The first use takes the counter to 2. *)
WithBlock(e, m, r) ==
    [i \in Segments |->
        IF i = m THEN [value |-> Masked(r.addr), counter |-> 2,
                       segments_count |-> SegmentsOf(r), start |-> m]
        ELSE IF i \in m..(m + SegmentsOf(r) - 1) THEN [e[i] EXCEPT !.start = m]
        ELSE e[i]]

(* The entries plx_add_a_lut_entry programs. *)
Programmed(m, r) ==
    [i \in Segments |-> IF i \in m..(m + SegmentsOf(r) - 1)
                        THEN Masked(r.addr) + (i - m) * SegmentSize
                        ELSE hw[i]]

(* Faulty variant: segments are counted from 1. *)
HandOneBased(h, id, r) ==
    live' = [live EXCEPT ![h] = [bar |-> (id - 1) * SegmentSize + (r.addr % SegmentSize),
                                 addr |-> r.addr, size |-> r.size]]
(* The BAR address handed out for a request found at segment id. *)
Hand(h, id, r) ==
    live' = [live EXCEPT ![h] = [bar |-> id * SegmentSize + (r.addr % SegmentSize),
                                 addr |-> r.addr, size |-> r.size]]

-----------------------------------------------------------------------------
(* plx_ioremap -> plx_add_a_lut_entry -> plx_alm_add_entry *)
TooBig(r) == r.size > SegmentSize * SegmentsNum

AddTooBig(r) ==
    /\ TooBig(r)
    /\ UNCHANGED vars

AddShared(h, r) ==
    /\ live[h] = None /\ ~TooBig(r)
    /\ LET e == Prepared(r)
           b == First(Sharable(e, r))
       IN  /\ Sharable(e, r) # {}
           /\ entries' = [e EXCEPT ![b].counter = (@ + 1) % CounterSpan]
           /\ Hand(h, b + (Masked(r.addr) - e[b].value) \div SegmentSize, r)
    /\ UNCHANGED hw

AddNew(h, r) ==
    /\ live[h] = None /\ ~TooBig(r)
    /\ LET e == Prepared(r)
           m == First(Room(e, r))
       IN  /\ Sharable(e, r) = {} /\ Room(e, r) # {}
           /\ entries' = WithBlock(e, m, r)
           /\ hw' = Programmed(m, r)
           /\ Hand(h, m, r)

Refused(r) == ~TooBig(r) /\ Sharable(Prepared(r), r) = {} /\ Room(Prepared(r), r) = {}

AddNoRoom(r) ==
    /\ Refused(r)
    /\ entries' = Prepared(r)
    /\ UNCHANGED <<hw, live>>

(* plx_iounmap -> plx_del_a_lut_entry -> plx_alm_del_entry.  BUG_ON stops  *)
(* the kernel.  The counter of a block in use is at least 2, so a caller's *)
(* unmap leaves the block and its permissions behind.                      *)
SegmentOf(h) == live[h].bar \div SegmentSize
Owner(e, h)  == e[SegmentOf(h)].start

Del(h) ==
    /\ live[h] # None
    /\ live[h].bar < SegmentsNum * SegmentSize
    /\ LET b == Owner(entries, h)
           e == [entries EXCEPT ![b].counter = @ - 1]
       IN  /\ entries[b].counter # 0
           /\ entries' = IF e[b].counter = 0 THEN Cleared(e, {b}) ELSE e
           /\ hw' = IF e[b].counter = 0
                    THEN [i \in Segments |-> IF i \in Block(e, b) THEN Off ELSE hw[i]]
                    ELSE hw
    /\ live' = [live EXCEPT ![h] = None]

(* plx_a_lut_clear, on a handshake that finds the device unused. *)
Clear ==
    /\ Held = {}
    /\ entries' = [i \in Segments |-> Unused]
    /\ hw' = [i \in Segments |-> Off]
    /\ UNCHANGED live

Next == \/ \E r \in Requests : AddTooBig(r) \/ AddNoRoom(r)
        \/ \E h \in Handles, r \in Requests : AddShared(h, r) \/ AddNew(h, r)
        \/ \E h \in Handles : Del(h)
        \/ Clear

Spec == Init /\ [][Next]_vars

-----------------------------------------------------------------------------
EntryType == [value : Nat, counter : 0..(CounterSpan - 1),
              segments_count : 0..SegmentsNum, start : Segments]

TypeOK ==
    /\ entries \in [Segments -> EntryType]
    /\ hw \in [Segments -> Nat \cup {Off}]
    /\ live \in [Handles -> [bar : Nat \cup {Off}, addr : Nat, size : Nat]]

(***************************************************************************)
(* What plx_alm_check asserts of the array in a debug build: blocks lie in *)
(* the table and do not overlap, all their segments name their first one,  *)
(* and what belongs to no block is zero.                                   *)
(***************************************************************************)
Coherent(e) ==
    /\ \A b \in Blocks(e) :
          /\ e[b].segments_count # 0
          /\ b + e[b].segments_count <= SegmentsNum
          /\ \A j \in Block(e, b) :
                /\ e[j].start = b
                /\ j # b => e[j].counter = 0 /\ e[j].segments_count = 0
    /\ \A i \in Free(e) : e[i] = Unused

AlmCheck == Coherent(entries)

(***************************************************************************)
(* The address plx_ioremap returned leads to the memory that was asked     *)
(* for, byte for byte, until it is given to plx_iounmap: no cleanup, no    *)
(* other request and no other caller's unmap takes an entry away.          *)
(***************************************************************************)
Translated ==
    \A h \in Held : \A k \in 0..(live[h].size - 1) :
       LET a == live[h].bar + k
       IN  /\ a \div SegmentSize \in Segments
           /\ hw[a \div SegmentSize] # Off
           /\ hw[a \div SegmentSize] + (a % SegmentSize) = live[h].addr + k

(***************************************************************************)
(* BUG_ON(mngr->entries[start_id].counter == 0) in plx_alm_del_entry is    *)
(* never met when a caller gives back what it was given.                   *)
(***************************************************************************)
UnmapNeverBugs == \A h \in Held : entries[Owner(entries, h)].counter # 0

(***************************************************************************)
(* A request is refused only when it does not fit: whenever plx_ioremap    *)
(* fails, no run of segments that are free or belong to blocks without a   *)
(* user is long enough for it.                                             *)
(***************************************************************************)
InUse == UNION {Block(entries, Owner(entries, h)) : h \in Held}

RefusedOnlyWhenFull ==
    \A r \in Requests : Refused(r) =>
       \A m \in Segments : ~ (m..(m + SegmentsOf(r) - 1) \subseteq Segments \ InUse)

-----------------------------------------------------------------------------
(***************************************************************************)
(* The inductive invariant behind these properties, stated of an array e   *)
(* because a request works on the array that a cleanup leaves: every       *)
(* mapping held lies in one block and at the right distance from its       *)
(* start, a counter is one more than the number of mappings held in its    *)
(* block, and the table follows the array wherever there is a block.       *)
(***************************************************************************)
HeldInv(e) ==
    \A h \in Held :
       LET b == Owner(e, h)
       IN  /\ live[h].bar \in Nat /\ live[h].size # 0
           /\ SegmentOf(h) \in Segments
           /\ b \in Blocks(e)
           /\ b <= SegmentOf(h)
           /\ SegmentOf(h) + SegmentsOf(live[h]) <= b + e[b].segments_count
           /\ e[b].value + (SegmentOf(h) - b) * SegmentSize = Masked(live[h].addr)
           /\ live[h].bar % SegmentSize = live[h].addr % SegmentSize

UsersOf(e, b) == {h \in Held : Owner(e, h) = b}

CountInv(e) == \A b \in Blocks(e) : e[b].counter = 1 + Cardinality(UsersOf(e, b))

(* Blocks are aligned, and the table follows them. *)
TableInv(e) ==
    \A b \in Blocks(e) :
       /\ e[b].value % SegmentSize = 0
       /\ \A j \in Block(e, b) : hw[j] = e[b].value + (j - b) * SegmentSize

ArrayInv(e) == /\ e \in [Segments -> EntryType]
               /\ Coherent(e) /\ HeldInv(e) /\ CountInv(e) /\ TableInv(e)

AlmInv == TypeOK /\ ArrayInv(entries)

(* A u16 counts all mappings that are held, and the one of a lazy block. *)
CountersSuffice == Cardinality(Handles) + 1 < CounterSpan
=============================================================================
