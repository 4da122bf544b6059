------------------------------- MODULE MCAlm --------------------------------
(***************************************************************************)
(* Small instances of Alm, and the loop of plx_alm_add_entry written out   *)
(* step by step, to compare with the declarative search of Alm.            *)
(***************************************************************************)
EXTENDS Alm, TLC

Request(a, s) == [addr |-> a, size |-> s]

(* Segments of 2 bytes: requests of one to three segments that are equal,  *)
(* nested, overlapping and apart, one not aligned, one too big.            *)
MCRequests == {Request(0, 2), Request(1, 2), Request(4, 2), Request(4, 6),
               Request(6, 3), Request(0, 11)}

MCStaleTables == {[i \in Segments |-> Off], [i \in Segments |-> 0]}

Symmetry == Permutations(Handles)

(* The loop from segment i, with free_slots free ones just before it and   *)
(* the match found so far: <<match, idx>>.                                 *)
RECURSIVE Scan(_, _, _, _, _)
Scan(e, r, i, free_slots, match) ==
    IF i >= SegmentsNum THEN <<match, 0>>
    ELSE IF e[i].counter = 0
    THEN LET slots == IF match = -1 THEN free_slots + 1 ELSE free_slots
         IN  Scan(e, r, i + 1, slots,
                  IF match = -1 /\ slots = SegmentsOf(r) THEN i - SegmentsOf(r) + 1
                  ELSE match)
    ELSE LET idx == (Masked(r.addr) - e[i].value) \div SegmentSize
         IN  IF /\ Masked(r.addr) >= e[i].value /\ idx < SegmentsNum
                /\ idx + SegmentsOf(r) <= e[i].segments_count
             THEN <<i, idx>>
             ELSE Scan(e, r, i + e[i].segments_count, 0, match)

(***************************************************************************)
(* In every reachable table the loop of plx_alm_add_entry finds, for every *)
(* request, the place that Sharable, Room and First define.                *)
(***************************************************************************)
ScanAgrees ==
    \A r \in Requests :
       Scan(entries, r, 0, 0, -1) =
          IF Sharable(entries, r) # {}
          THEN LET b == First(Sharable(entries, r))
               IN  <<b, (Masked(r.addr) - entries[b].value) \div SegmentSize>>
          ELSE IF Room(entries, r) # {} THEN <<First(Room(entries, r)), 0>>
          ELSE <<-1, 0>>
=============================================================================
