---------------------------- MODULE BlockDevice -----------------------------
(***************************************************************************)
(* What a block device promises its users, whatever lies behind it: each   *)
(* unit of a bio (one page buffer of a segment) is read or written at one  *)
(* instant after the bio was submitted, a bio ends once, and one that ends *)
(* without an error has had all its units.  Units of a bio that ended with *)
(* an error may still take place: the backend's comments say so of its     *)
(* transfers.  Nothing orders the units of two bios that are both pending. *)
(***************************************************************************)
EXTENDS Naturals, Sequences

CONSTANTS
    Bios,       \* the bios users submit
    Writes,     \* those of them that write; the others read
    Parts,      \* the segments of a bio: each the sectors of its page buffers
    Sectors,
    Blank       \* the content of a sector never written

VARIABLES
    status,     \* [Bios -> {"new", "pending", "ok", "error"}]
    media,      \* the content of each sector: the bio that wrote it, or Blank
    took        \* the units that have taken place, with what they wrote or read

vars == <<status, media, took>>

Units(b) == UNION {{<<p, k>> : k \in 1..Len(Parts[b][p])} : p \in 1..Len(Parts[b])}

SectorOf(b, u) == Parts[b][u[1]][u[2]]

Init == /\ status = [b \in Bios |-> "new"]
        /\ media = [s \in Sectors |-> Blank]
        /\ took = {}

Submit(b) == /\ status[b] = "new"
             /\ status' = [status EXCEPT ![b] = "pending"]
             /\ UNCHANGED <<media, took>>

Taken(b, u) == \E t \in took : t.bio = b /\ t.unit = u

(* A unit of b takes place once, while b is pending or after it failed.    *)
TakePlace(b, u, value) ==
    /\ status[b] \in {"pending", "error"} /\ ~Taken(b, u)
    /\ took' = took \union {[bio |-> b, unit |-> u, data |-> value]}
    /\ UNCHANGED status

Write(b, u) == /\ b \in Writes
               /\ TakePlace(b, u, b)
               /\ media' = [media EXCEPT ![SectorOf(b, u)] = b]

Read(b, u) == /\ b \notin Writes
              /\ TakePlace(b, u, media[SectorOf(b, u)])
              /\ UNCHANGED media

Succeed(b) == /\ status[b] = "pending" /\ \A u \in Units(b) : Taken(b, u)
              /\ status' = [status EXCEPT ![b] = "ok"]
              /\ UNCHANGED <<media, took>>

(* A bio is refused at once (a write to a disk that is read only) or fails *)
(* later.                                                                  *)
Fail(b) == /\ status[b] \in {"new", "pending"}
           /\ status' = [status EXCEPT ![b] = "error"]
           /\ UNCHANGED <<media, took>>

Next == \E b \in Bios : \/ Submit(b) \/ Succeed(b) \/ Fail(b)
                        \/ \E u \in Units(b) : Write(b, u) \/ Read(b, u)

Spec == Init /\ [][Next]_vars
=============================================================================
