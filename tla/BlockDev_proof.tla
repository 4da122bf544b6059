--------------------------- MODULE BlockDev_proof ---------------------------
(***************************************************************************)
(* Proofs about BlockDev, for any addresses and any number of loads,       *)
(* opens, uses and failures: the backend serves the ring of the node's     *)
(* disk, and a disk in use is not taken from its user.                     *)
(***************************************************************************)
EXTENDS BlockDev, TLAPS

(* The types of TypeOK; what it says of the disk is in Disk below. *)
FeSet == [driver : {"off", "on", "unloading"},
          disk : {"none", "created", "started", "stopped"}, ring : Rings,
          ref_cnt : 0..1, pc : {"idle", "handle", "ack", "clear"}, task : Commands,
          err : {"ok", "busy", "inval", "nodev", "nomem"}, scheduled : BOOLEAN]
PageSet == [addr : Addresses, reinit : BOOLEAN, magic : BOOLEAN,
            destroying : {"no", "init", "end"}, command : Commands, ack : Commands,
            status : {"ok", "busy", "inval", "nodev", "nomem"}, ring : Rings]
BeSet == [page : Addresses \union {0}, disk : {"none", "create", "open"}, ring : Rings]
FtbSet == [scheduled : BOOLEAN, pc : {"idle", "opened", "devs", "run"}]
CountSet == [loads : 0..MaxLoads, opens : 0..MaxOpens, uses : 0..MaxUses,
             faults : 0..MaxFaults, rings : Rings]
Typed == /\ fe \in FeSet /\ page \in PageSet /\ be \in BeSet /\ ftb \in FtbSet /\ count \in CountSet
         /\ ioctl \in {"idle", "stop", "destroy"} /\ mishaps \subseteq Mishaps
         /\ dp \in {0, page.addr}

On    == fe.driver = "on"
Fresh == "stale" \notin mishaps
Clean == mishaps \cap {"stale", "late"} = {}

(* The page has been opened and closed: the backend writes to it no more.  *)
Left == ~page.reinit /\ be.page # page.addr /\ ftb.pc # "opened"

(* Whose turn it is. *)
Turns ==
    /\ fe.scheduled => fe.driver # "off"
    /\ fe.pc # "idle" => On /\ page.command # "none"
    /\ On <=> page.destroying = "no" /\ fe.driver # "off"
    /\ page.magic => ~page.reinit
    /\ page.reinit => ftb.pc = "idle" /\ (On => dp = page.addr)
    /\ be.page = 0 => be.disk # "open"
    /\ ftb.pc = "opened" => be.page = 0
    /\ ftb.pc \in {"devs", "run"} => be.page = page.addr
    /\ On /\ page.command # "none" /\ fe.pc = "idle" => fe.scheduled \/ ftb.pc = "opened"

(* A disk can be created for each open and for each page opened. *)
One(cond) == IF cond THEN 1 ELSE 0
RingCount ==
    count.rings + One(On /\ page.reinit)
        + One(On /\ page.command = "create" /\ fe.pc \in {"idle", "handle"})
            <= count.loads + count.opens

Disk ==
    /\ fe.driver # "on" => fe.disk = "none"
    /\ fe.disk = "none" => fe.ring = 0 /\ fe.ref_cnt = 0
    /\ fe.disk # "none" => page.ring = fe.ring
    /\ fe.ref_cnt > 0 => fe.disk = "started"

(* A page that a driver has put where the last one was, and that an ioctl  *)
(* opens a disk on before the backend notices.                             *)
Unnoticed ==
    /\ page.command = "create" => ioctl = "idle"
    /\ fe.pc # "idle" /\ fe.task = "create" => ioctl = "idle" /\ page.command = "create"
    /\ fe.pc = "ack" /\ fe.task = "create" /\ fe.err = "ok" => fe.disk # "none"
    /\ page.ack = "create" =>
          /\ ioctl = "idle" /\ (page.status = "ok" => fe.disk # "none")
          /\ \/ fe.pc = "clear" /\ fe.task = "create" /\ page.command = "create"
             \/ fe.pc = "idle" /\ page.command = "none"

(* Nobody creates a disk for a backend that serves one. *)
Created ==
    page.command = "create" /\ (be.disk = "open" \/ (page.ack = "create" /\ page.status = "ok"))
        => fe.disk # "none" \/ fe.pc = "clear"

(* The stages of a stop, and that its answer is the right one. *)
Stopping ==
    \/ /\ page.command = "stop" /\ page.ack = "none"
       /\ \/ fe.pc = "idle"
          \/ fe.pc = "handle" /\ fe.task = "stop"
          \/ fe.pc = "ack" /\ fe.task = "stop" /\ (fe.err # "busy" => fe.disk # "started")
    \/ /\ page.ack = "stop" /\ (page.status # "busy" => fe.disk # "started")
       /\ \/ fe.pc = "clear" /\ page.command = "stop"
          \/ fe.pc = "idle" /\ page.command = "none"

(* The answer to a destroy is not taken for that to a create. *)
Destroying ==
    /\ page.command # "create" /\ page.ack # "create"
    /\ fe.pc \in {"handle", "ack"} => fe.task # "create"

(* A disk that runs is not run again, and destroyed only when stopped. *)
Running ==
    /\ page.reinit => fe.disk # "started" /\ page.command # "run"
    /\ fe.disk = "started" => page.command # "destroy" /\ ftb.pc # "run"
    /\ page.command = "run" /\ (fe.disk = "started" \/ ftb.pc = "run") => fe.pc \in {"ack", "clear"}
    /\ ~Left /\ (be.disk # "open" \/ ioctl = "destroy") => fe.disk # "started"
    /\ ~Left /\ (ftb.pc = "run" \/ (page.command = "run" /\ fe.pc \in {"idle", "handle"}))
          => be.disk = "open" /\ ioctl = "idle"
    /\ ~Left /\ ioctl = "stop" /\ ~page.reinit => Stopping
    /\ ~Left /\ ioctl = "destroy" /\ ~page.reinit => Destroying

DevInv ==
    /\ Typed /\ Turns /\ RingCount /\ Disk /\ RingsMatch
    /\ On /\ Fresh => Created /\ (page.reinit => Unnoticed)
    /\ On /\ Clean => Running
-----------------------------------------------------------------------------
(* Types. *)

LEMMA Ranges == 0 \in Rings /\ 0 \in 0..1 /\ \A r \in Rings : r \in Nat
BY BoundsAssumption DEF Rings

LEMMA Counts ==
    ASSUME Typed
    PROVE  count.rings \in Nat /\ count.loads \in Nat /\ count.opens \in Nat
BY Ranges DEF Typed, CountSet

LEMMA TypeIs == Typed /\ Disk => TypeOK
BY DEF TypeOK, Typed, Disk, FeSet, PageSet, BeSet, FtbSet, CountSet

-----------------------------------------------------------------------------
(* Steps of the frontend, its users and its node. *)

LEMMA LoadStep ==
    ASSUME DevInv, NEW a \in Addresses, Load(a)
    PROVE  DevInv'
<1>1. Typed'
  <2>1. fe' \in FeSet
    BY Ranges DEF DevInv, Load, NewPage, FeOff, Counted, FeSet, Commands
  <2>2. page' \in PageSet
    BY Ranges DEF DevInv, Load, NewPage, FeOff, Counted, PageSet, Commands
  <2>3. dp' \in {0, page'.addr}
    BY DEF DevInv, Load, NewPage, FeOff, Counted
  <2>4. ftb' \in FtbSet
    BY DEF DevInv, Typed, Load, NewPage, FeOff, Counted, FtbSet
  <2>5. count' \in CountSet
    BY BoundsAssumption DEF DevInv, Typed, Load, NewPage, FeOff, Counted, CountSet
  <2> QED  BY <2>1, <2>2, <2>3, <2>4, <2>5 DEF DevInv, Typed, Load, NewPage, FeOff, Counted
<1>2. Turns'
  BY DEF DevInv, Load, NewPage, FeOff, Counted, Turns, On
<1>3. Disk'
  BY DEF DevInv, Load, NewPage, FeOff, Counted, Disk, On
<1>4. RingCount'
  BY Counts DEF DevInv, Load, NewPage, FeOff, Counted, RingCount, One, On, Typed, CountSet
<1>5. RingsMatch'
  BY DEF DevInv, Load, NewPage, FeOff, Counted, RingsMatch, On, Fresh
<1>6. (On /\ Fresh => Created)'
  BY DEF DevInv, Load, NewPage, FeOff, Counted, Created, On, Fresh
<1>7. (On /\ Fresh /\ page.reinit => Unnoticed)'
  BY DEF DevInv, Load, NewPage, FeOff, Counted, Unnoticed, On, Fresh
<1>8. (On /\ Clean => Running)'
  BY DEF DevInv, Load, NewPage, FeOff, Counted, Running, Stopping, Destroying, Left, On, Clean
<1> QED  BY <1>1, <1>2, <1>3, <1>4, <1>5, <1>6, <1>7, <1>8 DEF DevInv

LEMMA ProbeStartStep ==
    ASSUME DevInv, ProbeStart
    PROVE  DevInv'
<1>1. Typed'
  <2>1. fe' \in FeSet
    BY DEF DevInv, Typed, ProbeStart, FeSet, PageSet
  <2>2. ftb' \in FtbSet
    BY Ranges DEF DevInv, Typed, ProbeStart, FtbSet
  <2> QED  BY <2>1, <2>2, BoundsAssumption DEF DevInv, Typed, ProbeStart
<1>2. Turns'
  BY DEF DevInv, ProbeStart, Turns, On
<1>3. Disk'
  BY DEF DevInv, ProbeStart, Disk, On
<1>4. RingCount'
  BY Counts DEF DevInv, ProbeStart, RingCount, One, On
<1>5. RingsMatch'
  BY DEF DevInv, ProbeStart, RingsMatch, On, Fresh
<1>6. (On /\ Fresh => Created)'
  BY DEF DevInv, ProbeStart, Created, On, Fresh
<1>7. (On /\ Fresh /\ page.reinit => Unnoticed)'
  BY DEF DevInv, ProbeStart, Unnoticed, On, Fresh
<1>8. (On /\ Clean => Running)'
  BY DEF DevInv, ProbeStart, Running, Stopping, Destroying, Left, On, Clean
<1> QED  BY <1>1, <1>2, <1>3, <1>4, <1>5, <1>6, <1>7, <1>8 DEF DevInv

(* What vcablk_handle_task may do. *)
Answer(disk, ring, err) ==
    /\ fe' = [fe EXCEPT !.pc = "ack", !.err = err, !.disk = disk, !.ring = ring,
                        !.ref_cnt = IF disk = "none" THEN 0 ELSE @]
    /\ page' = [page EXCEPT !.ring = ring]
    /\ count' = [count EXCEPT !.rings = IF fe.disk = "none" /\ disk = "created" THEN @ + 1 ELSE @]

Outcome(disk, ring, err) ==
    \/ /\ page.command = "create" /\ fe.disk = "none"
       /\ disk = "created" /\ ring = count.rings + 1 /\ err = "ok"
    \/ /\ page.command \in {"create", "stop"} /\ disk = fe.disk /\ ring = fe.ring
       /\ page.command = "create" => fe.disk # "none" /\ err = "busy"
       /\ page.command = "stop" => err = "busy" \/ (err = "ok" /\ fe.disk \in {"none", "stopped"})
    \/ /\ page.command = "run" /\ fe.disk = "created"
       /\ disk = "started" /\ ring = fe.ring /\ err = "ok"
    \/ /\ page.command = "stop" /\ fe.disk # "none" /\ fe.ref_cnt = 0
       /\ disk = "stopped" /\ ring = fe.ring /\ err = "ok"
    \/ /\ page.command \in {"run", "destroy"} /\ disk = "none" /\ ring = 0
       /\ err \in {"ok", "inval", "nodev"}

LEMMA HandleOutcome ==
    ASSUME Typed, Turns, Handle
    PROVE  \E disk \in {"none", "created", "started", "stopped"}, ring \in Nat,
              err \in {"ok", "busy", "inval", "nodev"} :
                Answer(disk, ring, err) /\ Outcome(disk, ring, err)
<1> DEFINE res == HandleTask(page.command)
<1>1. /\ page.command \in {"create", "run", "stop", "destroy"}
      /\ fe.disk \in {"none", "created", "started", "stopped"} /\ fe.ref_cnt \in 0..1
      /\ fe.ring \in Nat /\ count.rings + 1 \in Nat
      /\ ~(page.command = "run" /\ fe.disk = "stopped")
  BY Ranges DEF Typed, FeSet, PageSet, CountSet, Commands, Turns, Handle
<1>2. /\ res.disk \in {"none", "created", "started", "stopped"} /\ res.ring \in Nat
      /\ res.err \in {"ok", "busy", "inval", "nodev"} /\ Outcome(res.disk, res.ring, res.err)
  <2>1. CASE page.command = "create"
    BY <1>1, <2>1 DEF HandleTask, TaskCreate, Unchanged, Result, Outcome
  <2>2. CASE page.command = "run"
    BY <1>1, <2>2 DEF HandleTask, DiskStart, NoDisk, Result, Outcome
  <2>3. CASE page.command = "stop"
    BY <1>1, <2>3 DEF HandleTask, DiskStop, Unchanged, Result, Outcome
  <2>4. CASE page.command = "destroy"
    BY <1>1, <2>4 DEF HandleTask, DiskDestroy, NoDisk, Result, Outcome
  <2> QED  BY <1>1, <2>1, <2>2, <2>3, <2>4
<1> HIDE DEF res
<1>3. Handled(res) /\ count' = [count EXCEPT !.rings = IF fe.disk = "none" /\ fe'.disk = "created"
                                                       THEN @ + 1 ELSE @]
  BY DEF Handle, res
<1>4. fe'.disk = res.disk
  BY <1>3 DEF Handled, Typed
<1>5. Answer(res.disk, res.ring, res.err)
  BY <1>3, <1>4 DEF Answer, Handled
<1> QED  BY <1>2, <1>5

LEMMA HandleStep ==
    ASSUME DevInv, Handle
    PROVE  DevInv'
<1>1. PICK disk \in {"none", "created", "started", "stopped"}, ring \in Nat,
           err \in {"ok", "busy", "inval", "nodev"} :
             Answer(disk, ring, err) /\ Outcome(disk, ring, err)
  BY HandleOutcome DEF DevInv
<1>2. /\ fe.pc = "handle" /\ On /\ UNCHANGED <<dp, be, ftb, ioctl, mishaps>>
      /\ ~(page.command = "run" /\ fe.disk = "stopped")
  BY DEF Handle, DevInv, Turns
<1>3. page.command = "create" /\ fe.disk = "none" => count.rings + 1 <= MaxLoads + MaxOpens
  <2>1. /\ count.loads \in 0..MaxLoads /\ count.opens \in 0..MaxOpens /\ count.rings \in Nat
        /\ MaxLoads \in Nat /\ MaxOpens \in Nat
    BY Ranges, BoundsAssumption DEF DevInv, Typed, CountSet
  <2>2. page.command = "create" => count.rings + 1 <= count.loads + count.opens
    BY <1>2, <2>1 DEF DevInv, RingCount, One
  <2> QED  BY <2>1, <2>2
<1>4. ring \in Rings /\ fe'.disk = disk /\ fe'.ring = ring /\ fe'.pc = "ack" /\ fe'.err = err
  <2>1. ring \in Rings
    BY <1>1, <1>3, BoundsAssumption DEF Outcome, DevInv, Typed, FeSet, Rings
  <2> QED  BY <1>1, <2>1 DEF Answer, DevInv, Typed
<1>5. Typed'
  <2>1. fe' \in FeSet
    BY <1>1, <1>4, Ranges DEF Answer, DevInv, Typed, FeSet
  <2>2. page' \in PageSet /\ page'.addr = page.addr
    BY <1>1, <1>4 DEF Answer, DevInv, Typed, PageSet
  <2>3. count' \in CountSet
    <3>1. count.rings \in Rings /\ (fe.disk = "none" /\ disk = "created" => count.rings + 1 \in Rings)
      BY <1>1, <1>4 DEF Outcome, DevInv, Typed, CountSet
    <3> QED  BY <1>1, <3>1 DEF Answer, DevInv, Typed, CountSet
  <2> QED  BY <1>2, <2>1, <2>2, <2>3 DEF DevInv, Typed
<1>6. Turns'
  BY <1>1, <1>2 DEF DevInv, Answer, Outcome, Turns, On
<1>7. Disk'
  BY <1>1, <1>2 DEF DevInv, Answer, Outcome, Disk, On
<1>8. RingCount'
  BY Counts, <1>1, <1>2 DEF DevInv, Answer, Outcome, RingCount, One, On
<1>9. RingsMatch'
  BY <1>1, <1>2 DEF DevInv, Answer, Outcome, RingsMatch, Created, On, Fresh
<1>10. (On /\ Fresh => Created)'
  BY <1>1, <1>2 DEF DevInv, Answer, Outcome, Created, On, Fresh
<1>11. (On /\ Fresh /\ page.reinit => Unnoticed)'
  BY <1>1, <1>2 DEF DevInv, Answer, Outcome, Unnoticed, On, Fresh
<1>12. (On /\ Clean => Running)'
  BY <1>1, <1>2 DEF DevInv, Answer, Outcome, Running, Stopping, Destroying, Left, On, Clean
<1> QED  BY <1>5, <1>6, <1>7, <1>8, <1>9, <1>10, <1>11, <1>12 DEF DevInv

LEMMA CreateFailsStep ==
    ASSUME DevInv, CreateFails
    PROVE  DevInv'
<1>1. Typed'
  <2>1. fe' \in FeSet
    BY Ranges DEF DevInv, Typed, CreateFails, Handled, NoDisk, Result, Counted, Happened, FeSet
  <2>2. page' \in PageSet
    BY Ranges DEF DevInv, Typed, CreateFails, Handled, NoDisk, Result, Counted, Happened, PageSet
  <2>3. count' \in CountSet
    BY BoundsAssumption DEF DevInv, Typed, CreateFails, Handled, NoDisk, Result, Counted, Happened,
      CountSet
  <2>4. mishaps' \subseteq Mishaps
    BY DEF DevInv, Typed, CreateFails, Handled, NoDisk, Result, Counted, Happened, Mishaps
  <2> QED  BY <2>1, <2>2, <2>3, <2>4 DEF DevInv, Typed, CreateFails, Handled, NoDisk, Result,
    Counted, Happened
<1>2. Turns'
  BY DEF DevInv, CreateFails, Handled, NoDisk, Result, Counted, Happened, Turns, On
<1>3. Disk'
  BY DEF DevInv, CreateFails, Handled, NoDisk, Result, Counted, Happened, Disk, On
<1>4. RingCount'
  BY Counts DEF DevInv, CreateFails, Handled, NoDisk, Result, Counted, Happened, RingCount, One, On
<1>5. RingsMatch'
  BY DEF DevInv, CreateFails, Handled, NoDisk, Result, Counted, Happened, RingsMatch, On, Fresh
<1>6. (On /\ Fresh => Created)'
  BY DEF DevInv, CreateFails, Handled, NoDisk, Result, Counted, Happened, Created, On, Fresh
<1>7. (On /\ Fresh /\ page.reinit => Unnoticed)'
  BY DEF DevInv, CreateFails, Handled, NoDisk, Result, Counted, Happened, Unnoticed, On, Fresh
<1>8. (On /\ Clean => Running)'
  BY DEF DevInv, CreateFails, Handled, NoDisk, Result, Counted, Happened, Running, Stopping,
    Destroying, Left, On, Clean
<1> QED  BY <1>1, <1>2, <1>3, <1>4, <1>5, <1>6, <1>7, <1>8 DEF DevInv

LEMMA AckStep ==
    ASSUME DevInv, Ack
    PROVE  DevInv'
<1>1. Typed'
  <2>1. fe' \in FeSet
    BY DEF DevInv, Typed, Ack, FeSet
  <2>2. page' \in PageSet
    BY DEF DevInv, Typed, Ack, PageSet, FeSet
  <2> QED  BY <2>1, <2>2, BoundsAssumption DEF DevInv, Typed, Ack
<1>2. Turns'
  BY DEF DevInv, Ack, Turns, On
<1>3. Disk'
  BY DEF DevInv, Ack, Disk, On
<1>4. RingCount'
  BY Counts DEF DevInv, Ack, RingCount, One, On
<1>5. RingsMatch'
  BY DEF DevInv, Ack, RingsMatch, On, Fresh
<1>6. (On /\ Fresh => Created)'
  BY DEF DevInv, Ack, Created, On, Fresh
<1>7. (On /\ Fresh /\ page.reinit => Unnoticed)'
  BY DEF DevInv, Ack, Unnoticed, On, Fresh
<1>8. (On /\ Clean => Running)'
  BY DEF DevInv, Ack, Running, Stopping, Destroying, Left, On, Clean
<1> QED  BY <1>1, <1>2, <1>3, <1>4, <1>5, <1>6, <1>7, <1>8 DEF DevInv

LEMMA ClearStep ==
    ASSUME DevInv, Clear
    PROVE  DevInv'
<1>1. Typed'
  <2>1. fe' \in FeSet
    BY DEF DevInv, Typed, Clear, Happened, FeSet, Commands
  <2>2. page' \in PageSet
    BY DEF DevInv, Typed, Clear, Happened, PageSet, Commands
  <2>3. ftb' \in FtbSet
    BY DEF DevInv, Typed, Clear, Happened, FtbSet
  <2>4. mishaps' \subseteq Mishaps
    BY DEF DevInv, Typed, Clear, Happened, Mishaps
  <2> QED  BY <2>1, <2>2, <2>3, <2>4 DEF DevInv, Typed, Clear, Happened
<1>2. Turns'
  BY DEF DevInv, Clear, Happened, Turns, On
<1>3. Disk'
  BY DEF DevInv, Clear, Happened, Disk, On
<1>4. RingCount'
  BY Counts DEF DevInv, Clear, Happened, RingCount, One, On
<1>5. RingsMatch'
  BY DEF DevInv, Clear, Happened, RingsMatch, On, Fresh
<1>6. (On /\ Fresh => Created)'
  BY DEF DevInv, Clear, Happened, Created, On, Fresh
<1>7. (On /\ Fresh /\ page.reinit => Unnoticed)'
  BY DEF DevInv, Clear, Happened, Unnoticed, On, Fresh
<1>8. (On /\ Clean => Running)'
  BY DEF DevInv, Clear, Happened, Running, Stopping, Destroying, Left, On, Clean
<1> QED  BY <1>1, <1>2, <1>3, <1>4, <1>5, <1>6, <1>7, <1>8 DEF DevInv

LEMMA UserStep ==
    ASSUME DevInv, UserOpen \/ UserRelease
    PROVE  DevInv'
<1>1. Typed'
  <2>1. fe' \in FeSet
    BY DEF DevInv, Typed, UserOpen, UserRelease, Counted, FeSet
  <2>2. count' \in CountSet
    BY BoundsAssumption DEF DevInv, Typed, UserOpen, UserRelease, Counted, CountSet
  <2> QED  BY <2>1, <2>2 DEF DevInv, Typed, UserOpen, UserRelease, Counted
<1>2. Turns'
  BY DEF DevInv, UserOpen, UserRelease, Counted, Turns, On, Typed, FeSet
<1>3. Disk'
  BY DEF DevInv, UserOpen, UserRelease, Counted, Disk, On, Typed, FeSet
<1>4. RingCount'
  BY Counts DEF DevInv, UserOpen, UserRelease, Counted, RingCount, One, On, Typed, FeSet, CountSet
<1>5. RingsMatch'
  BY DEF DevInv, UserOpen, UserRelease, Counted, RingsMatch, On, Fresh, Typed, FeSet
<1>6. (On /\ Fresh => Created)'
  BY DEF DevInv, UserOpen, UserRelease, Counted, Created, On, Fresh, Typed, FeSet
<1>7. (On /\ Fresh /\ page.reinit => Unnoticed)'
  BY DEF DevInv, UserOpen, UserRelease, Counted, Unnoticed, On, Fresh, Typed, FeSet
<1>8. (On /\ Clean => Running)'
  BY DEF DevInv, UserOpen, UserRelease, Counted, Running, Stopping, Destroying, Left, On, Clean,
    Typed, FeSet
<1> QED  BY <1>1, <1>2, <1>3, <1>4, <1>5, <1>6, <1>7, <1>8 DEF DevInv

LEMMA UnloadStep ==
    ASSUME DevInv, Unload
    PROVE  DevInv'
<1>1. Typed'
  <2>1. fe' \in FeSet
    BY Ranges DEF DevInv, Typed, Unload, FeSet
  <2>2. page' \in PageSet
    BY DEF DevInv, Typed, Unload, PageSet
  <2>3. ftb' \in FtbSet
    BY Ranges DEF DevInv, Typed, Unload, FtbSet
  <2> QED  BY <2>1, <2>2, <2>3, BoundsAssumption DEF DevInv, Typed, Unload
<1>2. Turns'
  BY DEF DevInv, Unload, Turns, On
<1>3. Disk'
  BY DEF DevInv, Unload, Disk, On
<1>4. RingCount'
  BY Counts DEF DevInv, Unload, RingCount, One, On
<1>5. RingsMatch'
  BY DEF DevInv, Unload, RingsMatch, On, Fresh
<1>6. (On /\ Fresh => Created)'
  BY DEF DevInv, Unload, On, Fresh
<1>7. (On /\ Fresh /\ page.reinit => Unnoticed)'
  BY DEF DevInv, Unload, On, Fresh
<1>8. (On /\ Clean => Running)'
  BY DEF DevInv, Unload, Running, Stopping, Destroying, Left, On, Clean
<1> QED  BY <1>1, <1>2, <1>3, <1>4, <1>5, <1>6, <1>7, <1>8 DEF DevInv

LEMMA OffStep ==
    ASSUME DevInv, RunStopped \/ UnloadDone \/ Crash
    PROVE  DevInv'
<1>1. Typed'
  <2>1. fe' \in FeSet
    <3>1. FeOff \in FeSet
      BY Ranges DEF FeOff, FeSet, Commands
    <3> QED  BY <3>1 DEF RunStopped, UnloadDone, Crash
  <2> QED  BY <2>1 DEF DevInv, Typed, RunStopped, UnloadDone, Crash, FeOff
<1>2. Turns'
  BY DEF DevInv, RunStopped, UnloadDone, Crash, FeOff, Turns, On
<1>3. Disk'
  BY DEF DevInv, RunStopped, UnloadDone, Crash, FeOff, Disk, On
<1>4. RingCount'
  BY Counts DEF DevInv, RunStopped, UnloadDone, Crash, FeOff, RingCount, One, On
<1>5. RingsMatch'
  BY DEF DevInv, RunStopped, UnloadDone, Crash, FeOff, RingsMatch, On, Fresh
<1>6. (On /\ Fresh => Created)'
  BY DEF DevInv, RunStopped, UnloadDone, Crash, FeOff, On, Fresh
<1>7. (On /\ Fresh /\ page.reinit => Unnoticed)'
  BY DEF DevInv, RunStopped, UnloadDone, Crash, FeOff, On, Fresh
<1>8. (On /\ Clean => Running)'
  BY DEF DevInv, RunStopped, UnloadDone, Crash, FeOff, Running, Stopping, Destroying, Left, On,
    Clean
<1> QED  BY <1>1, <1>2, <1>3, <1>4, <1>5, <1>6, <1>7, <1>8 DEF DevInv

-----------------------------------------------------------------------------
(* Steps of the backend's work. *)

LEMMA FtbPageStep ==
    ASSUME DevInv, FtbPage
    PROVE  DevInv'
<1>1. Typed'
  <2>1. fe' \in FeSet
    BY DEF DevInv, Typed, FtbPage, PageClosed, Opens, OpenDevPage, Probed, FeSet
  <2>2. page' \in PageSet
    BY DEF DevInv, Typed, FtbPage, PageClosed, Opens, OpenDevPage, Probed, PageSet, Commands
  <2>3. dp' \in {0, page'.addr}
    BY DEF DevInv, Typed, FtbPage, PageClosed, Opens, OpenDevPage, Probed
  <2>4. be' \in BeSet
    BY Ranges DEF DevInv, Typed, FtbPage, PageClosed, Opens, OpenDevPage, Probed, BeSet
  <2>5. ftb' \in FtbSet
    BY DEF DevInv, FtbPage, PageClosed, Opens, OpenDevPage, Probed, FtbSet
  <2>6. mishaps' \subseteq Mishaps
    BY DEF DevInv, Typed, FtbPage, PageClosed, Opens, OpenDevPage, Probed, Mishaps
  <2> QED  BY <2>1, <2>2, <2>3, <2>4, <2>5, <2>6 DEF DevInv, Typed, FtbPage, PageClosed, Opens,
    OpenDevPage, Probed
<1>2. Turns'
  BY DEF DevInv, FtbPage, PageClosed, Opens, OpenDevPage, Probed, Turns, On, Typed, FeSet
<1>3. Disk'
  BY DEF DevInv, FtbPage, PageClosed, Opens, OpenDevPage, Probed, Disk, On
<1>4. RingCount'
  BY Counts DEF DevInv, FtbPage, PageClosed, Opens, OpenDevPage, Probed, RingCount, One, On
<1>5. RingsMatch'
  BY DEF DevInv, FtbPage, PageClosed, Opens, OpenDevPage, Probed, RingsMatch, On, Fresh
<1>6. (On /\ Fresh => Created)'
  BY DEF DevInv, FtbPage, PageClosed, Opens, OpenDevPage, Probed, Created, Unnoticed, On, Fresh
<1>7. (On /\ Fresh /\ page.reinit => Unnoticed)'
  BY DEF DevInv, FtbPage, PageClosed, Opens, OpenDevPage, Probed, Unnoticed, On, Fresh
<1>8. (On /\ Clean => Running)'
  BY BoundsAssumption DEF DevInv, FtbPage, PageClosed, Opens, OpenDevPage, Probed, Running,
    Stopping, Destroying, Left, On, Clean, Typed, PageSet
<1> QED  BY <1>1, <1>2, <1>3, <1>4, <1>5, <1>6, <1>7, <1>8 DEF DevInv

LEMMA FtbOpenedStep ==
    ASSUME DevInv, FtbOpened
    PROVE  DevInv'
<1>1. Typed'
  <2>1. fe' \in FeSet
    BY DEF DevInv, Typed, FtbOpened, Probed, FeSet
  <2>2. be' \in BeSet
    BY DEF DevInv, Typed, FtbOpened, Probed, BeSet, PageSet
  <2>3. ftb' \in FtbSet
    BY DEF DevInv, Typed, FtbOpened, Probed, FtbSet
  <2> QED  BY <2>1, <2>2, <2>3 DEF DevInv, Typed, FtbOpened, Probed
<1>2. Turns'
  BY DEF DevInv, FtbOpened, Probed, Turns, On, Typed, FeSet, BeSet, FtbSet
<1>3. Disk'
  BY DEF DevInv, FtbOpened, Probed, Disk, On
<1>4. RingCount'
  BY Counts DEF DevInv, FtbOpened, Probed, RingCount, One, On
<1>5. RingsMatch'
  BY DEF DevInv, FtbOpened, Probed, RingsMatch, On, Fresh
<1>6. (On /\ Fresh => Created)'
  BY DEF DevInv, FtbOpened, Probed, Created, On, Fresh
<1>7. (On /\ Fresh /\ page.reinit => Unnoticed)'
  BY DEF DevInv, FtbOpened, Probed, Unnoticed, On, Fresh
<1>8. (On /\ Clean => Running)'
  BY DEF DevInv, FtbOpened, Probed, Running, Stopping, Destroying, Left, On, Clean
<1> QED  BY <1>1, <1>2, <1>3, <1>4, <1>5, <1>6, <1>7, <1>8 DEF DevInv

LEMMA FtbDevsStep ==
    ASSUME DevInv, FtbDevs
    PROVE  DevInv'
<1>1. Typed'
  <2>1. page' \in PageSet
    BY DEF DevInv, Typed, FtbDevs, BckndDiskStart, PageSet, Commands
  <2>2. be' \in BeSet
    BY DEF DevInv, Typed, FtbDevs, BckndDiskStart, BeSet, PageSet
  <2>3. ftb' \in FtbSet
    BY DEF DevInv, Typed, FtbDevs, BckndDiskStart, FtbSet
  <2> QED  BY <2>1, <2>2, <2>3 DEF DevInv, Typed, FtbDevs, BckndDiskStart
<1>2. Turns'
  BY BoundsAssumption DEF DevInv, FtbDevs, BckndDiskStart, Turns, On, Typed, PageSet
<1>3. Disk'
  BY DEF DevInv, FtbDevs, BckndDiskStart, Disk, On
<1>4. RingCount'
  BY Counts DEF DevInv, FtbDevs, BckndDiskStart, RingCount, One, On
<1>5. RingsMatch'
  BY DEF DevInv, FtbDevs, BckndDiskStart, RingsMatch, Disk, On, Fresh
<1>6. (On /\ Fresh => Created)'
  BY DEF DevInv, FtbDevs, BckndDiskStart, Created, On, Fresh
<1>7. (On /\ Fresh /\ page.reinit => Unnoticed)'
  BY DEF DevInv, FtbDevs, BckndDiskStart, Unnoticed, On, Fresh
<1>8. (On /\ Clean => Running)'
  BY DEF DevInv, FtbDevs, BckndDiskStart, Running, Stopping, Destroying, Left, Turns, On, Clean,
    Typed, FeSet
<1> QED  BY <1>1, <1>2, <1>3, <1>4, <1>5, <1>6, <1>7, <1>8 DEF DevInv

LEMMA FtbStartFailsStep ==
    ASSUME DevInv, FtbStartFails
    PROVE  DevInv'
<1>1. Typed'
  <2>1. page' \in PageSet
    BY DEF DevInv, Typed, FtbStartFails, Counted, Happened, PageSet, Commands
  <2>2. ftb' \in FtbSet
    BY DEF DevInv, Typed, FtbStartFails, Counted, Happened, FtbSet
  <2>3. count' \in CountSet
    BY BoundsAssumption DEF DevInv, Typed, FtbStartFails, Counted, Happened, CountSet
  <2>4. mishaps' \subseteq Mishaps
    BY DEF DevInv, Typed, FtbStartFails, Counted, Happened, Mishaps
  <2> QED  BY <2>1, <2>2, <2>3, <2>4 DEF DevInv, Typed, FtbStartFails, Counted, Happened
<1>2. Turns'
  BY DEF DevInv, FtbStartFails, Counted, Happened, Turns, On
<1>3. Disk'
  BY DEF DevInv, FtbStartFails, Counted, Happened, Disk, On
<1>4. RingCount'
  BY Counts DEF DevInv, FtbStartFails, Counted, Happened, RingCount, One, On
<1>5. RingsMatch'
  BY DEF DevInv, FtbStartFails, Counted, Happened, RingsMatch, On, Fresh
<1>6. (On /\ Fresh => Created)'
  BY DEF DevInv, FtbStartFails, Counted, Happened, Created, On, Fresh
<1>7. (On /\ Fresh /\ page.reinit => Unnoticed)'
  BY DEF DevInv, FtbStartFails, Counted, Happened, Unnoticed, On, Fresh
<1>8. (On /\ Clean => Running)'
  BY DEF DevInv, FtbStartFails, Counted, Happened, Running, Stopping, Destroying, Left, On, Clean
<1> QED  BY <1>1, <1>2, <1>3, <1>4, <1>5, <1>6, <1>7, <1>8 DEF DevInv

LEMMA FtbRunStep ==
    ASSUME DevInv, FtbRun
    PROVE  DevInv'
<1>1. Typed'
  <2>1. fe' \in FeSet
    BY DEF DevInv, Typed, FtbRun, Probed, FeSet
  <2>2. page' \in PageSet
    BY DEF DevInv, Typed, FtbRun, Probed, PageSet, Commands
  <2>3. ftb' \in FtbSet
    BY DEF DevInv, Typed, FtbRun, Probed, FtbSet
  <2> QED  BY <2>1, <2>2, <2>3 DEF DevInv, Typed, FtbRun, Probed
<1>2. Turns'
  BY DEF DevInv, FtbRun, Probed, Turns, On, Typed, FeSet, PageSet, FtbSet
<1>3. Disk'
  BY DEF DevInv, FtbRun, Probed, Disk, On
<1>4. RingCount'
  BY Counts DEF DevInv, FtbRun, Probed, RingCount, One, On
<1>5. RingsMatch'
  BY DEF DevInv, FtbRun, Probed, RingsMatch, On, Fresh
<1>6. (On /\ Fresh => Created)'
  BY DEF DevInv, FtbRun, Probed, Created, On, Fresh
<1>7. (On /\ Fresh /\ page.reinit => Unnoticed)'
  BY DEF DevInv, FtbRun, Probed, Turns, On, Fresh
<1>8. (On /\ Clean => Running)'
  BY DEF DevInv, FtbRun, Probed, Running, Stopping, Destroying, Left, Turns, On, Clean
<1> QED  BY <1>1, <1>2, <1>3, <1>4, <1>5, <1>6, <1>7, <1>8 DEF DevInv

LEMMA HostResetStep ==
    ASSUME DevInv, HostReset
    PROVE  DevInv'
<1>1. Typed'
  <2>1. be' \in BeSet
    BY Ranges DEF DevInv, Typed, HostReset, PageClosed, BeSet
  <2>2. ftb' \in FtbSet
    BY DEF DevInv, Typed, HostReset, PageClosed, FtbSet
  <2> QED  BY <2>1, <2>2 DEF DevInv, Typed, HostReset, PageClosed
<1>2. Turns'
  BY DEF DevInv, HostReset, PageClosed, Turns, On
<1>3. Disk'
  BY DEF DevInv, HostReset, PageClosed, Disk, On
<1>4. RingCount'
  BY Counts DEF DevInv, HostReset, PageClosed, RingCount, One, On
<1>5. RingsMatch'
  BY DEF DevInv, HostReset, PageClosed, RingsMatch, On, Fresh
<1>6. (On /\ Fresh => Created)'
  BY DEF DevInv, HostReset, PageClosed, On, Fresh
<1>7. (On /\ Fresh /\ page.reinit => Unnoticed)'
  BY DEF DevInv, HostReset, PageClosed, On, Fresh
<1>8. (On /\ Clean => Running)'
  BY DEF DevInv, HostReset, PageClosed, Running, Stopping, Destroying, Left, On, Clean
<1> QED  BY <1>1, <1>2, <1>3, <1>4, <1>5, <1>6, <1>7, <1>8 DEF DevInv

-----------------------------------------------------------------------------
(* Steps of the ioctls. *)

LEMMA IoctlOpenStep ==
    ASSUME DevInv, IoctlOpen
    PROVE  DevInv'
<1>1. Typed'
  <2>1. fe' \in FeSet
    BY DEF DevInv, Typed, IoctlOpen, Written, Mapped, UnderWay, Probed, Counted, FeSet
  <2>2. page' \in PageSet
    BY DEF DevInv, Typed, IoctlOpen, Written, Mapped, UnderWay, Probed, Counted, PageSet, Commands
  <2>3. be' \in BeSet
    BY DEF DevInv, Typed, IoctlOpen, Written, Mapped, UnderWay, Probed, Counted, BeSet
  <2>4. count' \in CountSet
    BY BoundsAssumption DEF DevInv, Typed, IoctlOpen, Written, Mapped, UnderWay, Probed, Counted,
      CountSet
  <2>5. mishaps' \subseteq Mishaps
    BY DEF DevInv, Typed, IoctlOpen, Written, Mapped, UnderWay, Probed, Counted, Mishaps
  <2> QED  BY <2>1, <2>2, <2>3, <2>4, <2>5 DEF DevInv, Typed, IoctlOpen, Written, Mapped, UnderWay,
    Probed, Counted
<1>2. Turns'
  BY DEF DevInv, IoctlOpen, Written, Mapped, UnderWay, Probed, Counted, Turns, On, Typed, FeSet,
    PageSet, BeSet
<1>3. Disk'
  BY DEF DevInv, IoctlOpen, Written, Mapped, UnderWay, Probed, Counted, Disk, On
<1>4. RingCount'
  BY Counts DEF DevInv, IoctlOpen, Written, Mapped, UnderWay, Probed, Counted, RingCount, One, On,
    Typed, CountSet
<1>5. RingsMatch'
  BY DEF DevInv, IoctlOpen, Written, Mapped, UnderWay, Probed, Counted, RingsMatch, On, Fresh
<1>6. (On /\ Fresh => Created)'
  BY DEF DevInv, IoctlOpen, Written, Mapped, UnderWay, Probed, Counted, Created, On, Fresh
<1>7. (On /\ Fresh /\ page.reinit => Unnoticed)'
  BY DEF DevInv, IoctlOpen, Written, Mapped, UnderWay, Probed, Counted, Unnoticed, On, Fresh
<1>8. (On /\ Clean => Running)'
  BY DEF DevInv, IoctlOpen, Written, Mapped, UnderWay, Probed, Counted, Running, Stopping,
    Destroying, Left, On, Clean
<1> QED  BY <1>1, <1>2, <1>3, <1>4, <1>5, <1>6, <1>7, <1>8 DEF DevInv

LEMMA IoctlCloseStep ==
    ASSUME DevInv, IoctlClose
    PROVE  DevInv'
<1>1. Typed'
  <2>1. fe' \in FeSet
    BY DEF DevInv, Typed, IoctlClose, Written, Mapped, UnderWay, Probed, Happened, FeSet
  <2>2. page' \in PageSet
    BY DEF DevInv, Typed, IoctlClose, Written, Mapped, UnderWay, Probed, Happened, PageSet, Commands
  <2>3. mishaps' \subseteq Mishaps
    BY DEF DevInv, Typed, IoctlClose, Written, Mapped, UnderWay, Probed, Happened, Mishaps
  <2> QED  BY <2>1, <2>2, <2>3 DEF DevInv, Typed, IoctlClose, Written, Mapped, UnderWay, Probed,
    Happened
<1>2. Turns'
  BY DEF DevInv, IoctlClose, Written, Mapped, UnderWay, Probed, Happened, Turns, On, Typed, FeSet,
    PageSet
<1>3. Disk'
  BY DEF DevInv, IoctlClose, Written, Mapped, UnderWay, Probed, Happened, Disk, On
<1>4. RingCount'
  BY Counts DEF DevInv, IoctlClose, Written, Mapped, UnderWay, Probed, Happened, RingCount, One, On
<1>5. RingsMatch'
  BY DEF DevInv, IoctlClose, Written, Mapped, UnderWay, Probed, Happened, RingsMatch, On, Fresh
<1>6. (On /\ Fresh => Created)'
  BY DEF DevInv, IoctlClose, Written, Mapped, UnderWay, Probed, Happened, Created, On, Fresh
<1>7. (On /\ Fresh /\ page.reinit => Unnoticed)'
  BY DEF DevInv, IoctlClose, Written, Mapped, UnderWay, Probed, Happened, Unnoticed, On, Fresh
<1>8. (On /\ Clean => Running)'
  BY DEF DevInv, IoctlClose, Written, Mapped, UnderWay, Probed, Happened, Running, Stopping,
    Destroying, Left, Turns, On, Clean
<1> QED  BY <1>1, <1>2, <1>3, <1>4, <1>5, <1>6, <1>7, <1>8 DEF DevInv

(* vcablk_bcknd_try_destroy_frontend, from wherever it is called. *)
LEMMA DestroyStep ==
    ASSUME DevInv, Destroy, UNCHANGED <<dp, ftb>>, count' \in CountSet,
           count'.rings = count.rings /\ count'.loads = count.loads /\ count'.opens = count.opens,
           mishaps \subseteq mishaps' /\ mishaps' \subseteq Mishaps,
           ioctl = "stop" \/ (ioctl = "idle" /\ be.disk = "create"),
           Fresh' => ioctl = "stop" \/ ~UnderWay,
           On /\ Clean' /\ ~Left => fe.disk # "started"
    PROVE  DevInv'
<1>1. fe \in FeSet /\ page \in PageSet /\ be \in BeSet /\ (Fresh' => Fresh) /\ (Clean' => Clean /\ Fresh')
  BY DEF DevInv, Typed, Fresh, Clean
<1>2. CASE be.page = 0
  <2>1. /\ UNCHANGED <<page, fe>> /\ be' = [be EXCEPT !.disk = "none", !.ring = 0] /\ ioctl' = "idle"
    BY <1>2 DEF Destroy, DiskGone
  <2>2. Typed'
    <3>1. be' \in BeSet
      BY <1>1, <2>1, Ranges DEF BeSet
    <3> QED  BY <2>1, <3>1 DEF DevInv, Typed
  <2>3. Turns'
    BY <1>1, <1>2, <2>1 DEF DevInv, Turns, On
  <2>4. Disk'
    BY <1>1, <1>2, <2>1 DEF DevInv, Disk, On
  <2>5. RingCount'
    BY Counts, <1>1, <1>2, <2>1 DEF DevInv, RingCount, One, On
  <2>6. RingsMatch'
    BY <1>1, <1>2, <2>1 DEF DevInv, RingsMatch, On, Fresh
  <2>7. (On /\ Fresh => Created)'
    BY <1>1, <1>2, <2>1 DEF DevInv, Created, On, Fresh
  <2>8. (On /\ Fresh /\ page.reinit => Unnoticed)'
    BY <1>1, <1>2, <2>1 DEF DevInv, UnderWay, Unnoticed, On, Fresh
  <2>9. (On /\ Clean => Running)'
    BY <1>1, <1>2, <2>1 DEF DevInv, UnderWay, Running, Stopping, Destroying, Left, On, Clean
  <2> QED  BY <2>2, <2>3, <2>4, <2>5, <2>6, <2>7, <2>8, <2>9 DEF DevInv
<1>3. CASE be.page # 0 /\ be.page = page.addr
  <2>1. /\ fe' = [fe EXCEPT !.scheduled = (fe.driver # "off")] /\ be' = be /\ ioctl' = "destroy"
        /\ page' = [page EXCEPT !.command = "destroy", !.status = "ok", !.ack = "none"]
    BY <1>3 DEF Destroy, Written, Mapped, Probed
  <2>2. Typed'
    <3>1. fe' \in FeSet /\ page' \in PageSet /\ page'.addr = page.addr
      BY <1>1, <2>1 DEF FeSet, PageSet, Commands
    <3> QED  BY <2>1, <3>1 DEF DevInv, Typed
  <2>3. Turns'
    BY <1>1, <1>3, <2>1 DEF DevInv, Turns, On, FeSet, PageSet
  <2>4. Disk'
    BY <1>1, <1>3, <2>1 DEF DevInv, Disk, On
  <2>5. RingCount'
    BY Counts, <1>1, <1>3, <2>1 DEF DevInv, RingCount, One, On
  <2>6. RingsMatch'
    BY <1>1, <1>3, <2>1 DEF DevInv, RingsMatch, On, Fresh
  <2>7. (On /\ Fresh => Created)'
    BY <1>1, <1>3, <2>1 DEF DevInv, Created, On, Fresh
  <2>8. (On /\ Fresh /\ page.reinit => Unnoticed)'
    BY <1>1, <1>3, <2>1 DEF DevInv, UnderWay, Unnoticed, On, Fresh
  <2>9. (On /\ Clean => Running)'
    BY <1>1, <1>3, <2>1 DEF DevInv, UnderWay, Running, Stopping, Destroying, Left, On, Clean
  <2> QED  BY <2>2, <2>3, <2>4, <2>5, <2>6, <2>7, <2>8, <2>9 DEF DevInv
<1>4. CASE be.page # 0 /\ be.page # page.addr
  <2>1. /\ fe' = [fe EXCEPT !.scheduled = (fe.driver # "off")] /\ be' = be /\ ioctl' = "destroy"
        /\ page' = page
    BY <1>4 DEF Destroy, Written, Mapped, Probed
  <2>2. Typed'
    <3>1. fe' \in FeSet
      BY <1>1, <2>1 DEF FeSet
    <3> QED  BY <2>1, <3>1 DEF DevInv, Typed
  <2>3. Turns'
    BY <1>1, <1>4, <2>1 DEF DevInv, Turns, On, FeSet
  <2>4. Disk'
    BY <1>1, <1>4, <2>1 DEF DevInv, Disk, On
  <2>5. RingCount'
    BY Counts, <1>1, <1>4, <2>1 DEF DevInv, RingCount, One, On
  <2>6. RingsMatch'
    BY <1>1, <1>4, <2>1 DEF DevInv, RingsMatch, On, Fresh
  <2>7. (On /\ Fresh => Created)'
    BY <1>1, <1>4, <2>1 DEF DevInv, Created, On, Fresh
  <2>8. (On /\ Fresh /\ page.reinit => Unnoticed)'
    BY <1>1, <1>4, <2>1 DEF DevInv, UnderWay, Unnoticed, On, Fresh
  <2>9. (On /\ Clean => Running)'
    BY <1>1, <1>4, <2>1 DEF DevInv, UnderWay, Running, Stopping, Destroying, Left, On, Clean
  <2> QED  BY <2>2, <2>3, <2>4, <2>5, <2>6, <2>7, <2>8, <2>9 DEF DevInv
<1> QED  BY <1>2, <1>3, <1>4

LEMMA IoctlCloseWaitingStep ==
    ASSUME DevInv, IoctlCloseWaiting
    PROVE  DevInv'
<1>1. /\ Destroy /\ UNCHANGED <<dp, ftb, count>> /\ ioctl = "idle" /\ be.disk = "create"
      /\ mishaps' = mishaps \union (IF UnderWay THEN {"stale"} ELSE {})
  BY DEF IoctlCloseWaiting, Happened
<1>2. count' \in CountSet /\ mishaps \subseteq mishaps' /\ mishaps' \subseteq Mishaps
  BY <1>1 DEF DevInv, Typed, Mishaps
<1>3. (Fresh' => ~UnderWay) /\ (Clean' => Clean)
  BY <1>1 DEF Fresh, Clean
<1>4. On /\ Clean' /\ ~Left => fe.disk # "started"
  BY <1>1, <1>3 DEF DevInv, Running
<1> QED  BY <1>1, <1>2, <1>3, <1>4, DestroyStep

LEMMA IoctlStoppedStep ==
    ASSUME DevInv, IoctlStopped
    PROVE  DevInv'
<1>1. /\ Destroy /\ UNCHANGED <<dp, ftb, count, mishaps>> /\ ioctl = "stop"
      /\ page.ack # "none" /\ page.status # "busy"
  BY DEF IoctlStopped
<1>2. count' \in CountSet /\ mishaps \subseteq mishaps' /\ mishaps' \subseteq Mishaps
  BY <1>1 DEF DevInv, Typed
<1>3. On /\ Clean' /\ ~Left => fe.disk # "started"
  BY <1>1 DEF DevInv, Running, Stopping, Clean
<1> QED  BY <1>1, <1>2, <1>3, DestroyStep

LEMMA TimedOutFacts ==
    ASSUME Typed, TimedOut
    PROVE  /\ count' \in CountSet /\ mishaps \subseteq mishaps' /\ mishaps' \subseteq Mishaps
           /\ count'.rings = count.rings /\ count'.loads = count.loads /\ count'.opens = count.opens
           /\ Clean' => Clean /\ ~AnswerDue
<1>1. count' \in CountSet
  <2>1. CASE UNCHANGED count
    BY <2>1 DEF Typed
  <2>2. CASE count.faults < MaxFaults /\ Counted("faults")
    BY <2>2, BoundsAssumption DEF Typed, Counted, CountSet
  <2> QED  BY <2>1, <2>2 DEF TimedOut
<1>2. count'.rings = count.rings /\ count'.loads = count.loads /\ count'.opens = count.opens
  BY DEF Typed, TimedOut, Counted, CountSet
<1>3. /\ mishaps \subseteq mishaps' /\ mishaps' \subseteq Mishaps
      /\ Clean' => Clean /\ ~AnswerDue
  BY DEF Typed, TimedOut, Happened, Mishaps, Clean
<1> QED  BY <1>1, <1>2, <1>3

LEMMA IoctlStopTimeoutStep ==
    ASSUME DevInv, IoctlStopTimeout
    PROVE  DevInv'
<1>1. Destroy /\ UNCHANGED <<dp, ftb>> /\ ioctl = "stop" /\ TimedOut /\ Typed
  BY DEF IoctlStopTimeout, DevInv
<1>2. On /\ Clean' /\ ~Left => fe.disk # "started"
  <2> SUFFICES ASSUME On, Clean', ~Left PROVE fe.disk # "started"
    OBVIOUS
  <2>1. Clean /\ ~AnswerDue /\ Running /\ Turns
    BY <1>1, TimedOutFacts DEF DevInv
  <2>2. CASE page.reinit
    BY <2>1, <2>2 DEF Running
  <2>3. CASE ~page.reinit /\ ftb.pc # "opened"
    <3>1. be.page = page.addr /\ page.addr # 0
      BY <2>3, BoundsAssumption DEF Left, DevInv, Typed, PageSet
    <3>2. Stopping /\ ~fe.scheduled /\ fe.pc = "idle" /\ page.ack = "none"
      BY <1>1, <2>1, <2>3, <3>1 DEF AnswerDue, Mapped, On, Running, DevInv
    <3>3. page.command = "stop"
      BY <3>2 DEF Stopping
    <3> QED  BY <2>1, <2>3, <3>2, <3>3 DEF Turns
  <2>4. CASE ~page.reinit /\ ftb.pc = "opened"
    BY <1>1, <2>1, <2>4 DEF Running, Turns
  <2> QED  BY <2>2, <2>3, <2>4
<1> QED  BY <1>1, <1>2, TimedOutFacts, DestroyStep

LEMMA IoctlBusyStep ==
    ASSUME DevInv, IoctlBusy
    PROVE  DevInv'
<1>1. Typed'
  <2>1. page' \in PageSet
    BY DEF DevInv, Typed, IoctlBusy, Mapped, PageSet, Commands
  <2> QED  BY <2>1 DEF DevInv, Typed, IoctlBusy, Mapped
<1>2. Turns'
  BY DEF DevInv, IoctlBusy, Mapped, Turns, On
<1>3. Disk'
  BY DEF DevInv, IoctlBusy, Mapped, Disk, On
<1>4. RingCount'
  BY Counts DEF DevInv, IoctlBusy, Mapped, RingCount, One, On
<1>5. RingsMatch'
  BY DEF DevInv, IoctlBusy, Mapped, RingsMatch, On, Fresh
<1>6. (On /\ Fresh => Created)'
  BY DEF DevInv, IoctlBusy, Mapped, Created, On, Fresh
<1>7. (On /\ Fresh /\ page.reinit => Unnoticed)'
  BY DEF DevInv, IoctlBusy, Mapped, Unnoticed, On, Fresh
<1>8. (On /\ Clean => Running)'
  BY DEF DevInv, IoctlBusy, Mapped, Running, Stopping, Destroying, Left, On, Clean
<1> QED  BY <1>1, <1>2, <1>3, <1>4, <1>5, <1>6, <1>7, <1>8 DEF DevInv

LEMMA IoctlDestroyedStep ==
    ASSUME DevInv, IoctlDestroyed
    PROVE  DevInv'
<1>1. Typed'
  <2>1. page' \in PageSet
    BY DEF DevInv, Typed, IoctlDestroyed, DiskGone, Mapped, PageSet, Commands
  <2>2. be' \in BeSet
    BY Ranges DEF DevInv, Typed, IoctlDestroyed, DiskGone, Mapped, BeSet
  <2> QED  BY <2>1, <2>2 DEF DevInv, Typed, IoctlDestroyed, DiskGone, Mapped
<1>2. Turns'
  BY DEF DevInv, IoctlDestroyed, DiskGone, Mapped, Turns, On
<1>3. Disk'
  BY DEF DevInv, IoctlDestroyed, DiskGone, Mapped, Disk, On
<1>4. RingCount'
  BY Counts DEF DevInv, IoctlDestroyed, DiskGone, Mapped, RingCount, One, On
<1>5. RingsMatch'
  BY DEF DevInv, IoctlDestroyed, DiskGone, Mapped, RingsMatch, On, Fresh
<1>6. (On /\ Fresh => Created)'
  BY DEF DevInv, IoctlDestroyed, DiskGone, Mapped, Created, On, Fresh
<1>7. (On /\ Fresh /\ page.reinit => Unnoticed)'
  BY DEF DevInv, IoctlDestroyed, DiskGone, Mapped, Unnoticed, On, Fresh
<1>8. (On /\ Clean => Running)'
  BY DEF DevInv, IoctlDestroyed, DiskGone, Mapped, Running, Stopping, Destroying, Left, On, Clean
<1> QED  BY <1>1, <1>2, <1>3, <1>4, <1>5, <1>6, <1>7, <1>8 DEF DevInv

LEMMA IoctlDestroyTimeoutStep ==
    ASSUME DevInv, IoctlDestroyTimeout
    PROVE  DevInv'
<1>1. Typed'
  <2>1. be' \in BeSet
    BY Ranges DEF DevInv, Typed, IoctlDestroyTimeout, DiskGone, TimedOut, AnswerDue, Mapped, Counted,
      Happened, BeSet
  <2>2. count' \in CountSet
    BY BoundsAssumption DEF DevInv, Typed, IoctlDestroyTimeout, DiskGone, TimedOut, AnswerDue, Mapped,
      Counted, Happened, CountSet
  <2>3. mishaps' \subseteq Mishaps
    BY DEF DevInv, Typed, IoctlDestroyTimeout, DiskGone, TimedOut, AnswerDue, Mapped, Counted,
      Happened, Mishaps
  <2> QED  BY <2>1, <2>2, <2>3 DEF DevInv, Typed, IoctlDestroyTimeout, DiskGone, TimedOut,
    AnswerDue, Mapped, Counted, Happened
<1>2. Turns'
  BY DEF DevInv, IoctlDestroyTimeout, DiskGone, TimedOut, AnswerDue, Mapped, Counted, Happened,
    Turns, On
<1>3. Disk'
  BY DEF DevInv, IoctlDestroyTimeout, DiskGone, TimedOut, AnswerDue, Mapped, Counted, Happened,
    Disk, On
<1>4. RingCount'
  BY Counts DEF DevInv, IoctlDestroyTimeout, DiskGone, TimedOut, AnswerDue, Mapped, Counted,
    Happened, RingCount, One, On, Typed, CountSet
<1>5. RingsMatch'
  BY DEF DevInv, IoctlDestroyTimeout, DiskGone, TimedOut, AnswerDue, Mapped, Counted, Happened,
    RingsMatch, On, Fresh
<1>6. (On /\ Fresh => Created)'
  BY DEF DevInv, IoctlDestroyTimeout, DiskGone, TimedOut, AnswerDue, Mapped, Counted, Happened,
    Created, On, Fresh
<1>7. (On /\ Fresh /\ page.reinit => Unnoticed)'
  BY DEF DevInv, IoctlDestroyTimeout, DiskGone, TimedOut, AnswerDue, Mapped, Counted, Happened,
    Unnoticed, On, Fresh
<1>8. (On /\ Clean => Running)'
  BY DEF DevInv, IoctlDestroyTimeout, DiskGone, TimedOut, AnswerDue, Mapped, Counted, Happened,
    Running, Stopping, Destroying, Left, On, Clean
<1> QED  BY <1>1, <1>2, <1>3, <1>4, <1>5, <1>6, <1>7, <1>8 DEF DevInv

LEMMA StutterStep ==
    ASSUME DevInv, UNCHANGED vars
    PROVE  DevInv'
<1>1. Typed'
  <2> QED  BY BoundsAssumption DEF DevInv, Typed, vars
<1>2. Turns'
  BY DEF DevInv, vars, Turns, On
<1>3. Disk'
  BY DEF DevInv, vars, Disk, On
<1>4. RingCount'
  BY Counts DEF DevInv, vars, RingCount, One, On
<1>5. RingsMatch'
  BY DEF DevInv, vars, RingsMatch, On, Fresh
<1>6. (On /\ Fresh => Created)'
  BY DEF DevInv, vars, Created, On, Fresh
<1>7. (On /\ Fresh /\ page.reinit => Unnoticed)'
  BY DEF DevInv, vars, Unnoticed, On, Fresh
<1>8. (On /\ Clean => Running)'
  BY DEF DevInv, vars, Running, Stopping, Destroying, Left, On, Clean
<1> QED  BY <1>1, <1>2, <1>3, <1>4, <1>5, <1>6, <1>7, <1>8 DEF DevInv

-----------------------------------------------------------------------------
LEMMA InitDev == ASSUME Init PROVE DevInv
<1>1. PICK a \in Addresses : page = NewPage(a)
  BY BoundsAssumption DEF Init
<1>2. Typed
  <2>1. fe \in FeSet
    BY Ranges DEF Init, FeOff, FeSet, Commands
  <2>2. page \in PageSet
    BY <1>1, Ranges DEF NewPage, PageSet, Commands
  <2>3. be \in BeSet /\ ftb \in FtbSet
    BY Ranges DEF Init, BeSet, FtbSet
  <2>4. count \in CountSet
    BY Ranges, BoundsAssumption DEF Init, CountSet
  <2> QED  BY <2>1, <2>2, <2>3, <2>4 DEF Init, Typed
<1>3. Turns /\ Disk /\ RingsMatch
  BY <1>1 DEF Init, FeOff, NewPage, Turns, Disk, RingsMatch, On
<1>4. RingCount /\ ~On
  BY DEF Init, FeOff, RingCount, One, On
<1> QED  BY <1>2, <1>3, <1>4 DEF DevInv

LEMMA NextDev == ASSUME DevInv, [Next]_vars PROVE DevInv'
<1>1. CASE Environment
  BY <1>1, LoadStep, UserStep, UnloadStep, OffStep, HostResetStep, IoctlOpenStep, IoctlCloseStep,
     IoctlCloseWaitingStep, CreateFailsStep, FtbStartFailsStep DEF Environment
<1>2. CASE ProbeStart \/ Handle \/ RunStopped \/ Ack \/ Clear \/ UnloadDone
  BY <1>2, ProbeStartStep, HandleStep, OffStep, AckStep, ClearStep
<1>3. CASE FtbPage \/ FtbOpened \/ FtbDevs \/ FtbRun
  BY <1>3, FtbPageStep, FtbOpenedStep, FtbDevsStep, FtbRunStep
<1>4. CASE IoctlBusy \/ IoctlStopped \/ IoctlDestroyed \/ IoctlStopTimeout \/ IoctlDestroyTimeout
  BY <1>4, IoctlBusyStep, IoctlStoppedStep, IoctlDestroyedStep, IoctlStopTimeoutStep,
     IoctlDestroyTimeoutStep
<1>5. CASE UNCHANGED vars
  BY <1>5, StutterStep
<1> QED  BY <1>1, <1>2, <1>3, <1>4, <1>5 DEF Next

(* The two drivers agree on whose turn it is, on the ring of the disk and  *)
(* on what the command and the answer in the device page are about, unless *)
(* an ioctl began while another command was under way or gave up too early. *)
THEOREM DevInvariant == Spec => []DevInv
<1>1. Init => DevInv
  BY InitDev
<1>2. DevInv /\ [Next]_vars => DevInv'
  BY NextDev
<1> QED  BY <1>1, <1>2, PTL DEF Spec

(* The states of vcablk.c and vcablk_bcknd.c stay in their range, and the  *)
(* boot parameters never hold the address of an old page.                  *)
THEOREM DevTypes == Spec => []TypeOK
<1>1. DevInv => TypeOK
  BY TypeIs DEF DevInv
<1> QED  BY <1>1, DevInvariant, PTL

(* The backend never serves one ring while the node's disk uses another,   *)
(* after any crashes, loads, failures and timeouts.                        *)
THEOREM RingsAlwaysMatch == Spec => []RingsMatch
<1>1. DevInv => RingsMatch
  BY DEF DevInv
<1> QED  BY <1>1, DevInvariant, PTL

LEMMA UsedDiskStays ==
    ASSUME DevInv, [Next]_vars, fe.ref_cnt > 0, fe'.driver = "on", fe'.disk # "started"
    PROVE  mishaps \cap {"stale", "late"} # {}
<1>1. fe \in FeSet /\ fe.disk = "started" /\ On
  BY DEF DevInv, Typed, Disk, On
<1>2. CASE Handle
  <2>1. PICK disk \in {"none", "created", "started", "stopped"}, ring \in Nat,
             err \in {"ok", "busy", "inval", "nodev"} :
               Answer(disk, ring, err) /\ Outcome(disk, ring, err)
    BY <1>2, HandleOutcome DEF DevInv
  <2>2. fe'.disk = disk /\ fe.pc = "handle" /\ fe.ref_cnt # 0
    BY <1>1, <1>2, <2>1 DEF Answer, Handle
  <2>3. page.command \in {"run", "destroy"}
    BY <1>1, <2>1, <2>2 DEF Outcome
  <2> QED  BY <1>1, <2>2, <2>3 DEF DevInv, Running, Clean
<1>3. ASSUME ~Handle PROVE FALSE
  <2>1. CASE fe' = FeOff
    BY <2>1 DEF FeOff
  <2>2. CASE fe'.disk = fe.disk
    BY <1>1, <2>2
  <2>3. CASE Environment
    BY <1>1, <2>3, <2>1, <2>2 DEF Environment, Load, UserOpen, UserRelease, Unload, Crash, HostReset,
      IoctlOpen, IoctlClose, IoctlCloseWaiting, CreateFails, FtbStartFails, Destroy, Probed,
      FeSet, On
  <2>4. CASE ProbeStart \/ RunStopped \/ Ack \/ Clear \/ UnloadDone
    BY <1>1, <2>4, <2>1, <2>2 DEF ProbeStart, RunStopped, Ack, Clear, UnloadDone, FeSet
  <2>5. CASE FtbPage \/ FtbOpened \/ FtbDevs \/ FtbRun
    BY <1>1, <2>5, <2>2 DEF FtbPage, FtbOpened, FtbDevs, FtbRun, Probed, FeSet
  <2>6. CASE IoctlBusy \/ IoctlStopped \/ IoctlDestroyed \/ IoctlStopTimeout \/ IoctlDestroyTimeout
    BY <1>1, <2>6, <2>2 DEF IoctlBusy, IoctlStopped, IoctlDestroyed, IoctlStopTimeout,
      IoctlDestroyTimeout, Destroy, Probed, FeSet
  <2>7. CASE UNCHANGED vars
    BY <2>7, <2>2 DEF vars
  <2> QED  BY <1>3, <2>3, <2>4, <2>5, <2>6, <2>7 DEF Next
<1> QED  BY <1>2, <1>3

(* A disk that a user of the node has open is not taken away by the host,  *)
(* unless the close began while a command was under way or its wait timed  *)
(* out too early.                                                          *)
THEOREM UsedDisksStay == Spec => BusyDiskStays
<1>1. DevInv /\ [Next]_vars =>
          [fe.ref_cnt > 0 /\ fe'.driver = "on" /\ fe'.disk # "started"
              => mishaps \cap {"stale", "late"} # {}]_vars
  BY UsedDiskStays
<1> QED  BY <1>1, DevInvariant, PTL DEF Spec, BusyDiskStays
=============================================================================
