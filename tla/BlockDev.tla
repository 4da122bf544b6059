------------------------------ MODULE BlockDev ------------------------------
(***************************************************************************)
(* How a disk of the host comes to a node and leaves it: the control path  *)
(* of the block driver.  The frontend (blockio/vcablk/vcablk.c) has a      *)
(* device page in the node's memory; its address is in the boot parameters *)
(* (blockio_dp).  The backend (blockio/vcablk_bcknd/vcablk_bcknd.c) maps   *)
(* the page, writes a command for the disk into it and rings a doorbell;   *)
(* the frontend executes it, writes an answer and rings back.  The user of *)
(* the host opens and closes the disk with ioctls; the node's driver is    *)
(* loaded and unloaded, the node crashes and is reset.                     *)
(*                                                                         *)
(* One disk.  Only the ioctls take the backend's mutex: its work and the   *)
(* ioctls interleave here as they do in the code, except that the work     *)
(* sets up the page in one step.  When the page is taken from under a      *)
(* waiting ioctl, that wait ends with its timeout.                         *)
(***************************************************************************)
EXTENDS Integers

CONSTANTS
    Addresses,                  \* where device pages can be, none of them 0
    MaxLoads, MaxOpens,         \* bounds: loads of the frontend, ioctls that open
    MaxUses, MaxFaults          \* bounds: opens by a user of the node, failures

ASSUME BoundsAssumption ==
    /\ Addresses \subseteq Nat \ {0} /\ Addresses # {}
    /\ {MaxLoads, MaxOpens, MaxUses, MaxFaults} \subseteq Nat

VARIABLES
    fe,         \* frontend: driver, disk, its ring, ref_cnt, probe work
    page,       \* the device page at page.addr, in the node's memory
    dp,         \* bootparam->blockio_dp
    be,         \* backend: page mapped (dp_addr), disk, the ring it serves
    ftb,        \* the backend's work: scheduled or not, where it is
    ioctl,      \* where the close ioctl waits
    count,      \* what the bounds count
    mishaps     \* history: which of the races and failures below have happened

vars == <<fe, page, dp, be, ftb, ioctl, count, mishaps>>

Commands == {"none", "create", "run", "stop", "destroy"}
Mishaps == {"lost", "missed", "address", "stale", "late", "failed"}
Rings == 0..(MaxLoads + MaxOpens)

(* A page as vcablk_init leaves it: zeroed memory and reinit_dev_page. *)
NewPage(a) ==
    [addr |-> a, reinit |-> TRUE, magic |-> FALSE, destroying |-> "no",
     command |-> "none", ack |-> "none", status |-> "ok", ring |-> 0]

FeOff == [driver |-> "off", disk |-> "none", ring |-> 0, ref_cnt |-> 0,
          pc |-> "idle", task |-> "none", err |-> "ok", scheduled |-> FALSE]

Init ==
    /\ fe = FeOff
    /\ page = NewPage(CHOOSE a \in Addresses : TRUE)
    /\ dp = 0
    /\ be = [page |-> 0, disk |-> "none", ring |-> 0]
    /\ ftb = [scheduled |-> FALSE, pc |-> "idle"]
    /\ ioctl = "idle"
    /\ count = [loads |-> 0, opens |-> 0, uses |-> 0, faults |-> 0, rings |-> 0]
    /\ mishaps = {}

Happened(m, cond) == mishaps' = mishaps \union (IF cond THEN {m} ELSE {})
Counted(what) == count' = [count EXCEPT ![what] = @ + 1]

(* send_intr(notify_frontend_db): the probe work of a driver that is there. *)
Probed(f) == [f EXCEPT !.scheduled = (f.driver # "off")]

-----------------------------------------------------------------------------
(* The frontend.  Loading it writes the address of the page, then rings.   *)
(* It takes longer than a run of the backend's work.                       *)

LoadDirty(a) == \* the page's memory is not zeroed
    /\ fe.driver = "off" /\ ftb.pc = "idle" /\ count.loads < MaxLoads
    /\ fe' = [FeOff EXCEPT !.driver = "on"]
    /\ page' = [NewPage(a) EXCEPT !.ack = page.ack, !.ring = page.ring]
    /\ dp' = a
    /\ ftb' = [ftb EXCEPT !.scheduled = TRUE]
    /\ Counted("loads")
    /\ UNCHANGED <<be, ioctl, mishaps>>

Load(a) ==
    /\ fe.driver = "off" /\ ftb.pc = "idle" /\ count.loads < MaxLoads
    /\ fe' = [FeOff EXCEPT !.driver = "on"]
    /\ page' = NewPage(a)
    /\ dp' = a
    /\ ftb' = [ftb EXCEPT !.scheduled = TRUE]
    /\ Counted("loads")
    /\ UNCHANGED <<be, ioctl, mishaps>>

(* vcablk_probe_work: nothing more once the page is being destroyed. *)
ProbeStart ==
    /\ fe.pc = "idle" /\ fe.scheduled
    /\ LET none == page.destroying # "no" \/ page.command = "none"
       IN /\ fe' = [fe EXCEPT !.scheduled = FALSE, !.task = page.command,
                              !.pc = IF none THEN "idle" ELSE "handle"]
          /\ ftb' = [ftb EXCEPT !.scheduled = @ \/ (none /\ page.destroying = "no")]
    /\ UNCHANGED <<page, dp, be, ioctl, count, mishaps>>

Result(disk, ring, err) == [disk |-> disk, ring |-> ring, err |-> err]
Unchanged(err) == Result(fe.disk, fe.ring, err)
NoDisk(err) == Result("none", 0, err)

TaskCreate ==
    IF fe.disk # "none" THEN Unchanged("busy") ELSE Result("created", count.rings + 1, "ok")

(* A disk that cannot be started is destroyed. *)
DiskStart ==
    IF fe.disk = "created" THEN Result("started", fe.ring, "ok") ELSE NoDisk("inval")

DiskStop ==
    IF fe.disk \in {"none", "stopped"} THEN Unchanged("ok")
    ELSE IF fe.ref_cnt > 0 THEN Unchanged("busy")
    ELSE Result("stopped", fe.ring, "ok")

DiskDestroy == NoDisk(IF fe.disk = "none" THEN "nodev" ELSE "ok")

(* vcablk_handle_task reads the command again, after task. *)
HandleTask(command) ==
    CASE command = "create"  -> TaskCreate
      [] command = "run"     -> DiskStart
      [] command = "stop"    -> DiskStop
      [] command = "destroy" -> DiskDestroy

Handled(res) ==
    /\ fe' = [fe EXCEPT !.pc = "ack", !.err = res.err, !.disk = res.disk, !.ring = res.ring,
                        !.ref_cnt = IF res.disk = "none" THEN 0 ELSE @]
    /\ page' = [page EXCEPT !.ring = res.ring]

Handle ==
    /\ fe.pc = "handle" /\ ~(page.command = "run" /\ fe.disk = "stopped")
    /\ Handled(HandleTask(page.command))
    /\ count' = [count EXCEPT !.rings = IF fe.disk = "none" /\ fe'.disk = "created"
                                        THEN @ + 1 ELSE @]
    /\ UNCHANGED <<dp, be, ftb, ioctl, mishaps>>

(* add_disk without a gendisk ends the node's kernel. *)
RunStopped ==
    /\ fe.pc = "handle" /\ page.command = "run" /\ fe.disk = "stopped"
    /\ fe' = FeOff
    /\ UNCHANGED <<page, dp, be, ftb, ioctl, count, mishaps>>

(* No memory, no doorbell or no thread for a new disk. *)
CreateFails ==
    /\ fe.pc = "handle" /\ page.command = "create" /\ fe.disk = "none"
    /\ count.faults < MaxFaults
    /\ Handled(NoDisk("nomem"))
    /\ Counted("faults") /\ Happened("failed", TRUE)
    /\ UNCHANGED <<dp, be, ftb, ioctl>>

Ack ==
    /\ fe.pc = "ack"
    /\ page' = [page EXCEPT !.ack = fe.task, !.status = fe.err]
    /\ fe' = [fe EXCEPT !.pc = "clear"]
    /\ UNCHANGED <<dp, be, ftb, ioctl, count, mishaps>>

(* dev->command = 0, also when the backend has seen the answer already and *)
(* has written the next command.                                           *)
Clear ==
    /\ fe.pc = "clear"
    /\ page' = [page EXCEPT !.command = "none"]
    /\ fe' = [fe EXCEPT !.pc = "idle", !.task = "none", !.err = "ok"]
    /\ ftb' = [ftb EXCEPT !.scheduled = TRUE]
    /\ Happened("lost", page.command # fe.task)
    /\ UNCHANGED <<dp, be, ioctl, count>>

(* A user of the node opens and releases the disk. *)
UserOpen ==
    /\ fe.disk = "started" /\ fe.ref_cnt = 0 /\ count.uses < MaxUses
    /\ fe' = [fe EXCEPT !.ref_cnt = @ + 1]
    /\ Counted("uses")
    /\ UNCHANGED <<page, dp, be, ftb, ioctl, mishaps>>

UserRelease ==
    /\ fe.ref_cnt > 0
    /\ fe' = [fe EXCEPT !.ref_cnt = @ - 1]
    /\ UNCHANGED <<page, dp, be, ftb, ioctl, count, mishaps>>

UnloadDisksLeft == \* without vcablk_clean
    /\ fe.driver = "on" /\ fe.pc = "idle"
    /\ fe' = [fe EXCEPT !.driver = "unloading"]
    /\ page' = [page EXCEPT !.destroying = "init"]
    /\ ftb' = [ftb EXCEPT !.scheduled = TRUE]
    /\ UNCHANGED <<dp, be, ioctl, count, mishaps>>

(* vcablk_deinit: its disks go, then the backend is asked to leave. *)
Unload ==
    /\ fe.driver = "on" /\ fe.pc = "idle"
    /\ fe' = [fe EXCEPT !.driver = "unloading", !.disk = "none", !.ring = 0, !.ref_cnt = 0]
    /\ page' = [page EXCEPT !.destroying = "init"]
    /\ ftb' = [ftb EXCEPT !.scheduled = TRUE]
    /\ UNCHANGED <<dp, be, ioctl, count, mishaps>>

(* Its answer, DESTROY_DEV_PAGE_END, and the timeout have the same effect. *)
UnloadDone ==
    /\ fe.driver = "unloading"
    /\ fe' = FeOff
    /\ UNCHANGED <<page, dp, be, ftb, ioctl, count, mishaps>>

(* The node crashes.  Its memory stays as it is until a driver is loaded   *)
(* again, by a crash kernel or after a reset from the host.                *)
Crash ==
    /\ fe.driver # "off"
    /\ fe' = FeOff
    /\ UNCHANGED <<page, dp, be, ftb, ioctl, count, mishaps>>

-----------------------------------------------------------------------------
(* The backend's page.  Writes through a mapping of an old page are lost.  *)

Mapped == be.page # 0 /\ be.page = page.addr
Written(command, status, ack) ==
    page' = IF Mapped THEN [page EXCEPT !.command = command, !.status = status, !.ack = ack]
            ELSE page

PageClosedDisksKept(b) == \* the disks that were served are not stopped
    [b EXCEPT !.page = 0]

(* vcablk_bcknd_close_dev_page: disks that were served wait for a new page. *)
PageClosed(b) ==
    [b EXCEPT !.page = 0, !.disk = IF @ = "open" THEN "create" ELSE @, !.ring = 0]

(***************************************************************************)
(* vcablk_bcknd_ftb_work up to the mapping of the page.  The address is    *)
(* read once, first.  A page that says it is invalid or destroyed is       *)
(* closed and its address reset; then the address that was read is opened  *)
(* if the page there is new.  Opening adds the disk that waits.            *)
(***************************************************************************)
Opens(p) == p.reinit /\ p.destroying = "no"
OpenDevPage(p, b) ==
    [p EXCEPT !.reinit = FALSE, !.magic = TRUE,
              !.command = IF b.disk = "create" THEN "create" ELSE @]

FtbPage ==
    /\ ftb.pc = "idle" /\ ftb.scheduled
    /\ LET changed == be.page # 0 /\ dp # be.page
           same == be.page # 0 /\ dp = be.page
           invalid == same /\ ~page.magic
           leaving == same /\ page.magic /\ page.destroying = "init"
           left == [page EXCEPT !.destroying = IF leaving THEN "end" ELSE @]
           b == IF changed \/ invalid \/ leaving THEN PageClosed(be) ELSE be
           open == dp # 0 /\ b.page = 0 /\ Opens(left)
       IN /\ be' = b
          /\ page' = IF open THEN OpenDevPage(left, b) ELSE left
          /\ dp' = IF invalid \/ leaving \/ (b.page = 0 /\ ~open) THEN 0 ELSE dp
          /\ fe' = IF leaving THEN Probed(fe) ELSE fe
          /\ ftb' = [scheduled |-> FALSE,
                     pc |-> IF open THEN "opened" ELSE IF b.page # 0 THEN "devs" ELSE "idle"]
          /\ mishaps' = mishaps
                \union (IF invalid THEN {"address"} ELSE {})
                \union (IF open /\ ioctl # "idle" THEN {"stale"} ELSE {})
    /\ UNCHANGED <<ioctl, count>>

(* dev_pages_remapped is set and the frontend told. *)
FtbOpened ==
    /\ ftb.pc = "opened"
    /\ be' = [be EXCEPT !.page = page.addr]
    /\ fe' = Probed(fe)
    /\ ftb' = [ftb EXCEPT !.pc = "devs"]
    /\ UNCHANGED <<page, dp, ioctl, count, mishaps>>

(* vcablk_bcknd_disk_start: it serves the ring of the answer. *)
BckndDiskStart == [be EXCEPT !.disk = "open", !.ring = page.ring]

(* The answers: a created disk is started, then the frontend may run it;   *)
(* the answers to stop and destroy are left to the ioctl.                  *)
FtbDevs ==
    /\ ftb.pc = "devs"
    /\ LET mine == be.disk # "none" /\ page.ack \in {"create", "run"}
           start == mine /\ page.ack = "create" /\ page.status = "ok" /\ be.disk = "create"
       IN /\ page' = [page EXCEPT !.ack = IF mine THEN "none" ELSE @]
          /\ be' = IF start THEN BckndDiskStart ELSE be
          /\ ftb' = [ftb EXCEPT !.pc = IF start THEN "run" ELSE "idle"]
    /\ UNCHANGED <<fe, dp, ioctl, count, mishaps>>

(* No mapping of the rings, no interrupt or no thread. *)
FtbStartFails ==
    /\ ftb.pc = "devs" /\ be.disk = "create" /\ page.ack = "create" /\ page.status = "ok"
    /\ count.faults < MaxFaults
    /\ page' = [page EXCEPT !.ack = "none"]
    /\ ftb' = [ftb EXCEPT !.pc = "idle"]
    /\ Counted("faults") /\ Happened("failed", TRUE)
    /\ UNCHANGED <<fe, dp, be, ioctl>>

FtbRun ==
    /\ ftb.pc = "run"
    /\ page' = [page EXCEPT !.command = "run"]
    /\ fe' = Probed(fe)
    /\ ftb' = [ftb EXCEPT !.pc = "idle"]
    /\ UNCHANGED <<dp, be, ioctl, count, mishaps>>

-----------------------------------------------------------------------------
(* The ioctls, one at a time.  Without a page a disk waits for one; a page *)
(* that is open and not yet mapped has been searched for disks already.    *)

(* A command or an answer still under way when an ioctl begins. *)
UnderWay == fe.pc # "idle" \/ ftb.pc = "run" \/ page.command # "none" \/ page.ack # "none"

IoctlOpen ==
    /\ ioctl = "idle" /\ be.disk = "none" /\ count.opens < MaxOpens
    /\ be' = [be EXCEPT !.disk = "create"]
    /\ Written("create", page.status, page.ack)
    /\ fe' = IF be.page # 0 THEN Probed(fe) ELSE fe
    /\ Counted("opens")
    /\ mishaps' = mishaps
          \union (IF ftb.pc = "opened" THEN {"missed"} ELSE {})
          \union (IF Mapped /\ UnderWay THEN {"stale"} ELSE {})
    /\ UNCHANGED <<dp, ftb, ioctl>>

(* vcablk_bcknd_try_destroy_frontend, and vcablk_bcknd_disk_destroy at     *)
(* once when there is no page.                                             *)
DiskGone == be' = [be EXCEPT !.disk = "none", !.ring = 0]
Destroy ==
    IF be.page # 0
    THEN /\ Written("destroy", "ok", "none")
         /\ fe' = Probed(fe)
         /\ ioctl' = "destroy"
         /\ UNCHANGED be
    ELSE /\ DiskGone
         /\ ioctl' = "idle"
         /\ UNCHANGED <<page, fe>>

(* vcablk_bcknd_try_stop_frontend, for a disk that is served.  The answer  *)
(* to an earlier command is not cleared.                                   *)
IoctlClose ==
    /\ ioctl = "idle" /\ be.disk = "open"
    /\ Written("stop", "ok", page.ack)
    /\ fe' = Probed(fe)
    /\ ioctl' = "stop"
    /\ Happened("stale", UnderWay)
    /\ UNCHANGED <<dp, be, ftb, count>>

IoctlCloseWaiting ==
    /\ ioctl = "idle" /\ be.disk = "create"
    /\ Destroy
    /\ Happened("stale", UnderWay)
    /\ UNCHANGED <<dp, ftb, count>>

IoctlBusy ==
    /\ ioctl = "stop" /\ Mapped /\ page.ack # "none" /\ page.status = "busy"
    /\ page' = [page EXCEPT !.ack = "none"]
    /\ ioctl' = "idle"
    /\ UNCHANGED <<fe, dp, be, ftb, count, mishaps>>

IoctlStoppedUnchecked == \* the status of the answer is not looked at
    /\ ioctl = "stop" /\ Mapped /\ page.ack # "none"
    /\ Destroy
    /\ UNCHANGED <<dp, ftb, count, mishaps>>

IoctlStopped ==
    /\ ioctl = "stop" /\ Mapped /\ page.ack # "none" /\ page.status # "busy"
    /\ Destroy
    /\ UNCHANGED <<dp, ftb, count, mishaps>>

IoctlDestroyed ==
    /\ ioctl = "destroy" /\ Mapped /\ page.ack # "none"
    /\ page' = [page EXCEPT !.ack = "none"]
    /\ DiskGone
    /\ ioctl' = "idle"
    /\ UNCHANGED <<fe, dp, ftb, count, mishaps>>

(* TIMEOUT_CLOSE_MS.  While an answer may still come, a timeout is one of  *)
(* the failures that are bounded.                                          *)
AnswerDue == Mapped /\ fe.driver = "on"
             /\ (fe.scheduled \/ fe.pc # "idle" \/ page.ack # "none")
TimedOut ==
    \/ ~AnswerDue /\ UNCHANGED <<count, mishaps>>
    \/ AnswerDue /\ count.faults < MaxFaults /\ Counted("faults") /\ Happened("late", TRUE)

IoctlStopTimeout ==
    /\ ioctl = "stop"
    /\ Destroy
    /\ TimedOut
    /\ UNCHANGED <<dp, ftb>>

IoctlDestroyTimeout ==
    /\ ioctl = "destroy"
    /\ DiskGone
    /\ ioctl' = "idle"
    /\ TimedOut
    /\ UNCHANGED <<fe, page, dp, ftb>>

(* plx_stop, before the node is reset: the page is closed, the boot        *)
(* parameters are initialised.                                             *)
HostReset ==
    /\ fe.driver = "off" /\ ioctl = "idle" /\ ftb.pc = "idle"
    /\ dp # 0 \/ be.page # 0
    /\ be' = PageClosed(be)
    /\ dp' = 0
    /\ ftb' = [ftb EXCEPT !.scheduled = FALSE]
    /\ UNCHANGED <<fe, page, ioctl, count, mishaps>>

-----------------------------------------------------------------------------
(* Failures and what users do.  Nothing is claimed once an ioctl has met a *)
(* command under way: what follows it then is only run to its end.         *)
Environment ==
    /\ "stale" \notin mishaps
    /\ \/ \E a \in Addresses : Load(a)
       \/ UserOpen \/ UserRelease \/ Unload \/ Crash \/ HostReset
       \/ IoctlOpen \/ IoctlClose \/ IoctlCloseWaiting
       \/ CreateFails \/ FtbStartFails

Next ==
    \/ Environment
    \/ ProbeStart \/ Handle \/ RunStopped \/ Ack \/ Clear \/ UnloadDone
    \/ FtbPage \/ FtbOpened \/ FtbDevs \/ FtbRun
    \/ IoctlBusy \/ IoctlStopped \/ IoctlDestroyed
    \/ IoctlStopTimeout \/ IoctlDestroyTimeout

Spec == Init /\ [][Next]_vars

(***************************************************************************)
(* Work that is scheduled runs (kernel work queues), and a wait with a     *)
(* timeout ends.  Nobody has to load, use, open or close anything.         *)
(***************************************************************************)
FairSpec ==
    /\ Spec
    /\ WF_vars(ProbeStart) /\ WF_vars(Handle \/ RunStopped) /\ WF_vars(Ack) /\ WF_vars(Clear)
    /\ WF_vars(FtbPage) /\ WF_vars(FtbOpened) /\ WF_vars(FtbDevs) /\ WF_vars(FtbRun)
    /\ WF_vars(IoctlBusy \/ IoctlStopped \/ IoctlStopTimeout)
    /\ WF_vars(IoctlDestroyed \/ IoctlDestroyTimeout)
    /\ WF_vars(UnloadDone)

-----------------------------------------------------------------------------
(***************************************************************************)
(* Types of the variables.  There is a disk only in a driver, a user and a *)
(* ring only with a disk, and the boot parameters never hold the address   *)
(* of an old page.                                                         *)
(***************************************************************************)
TypeOK ==
    /\ fe \in [driver : {"off", "on", "unloading"},
              disk : {"none", "created", "started", "stopped"}, ring : Rings,
              ref_cnt : 0..1, pc : {"idle", "handle", "ack", "clear"}, task : Commands,
              err : {"ok", "busy", "inval", "nodev", "nomem"}, scheduled : BOOLEAN]
    /\ fe.driver # "on" => fe.disk = "none"
    /\ fe.disk = "none" => fe.ring = 0 /\ fe.ref_cnt = 0
    /\ page \in [addr : Addresses, reinit : BOOLEAN, magic : BOOLEAN,
                destroying : {"no", "init", "end"}, command : Commands, ack : Commands,
                status : {"ok", "busy", "inval", "nodev", "nomem"}, ring : Rings]
    /\ dp \in {0, page.addr}
    /\ be \in [page : Addresses \union {0}, disk : {"none", "create", "open"}, ring : Rings]
    /\ ftb \in [scheduled : BOOLEAN, pc : {"idle", "opened", "devs", "run"}]
    /\ ioctl \in {"idle", "stop", "destroy"}
    /\ count \in [loads : 0..MaxLoads, opens : 0..MaxOpens, uses : 0..MaxUses,
                 faults : 0..MaxFaults, rings : Rings]
    /\ mishaps \subseteq Mishaps

(***************************************************************************)
(* The backend never serves one ring while the node's disk uses another,   *)
(* whatever crashes, loads, failures and timeouts came before.  Unless an  *)
(* ioctl began while a command or an answer was under way.                 *)
(***************************************************************************)
RingsMatch ==
    be.disk = "open" /\ fe.disk # "none" => be.ring = fe.ring \/ "stale" \in mishaps

(***************************************************************************)
(* A disk that a user of the node has open is taken from it only when the  *)
(* driver is unloaded or the node crashes: the close of the host is then   *)
(* refused.  Unless the close began while a command or an answer was under *)
(* way, or its wait timed out too early.                                   *)
(***************************************************************************)
BusyDiskStays ==
    [][fe.ref_cnt > 0 /\ fe'.driver = "on" /\ fe'.disk # "started"
        => mishaps \cap {"stale", "late"} # {}]_vars

(***************************************************************************)
(* The disk the host has opened comes to a node whose driver is loaded,    *)
(* and the one it has closed leaves it, also after crashes and reloads.    *)
(***************************************************************************)
InStep ==
    fe.driver = "on" =>
        IF be.disk = "none" THEN fe.disk = "none"
        ELSE fe.disk = "started" /\ be.disk = "open" /\ be.ring = fe.ring
OpenedDiskRuns == []<>(InStep \/ mishaps # {})

(***************************************************************************)
(* The same also when a driver puts its page where the last one was, as    *)
(* vcablk_common.h says of reinit_dev_page.  It does not hold; the README  *)
(* tells why.                                                              *)
(***************************************************************************)
NewPageDetected == []<>(InStep \/ mishaps \ {"address"} # {})
=============================================================================
