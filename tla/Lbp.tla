-------------------------------- MODULE Lbp ---------------------------------
(***************************************************************************)
(* The leveraged boot protocol (plx_lbp.c): the host's ioctls that link    *)
(* with the firmware of a card, give it commands and boot it.  Host and    *)
(* firmware share scratch pad registers; the host writes a command and     *)
(* polls, for a limited time, until it is gone or the card's state is one  *)
(* of those it expects.  A call is a script of such steps under lbp_lock.  *)
(*                                                                         *)
(* The firmware is not part of the repository: it is modelled from how the *)
(* host uses it.  It does one command at a time: it puts the answer into   *)
(* the data registers, then empties the command register, then sets its    *)
(* state.  Its steps of boot, flash and start of a system take longer than *)
(* the host's polls do.                                                    *)
(***************************************************************************)
EXTENDS Naturals, Sequences, FiniteSets

CONSTANTS
    Threads,        \* callers of the ioctls
    Ops,            \* the ioctls each of them makes
    MaxFaults,      \* waits that run out of time, errors of the card, failed
                    \* copies and power flags together: a bound
    None

VARIABLES
    i7Ready,            \* state of the card: set of flags, and whether a
                        \* protocol version is there (0.0 when it is down)
    e5Ready, i7Cmd, data, i7Error,
    card_wait,          \* the completion
    doorbell,           \* the card's interrupt, not yet handled
    lbp_lock,
    bios_information,   \* what the handshake keeps: build date and version
    call,               \* per thread: the steps left, and history
    fw,                 \* the firmware
    faults              \* counted against the bound

registers == <<i7Ready, e5Ready, i7Cmd, data, i7Error>>
vars == <<registers, card_wait, doorbell, lbp_lock, bios_information, call, fw, faults>>

Errors == {"UEFI_ERROR", "GENERAL_ERROR"}   \* PLX_LBP_i7_ANY_ERROR
Cached == {"BIOS_BUILD_DATE", "BIOS_VER"}

-----------------------------------------------------------------------------
(* The calls.  A step is a record, its argument a set.                     *)

Step(do, arg) == [do |-> do, arg |-> arg]
Lock == Step("lock", {})
Unlock == Step("unlock", {})
Require == Step("require", {"READY"})       \* else an error
Data(v) == Step("data", {v})
Command(c) == Step("cmd", {c})
Consumed == Step("consumed", {})            \* plx_lbp_wait_for_i7_cmd_consumed
State(mask) == Step("state", mask)          \* plx_lbp_wait_for_i7_state
Fetch(v) == Step("fetch", {v})
E5(s) == Step("e5", {s})

(* plx_lbp_set_time_no_mutex, and its copy with the mutex.                 *)
SetTimeNoMutex == <<Require, Data("time"), Command("SET_TIME"), Consumed>>
SetTime == <<Lock>> \o SetTimeNoMutex \o <<State({"READY"}), Unlock>>

GetMacAddr ==
    <<Lock, Require, Command("GET_MAC_ADDR"), Consumed, State({"READY"}), Fetch("mac"), Unlock>>

(* plx_lbp_copy_bios_info, into the cache of the device or for a caller.   *)
CopyBiosInfo(p, keep) ==
    <<Step("version", {}), Command(p), Consumed, Step(keep, {p})>> \o SetTimeNoMutex

HandshakeCmdLeft ==     \* mutant: the command register is not emptied
    <<Step("forget", {}), Lock, Step("reinit", {}), E5("WAITING_FOR_IRQ"),
      Step("irq", {}), Fetch("ddr_size"), Data("cpuid"), E5("READY"), State({"READY"}),
      Step("linked", {})>>
    \o CopyBiosInfo("BIOS_BUILD_DATE", "keep") \o CopyBiosInfo("BIOS_VER", "keep") \o <<Unlock>>

(* The cache is forgotten before the lock is taken.  Once the card is      *)
(* ready, a failure to fill the cache is not one of the handshake.         *)
Handshake ==
    <<Step("forget", {}), Lock, Step("cmd", {}), Step("reinit", {}), E5("WAITING_FOR_IRQ"),
      Step("irq", {}), Fetch("ddr_size"), Data("cpuid"), E5("READY"), State({"READY"}),
      Step("linked", {})>>
    \o CopyBiosInfo("BIOS_BUILD_DATE", "keep") \o CopyBiosInfo("BIOS_VER", "keep") \o <<Unlock>>

SendRamdisk ==
    <<Require, Data("size"), Command("MAP_RAMDISK"), State({"DONE"} \cup Errors),
      Fetch("address"), Step("copy", {})>>

(* The ioctls that boot ask for the address of the network adapter first,  *)
(* in a call of its own.                                                   *)
BootRamdisk ==
    GetMacAddr \o <<Lock>> \o SendRamdisk
    \o <<Command("BOOT_RAMDISK"), State({"BOOTING", "OS_READY"} \cup Errors), Unlock>>

BootBlkdisk ==
    GetMacAddr \o
    <<Lock, Require, Command("BOOT_BLOCK_IO"),
      State({"BOOTING_BLOCK_IO", "OS_READY"} \cup Errors), Fetch("devpage"), Unlock>>

(* The one wait for an error that is not told from success.                *)
BootFromUsb ==
    GetMacAddr \o <<Lock, Command("BOOT_LOADER"), Step("any_state", {"BOOTING"} \cup Errors), Unlock>>

Flash ==
    <<Lock>> \o SendRamdisk
    \o <<Command("FLASH"), State({"FLASHING"} \cup Errors), State({"DONE"} \cup Errors), Unlock>>

SetBiosParam ==
    <<Lock, Step("version", {}), Require, Data("value"), Command("SET_PARAM"), Consumed,
      Step("error", {}), Unlock>>
ClearError ==
    <<Step("no_error", {}), State({"READY"}), Command("CLEAR_ERROR"), Consumed, Unlock>>

GetBiosParam(p) ==
    <<Lock, IF p \in Cached THEN Step("cached", {p}) ELSE Require>>
    \o CopyBiosInfo(p, "fetch") \o <<Unlock>>

GetRcvyState == <<Lock, Step("rcvy", {}), Unlock>>

(* plx_card_reset: plx_lbp_reset_start, the pulse, plx_lbp_reset_stop.     *)
CardReset == <<Lock, Step("pulse", {}), Step("down", {}), Unlock>>

Script(op) ==
    CASE op = "handshake" -> Handshake
      [] op = "set_time" -> SetTime
      [] op = "get_mac_addr" -> GetMacAddr
      [] op = "boot_ramdisk" -> BootRamdisk
      [] op = "boot_blkdisk" -> BootBlkdisk
      [] op = "boot_from_usb" -> BootFromUsb
      [] op = "flash" -> Flash                  \* of BIOS, MAC or event log
      [] op = "set_bios_param" -> SetBiosParam
      [] op = "get_bios_date" -> GetBiosParam("BIOS_BUILD_DATE")
      [] op = "get_max_freq" -> GetBiosParam("CPU_MAX_FREQ_NON_TURBO")
      [] op = "get_rcvy_state" -> GetRcvyState
      [] op = "reset" -> CardReset

Commands == {"SET_TIME", "GET_MAC_ADDR", "MAP_RAMDISK", "BOOT_RAMDISK", "BOOT_BLOCK_IO",
             "BOOT_LOADER", "FLASH", "SET_PARAM", "CLEAR_ERROR", "CPU_MAX_FREQ_NON_TURBO"} \cup Cached
Flags == {"UP", "AFTER_REBOOT", "READY", "BUSY", "DONE", "BOOTING", "BOOTING_BLOCK_IO", "FLASHING",
          "OS_READY", "OS_REBOOTING", "POWER_DOWN"} \cup Errors
Values == {"ddr_size", "cpuid", "time", "flags", "mac", "size", "address", "devpage", "value",
           "CPU_MAX_FREQ_NON_TURBO"} \cup Cached

Operations == {"handshake", "set_time", "get_mac_addr", "boot_ramdisk", "boot_blkdisk",
               "boot_from_usb", "flash", "set_bios_param", "get_bios_date", "get_max_freq",
               "get_rcvy_state", "reset"}

ConstantsFit == /\ Ops \in [Threads -> SUBSET Operations] /\ MaxFaults \in Nat
                /\ None \notin Threads \cup Operations \cup Commands

ASSUME LbpAssumption == IsFiniteSet(Threads) /\ ConstantsFit

Idle == [op |-> None, todo |-> <<>>, ok |-> TRUE, linked |-> FALSE,
         alone |-> TRUE, owed |-> {}, bad |-> FALSE]

TypeOK ==
    /\ i7Ready \in [ready : SUBSET Flags, version : BOOLEAN]
    /\ e5Ready \in {"NOT_READY", "WAITING_FOR_IRQ", "READY"}
    /\ i7Cmd \in Commands \cup {None} /\ data \in Values /\ i7Error \in BOOLEAN
    /\ card_wait \in BOOLEAN /\ doorbell \in BOOLEAN /\ lbp_lock \in Threads \cup {None}
    /\ bios_information \in [Cached -> Values \cup {None}]
    /\ \A t \in Threads :
         /\ call[t].op \in Ops[t] \cup {None} /\ (call[t].op = None) = (call[t].todo = <<>>)
         /\ call[t].owed \subseteq Commands
         \* whoever has the lock is going to leave it, and nobody else does
         /\ lbp_lock = t =>
              \E i \in DOMAIN call[t].todo :
                call[t].todo[i] = Unlock /\ \A j \in 1..i : call[t].todo[j] # Lock
         /\ call[t].todo # <<>> /\ Head(call[t].todo) = Unlock => lbp_lock = t
    /\ fw \in [pc : {"off", "up", "rung", "idle", "run", "answered", "consumed", "flash", "os"},
               linked : BOOLEAN, job : Commands \cup {None}, failed : BOOLEAN]
    /\ faults \in 0..MaxFaults

Init ==
    /\ i7Ready = [ready |-> {}, version |-> FALSE] /\ e5Ready = "NOT_READY"
    /\ i7Cmd = None /\ data = "ddr_size" /\ i7Error = FALSE
    /\ card_wait = FALSE /\ doorbell = FALSE /\ lbp_lock = None
    /\ bios_information = [p \in Cached |-> None]
    /\ call = [t \in Threads |-> Idle]
    /\ fw = [pc |-> "off", linked |-> FALSE, job |-> None, failed |-> FALSE]
    /\ faults = 0

Fault == faults < MaxFaults /\ faults' = faults + 1

-----------------------------------------------------------------------------
(* The host.                                                               *)

At(t, do) == call[t].todo # <<>> /\ Head(call[t].todo).do = do
Arg(t) == Head(call[t].todo).arg
The(S) == CHOOSE v \in S : TRUE

(* The record of a call after its next step, and after a failure: the lock *)
(* is left, and a handshake takes back its readiness after that.           *)
After(t) ==
    LET rest == Tail(call[t].todo)
    IN  IF rest = <<>> THEN Idle ELSE [call[t] EXCEPT !.todo = rest]
FailedLocked(t) ==      \* mutant: a failed handshake keeps the lock
    [Idle EXCEPT
       !.op = call[t].op, !.ok = call[t].linked,
       !.todo = IF call[t].op = "handshake" /\ ~call[t].linked THEN <<E5("NOT_READY")>> ELSE <<Unlock>>]
Failed(t) ==
    [Idle EXCEPT
       !.op = call[t].op, !.ok = call[t].linked,
       !.todo = IF call[t].op = "handshake" /\ ~call[t].linked
                THEN <<Unlock, E5("NOT_READY")>> ELSE <<Unlock>>]
Proceed(t, c) == call' = [call EXCEPT ![t] = c]

(* The card owes nothing: no command is under way.  Of a call that found   *)
(* it so, the commands not yet done as they were meant are noted.          *)
CardIdle == i7Cmd = None /\ fw.pc \in {"up", "idle"}
Noted(t) == call[t].alone /\ call[t].op # "handshake"

(* A call begins when its first step can be made: waiting for the lock it  *)
(* has done nothing yet.                                                   *)
Call(t, op) ==
    /\ call[t].op = None
    /\ Head(Script(op)) = Lock => lbp_lock = None
    /\ Proceed(t, [Idle EXCEPT !.op = op, !.todo = Script(op)])
    /\ UNCHANGED <<registers, card_wait, doorbell, lbp_lock, bios_information, fw, faults>>

TakeLockNot(t) ==       \* mutant: the lock is not waited for
    /\ At(t, "lock")
    /\ lbp_lock' = t
    /\ Proceed(t, [After(t) EXCEPT !.alone = @ /\ CardIdle])
    /\ UNCHANGED <<registers, card_wait, doorbell, bios_information, fw, faults>>

TakeLock(t) ==
    /\ At(t, "lock") /\ lbp_lock = None
    /\ lbp_lock' = t
    /\ Proceed(t, [After(t) EXCEPT !.alone = @ /\ CardIdle])
    /\ UNCHANGED <<registers, card_wait, doorbell, bios_information, fw, faults>>

LeaveLock(t) ==
    /\ At(t, "unlock")
    /\ lbp_lock' = None /\ Proceed(t, After(t))
    /\ UNCHANGED <<registers, card_wait, doorbell, bios_information, fw, faults>>

Forget(t) ==
    /\ At(t, "forget")
    /\ bios_information' = [p \in Cached |-> None] /\ Proceed(t, After(t))
    /\ UNCHANGED <<registers, card_wait, doorbell, lbp_lock, fw, faults>>

(* Writes to the registers; a command without a name is PLX_LBP_CMD_INVALID. *)
WriteCmd(t) ==
    /\ At(t, "cmd")
    /\ i7Cmd' = IF Arg(t) = {} THEN None ELSE The(Arg(t))
    /\ Proceed(t, [After(t) EXCEPT !.owed = IF Noted(t) THEN @ \cup Arg(t) ELSE {}])
    /\ UNCHANGED <<i7Ready, e5Ready, data, i7Error, card_wait, doorbell, lbp_lock, bios_information, fw, faults>>

WriteData(t) ==
    /\ At(t, "data")
    /\ data' = The(Arg(t)) /\ Proceed(t, After(t))
    /\ UNCHANGED <<i7Ready, e5Ready, i7Cmd, i7Error, card_wait, doorbell, lbp_lock, bios_information, fw, faults>>

WriteE5(t) ==
    /\ At(t, "e5")
    /\ e5Ready' = The(Arg(t)) /\ Proceed(t, After(t))
    /\ UNCHANGED <<i7Ready, i7Cmd, data, i7Error, card_wait, doorbell, lbp_lock, bios_information, fw, faults>>

Reinit(t) ==
    /\ At(t, "reinit")
    /\ card_wait' = FALSE /\ Proceed(t, After(t))
    /\ UNCHANGED <<registers, doorbell, lbp_lock, bios_information, fw, faults>>

(* Checks of the card's state and of its version (check_if_supported).     *)
Check(t) ==
    /\ \/ At(t, "require") /\ Proceed(t, IF i7Ready.ready = Arg(t) THEN After(t) ELSE Failed(t))
       \/ At(t, "version") /\ Proceed(t, IF i7Ready.version THEN After(t) ELSE Failed(t))
       \/ At(t, "linked") /\ Proceed(t, [After(t) EXCEPT !.linked = TRUE])
    /\ UNCHANGED <<registers, card_wait, doorbell, lbp_lock, bios_information, fw, faults>>

(* plx_lbp_get_bios_param asks the cache unless the card can be asked.     *)
FromCache(t) ==
    /\ At(t, "cached")
    /\ LET p == The(Arg(t))
       IN  Proceed(t,
             IF i7Ready.version /\ i7Ready.ready \in {{"READY"}, {"UP"}} THEN After(t)
             ELSE IF bios_information[p] = None THEN Failed(t)
             ELSE [call[t] EXCEPT !.todo = <<Unlock>>, !.bad = bios_information[p] # p])
    /\ UNCHANGED <<registers, card_wait, doorbell, lbp_lock, bios_information, fw, faults>>

(* The three waits, and the end of each when its time is over.  (A limit   *)
(* may be set to 0: then it is over at once.)                              *)
WaitIrq(t) ==
    /\ At(t, "irq") /\ card_wait
    /\ Proceed(t, IF i7Ready.ready \ {"AFTER_REBOOT"} = {"UP"} THEN After(t) ELSE Failed(t))
    /\ UNCHANGED <<registers, card_wait, doorbell, lbp_lock, bios_information, fw, faults>>

WaitConsumed(t) ==
    /\ At(t, "consumed") /\ i7Cmd = None
    /\ Proceed(t, After(t))
    /\ UNCHANGED <<registers, card_wait, doorbell, lbp_lock, bios_information, fw, faults>>

WaitState(t) ==
    /\ \/ /\ At(t, "state") /\ i7Ready.ready \cap Arg(t) # {}
          /\ Proceed(t, IF i7Ready.ready \cap Arg(t) \cap Errors = {} THEN After(t) ELSE Failed(t))
       \/ /\ At(t, "any_state") /\ i7Ready.ready \cap Arg(t) # {}
          /\ Proceed(t, After(t))
    /\ UNCHANGED <<registers, card_wait, doorbell, lbp_lock, bios_information, fw, faults>>

TimedOut(t) ==
    /\ \E wait \in {"irq", "consumed", "state", "any_state"} : At(t, wait)
    /\ Fault
    /\ Proceed(t, Failed(t))
    /\ UNCHANGED <<registers, card_wait, doorbell, lbp_lock, bios_information, fw>>

(* The data registers are read; that it is something else is history.      *)
ReadData(t) ==
    /\ \/ /\ At(t, "fetch")
          /\ Proceed(t, [After(t) EXCEPT !.bad = @ \/ (Noted(t) /\ data \notin Arg(t))])
       \/ /\ At(t, "rcvy")
          /\ Proceed(t, IF i7Ready.version /\ i7Ready.ready \in {{"UP"}, {"UP", "AFTER_REBOOT"}, {"READY"}}
                        THEN [After(t) EXCEPT !.bad = data # "flags" /\ i7Ready.ready = {"READY"}] ELSE Failed(t))
    /\ UNCHANGED <<registers, card_wait, doorbell, lbp_lock, bios_information, fw, faults>>

Keep(t) ==
    /\ At(t, "keep")
    /\ bios_information' = [bios_information EXCEPT ![The(Arg(t))] = data]
    /\ Proceed(t, After(t))
    /\ UNCHANGED <<registers, card_wait, doorbell, lbp_lock, fw, faults>>

(* The image goes to the card in chunks: all of them, or a copy failed.    *)
CopyImage(t) ==
    /\ At(t, "copy")
    /\ \/ Proceed(t, After(t)) /\ UNCHANGED faults
       \/ Proceed(t, Failed(t)) /\ Fault
    /\ UNCHANGED <<registers, card_wait, doorbell, lbp_lock, bios_information, fw>>

(* plx_lbp_set_bios_param looks for an error, and clears it.               *)
TestError(t) ==
    /\ At(t, "error")
    /\ Proceed(t, IF i7Error THEN [call[t] EXCEPT !.todo = ClearError, !.ok = FALSE, !.owed = {}] ELSE After(t))
    /\ UNCHANGED <<registers, card_wait, doorbell, lbp_lock, bios_information, fw, faults>>

NoError(t) ==
    /\ At(t, "no_error")
    /\ i7Error' = FALSE /\ Proceed(t, After(t))
    /\ UNCHANGED <<i7Ready, e5Ready, i7Cmd, data, card_wait, doorbell, lbp_lock, bios_information, fw, faults>>

(* The firmware stops where it is; the registers are not the card's.       *)
Pulse(t) ==
    /\ At(t, "pulse")
    /\ fw' = [pc |-> "off", linked |-> FALSE, job |-> None, failed |-> FALSE]
    /\ Proceed(t, After(t))
    /\ UNCHANGED <<registers, card_wait, doorbell, lbp_lock, bios_information, faults>>

ResetStop(t) ==
    /\ At(t, "down")
    /\ i7Ready' = [ready |-> {}, version |-> FALSE] /\ Proceed(t, After(t))
    /\ UNCHANGED <<e5Ready, i7Cmd, data, i7Error, card_wait, doorbell, lbp_lock, bios_information, fw, faults>>

(* The ioctls of the power button write the card's state without the lock. *)
PowerFlag ==
    /\ Fault
    /\ \E ready \in {{}, {"POWER_DOWN"}} : i7Ready' = [ready |-> ready, version |-> FALSE]
    /\ UNCHANGED <<e5Ready, i7Cmd, data, i7Error, card_wait, doorbell, lbp_lock, bios_information, call, fw>>

(* plx_lbp_interrupt_handler.                                              *)
Interrupt ==
    /\ doorbell
    /\ doorbell' = FALSE /\ card_wait' = TRUE
    /\ UNCHANGED <<registers, lbp_lock, bios_information, call, fw, faults>>

-----------------------------------------------------------------------------
(* The card: its firmware, and the system it boots.                        *)

host == <<e5Ready, card_wait, lbp_lock, bios_information>>

(* It takes longer to start than the host to end its reset.                *)
FwBoot ==
    /\ fw.pc = "off" /\ \A t \in Threads : ~At(t, "down")
    /\ fw' = [fw EXCEPT !.pc = "up"]
    /\ i7Ready' = [ready |-> {"UP"} \cup (IF "OS_REBOOTING" \in i7Ready.ready
                                         THEN {"AFTER_REBOOT"} ELSE {}), version |-> TRUE]
    /\ data' = "ddr_size" /\ i7Error' = FALSE
    /\ UNCHANGED <<host, i7Cmd, doorbell, call, faults>>

FwRing ==
    /\ fw.pc \in {"up", "rung"} /\ e5Ready = "WAITING_FOR_IRQ"
    /\ fw' = [fw EXCEPT !.pc = "rung"] /\ doorbell' = TRUE
    /\ UNCHANGED <<registers, card_wait, lbp_lock, bios_information, call, faults>>

FwLink ==
    /\ fw.pc = "rung" /\ e5Ready = "READY"
    /\ fw' = [fw EXCEPT !.pc = "idle", !.linked = TRUE]
    /\ i7Ready' = [i7Ready EXCEPT !.ready = {"READY"}]
    /\ UNCHANGED <<host, i7Cmd, data, i7Error, doorbell, call, faults>>

FwTake ==
    /\ fw.pc \in {"up", "idle"} /\ i7Cmd # None
    /\ fw' = [fw EXCEPT !.pc = "run", !.job = i7Cmd, !.failed = FALSE]
    /\ \E ready \in {i7Ready.ready, {"BUSY"}} : i7Ready' = [i7Ready EXCEPT !.ready = ready]
    /\ UNCHANGED <<host, i7Cmd, data, i7Error, doorbell, call, faults>>

Input(c) ==
    CASE c = "SET_TIME" -> "time" [] c = "MAP_RAMDISK" -> "size" [] c = "SET_PARAM" -> "value"
      [] OTHER -> data
Answer(c) ==
    CASE c = "SET_TIME" -> "flags" [] c = "MAP_RAMDISK" -> "address" [] c = "GET_MAC_ADDR" -> "mac"
      [] c = "BOOT_BLOCK_IO" -> "devpage" [] c \in Values -> c [] OTHER -> data

FwRun ==
    /\ fw.pc = "run"
    /\ \/ /\ fw' = [fw EXCEPT !.pc = "answered"]
          /\ data' = Answer(fw.job)
          /\ call' = [t \in Threads |->
                IF t = lbp_lock /\ data = Input(fw.job)
                THEN [call[t] EXCEPT !.owed = @ \ {fw.job}] ELSE call[t]]
          /\ UNCHANGED <<i7Error, faults>>
       \/ /\ fw.job \in {"MAP_RAMDISK", "BOOT_RAMDISK", "BOOT_BLOCK_IO", "BOOT_LOADER", "SET_PARAM", "FLASH"}
          /\ Fault
          /\ fw' = [fw EXCEPT !.pc = "answered", !.failed = TRUE]
          /\ i7Error' = TRUE
          /\ UNCHANGED <<data, call>>
    /\ UNCHANGED <<host, i7Ready, i7Cmd, doorbell>>

FwConsume ==
    /\ fw.pc = "answered"
    /\ fw' = [fw EXCEPT !.pc = "consumed"] /\ i7Cmd' = None
    /\ UNCHANGED <<host, i7Ready, data, i7Error, doorbell, call, faults>>

FwState ==
    /\ fw.pc = "consumed"
    /\ LET home == IF fw.linked THEN "idle" ELSE "up"
           boots == fw.job \in {"BOOT_RAMDISK", "BOOT_BLOCK_IO", "BOOT_LOADER"} /\ ~fw.failed
           flashes == fw.job = "FLASH" /\ ~fw.failed
       IN  /\ fw' = [fw EXCEPT !.job = None,
                     !.pc = IF boots THEN "os" ELSE IF flashes THEN "flash" ELSE home]
           /\ i7Ready' = [i7Ready EXCEPT !.ready =
                IF fw.failed /\ fw.job # "SET_PARAM" THEN {"GENERAL_ERROR"}
                ELSE IF fw.job = "BOOT_BLOCK_IO" THEN {"BOOTING_BLOCK_IO"}
                ELSE IF boots THEN {"BOOTING"}
                ELSE IF flashes THEN {"FLASHING"}
                ELSE IF fw.job = "MAP_RAMDISK" THEN {"DONE"}
                ELSE IF fw.linked THEN {"READY"} ELSE {"UP"}]
    /\ UNCHANGED <<host, i7Cmd, data, i7Error, doorbell, call, faults>>

FwFlashed ==
    /\ fw.pc = "flash"
    /\ \A t \in Threads : At(t, "state") => "DONE" \in Arg(t)
    /\ fw' = [fw EXCEPT !.pc = "idle"]
    /\ i7Ready' = [i7Ready EXCEPT !.ready = {"DONE"}]
    /\ UNCHANGED <<host, i7Cmd, data, i7Error, doorbell, call, faults>>

(* plx_lbp_set_state, called by the card's system, once the call that      *)
(* booted it is over; then it may go down.                                 *)
OsState ==
    /\ fw.pc = "os"
    /\ lbp_lock # None => call[lbp_lock].op \notin {"boot_ramdisk", "boot_blkdisk", "boot_from_usb"}
    /\ \E ready \in {{"OS_READY"}, {"OS_REBOOTING"}} : i7Ready' = [i7Ready EXCEPT !.ready = ready]
    /\ UNCHANGED <<host, i7Cmd, data, i7Error, doorbell, call, fw, faults>>

OsReboot ==
    /\ fw.pc = "os" /\ i7Ready.ready = {"OS_REBOOTING"}
    /\ fw' = [fw EXCEPT !.pc = "off", !.linked = FALSE]
    /\ UNCHANGED <<host, i7Ready, i7Cmd, data, i7Error, doorbell, call, faults>>

-----------------------------------------------------------------------------
HostStep(t) ==
    \/ LeaveLock(t) \/ Forget(t) \/ WriteCmd(t) \/ WriteData(t) \/ WriteE5(t) \/ Reinit(t)
    \/ Check(t) \/ FromCache(t) \/ WaitIrq(t) \/ WaitConsumed(t) \/ WaitState(t)
    \/ ReadData(t) \/ Keep(t) \/ CopyImage(t) \/ TestError(t) \/ NoError(t)
    \/ Pulse(t) \/ ResetStop(t)
FwStep == FwTake \/ FwRun \/ FwConsume \/ FwState \/ FwFlashed

Next ==
    \/ \E t \in Threads :
         HostStep(t) \/ TakeLock(t) \/ TimedOut(t) \/ \E op \in Ops[t] : Call(t, op)
    \/ FwStep \/ FwBoot \/ FwRing \/ FwLink \/ OsState \/ OsReboot \/ Interrupt \/ PowerFlag

Spec == Init /\ [][Next]_vars

-----------------------------------------------------------------------------
(* A call that found the card idle and returns LBP_STATE_OK had each of    *)
(* its commands done, with the data it wrote, and each value it read is    *)
(* the one it asked for.  (A handshake does not depend on the information  *)
(* it keeps; plx_lbp_boot_from_usb and plx_lbp_get_rcvy_state do tell      *)
(* success otherwise.)                                                     *)
DoneAsTold ==
    \A t \in Threads :
      /\ At(t, "unlock") /\ call[t].ok /\ call[t].alone
      /\ call[t].op \notin {"handshake", "boot_from_usb", "get_rcvy_state"}
      => call[t].owed = {} /\ ~call[t].bad

(* What a handshake keeps is what it asked for, whatever calls had timed   *)
(* out before it and left their command in the register: it empties the    *)
(* register, and the card links between two commands.                      *)
CacheHonest == \A p \in Cached : bios_information[p] \in {p, None}

(* Two that do not hold; the README tells why.                             *)
(* plx_lbp_handshake: "1] indicate readiness for handshake interrupt", "2] *)
(* wait for interrupt from BIOS".                                          *)
ReadinessIndicated == \A t \in Threads : At(t, "irq") => e5Ready = "WAITING_FOR_IRQ"

(* plx_lbp_ifc.h: the flags tested by plx_lbp_get_rcvy_state are "Values   *)
(* retured by data_lo register"; plx_lbp_copy_bios_info sets the time      *)
(* "only to set correct status(GOLD BIOS) into registers by BIOS".  Of a   *)
(* linked card.                                                            *)
RecoveryFlagsRead == \A t \in Threads : call[t].op = "get_rcvy_state" => ~call[t].bad
=============================================================================
