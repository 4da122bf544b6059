------------------------------- MODULE PlxDma -------------------------------
(***************************************************************************)
(* A channel of the DMA engine driver (plx_dma.c): a ring of descriptors   *)
(* that submitters fill under prep_lock, the engine works off, and         *)
(* whoever holds cleanup_lock reaps: the interrupt thread, a submitter     *)
(* that finds the ring full, or one that waits for its transfer.           *)
(*                                                                         *)
(* All callers set a flag, so the last descriptor of a transfer becomes    *)
(* valid only when it is submitted.  A caller is synchronous (it polls     *)
(* until its cookie is complete) or asynchronous (it passes a callback).   *)
(*                                                                         *)
(* The engine is known from what the driver says of it: it stops at a      *)
(* descriptor that is not valid, clears the valid bit by a write that may  *)
(* arrive after the interrupt but not after the answer to a register read, *)
(* interrupts when its status bit is newly set, and sometimes stops for no *)
(* known reason.                                                           *)
(***************************************************************************)
EXTENDS Integers, FiniteSets, Sequences

CONSTANTS RingSize,      \* PLX_DMA_DESC_RX_SIZE
          CookieMax,     \* the largest dma_cookie_t
          StartCookie,   \* the channel's cookie: 1 when registered, any later
          Submitters,    \* threads that submit transfers
          Size,          \* descriptors of a submitter's transfers
          Kind,          \* "sync" or "async": whether it waits for them
          Share,         \* bound: transfers of each submitter
          MaxTransfers   \* bound: transfers submitted

ASSUME DmaAssumption ==
    /\ RingSize \in Nat \ {0, 1} /\ CookieMax \in Nat /\ CookieMax >= RingSize
    /\ StartCookie \in 1..CookieMax
    /\ Size \in [Submitters -> Nat \ {0}] /\ Kind \in [Submitters -> {"sync", "async"}]
    /\ Share \in [Submitters -> 0..MaxTransfers]
    /\ MaxTransfers \in Nat
    /\ "irq" \notin Submitters /\ "nobody" \notin Submitters

Slots     == 0..(RingSize - 1)
Transfers == 1..MaxTransfers
Irq       == "irq"       \* the interrupt thread
Nobody    == "nobody"
Actors    == Submitters \cup {Irq}

VARIABLES head, tail,    \* ch->head, ch->last_tail
          valid,         \* slots whose descriptor has PLX_DESC_VALID in memory
          tx,            \* ch->tx_array: cookie and, as its callback, the transfer
          cookie,        \* chan->cookie and completed_cookie
          pc, job,       \* where an actor is, and what it submits
          prepLock,      \* holder of prep_lock
          reap,          \* the holder of cleanup_lock in plx_dma_cleanup
          hw,            \* the engine: next descriptor, last one fetched, running
          writes,        \* valid bits the engine has cleared, not yet in memory
          status, msi,   \* interrupt status bits; an interrupt on its way
          hang,          \* ch->dma_hang
          failed,        \* the engine has met an error
          desc, moved,   \* history: transfer a slot is for; descriptors done of it
          size,          \* history: descriptors of the transfers prepared
          prepared,      \* history: transfers a submitter has prepared
          ran            \* history: transfers whose completion was reaped, in order

swVars   == <<head, tail, tx, cookie, hang>>
runVars  == <<pc, job, prepLock>>
hwVars   == <<hw, writes, failed, moved>>
intrVars == <<status, msi>>
history  == <<desc, size, prepared, ran>>
vars     == <<swVars, valid, runVars, reap, hwVars, intrVars, history>>

NoTx    == [cookie |-> 0, transfer |-> 0]
NoJob   == [transfer |-> 0, left |-> 0, cookie |-> 0, used |-> 0]
NotReaping == [by |-> Nobody, at |-> 0, cached |-> 0, flushed |-> FALSE, hwLast |-> 0]
Count   == Cardinality({t \in Transfers : size[t] # 0})

Init == /\ head = 0 /\ tail = 0 /\ valid = {} /\ hang = FALSE
        /\ tx = [i \in Slots |-> NoTx]
        /\ cookie = [used |-> StartCookie, completed |-> StartCookie]
        /\ pc = [a \in Actors |-> "idle"] /\ job = [a \in Submitters |-> NoJob]
        /\ prepLock = Nobody /\ reap = NotReaping
        /\ hw = [next |-> 0, last |-> 0, running |-> FALSE]
        /\ writes = <<>> /\ status = {} /\ msi = FALSE
        /\ failed = FALSE
        /\ desc = [i \in Slots |-> 0] /\ moved = [t \in Transfers |-> 0]
        /\ size = [t \in Transfers |-> 0] /\ prepared = [s \in Submitters |-> 0]
        /\ ran = <<>>

-----------------------------------------------------------------------------
(* Faulty variant: the index is not taken modulo the ring's size. *)
RingIncNoMask(i) == i + 1
(* plx_dma_ring_inc *)
RingInc(i) == (i + 1) % RingSize

(* Faulty variant: the slot that tells a full ring from an empty one is used. *)
RingCountNoSpare(h, t) == IF h >= t THEN t + (RingSize - h) ELSE t - h
(* plx_dma_ring_count *)
RingCount(h, t) == (IF h >= t THEN t + (RingSize - h) ELSE t - h) - 1

(* plx_dma_issue_pending: the start bit is written. *)
Started == [hw EXCEPT !.running = TRUE]

Goto(a, where) == pc' = [pc EXCEPT ![a] = where]

(* The next cookie; after the largest comes 1 again. *)
NextCookie == IF cookie.used = CookieMax THEN 1 ELSE cookie.used + 1

(* dma_async_is_complete, as plx_dma_cookie_status calls it. *)
IsComplete(c, used, completed) ==
    IF completed <= used THEN c <= completed \/ c > used ELSE c <= completed /\ c > used

-----------------------------------------------------------------------------
(* plx_dma_prep_memcpy_lock: the ring has room for its descriptors ... *)
Prep(s) ==
    /\ pc[s] = "idle" /\ prepLock = Nobody
    /\ prepared[s] < Share[s] /\ Count < MaxTransfers
    /\ prepLock' = s
    /\ job' = [job EXCEPT ![s] = [NoJob EXCEPT !.left = Size[s]]]
    /\ IF RingCount(head, tail) >= Size[s]
       THEN Goto(s, "program") /\ UNCHANGED hw
       ELSE Goto(s, "reap_full") /\ hw' = Started
    /\ UNCHANGED <<swVars, valid, reap, writes, failed, moved, intrVars, history>>

(* ... or has it after a cleanup, or the call fails. *)
PrepAgain(s) ==
    /\ pc[s] = "full"
    /\ IF RingCount(head, tail) >= job[s].left
       THEN Goto(s, "program") /\ UNCHANGED prepLock
       ELSE Goto(s, "idle") /\ prepLock' = Nobody
    /\ job' = IF RingCount(head, tail) >= job[s].left THEN job
              ELSE [job EXCEPT ![s] = NoJob]
    /\ UNCHANGED <<swVars, valid, reap, hwVars, intrVars, history>>

(* One turn of plx_dma_prog_memcpy_desc that is not the last: the engine   *)
(* may take the descriptor at once.                                        *)
Program(s) ==
    /\ pc[s] = "program" /\ job[s].left > 1
    /\ valid' = valid \cup {head}
    /\ desc' = [desc EXCEPT ![head] = Count + 1]
    /\ head' = RingInc(head)
    /\ job' = [job EXCEPT ![s].left = @ - 1]
    /\ UNCHANGED <<tail, tx, cookie, hang, pc, prepLock, reap, hwVars, intrVars,
                   size, prepared, ran>>

(* The last turn leaves the descriptor invalid and the head where it is;   *)
(* allocate_tx, and the caller sets its callback and calls                 *)
(* plx_dma_tx_submit_unlock, which gives out the cookie, ...               *)
ProgramLast(s) ==
    /\ pc[s] = "program" /\ job[s].left = 1
    /\ LET t == Count + 1
       IN  /\ tx' = [tx EXCEPT ![head] = [cookie |-> NextCookie, transfer |-> t]]
           /\ job' = [job EXCEPT ![s] = [NoJob EXCEPT !.transfer = t, !.cookie = NextCookie]]
           /\ desc' = [desc EXCEPT ![head] = t]
           /\ size' = [size EXCEPT ![t] = Size[s]]
    /\ cookie' = [cookie EXCEPT !.used = NextCookie]
    /\ valid' = valid \ {head}
    /\ prepared' = [prepared EXCEPT ![s] = @ + 1]
    /\ Goto(s, "valid")
    /\ UNCHANGED <<head, tail, hang, prepLock, reap, hwVars, intrVars, ran>>

(* ... sets the valid bit ... *)
SubmitValid(s) ==
    /\ pc[s] = "valid"
    /\ valid' = valid \cup {head}
    /\ Goto(s, "head")
    /\ UNCHANGED <<swVars, job, prepLock, reap, hwVars, intrVars, history>>

(* ... and advances the head. *)
SubmitHead(s) ==
    /\ pc[s] = "head"
    /\ head' = RingInc(head)
    /\ prepLock' = Nobody
    /\ Goto(s, "issue")
    /\ UNCHANGED <<tail, tx, cookie, hang, valid, job, reap, hwVars, intrVars, history>>

(* dma_async_issue_pending; a synchronous caller goes on to dma_sync_wait. *)
Issue(s) ==
    /\ pc[s] = "issue"
    /\ hw' = Started
    /\ IF Kind[s] = "sync" THEN Goto(s, "wait") /\ UNCHANGED job
       ELSE Goto(s, "idle") /\ job' = [job EXCEPT ![s] = NoJob]
    /\ UNCHANGED <<swVars, valid, prepLock, reap, writes, failed, moved, intrVars,
                   history>>

(* plx_dma_tx_status reads the cookie last used and, in the next step, the *)
(* one last completed; unless the caller's is complete, it cleans up and   *)
(* the caller asks again.                                                  *)
PollUsed(s) ==
    /\ pc[s] = "wait"
    /\ job' = [job EXCEPT ![s].used = cookie.used]
    /\ Goto(s, "poll")
    /\ UNCHANGED <<swVars, valid, prepLock, reap, hwVars, intrVars, history>>

Poll(s) ==
    /\ pc[s] = "poll"
    /\ IF IsComplete(job[s].cookie, job[s].used, cookie.completed)
       THEN Goto(s, "idle") /\ job' = [job EXCEPT ![s] = NoJob]
       ELSE Goto(s, "reap_wait") /\ job' = [job EXCEPT ![s].used = 0]
    /\ UNCHANGED <<swVars, valid, prepLock, reap, hwVars, intrVars, history>>

(* dma_sync_wait gives up after five seconds, which is enough unless the   *)
(* engine has failed.                                                      *)
Timeout(s) ==
    /\ pc[s] = "wait" /\ failed
    /\ job' = [job EXCEPT ![s] = NoJob]
    /\ Goto(s, "idle")
    /\ UNCHANGED <<swVars, valid, prepLock, reap, hwVars, intrVars, history>>

-----------------------------------------------------------------------------
(* plx_dma_cleanup, which an actor in one of these places runs.            *)
AfterCleanup == [reap_full |-> "full", reap_wait |-> "wait",
                 reap_first |-> "ack", reap_second |-> "idle"]

CleanupLock(a) ==
    /\ pc[a] \in DOMAIN AfterCleanup /\ reap.by = Nobody
    /\ reap' = [NotReaping EXCEPT !.by = a, !.at = tail, !.cached = head]
    /\ UNCHANGED <<swVars, valid, runVars, hwVars, intrVars, history>>

(* last_tail is stored and cleanup_lock released. *)
CleanupUnlock(a) ==
    /\ tail' = reap.at
    /\ reap' = NotReaping
    /\ Goto(a, AfterCleanup[pc[a]])
    /\ UNCHANGED <<head, tx, cookie, hang, valid, job, prepLock, writes, failed, moved,
                   intrVars, history>>

CleanupEnd(a) ==
    /\ reap.by = a /\ reap.at = reap.cached
    /\ CleanupUnlock(a)
    /\ UNCHANGED hw

(* The descriptor is no longer valid: its cookie is complete, its callback *)
(* runs.                                                                   *)
CleanupOne(a) ==
    /\ reap.by = a /\ reap.at # reap.cached /\ reap.at \notin valid
    /\ IF tx[reap.at].cookie = 0 THEN UNCHANGED <<tx, cookie, ran>>
       ELSE /\ cookie' = [cookie EXCEPT !.completed = tx[reap.at].cookie]
            /\ ran' = Append(ran, tx[reap.at].transfer)
            /\ tx' = [tx EXCEPT ![reap.at] = NoTx]
    /\ reap' = [reap EXCEPT !.at = RingInc(@), !.flushed = FALSE, !.hwLast = 0]
    /\ UNCHANGED <<head, tail, hang, valid, runVars, hwVars, intrVars, desc, size, prepared>>

(* It is valid: reading the engine's register brings in all it has written. *)
CleanupFlush(a) ==
    /\ reap.by = a /\ reap.at # reap.cached /\ reap.at \in valid /\ ~reap.flushed
    /\ reap' = [reap EXCEPT !.flushed = TRUE, !.hwLast = hw.last]
    /\ valid' = valid \ {writes[i] : i \in DOMAIN writes}
    /\ writes' = <<>>
    /\ UNCHANGED <<swVars, runVars, hw, failed, moved, intrVars, history>>

(* Faulty variant: an engine that has stopped is left alone. *)
CleanupBreakOnly(a) ==
    /\ reap.by = a /\ reap.at # reap.cached /\ reap.at \in valid /\ reap.flushed
    /\ UNCHANGED hw
    /\ CleanupUnlock(a)
(* It is still valid: the engine is started again if it has stopped there. *)
CleanupBreak(a) ==
    /\ reap.by = a /\ reap.at # reap.cached /\ reap.at \in valid /\ reap.flushed
    /\ IF reap.hwLast = reap.at /\ ~hw.running THEN hw' = Started ELSE UNCHANGED hw
    /\ CleanupUnlock(a)

-----------------------------------------------------------------------------
(* plx_dma_thread_fn: the interrupt wakes the thread. *)
IrqWake ==
    /\ msi /\ pc[Irq] = "idle"
    /\ msi' = FALSE
    /\ Goto(Irq, IF hang THEN "idle" ELSE "reap_first")
    /\ UNCHANGED <<swVars, valid, job, prepLock, reap, hwVars, status, history>>

(* plx_dma_ack_interrupt reads the status bits ... *)
IrqAckRead ==
    /\ pc[Irq] = "ack"
    /\ Goto(Irq, CASE "error" \in status -> "ack_error"
                   [] status = {"done"}  -> "ack_done"
                   [] status = {}        -> "ack_none")
    /\ UNCHANGED <<swVars, valid, job, prepLock, reap, hwVars, intrVars, history>>

(* Faulty variant: no second cleanup after the interrupt is armed again. *)
IrqAckWriteOnce ==
    /\ pc[Irq] \in {"ack_error", "ack_done", "ack_none"}
    /\ status' = status \ (CASE pc[Irq] = "ack_error" -> {"done", "error"}
                             [] pc[Irq] = "ack_done"  -> {"done"}
                             [] pc[Irq] = "ack_none"  -> {})
    /\ hang' = (hang \/ pc[Irq] = "ack_error")
    /\ Goto(Irq, "idle")
    /\ UNCHANGED <<head, tail, tx, cookie, valid, job, prepLock, reap, hwVars, msi, history>>
(* ... and clears those it has read.  After an error the channel is marked *)
(* as hung; after a completion the ring is cleaned a second time.          *)
IrqAckWrite ==
    /\ pc[Irq] \in {"ack_error", "ack_done", "ack_none"}
    /\ status' = status \ (CASE pc[Irq] = "ack_error" -> {"done", "error"}
                             [] pc[Irq] = "ack_done"  -> {"done"}
                             [] pc[Irq] = "ack_none"  -> {})
    /\ hang' = (hang \/ pc[Irq] = "ack_error")
    /\ Goto(Irq, IF pc[Irq] = "ack_done" THEN "reap_second" ELSE "idle")
    /\ UNCHANGED <<head, tail, tx, cookie, valid, job, prepLock, reap, hwVars, msi, history>>

-----------------------------------------------------------------------------
(* The engine.  It sees a descriptor as valid if it has not cleared it.    *)
Takes == /\ hw.running /\ ~failed
         /\ hw.next \in valid \ {writes[i] : i \in DOMAIN writes}

(* A status bit raises an interrupt only when it is newly set. *)
Interrupt(bit) == /\ status' = status \cup {bit}
                  /\ msi' = (msi \/ bit \notin status)

(* It moves the data and clears the valid bit; the last descriptor of a    *)
(* transfer interrupts.                                                    *)
HwDo ==
    /\ Takes
    /\ hw' = [hw EXCEPT !.last = hw.next, !.next = (hw.next + 1) % RingSize]
    /\ writes' = Append(writes, hw.next)
    /\ moved' = [moved EXCEPT ![desc[hw.next]] = @ + 1]
    /\ IF tx[hw.next].transfer = desc[hw.next] THEN Interrupt("done")
       ELSE UNCHANGED intrVars
    /\ UNCHANGED <<swVars, valid, runVars, reap, failed, history>>

WriteBack ==
    /\ writes # <<>>
    /\ valid' = valid \ {Head(writes)} /\ writes' = Tail(writes)
    /\ UNCHANGED <<swVars, runVars, reap, hw, failed, moved, intrVars, history>>

HwStop ==
    /\ hw.running /\ ~Takes
    /\ hw' = [hw EXCEPT !.running = FALSE]
    /\ UNCHANGED <<swVars, valid, runVars, reap, writes, failed, moved, intrVars, history>>

(* For no known reason it stops at a descriptor it has fetched. *)
HwStall ==
    /\ Takes
    /\ hw' = [hw EXCEPT !.last = hw.next, !.running = FALSE]
    /\ UNCHANGED <<swVars, valid, runVars, reap, writes, failed, moved, intrVars, history>>

(* After an error it does nothing until the chip is reset. *)
HwError ==
    /\ Takes
    /\ hw' = [hw EXCEPT !.running = FALSE]
    /\ failed' = TRUE
    /\ Interrupt("error")
    /\ UNCHANGED <<swVars, valid, runVars, reap, writes, moved, history>>

-----------------------------------------------------------------------------
Submit(s)  == \/ PrepAgain(s) \/ Program(s) \/ ProgramLast(s)
              \/ SubmitValid(s) \/ SubmitHead(s) \/ Issue(s) \/ PollUsed(s) \/ Poll(s)
Cleanup(a) == \/ CleanupLock(a) \/ CleanupEnd(a) \/ CleanupOne(a)
              \/ CleanupFlush(a) \/ CleanupBreak(a)
Interrupts == IrqWake \/ IrqAckRead \/ IrqAckWrite
Engine     == HwDo \/ HwStop \/ HwStall \/ HwError \/ WriteBack

Next == \/ \E s \in Submitters : Prep(s) \/ Submit(s) \/ Timeout(s)
        \/ \E a \in Actors : Cleanup(a)
        \/ Interrupts \/ Engine

Spec == Init /\ [][Next]_vars

(* Threads run, locks are passed on, and the engine does not stop at a     *)
(* descriptor each time it is started; its writes need not arrive before a *)
(* register is read.  Nobody must submit a transfer, and nothing must fail. *)
Fairness == /\ \A s \in Submitters : WF_vars(Submit(s) \/ Cleanup(s))
            /\ WF_vars(Interrupts \/ Cleanup(Irq))
            /\ WF_vars(HwStop) /\ SF_vars(HwDo)

FairSpec == Spec /\ Fairness

-----------------------------------------------------------------------------
Done(t) == size[t] # 0 /\ moved[t] = size[t]

(* Indices stay in the ring, cookies are positive (the BUG_ON of           *)
(* plx_dma_cleanup), and the locks have one holder who is where it says.   *)
TypeOK ==
    /\ {head, tail, hw.next, hw.last, reap.at, reap.cached} \subseteq Slots
    /\ valid \subseteq Slots /\ {writes[i] : i \in DOMAIN writes} \subseteq valid
    /\ \A i \in Slots : tx[i].cookie \in 0..CookieMax /\ tx[i].transfer \in 0..MaxTransfers
    /\ cookie.used \in 1..CookieMax /\ cookie.completed \in 1..CookieMax
    /\ prepLock # Nobody => pc[prepLock] \in
           {"reap_full", "full", "program", "valid", "head"}
    /\ reap.by # Nobody => pc[reap.by] \in DOMAIN AfterCleanup

(* Completions are reaped once each, in the order of submission, and only  *)
(* when the engine has moved the whole transfer (plx_dma_cleanup, with     *)
(* plx_dma_avail_desc_ring_space keeping unfinished descriptors from being *)
(* overwritten): the order transfer_done_callback relies on.               *)
CallbacksInOrder ==
    \A i \in DOMAIN ran : ran[i] = i /\ Done(i)

(* A waiter is told by plx_dma_tx_status that its transfer is complete     *)
(* only when the data has been moved, though the two cookies are read      *)
(* without a lock and wrap around.                                         *)
CookieHonest ==
    [][\A s \in Submitters : pc[s] = "poll" /\ pc'[s] = "idle" =>
           Done(job[s].transfer)]_vars

(* Whoever waits in dma_sync_wait learns in the end that its transfer is   *)
(* complete, even if the engine stops for no reason, and not before it is: *)
(* the cleanup of the waiter starts the engine again.  Only an error of    *)
(* the engine excuses it.                                                  *)
SyncCompletes ==
    /\ CookieHonest
    /\ \A s \in {x \in Submitters : Kind[x] = "sync"} :
          pc[s] = "wait" ~> pc[s] = "idle" \/ failed

(* The interrupt thread never goes to rest while the callback of a         *)
(* transfer that is not the last one moved is still to run: reading a      *)
(* register brings in late writes, and the second cleanup of               *)
(* plx_dma_thread_fn makes up for interrupts that were not raised.         *)
AtRest == pc[Irq] = "idle" /\ ~msi /\ ~hang
Reaped == {ran[i] : i \in DOMAIN ran}
NothingStranded ==
    AtRest => \A t \in Transfers \ {MaxTransfers} : Done(t + 1) => t \in Reaped

(* The comment at plx_dma.c:273-280 says that the cleanup is protected     *)
(* against callbacks that are missing or wait for the next DMA traffic:    *)
(* when all is at rest, every transfer moved has had its callback run.     *)
(* It does not hold of the last one; the README tells why.                 *)
NoCallbackMissing ==
    AtRest /\ (\A s \in Submitters : pc[s] = "idle") =>
        \A t \in Transfers : Done(t) => t \in Reaped
=============================================================================
