------------------------------- MODULE Agent --------------------------------
(***************************************************************************)
(* Commands of the host to the agent on a card: the ioctl                  *)
(* VCA_AGENT_COMMAND (vca_csm, plx_hw_ops_vca_csm.c), the card's driver    *)
(* (vca_csa) and the script that runs there (scripts/vca_agent.sh).  They  *)
(* share the boot parameters in the host's memory: the host writes a       *)
(* command and rings a doorbell, the agent runs it, puts its answer into   *)
(* memory of the card and sets csa_finished, and the host, which polls for *)
(* that for a limited time, reads the answer.  Nothing ties an answer to a *)
(* command; the numbers of requests are history.                           *)
(***************************************************************************)
EXTENDS Naturals, FiniteSets

CONSTANTS
    Threads,        \* callers of the ioctl
    Cmds,           \* commands: enum vca_agent_cmd
    Reboots,        \* those that end the card's system: OS_SHUTDOWN, OS_REBOOT
    MaxCalls,       \* a bound
    MaxFaults,      \* crashes, failed allocations and mappings, CSM_STOPs: a bound
    None, Garbage   \* no value; what freed memory holds

Requests == [cmd : Cmds, n : 1..MaxCalls]

ConstantsFit ==
    /\ IsFiniteSet(Threads) /\ Reboots \subseteq Cmds
    /\ MaxCalls \in Nat /\ MaxFaults \in Nat /\ None # Garbage
    /\ None \notin Threads \cup Cmds \cup Requests

ASSUME AgentAssumption == ConstantsFit

VARIABLES
    h2c_csa_mem_db,     \* boot parameters: a doorbell is set (neither 0 nor -1)
    csa_command,        \*   the command, None for VCA_NO_COMMAND
    csa_finished,
    csa_mem,            \*   the answer, None when there is none (address and size 0)
    host_mutex,         \* holder of vca_csm_host_mutex
    call,               \* per thread: where the ioctl stands
    doorbell,           \* rung and not yet handled
    csa_requests, last_serviced_request,
    agent,              \* the script's listener and the file operations it is in
    up,                 \* the card's system runs
    calls, faults       \* counted against the bounds

boot_params == <<h2c_csa_mem_db, csa_command, csa_finished, csa_mem>>
csa == <<csa_requests, last_serviced_request, agent, up>>
vars == <<boot_params, host_mutex, call, doorbell, csa, calls, faults>>

Idle == [pc |-> "idle", req |-> None, seen |-> None, alone |-> FALSE]
Asleep == [pc |-> "wait", req |-> None]

TypeOK ==
    /\ h2c_csa_mem_db \in BOOLEAN /\ csa_finished \in BOOLEAN
    /\ csa_command \in Requests \cup {None} /\ csa_mem \in Requests \cup {None}
    /\ host_mutex \in Threads \cup {None}
    /\ call \in [Threads -> [
         pc : {"idle", "lock", "clear", "command", "ring", "wait", "map", "copy", "ack"},
         req : Requests \cup {None}, seen : Requests \cup {None, Garbage},
         alone : BOOLEAN]]
    /\ doorbell \in BOOLEAN /\ up \in BOOLEAN
    /\ csa_requests \in Nat /\ last_serviced_request \in Nat
    /\ agent \in [pc : {"wait", "fetch", "mark", "run", "fill", "finish", "halt"},
                  req : Requests \cup {None}]
    /\ calls \in 0..MaxCalls /\ faults \in 0..MaxFaults
    /\ \A t \in Threads : call[t].req = None => call[t].pc = "idle"
    \* only the caller that holds the mutex is between taking and leaving it
    /\ \A t \in Threads :
         call[t].pc \in {"clear", "command", "ring", "wait", "map", "copy", "ack"} => host_mutex = t

Init ==
    /\ h2c_csa_mem_db = FALSE /\ csa_command = None
    /\ csa_finished = FALSE /\ csa_mem = None
    /\ host_mutex = None /\ call = [t \in Threads |-> Idle]
    /\ doorbell = FALSE /\ csa_requests = 0 /\ last_serviced_request = 0
    /\ agent = Asleep /\ up = FALSE /\ calls = 0 /\ faults = 0

Fault == faults < MaxFaults /\ faults' = faults + 1

-----------------------------------------------------------------------------
(* The host: _plx_csm_agent_command.                                       *)

At(t, pc) == call[t].pc = pc
Goto(t, pc) == call' = [call EXCEPT ![t].pc = pc]

(* The card owes no answer: nothing asked of it is unserviced or under way. *)
CardIdle ==
    /\ up /\ ~doorbell /\ csa_requests = last_serviced_request
    /\ agent.pc = "wait"

(* The check for an agent is made before the mutex is taken.  Without one  *)
(* the call returns LBP_INTERNAL_ERROR and nothing has changed.            *)
AgentCommand(t, c) ==
    /\ At(t, "idle") /\ calls < MaxCalls
    /\ h2c_csa_mem_db
    /\ calls' = calls + 1
    /\ call' = [call EXCEPT ![t].pc = "lock", ![t].req = [cmd |-> c, n |-> calls + 1]]
    /\ UNCHANGED <<boot_params, host_mutex, doorbell, csa, faults>>

Lock(t) ==
    /\ At(t, "lock") /\ host_mutex = None
    /\ host_mutex' = t /\ Goto(t, "clear")
    /\ UNCHANGED <<boot_params, doorbell, csa, calls, faults>>

ClearNot(t) ==      \* mutant: a late answer is kept
    /\ At(t, "clear")
    /\ call' = [call EXCEPT ![t].pc = "command", ![t].alone = CardIdle]
    /\ UNCHANGED <<boot_params, host_mutex, doorbell, csa, calls, faults>>

(* An answer that came after its caller had given up is dropped.           *)
Clear(t) ==
    /\ At(t, "clear")
    /\ csa_finished' = FALSE
    /\ call' = [call EXCEPT ![t].pc = "command", ![t].alone = CardIdle]
    /\ UNCHANGED <<h2c_csa_mem_db, csa_command, csa_mem, host_mutex, doorbell, csa, calls, faults>>

Command(t) ==
    /\ At(t, "command")
    /\ csa_command' = call[t].req /\ Goto(t, "ring")
    /\ UNCHANGED <<h2c_csa_mem_db, csa_finished, csa_mem, host_mutex, doorbell, csa, calls, faults>>

(* The doorbell is read again: after a CSM_STOP it is none of the agent's. *)
Ring(t) ==
    /\ At(t, "ring")
    /\ doorbell' = (doorbell \/ h2c_csa_mem_db) /\ Goto(t, "wait")
    /\ UNCHANGED <<boot_params, host_mutex, csa, calls, faults>>

Seen(t) ==
    /\ At(t, "wait") /\ csa_finished
    /\ Goto(t, "map")
    /\ UNCHANGED <<boot_params, host_mutex, doorbell, csa, calls, faults>>

Return(t) == call' = [call EXCEPT ![t] = Idle] /\ host_mutex' = None

(* All retries used, and still no answer: LBP_IRQ_TIMEOUT.                 *)
TimedOut(t) ==
    /\ At(t, "wait") /\ ~csa_finished
    /\ Return(t)
    /\ UNCHANGED <<boot_params, doorbell, csa, calls, faults>>

(* plx_read_dma_mapped_mem: size and address are read and the memory of    *)
(* the card is mapped, which may fail; then it is copied, whatever it      *)
(* holds by now.  The size is read with 8 bytes from a field of 4, so that *)
(* it is not 0 where there is no answer: address 0 of the card is mapped.  *)
MapMem(t) ==
    /\ At(t, "map")
    /\ \/ /\ call' = [call EXCEPT ![t].pc = "copy",
                                  ![t].seen = IF csa_mem = None THEN Garbage ELSE csa_mem]
          /\ UNCHANGED faults
       \/ Fault /\ call' = [call EXCEPT ![t].pc = "copy", ![t].seen = None]
    /\ UNCHANGED <<boot_params, host_mutex, doorbell, csa, calls>>

CopyMem(t) ==
    /\ At(t, "copy")
    /\ call' = [call EXCEPT ![t].pc = "ack",
                            ![t].seen = IF @ \in {csa_mem, None} THEN @ ELSE Garbage]
    /\ UNCHANGED <<boot_params, host_mutex, doorbell, csa, calls, faults>>

(* LBP_STATE_OK, with what was copied.                                     *)
Ack(t) ==
    /\ At(t, "ack")
    /\ csa_finished' = FALSE
    /\ Return(t)
    /\ UNCHANGED <<h2c_csa_mem_db, csa_command, csa_mem, doorbell, csa, calls, faults>>

(* CSM_STOP: plx_stop sets the boot parameters up anew, under a mutex that *)
(* the commands do not take.                                               *)
Stop ==
    /\ Fault
    /\ h2c_csa_mem_db' = FALSE /\ csa_command' = None
    /\ csa_finished' = FALSE /\ csa_mem' = None
    /\ UNCHANGED <<host_mutex, call, doorbell, csa, calls>>

-----------------------------------------------------------------------------
(* The card.                                                               *)

(* vca_csa_driver_probe, and the script that starts after it.  A doorbell  *)
(* rung meanwhile may or may not survive.                                  *)
Boot ==
    /\ ~up /\ up' = TRUE
    /\ csa_requests' = 0 /\ last_serviced_request' = 0 /\ agent' = Asleep
    /\ h2c_csa_mem_db' = TRUE
    /\ doorbell' \in {FALSE, doorbell}
    /\ UNCHANGED <<csa_command, csa_finished, csa_mem, host_mutex, call, calls, faults>>

(* _vca_csa_csa_mem_intr_handler.                                          *)
Interrupt ==
    /\ up /\ doorbell
    /\ doorbell' = FALSE /\ csa_requests' = csa_requests + 1
    /\ UNCHANGED <<boot_params, host_mutex, call, last_serviced_request, agent, up, calls, faults>>

AgentGoto(pc) == agent' = [agent EXCEPT !.pc = pc]

(* csa_mem_show, the listener's read: it sleeps until a request was        *)
(* counted, reads the command, and then notes the requests seen so far.    *)
WakeLate ==         \* mutant: it sleeps through a single request
    /\ up /\ agent.pc = "wait" /\ last_serviced_request < csa_requests - 1
    /\ AgentGoto("fetch")
    /\ UNCHANGED <<boot_params, host_mutex, call, doorbell, csa_requests, last_serviced_request, up, calls, faults>>

Wake ==
    /\ up /\ agent.pc = "wait" /\ last_serviced_request # csa_requests
    /\ AgentGoto("fetch")
    /\ UNCHANGED <<boot_params, host_mutex, call, doorbell, csa_requests, last_serviced_request, up, calls, faults>>

Fetch ==
    /\ up /\ agent.pc = "fetch"
    /\ agent' = [pc |-> "mark", req |-> csa_command]
    /\ UNCHANGED <<boot_params, host_mutex, call, doorbell, csa_requests, last_serviced_request, up, calls, faults>>

Mark ==
    /\ up /\ agent.pc = "mark"
    /\ last_serviced_request' = csa_requests
    /\ AgentGoto(IF agent.req = None THEN "wait" ELSE "run")
    /\ UNCHANGED <<boot_params, host_mutex, call, doorbell, csa_requests, up, calls, faults>>

(* The script has run the command and writes its output to csa_mem:        *)
(* plx_set_config_file frees the memory of the last answer, and allocates  *)
(* and fills that of this one; then csa_finished is set in any case.       *)
Store ==
    /\ up /\ agent.pc = "run"
    /\ csa_mem' = None /\ AgentGoto("fill")
    /\ UNCHANGED <<h2c_csa_mem_db, csa_command, csa_finished, host_mutex, call, doorbell, csa_requests, last_serviced_request, up, calls, faults>>

Fill ==
    /\ up /\ agent.pc = "fill"
    /\ \/ csa_mem' = agent.req /\ UNCHANGED faults
       \/ Fault /\ UNCHANGED csa_mem
    /\ AgentGoto("finish")
    /\ UNCHANGED <<h2c_csa_mem_db, csa_command, csa_finished, host_mutex, call, doorbell, csa_requests, last_serviced_request, up, calls>>

Finish ==
    /\ up /\ agent.pc = "finish"
    /\ csa_finished' = TRUE
    /\ AgentGoto(IF agent.req.cmd \in Reboots THEN "halt" ELSE "wait")
    /\ UNCHANGED <<h2c_csa_mem_db, csa_command, csa_mem, host_mutex, call, doorbell, csa_requests, last_serviced_request, up, calls, faults>>

(* halt or reboot, when the command was that; a crash at any time.         *)
Down ==
    /\ up /\ up' = FALSE
    /\ IF agent.pc = "halt" THEN UNCHANGED faults ELSE Fault
    /\ UNCHANGED <<boot_params, host_mutex, call, doorbell, csa_requests, last_serviced_request, agent, calls>>

-----------------------------------------------------------------------------
HostStep(t) ==
    \/ Lock(t) \/ Clear(t) \/ Command(t) \/ Ring(t)
    \/ Seen(t) \/ MapMem(t) \/ CopyMem(t) \/ Ack(t)
CardStep == Interrupt \/ Wake \/ Fetch \/ Mark \/ Store \/ Fill \/ Finish

Next ==
    \/ \E t \in Threads :
         HostStep(t) \/ TimedOut(t) \/ \E c \in Cmds : AgentCommand(t, c)
    \/ CardStep \/ Boot \/ Stop \/ Down

(* Threads, interrupts and the agent go on; no caller need give up.        *)
Fairness ==
    /\ \A t \in Threads : SF_vars(Lock(t)) /\ WF_vars(HostStep(t))
    /\ WF_vars(CardStep)

Spec == Init /\ [][Next]_vars /\ Fairness

-----------------------------------------------------------------------------
(* A command given while the card owed no answer, whatever had gone wrong  *)
(* before, is told its own answer or (when the card had no memory for it,  *)
(* the boot parameters were reset or nothing could be mapped) something    *)
(* that is no answer: never that of another command.                       *)
(* It rests on dropping a late answer, on writing the command before       *)
(* ringing, on the agent noting requests no earlier than it reads, and on  *)
(* one caller at a time.                                                   *)
AnswerFits ==
    /\ TypeOK
    /\ \A t \in Threads :
         At(t, "ack") /\ call[t].alone =>
           call[t].seen = call[t].req \/ (call[t].seen \in {None, Garbage} /\ faults > 0)

(* The same of every command: the comment in _plx_csm_agent_command has    *)
(* answers that came too early dropped.  It does not hold; the README      *)
(* tells why.                                                              *)
LateAnswersDropped ==
    \A t \in Threads :
      At(t, "ack") /\ faults = 0 => call[t].seen = call[t].req

(* A caller that waits for a card which owed nothing before is answered,   *)
(* unless something failed: no doorbell is lost between the interrupt, the *)
(* count of requests and the listener's sleep.                             *)
AnswerComes ==
    \A t \in Threads :
      At(t, "wait") /\ call[t].alone /\ up ~> ~At(t, "wait") \/ faults > 0

============================================================================
