----------------------------- MODULE TaskSystem -----------------------------
(***************************************************************************)
(* The task queues of mem-sharing-library: a host hands tasks to workers   *)
(* on the sockets of its cards and collects their results.                 *)
(*                                                                         *)
(* A task travels over a channel as a header burst and as many payload     *)
(* bursts as its length needs.  Every channel is a bounded FIFO of bursts  *)
(* (FifoChannels; s_variable_multi_enqueue and _dequeue are called with    *)
(* NUM_ITEMS words throughout), and a caller that finds the FIFO full or   *)
(* empty spins.                                                            *)
(*                                                                         *)
(* The application is the one of the examples: on a card one thread per    *)
(* channel that receives a task and submits its result on the same         *)
(* channel, on the host one thread that may leave Window tasks unanswered. *)
(***************************************************************************)
EXTENDS Integers, FiniteSets, Sequences, SequencesExt

CONSTANTS ActiveSockets, \* active_sockets[0 .. total_sockets - 1]
          MaxChannels,   \* MAX_CHANNELS
          Capacity,      \* bursts that fit in one channel
          BurstBytes,    \* BUFF_SIZE_BOUNDARY
          Lengths,       \* task lengths in bytes
          TaskIds,       \* task ids the host names: ones host_recv_task reports
          IntMax,        \* the largest int
          Window,        \* tasks the host leaves unanswered at most
          MaxTasks       \* bound: tasks the host submits

ASSUME TaskAssumption ==
    /\ ActiveSockets \in Seq(Nat) /\ ActiveSockets # <<>>
    /\ {MaxChannels, Capacity, BurstBytes, Window, MaxTasks, IntMax} \subseteq Nat \ {0}
    /\ MaxChannels <= 10
    /\ Lengths \subseteq Nat \ {0}
    /\ \A id \in TaskIds : <<id \div 10, id % 10>> \in ToSet(ActiveSockets) \X (0..(MaxChannels - 1))

Sockets  == ToSet(ActiveSockets)
Channels == 0..(MaxChannels - 1)
Workers  == Sockets \X Channels
Host     == <<-1, -1>>
Actors   == Workers \cup {Host}
Tasks    == 1..MaxTasks

VARIABLES queue,      \* queue[d][w]: bursts on the way down to or up from w
          call,       \* call[a]: the library call actor a is in
          next,       \* the host's next_* counters
          count,      \* tasks submitted by the host so far
          home        \* home[t]: where task t is done, <<>> if it is not under way

vars == <<queue, call, next, count, home>>

(* The tasks submitted and not answered yet. *)
Waiting == {t \in Tasks : home[t] # <<>>}

Directions == {"down", "up"}
Idle == [op |-> "idle"]
(* The host has used an index out of range: what follows is not modelled.  *)
Astray == [op |-> "astray"]

(***************************************************************************)
(* A counter is a signed int, of which only the remainder is used: by its  *)
(* sign and the remainder of its absolute value.  One that is incremented  *)
(* goes through all of its values; which of those with a given remainder   *)
(* is the last one before an overflow, or before 0, is left open.          *)
(***************************************************************************)
Zero == [neg |-> FALSE, rem |-> 0]
Remainder(c) == IF c.neg THEN -c.rem ELSE c.rem
Incremented(c, m) ==
    IF c.neg
    THEN {[c EXCEPT !.rem = (@ - 1) % m]} \cup {z \in {Zero} : c.rem = 1 % m}
    ELSE {[c EXCEPT !.rem = (@ + 1) % m]}
           \cup {o \in {[neg |-> TRUE, rem |-> (c.rem + 1) % m]} : c.rem = IntMax % m}
Overflowed == call[Host] = Astray \/ \E k \in DOMAIN next : next[k].neg

(* active_sockets[i]; what lies before the array may look like a socket.   *)
SocketsAt(i) == IF i < 0 THEN Sockets ELSE {ActiveSockets[i + 1]}

(* Faulty variant: a last, partly filled burst is not counted. *)
TotalBurstsTruncated(len) == IF len < BurstBytes THEN 1 ELSE len \div BurstBytes
(* total_bursts of a task of len bytes. *)
TotalBursts(len) == ((len - 1) \div BurstBytes) + 1

Header(t, len) == [kind |-> "header", task |-> t, bursts |-> TotalBursts(len), size |-> len]
Payload(t, i)  == [kind |-> "payload", task |-> t, part |-> i]

(* The direction an actor submits to; it receives from the other one. *)
Out(a) == IF a = Host THEN "down" ELSE "up"
In(a)  == IF a = Host THEN "up" ELSE "down"

Init == /\ queue = [d \in Directions |-> [w \in Workers |-> <<>>]]
        /\ call = [a \in Actors |-> Idle]
        /\ next = [submitChannel |-> Zero, submitSocket |-> Zero,
                   recvChannel |-> Zero, recvSocket |-> Zero]
        /\ count = 0
        /\ home = [t \in Tasks |-> <<>>]

-----------------------------------------------------------------------------
(* common_submit_task for task t of len bytes to or from worker w. *)
Submitting(t, len, w) ==
    [op |-> "header", task |-> t, len |-> len, at |-> w, part |-> 0]

(* Faulty variant: one slot more is left free than there need be. *)
EnqueueSpare(d, w, burst) ==
    /\ Len(queue[d][w]) + 1 < Capacity
    /\ queue' = [queue EXCEPT ![d][w] = Append(@, burst)]

(* s_variable_multi_enqueue of one burst; a full channel is tried again. *)
Enqueue(d, w, burst) ==
    /\ Len(queue[d][w]) < Capacity
    /\ queue' = [queue EXCEPT ![d][w] = Append(@, burst)]

SubmitHeader(a) ==
    /\ call[a].op = "header"
    /\ Enqueue(Out(a), call[a].at, Header(call[a].task, call[a].len))
    /\ call' = [call EXCEPT ![a].op = "payload"]
    /\ UNCHANGED <<next, count, home>>

(* One turn of the burst loop; after the last one the call returns. *)
SubmitPayload(a) ==
    /\ call[a].op = "payload"
    /\ Enqueue(Out(a), call[a].at, Payload(call[a].task, call[a].part))
    /\ call' = [call EXCEPT ![a] = IF call[a].part + 1 < TotalBursts(call[a].len)
                                   THEN [call[a] EXCEPT !.part = @ + 1]
                                   ELSE Idle]
    /\ UNCHANGED <<next, count, home>>

-----------------------------------------------------------------------------
(* common_recv_task on the channel of worker w, when a header is there. *)
RecvHeader(a, w) ==
    /\ queue[In(a)][w] # <<>>
    /\ queue' = [queue EXCEPT ![In(a)][w] = Tail(@)]
    /\ call' = [call EXCEPT ![a] = [op |-> "body", at |-> w, buf |-> <<>>,
                                    head |-> Head(queue[In(a)][w])]]

RecvPayload(a) ==
    /\ call[a].op = "body"
    /\ Len(call[a].buf) < call[a].head.bursts
    /\ LET w == call[a].at
       IN  /\ queue[In(a)][w] # <<>>
           /\ queue' = [queue EXCEPT ![In(a)][w] = Tail(@)]
           /\ call' = [call EXCEPT ![a].buf = Append(@, Head(queue[In(a)][w]))]
    /\ UNCHANGED <<next, count, home>>

Received(a) == /\ call[a].op = "body"
               /\ Len(call[a].buf) = call[a].head.bursts

-----------------------------------------------------------------------------
(* host_submit_task.  A task_id below 0 takes the channels in turn, and    *)
(* whenever channel 0 comes up, by turn or by task_id, the next socket.    *)
(* Neither assertion nor remainder keeps out an index below 0.             *)
HostSubmit(id, len) ==
    /\ call[Host] = Idle
    /\ count < MaxTasks
    /\ Cardinality(Waiting) < Window
    /\ LET channel == IF id < 0 THEN Remainder(next.submitChannel) ELSE id % 10
           t       == count + 1
       IN  \E c \in IF id < 0 THEN Incremented(next.submitChannel, MaxChannels)
                              ELSE {next.submitChannel},
              n \in IF channel = 0 THEN Incremented(next.submitSocket, Len(ActiveSockets))
                                   ELSE {next.submitSocket} :
             /\ next' = [next EXCEPT !.submitChannel = c, !.submitSocket = n]
             /\ \/ /\ channel >= 0
                   /\ \E socket \in IF id < 0 THEN SocketsAt(Remainder(n)) ELSE {id \div 10} :
                        /\ call' = [call EXCEPT ![Host] = Submitting(t, len, <<socket, channel>>)]
                        /\ home' = [home EXCEPT ![t] = <<socket, channel>>]
                   /\ count' = t
                \/ /\ id < 0 /\ (channel < 0 \/ Remainder(n) < 0)
                   /\ call' = [call EXCEPT ![Host] = Astray]
                   /\ UNCHANGED <<count, home>>
    /\ UNCHANGED queue

HostRecv ==
    /\ call[Host] = Idle
    /\ Waiting # {}
    /\ call' = [call EXCEPT ![Host] = [op |-> "poll"]]
    /\ UNCHANGED <<queue, next, count, home>>

(* Faulty variant: the scan stays on the first socket. *)
HostPollOneSocket ==
    /\ call[Host].op = "poll"
    /\ LET channel == Remainder(next.recvChannel)
       IN  \E c \in Incremented(next.recvChannel, MaxChannels) :
             /\ next' = [next EXCEPT !.recvChannel = c]
             /\ \/ /\ channel >= 0
                   /\ LET w == <<ActiveSockets[1], channel>>
                      IN  \/ RecvHeader(Host, w)
                          \/ queue["up"][w] = <<>> /\ UNCHANGED <<queue, call>>
                \/ channel < 0 /\ UNCHANGED <<queue, call>>
    /\ UNCHANGED <<count, home>>

(* One turn of the loop of host_recv_task: the channels of a socket in     *)
(* turn, then the next socket.  On a channel below 0 words of data serve   *)
(* as indices: nothing seems to be there, or whatever they say.            *)
HostPoll ==
    /\ call[Host].op = "poll"
    /\ LET channel == Remainder(next.recvChannel)
       IN  \E c \in Incremented(next.recvChannel, MaxChannels),
              n \in IF channel = 0 THEN Incremented(next.recvSocket, Len(ActiveSockets))
                                   ELSE {next.recvSocket} :
             /\ next' = [next EXCEPT !.recvChannel = c, !.recvSocket = n]
             /\ \/ /\ channel >= 0
                   /\ \E socket \in SocketsAt(Remainder(n)) :
                        LET w == <<socket, channel>>
                        IN  \/ RecvHeader(Host, w)
                            \/ queue["up"][w] = <<>> /\ UNCHANGED <<queue, call>>
                \/ channel < 0 /\ UNCHANGED <<queue, call>>
                \/ /\ channel < 0 \/ Remainder(n) < 0
                   /\ call' = [call EXCEPT ![Host] = Astray] /\ UNCHANGED queue
    /\ UNCHANGED <<count, home>>

HostReturn ==
    /\ Received(Host)
    /\ home' = [home EXCEPT ![call[Host].head.task] = <<>>]
    /\ call' = [call EXCEPT ![Host] = Idle]
    /\ UNCHANGED <<queue, next, count>>

(* vca_recv_task polls its one channel until a header is there. *)
WorkerRecv(w) ==
    /\ call[w] = Idle
    /\ RecvHeader(w, w)
    /\ UNCHANGED <<next, count, home>>

(* The worker has its task and calls vca_submit_task with the result. *)
WorkerReply(w, len) ==
    /\ Received(w)
    /\ call' = [call EXCEPT ![w] = Submitting(call[w].head.task, len, w)]
    /\ UNCHANGED <<queue, next, count, home>>

-----------------------------------------------------------------------------
HostNext ==
    \/ \E id \in TaskIds \cup {-1}, len \in Lengths : HostSubmit(id, len)
    \/ SubmitHeader(Host) \/ SubmitPayload(Host)
    \/ HostRecv \/ HostPoll \/ RecvPayload(Host) \/ HostReturn

WorkerNext(w) ==
    \/ WorkerRecv(w) \/ RecvPayload(w) \/ \E len \in Lengths : WorkerReply(w, len)
    \/ SubmitHeader(w) \/ SubmitPayload(w)

(***************************************************************************)
(* The host spins on the full channel down to a worker, which spins on the *)
(* full channel up: neither ever goes on.                                  *)
(***************************************************************************)
BothSpin ==
    \E w \in Workers :
      /\ {call[Host].op, call[w].op} \subseteq {"header", "payload"} /\ call[Host].at = w
      /\ Len(queue["down"][w]) = Capacity /\ Len(queue["up"][w]) = Capacity

(* All tasks are done: the examples loop for ever, the bound ends them.    *)
(* Or the host has gone astray, or spins for ever.                         *)
Finished ==
    /\ (count = MaxTasks /\ Waiting = {}) \/ call[Host] = Astray \/ BothSpin
    /\ UNCHANGED vars

Next == HostNext \/ (\E w \in Workers : WorkerNext(w)) \/ Finished

(* Every thread spins until its call is served and then goes on; the host  *)
(* asks for results as long as some are due.                               *)
Fairness == WF_vars(HostNext) /\ \A w \in Workers : WF_vars(WorkerNext(w))

Spec == Init /\ [][Next]_vars /\ Fairness

-----------------------------------------------------------------------------
Bursts == [kind : {"header"}, task : Tasks, bursts : Nat, size : Lengths]
             \cup [kind : {"payload"}, task : Tasks, part : Nat]

Counters(m) == [neg : BOOLEAN, rem : 0..(m - 1)]

TypeOK ==
    /\ \A d \in Directions, w \in Workers :
          queue[d][w] \in Seq(Bursts) /\ Len(queue[d][w]) <= Capacity
    /\ \A a \in Actors : call[a].op \in {"idle", "poll", "header", "payload", "body", "astray"}
    /\ {next.submitChannel, next.recvChannel} \subseteq Counters(MaxChannels)
    /\ {next.submitSocket, next.recvSocket} \subseteq Counters(Len(ActiveSockets))
    /\ count \in 0..MaxTasks
    /\ home \in [Tasks -> Workers \cup {<<>>}] /\ Waiting \subseteq 1..count

(***************************************************************************)
(* The receiver of a channel stays in step with its sender: whoever is not *)
(* in the middle of a task finds a header that passes the assertion of     *)
(* common_recv_task, whoever is finds the next part of the same task.      *)
(***************************************************************************)
InStep(a, w) ==
    LET q == queue[In(a)][w]
    IN  q # <<>> =>
          IF call[a].op = "body" /\ call[a].at = w /\ ~Received(a)
          THEN Head(q) = Payload(call[a].head.task, Len(call[a].buf))
          ELSE Head(q).kind = "header" /\ Head(q).bursts # 0 /\ Head(q).size # 0

FramesInStep == \A w \in Workers : InStep(w, w) /\ InStep(Host, w)

(***************************************************************************)
(* A call that received a task returns all bytes of a task that was        *)
(* submitted and not answered, in order, at the worker the host chose for  *)
(* it, and at the host under that worker's task_id.                        *)
(***************************************************************************)
ReturnsWhole ==
    \A a \in Actors : Received(a) =>
       LET task == call[a].head.task
           buf  == call[a].buf
       IN  /\ home[task] = call[a].at
           /\ \A b \in 0..(call[a].head.size - 1) :
                 LET i == b \div BurstBytes
                 IN  i < Len(buf) /\ buf[i + 1] = Payload(task, i)

(***************************************************************************)
(* Tasks survive their way through the channels: receivers stay in step    *)
(* with senders, no channel holds more than it can, and what a call        *)
(* returns is one task, whole.                                             *)
(***************************************************************************)
TasksIntact == TypeOK /\ FramesInStep /\ ReturnsWhole

(***************************************************************************)
(* Every task the host submits is answered: no thread spins for ever, and  *)
(* the scan of host_recv_task gets round to every channel, unless host and *)
(* worker fill both channels between them, which takes a task longer than  *)
(* a channel or several unanswered ones, or a counter of the host          *)
(* overflows.                                                              *)
(***************************************************************************)
EveryTaskAnswered ==
    \A t \in Tasks :
      t \in Waiting ~> t \notin Waiting \/ Overflowed \/ BothSpin

(***************************************************************************)
(* What the assertions of host_submit_task and host_recv_task say of the   *)
(* channel and the socket: that they are those of a ring.                  *)
(***************************************************************************)
IndicesInRange == call[Host] # Astray
=============================================================================
