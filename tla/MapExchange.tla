---------------------------- MODULE MapExchange -----------------------------
(***************************************************************************)
(* How host and card nodes set up their queues: the host accepts the nodes *)
(* one after the other (vca_com_hng_accept_new_nodes calls                 *)
(* init_host_task_system with socket -2), a node that starts calls         *)
(* init_vca_task_system (with socket -3).  They exchange the node's socket *)
(* number and then, twice, the physical addresses of the memory each side  *)
(* allocated: first for the queue from host to node, then for the one back.*)
(*                                                                         *)
(* Nodes send over ZMQ_REQ sockets, the host answers on one ZMQ_REP        *)
(* socket: a node has one request under way at a time, the host takes      *)
(* requests of all nodes from the same socket and must answer each.        *)
(***************************************************************************)
EXTENDS Integers, FiniteSets, Sequences

CONSTANTS Nodes,       \* socket numbers of the nodes that are started
          NumSockets   \* num_sockets: nodes the host accepts

ASSUME ExchangeAssumption ==
    /\ Nodes \subseteq Nat
    /\ NumSockets \in 1..Cardinality(Nodes)

VARIABLES host,        \* where the host is: phase and socket number (cur)
          active,      \* sockets accepted, in order
          hostMem,     \* hostMem[n]: remote memory the host mapped for node n
          node,        \* node[n]: where node n is
          nodeMem,     \* nodeMem[n]: remote memory node n mapped
          request,     \* request[n]: what node n has sent, or Nothing
          reply        \* reply[n]: what the host has answered, or Nothing

vars == <<host, active, hostMem, node, nodeMem, request, reply>>

HostSide == -1   \* the host as the owner of memory
Nothing == [type |-> "none"]
Number(n) == [type |-> "number", socket |-> n]
(* A transfer_mapping: memory of that size, allocated by owner, for node n. *)
Mapping(owner, size, n) == [type |-> "map", owner |-> owner, size |-> size, socket |-> n]
ErrorMap == [type |-> "map", owner |-> -2, size |-> "zero", socket |-> -255]

Init == /\ host = [phase |-> "number", cur |-> -2]
        /\ active = <<>>
        /\ hostMem = [n \in Nodes |-> <<>>]
        /\ node = [n \in Nodes |-> "start"]
        /\ nodeMem = [n \in Nodes |-> <<>>]
        /\ request = [n \in Nodes |-> Nothing]
        /\ reply = [n \in Nodes |-> Nothing]

-----------------------------------------------------------------------------
(* initialize_system on a node: the socket number goes first. *)
NodeStart(n) ==
    /\ node[n] = "start"
    /\ request' = [request EXCEPT ![n] = Number(n)]
    /\ node' = [node EXCEPT ![n] = "ack"]
    /\ nodeMem' = [nodeMem EXCEPT ![n] = <<>>]
    /\ UNCHANGED <<host, active, hostMem, reply>>

(* The first four bytes of an answer, read as a number: of an error map    *)
(* they are 0, of a real mapping they belong to an address.                *)
AsNumber(m) == CASE m.type = "number" -> m.socket
                 [] m = ErrorMap -> 0
                 [] OTHER -> -1

(* The answer to the number: only one of another size that does not start  *)
(* with the node's own number ends the node.  Then init_dequeue sends the  *)
(* memory the node allocated for its incoming queue.                       *)
NodeAck(n) ==
    /\ node[n] = "ack"
    /\ reply[n] # Nothing
    /\ reply' = [reply EXCEPT ![n] = Nothing]
    /\ IF reply[n].type # "number" /\ AsNumber(reply[n]) # n
       THEN /\ node' = [node EXCEPT ![n] = "exited"]
            /\ UNCHANGED request
       ELSE /\ node' = [node EXCEPT ![n] = "dequeue"]
            /\ request' = [request EXCEPT ![n] = Mapping(n, "2MB", n)]
    /\ UNCHANGED <<host, active, hostMem, nodeMem>>

(* send_recv_mapping on a node, then map_remote_memory with its assertion; *)
(* an assertion that fails aborts the program.                             *)
NodeMapping(n, expected, next) ==
    /\ reply[n] # Nothing
    /\ reply' = [reply EXCEPT ![n] = Nothing]
    /\ \/ /\ reply[n] = ErrorMap
          /\ node' = [node EXCEPT ![n] = "exited"]
          /\ UNCHANGED nodeMem
       \/ /\ reply[n] # ErrorMap
          /\ node' = [node EXCEPT ![n] = IF reply[n].size = expected THEN next ELSE "aborted"]
          /\ nodeMem' = [nodeMem EXCEPT ![n] = Append(@, reply[n])]
    /\ UNCHANGED <<host, active, hostMem>>

(* init_dequeue returns; init_enqueue sends the node's other memory. *)
NodeDequeue(n) ==
    /\ node[n] = "dequeue"
    /\ NodeMapping(n, "4KB", "enqueue")
    /\ request' = IF node'[n] = "enqueue"
                  THEN [request EXCEPT ![n] = Mapping(n, "4KB", n)]
                  ELSE request

NodeEnqueue(n) ==
    /\ node[n] = "enqueue"
    /\ NodeMapping(n, "2MB", "done")
    /\ UNCHANGED request

(* A node that exited may be started again. *)
NodeRestart(n) ==
    /\ node[n] = "exited"
    /\ node' = [node EXCEPT ![n] = "start"]
    /\ UNCHANGED <<host, active, hostMem, nodeMem, request, reply>>

-----------------------------------------------------------------------------
(* The host takes the request of node n and answers it. *)
Answer(n, m) ==
    /\ request' = [request EXCEPT ![n] = Nothing]
    /\ reply' = [reply EXCEPT ![n] = m]

(* initialize_system with socket -2: the first number fixes the socket;    *)
(* anything that is not a number ends the host.                            *)
HostNumber(n) ==
    /\ host.phase = "number"
    /\ request[n] # Nothing
    /\ IF request[n].type = "number"
       THEN /\ host' = [phase |-> "enqueue", cur |-> request[n].socket]
            /\ Answer(n, request[n])
       ELSE /\ host' = [host EXCEPT !.phase = "exited"]
            /\ UNCHANGED <<request, reply>>
    /\ UNCHANGED <<active, hostMem, node, nodeMem>>

(* The buffers of send_recv_mapping: a number leaves out->socket as it     *)
(* was, uninitialized or from an earlier call.                             *)
Stale == BOOLEAN

(* Faulty variant: the socket of a mapping is not compared. *)
HostMappingAnySocket(n, own, expected, next) ==
    /\ request[n] # Nothing
    /\ IF request[n].type = "map"
       THEN /\ Answer(n, Mapping(HostSide, own, host.cur))
            /\ hostMem' = [hostMem EXCEPT ![host.cur] = Append(@, request[n])]
            /\ host' = [host EXCEPT !.phase = IF request[n].size = expected
                                              THEN next ELSE "aborted"]
       ELSE /\ Answer(n, ErrorMap)
            /\ UNCHANGED <<host, hostMem>>

(* Faulty variant: a message of the wrong size is dropped without an answer. *)
HostMappingNoAnswer(n, own, expected, next) ==
    /\ request[n] # Nothing
    /\ IF request[n].type = "map" /\ request[n].socket = host.cur
       THEN /\ Answer(n, Mapping(HostSide, own, host.cur))
            /\ hostMem' = [hostMem EXCEPT ![host.cur] = Append(@, request[n])]
            /\ host' = [host EXCEPT !.phase = IF request[n].size = expected
                                              THEN next ELSE "aborted"]
       ELSE /\ request' = [request EXCEPT ![n] = Nothing]
            /\ UNCHANGED <<reply, host, hostMem>>

(* send_recv_mapping on the host, in init_enqueue and init_dequeue.        *)
(* own is the memory the host allocated, expected the size it asserts.     *)
HostMapping(n, own, expected, next) ==
    /\ request[n] # Nothing
    /\ \/ (* a mapping of the node the host waits for *)
          /\ request[n].type = "map" /\ request[n].socket = host.cur
          /\ Answer(n, Mapping(HostSide, own, host.cur))
          /\ hostMem' = [hostMem EXCEPT ![host.cur] = Append(@, request[n])]
          /\ host' = [host EXCEPT !.phase = IF request[n].size = expected THEN next ELSE "aborted"]
       \/ (* a mapping of another one: decline and try again *)
          /\ request[n].type = "map" /\ request[n].socket # host.cur
          /\ Answer(n, ErrorMap)
          /\ UNCHANGED <<host, hostMem>>
       \/ (* a number: too short, so the call is repeated, but answered *)
          /\ request[n].type = "number"
          /\ \E same \in Stale :
                Answer(n, IF same THEN Mapping(HostSide, own, host.cur) ELSE ErrorMap)
          /\ UNCHANGED <<host, hostMem>>

HostEnqueue(n) ==
    /\ host.phase = "enqueue"
    /\ HostMapping(n, "4KB", "2MB", "dequeue")
    /\ UNCHANGED <<active, node, nodeMem>>

(* The second mapping completes the node; the host waits for the next. *)
HostDequeue(n) ==
    /\ host.phase = "dequeue"
    /\ HostMapping(n, "2MB", "4KB",
                   IF Len(active) + 1 < NumSockets THEN "number" ELSE "finished")
    /\ active' = IF host'.phase \in {"number", "finished"} THEN Append(active, host.cur)
                 ELSE active
    /\ UNCHANGED <<node, nodeMem>>

-----------------------------------------------------------------------------
NodeNext(n) == NodeStart(n) \/ NodeAck(n) \/ NodeDequeue(n) \/ NodeEnqueue(n)
HostNext(n) == HostNumber(n) \/ HostEnqueue(n) \/ HostDequeue(n)

Next == \E n \in Nodes : NodeNext(n) \/ NodeRestart(n) \/ HostNext(n)

(* Both programs run on, and ZMQ takes the requests of all nodes in turn.  *)
(* Nobody has to start a node again.                                       *)
Spec == /\ Init /\ [][Next]_vars
        /\ \A n \in Nodes : WF_vars(NodeNext(n)) /\ WF_vars(HostNext(n))

-----------------------------------------------------------------------------
Messages == {Nothing, ErrorMap} \cup {Number(n) : n \in Nodes} \cup
            {Mapping(o, z, n) : o \in Nodes \cup {HostSide}, z \in {"2MB", "4KB"}, n \in Nodes}

TypeOK ==
    /\ host.phase \in {"number", "enqueue", "dequeue", "finished", "exited", "aborted"}
    /\ host.cur \in Nodes \cup {-2}
    /\ Len(active) <= NumSockets
    /\ node \in [Nodes -> {"start", "ack", "dequeue", "enqueue", "done", "exited", "aborted"}]
    /\ request \in [Nodes -> Messages] /\ reply \in [Nodes -> Messages]
    /\ \A n \in Nodes : Len(hostMem[n]) <= 2 /\ Len(nodeMem[n]) <= 2

(***************************************************************************)
(* A node and the host that completed the exchange hold each other's       *)
(* memory crosswise: the host writes to the ring the node reads from, and  *)
(* the other way round.  A node that is done has been accepted, and none   *)
(* twice.  On the way assert(map->size == request_size) of                 *)
(* map_remote_memory fails on neither side.                                *)
(***************************************************************************)
QueuesPaired ==
    /\ TypeOK
    /\ \A n \in Nodes : node[n] = "done" =>
          /\ nodeMem[n] = <<Mapping(HostSide, "4KB", n), Mapping(HostSide, "2MB", n)>>
          /\ hostMem[n] = <<Mapping(n, "2MB", n), Mapping(n, "4KB", n)>>
          /\ \E i \in 1..Len(active) : active[i] = n
    /\ \A i, j \in 1..Len(active) : active[i] = active[j] => i = j
    /\ host.phase # "aborted" /\ \A n \in Nodes : node[n] # "aborted"

(***************************************************************************)
(* A node that is started again whenever it was turned away is connected   *)
(* in the end, if the host takes as many nodes as there are and does not   *)
(* exit (see HostStaysUp): every request is answered, and a refusal leaves *)
(* the node the host is waiting for a way to complete.                     *)
(***************************************************************************)
ConnectedOrLeftDown ==
    \A n \in Nodes : NumSockets = Cardinality(Nodes) =>
       <>(node[n] = "done") \/ <>[](node[n] = "exited") \/ <>(host.phase = "exited")

(***************************************************************************)
(* The host goes on accepting nodes whatever order they start in: "up to 3 *)
(* nodes may connect to the same host gateway".                            *)
(***************************************************************************)
HostStaysUp == host.phase \notin {"exited", "aborted"}
=============================================================================
