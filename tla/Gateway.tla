------------------------------ MODULE Gateway -------------------------------
(***************************************************************************)
(* The host gateway of com-library.  Nodes reach it over the memory        *)
(* sharing queues, external clients over one ZMQ_STREAM socket.  One       *)
(* thread accepts nodes, the main thread reads all queues and the socket   *)
(* in turn and passes every message on by looking its destination up in    *)
(* the connection store.                                                   *)
(*                                                                         *)
(* TCP keeps no message boundaries: one read from the socket returns what  *)
(* has arrived on a connection, cut anywhere.  A stream is a sequence of   *)
(* parts: a header in two halves, then the content if there is any.        *)
(***************************************************************************)
EXTENDS Integers, FiniteSets, Sequences, SequencesExt

CONSTANTS Nodes,         \* socket numbers of the nodes that connect
          Clients,       \* external clients, named by the number of their host
          Channels,      \* channels of a node's queues
          Capacity,      \* messages a channel holds
          MaxSent,       \* bound: messages sent and new connections in all
          MaxEpoch       \* bound: times a client connects again

ASSUME GatewayAssumption ==
    /\ Nodes \subseteq Nat /\ Clients \subseteq Nat \ {0} /\ Nodes \cap Clients = {}
    /\ Channels \subseteq Nat /\ 0 \in Channels
    /\ {Capacity, MaxSent} \subseteq Nat \ {0} /\ MaxEpoch \in Nat

(* An address: gateway and ports never differ here, so host and socket. *)
Address(host, socket) == [host |-> host, socket |-> socket]
Key(n)      == Address(0, n)           \* a node: on the gateway's host
Self(n)     == Address(-1, n)          \* a node, by the host as it sees it
Home(cl)    == Address(cl, 0)          \* a client
Nowhere     == Address(-2, 0)          \* the all-zero address
Keys        == {Key(n) : n \in Nodes} \cup {Home(cl) : cl \in Clients}

Lanes       == Nodes \X Channels       \* one direction of a node's queue
Connections == Clients \X (0..MaxEpoch)
Sources     == Lanes \cup Connections  \* where messages come from
Readers     == Lanes \cup {<<cl, -1>> : cl \in Clients}

VARIABLES accept,     \* the accepting thread: phase and node
          ready,      \* nodes whose queues are set up
          store,      \* connection_store: address -> connection
          active,     \* hng->active_sockets
          main,       \* the main thread
          up, down,   \* queues from and to the nodes
          wire, out,  \* TCP streams from and to the clients
          epoch,      \* epoch[cl]: the connection cl uses
          count,      \* count[s]: messages sent by source s
          inbox       \* inbox[e]: what reader e has got, one entry per part for clients

vars == <<accept, ready, store, active, main, up, down, wire, out, epoch, count, inbox>>

acceptVars == <<accept, ready, active>>
streamVars == <<up, down, wire, out>>

Message(src, dst, from, n) == [src |-> src, dst |-> dst, from |-> from, n |-> n, length |-> 1]
Hello(src, from)           == [src |-> src, dst |-> Nowhere, from |-> from, n |-> 0, length |-> 0]

(* The parts of a message: 1 and 2 are the halves of its header.           *)
Parts(m) == [i \in 1..2 + m.length |-> [msg |-> m, part |-> i]]
Stale    == [msg |-> Hello(Nowhere, Nowhere), part |-> 0]   \* left in a buffer

At(where) == [at |-> where]

(* What the peers have done, against the bound. *)
Spent == MapThenSumSet(LAMBDA s : count[s], Sources)
           + MapThenSumSet(LAMBDA cl : epoch[cl], Clients)

Init == /\ accept = [phase |-> "init", node |-> -1]
        /\ ready = {} /\ active = <<>>
        /\ store = << >>
        /\ main = At("start")
        /\ up = [l \in Lanes |-> <<>>] /\ down = [l \in Lanes |-> <<>>]
        /\ wire = [c \in Connections |->
                      IF c[2] = 0 THEN Parts(Hello(Home(c[1]), c)) ELSE <<>>]
        /\ out = [c \in Connections |-> <<>>]
        /\ epoch = [cl \in Clients |-> 0]
        /\ count = [s \in Sources |-> 0]
        /\ inbox = [e \in Readers |-> <<>>]

-----------------------------------------------------------------------------
(* Faulty variant: a later node is taken for set up without being so. *)
AcceptInitNoQueue(n) ==
    /\ accept.phase = "init" /\ n \notin ready
    /\ ready' = IF ready = {} THEN {n} ELSE ready
    /\ accept' = [phase |-> "insert", node |-> n]
    /\ UNCHANGED <<store, active, main, streamVars, epoch, count, inbox>>

(* vca_com_hng_accept_new_nodes: init_host_task_system (see MapExchange)   *)
(* sets both queues up, then the node becomes known, then it is polled.    *)
AcceptInit(n) ==
    /\ accept.phase = "init" /\ n \notin ready
    /\ ready' = ready \cup {n}
    /\ accept' = [phase |-> "insert", node |-> n]
    /\ UNCHANGED <<store, active, main, streamVars, epoch, count, inbox>>

(* vca_com_cons_table_insert: a key that is present keeps its value. *)
Inserted(key, com) == [k \in DOMAIN store \cup {key} |->
                          IF k \in DOMAIN store THEN store[k] ELSE com]

AcceptInsert ==
    /\ accept.phase = "insert"
    /\ store' = Inserted(Key(accept.node), [type |-> "node", socket |-> accept.node])
    /\ accept' = [accept EXCEPT !.phase = "activate"]
    /\ UNCHANGED <<ready, active, main, streamVars, epoch, count, inbox>>

(* The write lock keeps out the scan of the main thread. *)
Reading == main.at = "scan" \/ (main.at = "deliver" /\ main.back.at = "scan")

AcceptActivate ==
    /\ accept.phase = "activate"
    /\ ~Reading
    /\ active' = Append(active, accept.node)
    /\ accept' = [phase |-> "init", node |-> -1]
    /\ UNCHANGED <<ready, store, main, streamVars, epoch, count, inbox>>

-----------------------------------------------------------------------------
(* The main loop: vca_com_hng_spin_and_deliver returns at once while there *)
(* is no task system, else it takes the read lock and scans.               *)
Start ==
    /\ main.at = "start"
    /\ main' = IF ready = {} THEN At("socket") ELSE [at |-> "scan", lane |-> 0]
    /\ UNCHANGED <<acceptVars, store, streamVars, epoch, count, inbox>>

(* Faulty variant: the loop over the channels ends before the last one. *)
ScannedShort == [i \in 1..Len(active) * (Cardinality(Channels) - 1) |->
                   <<active[(i - 1) \div (Cardinality(Channels) - 1) + 1],
                     (i - 1) % (Cardinality(Channels) - 1)>>]
(* The lanes in the order of the two loops. *)
Scanned == [i \in 1..Len(active) * Cardinality(Channels) |->
              <<active[(i - 1) \div Cardinality(Channels) + 1], (i - 1) % Cardinality(Channels)>>]

(* The gateway's address replaces the host of the source. *)
Rewritten(parcel) == [i \in DOMAIN parcel |-> [parcel[i] EXCEPT !.msg.src.host = 0]]

(* One turn: a lane that holds a message is read, and the message is       *)
(* passed on before the next turn.                                         *)
Scan ==
    /\ main.at = "scan"
    /\ LET next == [main EXCEPT !.lane = @ + 1]
           l    == Scanned[next.lane]
       IN  \/ /\ next.lane > Len(Scanned)
              /\ main' = At("socket")
              /\ UNCHANGED up
           \/ /\ next.lane <= Len(Scanned) /\ up[l] = <<>>
              /\ main' = next
              /\ UNCHANGED up
           \/ /\ next.lane <= Len(Scanned) /\ up[l] # <<>>
              /\ up' = [up EXCEPT ![l] = Tail(@)]
              /\ main' = [at |-> "deliver", back |-> next,
                          parcel |-> Rewritten(Head(up[l]))]
    /\ UNCHANGED <<acceptVars, store, down, wire, out, epoch, count, inbox>>

-----------------------------------------------------------------------------
(* vca_com_hhg_accept_and_deliver reads until the socket has nothing left. *)
SocketEmpty ==
    /\ main.at = "socket"
    /\ \A c \in Connections : wire[c] = <<>>
    /\ main' = At("start")
    /\ UNCHANGED <<acceptVars, store, streamVars, epoch, count, inbox>>

(* store_id_of_client: the source of the first message is reached over the *)
(* connection it came from, from now on.                                   *)
Registered(src, c) ==
    [k \in DOMAIN store \cup {src} |->
        IF k = src THEN [type |-> "zmq", id |-> c] ELSE store[k]]

(***************************************************************************)
(* What a read has at the place of its header number j: a header as it was *)
(* sent, or other parts and what is left in the buffer.  Those are read as *)
(* a header too, whose length may be zero or not, and whose addresses are  *)
(* nobody's.                                                               *)
(***************************************************************************)
HeaderAt(chunk, j)   == 2 * j + 2 <= Len(chunk) /\ chunk[2 * j + 1].part = 1
MayBeEmpty(chunk, j) == HeaderAt(chunk, j) => chunk[2 * j + 1].msg.length = 0
MayBeFull(chunk, j)  == HeaderAt(chunk, j) => chunk[2 * j + 1].msg.length # 0

(* The loop over empty headers: how many it may skip.                      *)
Skips(chunk) == {j \in 0..Len(chunk) :
                   /\ \A i \in 0..j - 1 : 2 * i < Len(chunk) /\ MayBeEmpty(chunk, i)
                   /\ 2 * j >= Len(chunk) \/ MayBeFull(chunk, j)}

(* All that follows the headers skipped is passed on as one message.  The  *)
(* skipped length is added where it should be subtracted.                  *)
PassedOn(chunk, j) == SubSeq(chunk, 2 * j + 1, Len(chunk)) \o [i \in 1..4 * j |-> Stale]

(* One read of k parts from connection c.  Less than a header is dropped,  *)
(* and of a header alone only the source is looked at.                     *)
SocketRead(c, k) ==
    /\ main.at = "socket"
    /\ k <= Len(wire[c])
    /\ wire' = [wire EXCEPT ![c] = SubSeq(@, k + 1, Len(@))]
    /\ LET chunk == SubSeq(wire[c], 1, k)
       IN  /\ store' = IF HeaderAt(chunk, 0) THEN Registered(chunk[1].msg.src, c) ELSE store
           /\ \/ k <= 2 /\ main' = main
              \/ /\ k > 2
                 /\ \E j \in Skips(chunk) :
                       main' = IF 2 * j >= k THEN main
                               ELSE [at |-> "deliver", back |-> main,
                                     parcel |-> PassedOn(chunk, j)]
    /\ UNCHANGED <<acceptVars, up, down, out, epoch, count, inbox>>

-----------------------------------------------------------------------------
(* The destination in the header a parcel begins with.                     *)
Dst(parcel) == IF HeaderAt(parcel, 0) THEN parcel[1].msg.dst ELSE Nowhere

(* vca_com_gate_deliver_msg.  A destination that is not in the store is    *)
(* not connected to (vca_com_hhg_create_com returns at once, com is NULL). *)
DeliverUnknown ==
    /\ main.at = "deliver"
    /\ Dst(main.parcel) \notin DOMAIN store
    /\ main' = main.back
    /\ UNCHANGED <<acceptVars, store, streamVars, epoch, count, inbox>>

(* Faulty variant: after a success the message is sent again. *)
DeliverClientTwice ==
    /\ main.at = "deliver"
    /\ Dst(main.parcel) \in DOMAIN store
    /\ LET com == store[Dst(main.parcel)]
       IN  /\ com.type = "zmq"
           /\ out' = [out EXCEPT ![com.id] = @ \o main.parcel \o main.parcel]
    /\ main' = main.back
    /\ UNCHANGED <<acceptVars, store, up, down, wire, epoch, count, inbox>>

(* vca_com_send_hdrless_msg to a client; what is sent over a connection    *)
(* that is gone is lost, and the comparisons of rc do not notice.          *)
DeliverClient ==
    /\ main.at = "deliver"
    /\ Dst(main.parcel) \in DOMAIN store
    /\ LET com == store[Dst(main.parcel)]
       IN  /\ com.type = "zmq"
           /\ out' = [out EXCEPT ![com.id] = IF epoch[com.id[1]] = com.id[2]
                                             THEN @ \o main.parcel ELSE @]
    /\ main' = main.back
    /\ UNCHANGED <<acceptVars, store, up, down, wire, epoch, count, inbox>>

(* ... and to a node: host_submit_task with the socket as task_id, which   *)
(* stands for channel socket % 10 of socket \div 10.                       *)
TaskLane(socket) == <<socket \div 10, socket % 10>>

DeliverNode ==
    /\ main.at = "deliver"
    /\ Dst(main.parcel) \in DOMAIN store
    /\ LET com == store[Dst(main.parcel)]
           l   == TaskLane(com.socket)
       IN  /\ com.type = "node"
           /\ \/ /\ l[1] \notin ready            \* tx_q_objs[0] is NULL
                 /\ main' = At("crashed")
                 /\ UNCHANGED down
              \/ /\ l[1] \in ready
                 /\ Len(down[l]) < Capacity       \* else it spins
                 /\ down' = [down EXCEPT ![l] = Append(@, main.parcel)]
                 /\ main' = main.back
    /\ UNCHANGED <<acceptVars, store, up, wire, out, epoch, count, inbox>>

-----------------------------------------------------------------------------
(* vca_com_send_msg on a node and on a client, vca_com_recv_msg on both. *)
NodeSend(l, dst) ==
    /\ l[1] \in ready /\ Len(up[l]) < Capacity /\ Spent < MaxSent
    /\ up' = [up EXCEPT ![l] = Append(@, Parts(Message(Self(l[1]), dst, l, count[l] + 1)))]
    /\ count' = [count EXCEPT ![l] = @ + 1]
    /\ UNCHANGED <<acceptVars, store, main, down, wire, out, epoch, inbox>>

ClientSend(cl, dst) ==
    LET c == <<cl, epoch[cl]>>
    IN  /\ Spent < MaxSent
        /\ wire' = [wire EXCEPT ![c] = @ \o Parts(Message(Home(cl), dst, c, count[c] + 1))]
        /\ count' = [count EXCEPT ![c] = @ + 1]
        /\ UNCHANGED <<acceptVars, store, main, up, down, out, epoch, inbox>>

NodeRecv(l) ==
    /\ down[l] # <<>>
    /\ inbox' = [inbox EXCEPT ![l] = Append(@, Head(down[l]))]
    /\ down' = [down EXCEPT ![l] = Tail(@)]
    /\ UNCHANGED <<acceptVars, store, main, up, wire, out, epoch, count>>

(* A client takes each read for a message.  Where its reads end is left    *)
(* out: what it has got is kept part by part.                              *)
ClientRecv(cl) ==
    LET c == <<cl, epoch[cl]>>
    IN  /\ out[c] # <<>>
        /\ inbox' = [inbox EXCEPT ![<<cl, -1>>] = @ \o [i \in DOMAIN out[c] |-> <<out[c][i]>>]]
        /\ out' = [out EXCEPT ![c] = <<>>]
        /\ UNCHANGED <<acceptVars, store, main, up, down, wire, epoch, count>>

(* deinit_vca_com and init_vca_com again: a new connection, announced by   *)
(* an empty message; what was on the way to the old one is lost.           *)
Reconnect(cl) ==
    LET c == <<cl, epoch[cl] + 1>>
    IN  /\ epoch[cl] < MaxEpoch /\ Spent < MaxSent
        /\ epoch' = [epoch EXCEPT ![cl] = @ + 1]
        /\ wire' = [wire EXCEPT ![c] = Parts(Hello(Home(cl), c))]
        /\ out' = [out EXCEPT ![<<cl, epoch[cl]>>] = <<>>]
        /\ UNCHANGED <<acceptVars, store, main, up, down, count, inbox>>

-----------------------------------------------------------------------------
Accept == (\E n \in Nodes : AcceptInit(n)) \/ AcceptInsert \/ AcceptActivate

Main == \/ Start \/ Scan \/ SocketEmpty
        \/ \E c \in Connections : \E k \in 1..Len(wire[c]) : SocketRead(c, k)
        \/ DeliverUnknown \/ DeliverClient \/ DeliverNode

(* What the peers do after the gateway has crashed is not followed.        *)
Peers == /\ main.at # "crashed"
         /\ \/ \E l \in Lanes : NodeRecv(l) \/ \E dst \in Keys : NodeSend(l, dst)
            \/ \E cl \in Clients : \/ ClientRecv(cl) \/ Reconnect(cl)
                                   \/ \E dst \in Keys : ClientSend(cl, dst)

Next == Accept \/ Main \/ Peers

(* The main thread runs on and gives the lock up once per turn, the nodes  *)
(* connect, and every node reads all its channels.                         *)
Fairness == /\ WF_vars(Main) /\ SF_vars(Accept)
            /\ \A l \in Lanes : WF_vars(NodeRecv(l))

Spec == Init /\ [][Next]_vars /\ Fairness

-----------------------------------------------------------------------------
TypeOK ==
    /\ accept.phase \in {"init", "insert", "activate"}
    /\ ready \subseteq Nodes /\ ToSet(active) \subseteq ready
    /\ Len(active) <= Cardinality(Nodes)
    /\ DOMAIN store \subseteq Keys
    /\ \A k \in DOMAIN store : store[k].type \in {"node", "zmq"}
    /\ main.at \in {"start", "scan", "socket", "deliver", "crashed"}
    /\ \A l \in Lanes : Len(up[l]) <= Capacity /\ Len(down[l]) <= Capacity
    /\ \A s \in Sources : count[s] \in 0..MaxSent

(* What reader e has got of source s, part by part. *)
Endpoint(e) == IF e \in Lanes THEN Key(e[1]) ELSE Home(e[1])
Got(e, s)   == SelectSeq(FlattenSeq(inbox[e]), LAMBDA u : u.part # 0 /\ u.msg.from = s)

(***************************************************************************)
(* The gateway keeps the order: whatever a reader gets of one channel or   *)
(* one connection, it gets in the order in which it was sent and never     *)
(* twice, however reads cut and join the streams.                          *)
(***************************************************************************)
InOrder == \A e \in DOMAIN inbox, s \in Sources :
    \A i, j \in DOMAIN Got(e, s) : i < j =>
        LET u == Got(e, s)[i]   v == Got(e, s)[j]
        IN  u.msg.n < v.msg.n \/ (u.msg.n = v.msg.n /\ u.part < v.part)

(***************************************************************************)
(* What a node sends reaches nobody but the client it is for, or the queue *)
(* that stands for the number of the node it is for.  Its source can be    *)
(* answered: it is in the store and stands for the sender.                 *)
(***************************************************************************)
FromNodes == \A e \in DOMAIN inbox, l \in Lanes : \A i \in DOMAIN Got(e, l) :
    LET m == Got(e, l)[i].msg
    IN  /\ IF e \in Lanes THEN \E n \in Nodes : m.dst = Key(n) /\ e = TaskLane(n)
           ELSE m.dst = Home(e[1])
        /\ m.src \in DOMAIN store /\ store[m.src].socket = l[1]

(* A message of a node to a node is received by itself and whole.          *)
NodeToNode == \A e \in Lanes : \A i \in DOMAIN inbox[e] :
    inbox[e][i][1].msg.from \in Lanes => inbox[e][i] = Parts(inbox[e][i][1].msg)

(***************************************************************************)
(* What the gateway does guarantee of the messages it passes on, with      *)
(* clients that connect again, streams that are cut anywhere, and nodes    *)
(* that are not there yet.                                                 *)
(***************************************************************************)
RoutedInOrder == InOrder /\ FromNodes /\ NodeToNode

(***************************************************************************)
(* Nobody gets a message that was sent to somebody else: libvcacom README, *)
(* "sends message msg to dst".  Expected to fail: vca_com_send_hdrless_msg *)
(* gives the number of the node as a task_id.                              *)
(***************************************************************************)
AddressedHere ==
    \A e \in DOMAIN inbox : \A i \in DOMAIN inbox[e] : inbox[e][i][1].msg.dst = Endpoint(e)

(***************************************************************************)
(* A node receives one message at a time as it was sent, whatever else     *)
(* arrived in the same read: "handle empty and bulked up msgs"             *)
(* (vca_com_hhg_accept_and_deliver).  Expected to fail: of several         *)
(* messages in one read the first is passed on with the others behind it.  *)
(***************************************************************************)
OneMessageEach ==
    \A e \in Lanes : \A i \in DOMAIN inbox[e] : inbox[e][i] = Parts(inbox[e][i][1].msg)

(***************************************************************************)
(* A message for a node that is found in the store is delivered            *)
(* (host-gateway README).  Expected to fail: with node 0 not there its     *)
(* queues are used for node 1 and do not exist.                            *)
(***************************************************************************)
FoundIsDelivered == main.at # "crashed"

(***************************************************************************)
(* The scan never polls a queue the accepting thread has not set up,       *)
(* though it reads vca_task_opq and the connection store without           *)
(* hng->lock.                                                              *)
(***************************************************************************)
QueueReady ==
    /\ TypeOK
    /\ main.at = "scan" /\ main.lane < Len(Scanned) => Scanned[main.lane + 1][1] \in ready

(***************************************************************************)
(* The gateway takes every message off every channel and every connection: *)
(* no lane is left out of the scan, and no full queue stops it for good.   *)
(* Unless it has crashed.                                                  *)
(***************************************************************************)
EverythingTaken ==
    /\ \A l \in Lanes : []<>(up[l] = <<>> \/ main.at = "crashed")
    /\ \A c \in Connections : []<>(wire[c] = <<>> \/ main.at = "crashed")
=============================================================================
