-------------------------- MODULE MapExchange_proof -------------------------
(***************************************************************************)
(* Proofs about MapExchange, for any set of nodes and any number of nodes  *)
(* the host accepts: whoever completed the exchange holds the memory of    *)
(* the other side, crosswise.                                              *)
(***************************************************************************)
EXTENDS MapExchange, SequenceTheorems, TLAPS

Accepted(n) == \E i \in 1..Len(active) : active[i] = n

(* What node n sends from each place, and what it holds when it gets there. *)
Sent(n, place) == CASE place = "ack"     -> Number(n)
                    [] place = "dequeue" -> Mapping(n, "2MB", n)
                    [] place = "enqueue" -> Mapping(n, "4KB", n)
FromHost(n) == <<Mapping(HostSide, "4KB", n), Mapping(HostSide, "2MB", n)>>
FromNode(n) == <<Mapping(n, "2MB", n), Mapping(n, "4KB", n)>>

Asking(n, place)     == node[n] = place /\ request[n] = Sent(n, place) /\ reply[n] = Nothing
Answered(n, place, m) == node[n] = place /\ request[n] = Nothing /\ reply[n] = m

(* A node the host has not begun with, or has turned away.  It may have    *)
(* taken a refusal for its acknowledgement (see HostStaysUp), but gets no  *)
(* further.                                                                *)
Stranger(n) ==
    /\ ~Accepted(n) /\ hostMem[n] = <<>> /\ nodeMem[n] = <<>>
    /\ \/ node[n] \in {"start", "exited"} /\ request[n] = Nothing /\ reply[n] = Nothing
       \/ Asking(n, "ack") \/ Asking(n, "dequeue")
       \/ Answered(n, "ack", ErrorMap) \/ Answered(n, "dequeue", ErrorMap)
       \/ \E size \in {"2MB", "4KB"}, c \in Nodes : Answered(n, "ack", Mapping(HostSide, size, c))

(* The node the host is with, before and after the first mapping. *)
Numbered(n) ==
    /\ ~Accepted(n) /\ hostMem[n] = <<>> /\ nodeMem[n] = <<>>
    /\ Answered(n, "ack", Number(n)) \/ Asking(n, "dequeue")
HalfMapped(n) ==
    /\ ~Accepted(n) /\ hostMem[n] = <<Mapping(n, "2MB", n)>>
    /\ \/ nodeMem[n] = <<>> /\ Answered(n, "dequeue", Mapping(HostSide, "4KB", n))
       \/ nodeMem[n] = <<Mapping(HostSide, "4KB", n)>> /\ Asking(n, "enqueue")

(* A node the host has accepted: the last answer is under way or was taken. *)
Paired(n) ==
    /\ Accepted(n) /\ hostMem[n] = FromNode(n)
    /\ \/ /\ nodeMem[n] = <<Mapping(HostSide, "4KB", n)>>
          /\ Answered(n, "enqueue", Mapping(HostSide, "2MB", n))
       \/ /\ nodeMem[n] = FromHost(n)
          /\ node[n] = "done" /\ request[n] = Nothing /\ reply[n] = Nothing

With(n) == host.phase \in {"enqueue", "dequeue"} /\ host.cur = n

HostInv ==
    /\ host \in [phase : {"number", "enqueue", "dequeue", "finished", "exited"}, cur : Nodes \cup {-2}]
    /\ host.phase \in {"enqueue", "dequeue"} => host.cur \in Nodes
    /\ active \in Seq(Nodes) /\ Len(active) <= NumSockets
    /\ host.phase # "finished" => Len(active) < NumSockets
    /\ \A i, j \in 1..Len(active) : active[i] = active[j] => i = j

NodeInv(n) ==
    IF With(n) THEN IF host.phase = "enqueue" THEN Numbered(n) ELSE HalfMapped(n)
    ELSE Stranger(n) \/ Paired(n)

Typed ==
    /\ node \in [Nodes -> {"start", "ack", "dequeue", "enqueue", "done", "exited"}]
    /\ request \in [Nodes -> Messages] /\ reply \in [Nodes -> Messages]
    /\ hostMem \in [Nodes -> Seq(Messages)] /\ nodeMem \in [Nodes -> Seq(Messages)]

ExchangeInv == Typed /\ HostInv /\ \A n \in Nodes : NodeInv(n)
-----------------------------------------------------------------------------
(* Messages are told apart by their type, refusals by their owner. *)
LEMMA MessageFacts ==
    /\ Nothing.type = "none"
    /\ ErrorMap.type = "map" /\ ErrorMap # Nothing
    /\ \A n : Number(n).type = "number" /\ Number(n).socket = n
    /\ \A n : Number(n) # Nothing /\ Number(n) # ErrorMap
    /\ \A o, z, n : /\ Mapping(o, z, n).type = "map" /\ Mapping(o, z, n).owner = o
                    /\ Mapping(o, z, n).size = z /\ Mapping(o, z, n).socket = n
    /\ \A o, z, n, i : Mapping(o, z, n) # Nothing /\ Mapping(o, z, n) # Number(i)
    /\ \A z, n : Mapping(HostSide, z, n) # ErrorMap
<1>1. \A z, n : Mapping(HostSide, z, n).owner # ErrorMap.owner
  BY DEF Mapping, ErrorMap, HostSide
<1> QED
  BY <1>1 DEF Nothing, ErrorMap, Number, Mapping

LEMMA MessageTypes ==
    /\ Nothing \in Messages /\ ErrorMap \in Messages
    /\ \A n \in Nodes : Number(n) \in Messages
    /\ \A o \in Nodes \cup {HostSide}, z \in {"2MB", "4KB"}, n \in Nodes : Mapping(o, z, n) \in Messages
  BY DEF Messages

(* Two mappings in a row. *)
LEMMA AppendSecond ==
    ASSUME NEW a \in Messages, NEW b \in Messages
    PROVE  Append(<<a>>, b) = <<a, b>>
<1> DEFINE s == Append(<<a>>, b)
<1> DEFINE t == <<a, b>>
<1>1. <<a>> \in Seq(Messages) /\ Len(<<a>>) = 1
  OBVIOUS
<1>2. s \in Seq(Messages) /\ Len(s) = 2 /\ s[1] = a /\ s[2] = b
  BY <1>1, AppendProperties
<1>3. t \in Seq(Messages) /\ Len(t) = 2 /\ t[1] = a /\ t[2] = b
  OBVIOUS
<1> HIDE DEF s, t
<1>4. \A i \in 1..Len(s) : s[i] = t[i]
  BY <1>2, <1>3
<1>5. s = t
  BY <1>2, <1>3, <1>4, SeqEqual
<1> QED
  BY <1>5 DEF s, t

LEMMA ShortSequences ==
    ASSUME NEW s, NEW a, NEW b, s \in {<<>>, <<a>>, <<a, b>>}
    PROVE  Len(s) <= 2
<1>1. Len(<<>>) <= 2
  OBVIOUS
<1>2. Len(<<a>>) <= 2
  OBVIOUS
<1>3. Len(<<a, b>>) <= 2
  OBVIOUS
<1> QED
  BY <1>1, <1>2, <1>3, Zenon

(* The answers a node may take for its number. *)
LEMMA NumberFacts ==
    ASSUME NEW n \in Nodes
    PROVE  /\ AsNumber(Number(n)) = n
           /\ \A o, z, c : Mapping(o, z, c) # ErrorMap => AsNumber(Mapping(o, z, c)) # n
<1>1. n # -1
  BY ExchangeAssumption
<1> QED
  BY <1>1, MessageFacts DEF AsNumber

(* A node of which nothing changed is where it was. *)
LEMMA Untouched ==
    ASSUME NEW n \in Nodes, NodeInv(n), (With(n)' <=> With(n)),
           With(n) => host' = host, (Accepted(n)' <=> Accepted(n)),
           node'[n] = node[n], request'[n] = request[n], reply'[n] = reply[n],
           hostMem'[n] = hostMem[n], nodeMem'[n] = nodeMem[n]
    PROVE  NodeInv(n)'
  BY DEF NodeInv, Stranger, Numbered, HalfMapped, Paired, Asking, Answered

(* What a node that has a request under way asks for. *)
LEMMA Requests ==
    ASSUME NEW n \in Nodes, NodeInv(n), request[n] # Nothing
    PROVE  /\ reply[n] = Nothing /\ ~Accepted(n)
           /\ request[n].type \in {"number", "map"} /\ request[n].socket = n
           /\ request[n].type = "number" => ~With(n) /\ Stranger(n) /\ Asking(n, "ack")
           /\ request[n].type = "map" =>
                 IF With(n) THEN Asking(n, IF host.phase = "enqueue" THEN "dequeue" ELSE "enqueue")
                 ELSE Stranger(n) /\ Asking(n, "dequeue")
  BY MessageFacts DEF NodeInv, Stranger, Numbered, HalfMapped, Paired, Asking, Answered, Sent

-----------------------------------------------------------------------------
(* A step of a node keeps the host and all other nodes as they were. *)
LEMMA NodeKeeps ==
    ASSUME ExchangeInv, NEW m \in Nodes, NodeNext(m) \/ NodeRestart(m)
    PROVE  ExchangeInv'
<1> USE DEF Typed
<1>1. Typed /\ HostInv /\ \A n \in Nodes : NodeInv(n)
  BY DEF ExchangeInv
<1>2. host' = host /\ active' = active /\ hostMem' = hostMem
  BY DEF NodeNext, NodeStart, NodeAck, NodeDequeue, NodeEnqueue, NodeMapping, NodeRestart
<1>3. HostInv' /\ \A n \in Nodes : (Accepted(n)' <=> Accepted(n)) /\ (With(n)' <=> With(n))
  BY <1>1, <1>2 DEF HostInv, Accepted, With
<1>4. \A n \in Nodes \ {m} : /\ node'[n] = node[n] /\ request'[n] = request[n]
                             /\ reply'[n] = reply[n] /\ nodeMem'[n] = nodeMem[n]
  BY <1>1 DEF NodeNext, NodeStart, NodeAck, NodeDequeue, NodeEnqueue, NodeMapping, NodeRestart
<1>5. \A n \in Nodes \ {m} : NodeInv(n)'
  BY <1>1, <1>2, <1>3, <1>4, Untouched
<1>6. NodeInv(m)
  BY <1>1
<1>7. CASE NodeStart(m)
  <2>1. ~With(m) /\ Stranger(m) /\ request[m] = Nothing /\ reply[m] = Nothing
    BY <1>6, <1>7 DEF NodeStart, NodeInv, Stranger, Numbered, HalfMapped, Paired, Asking, Answered
  <2>2. node'[m] = "ack" /\ request'[m] = Number(m) /\ reply'[m] = Nothing /\ nodeMem'[m] = <<>>
    BY <1>1, <1>7, <2>1 DEF NodeStart
  <2>3. NodeInv(m)'
    BY <1>2, <1>3, <2>1, <2>2 DEF NodeInv, Stranger, Asking, Sent
  <2>4. Typed'
    BY <1>1, <1>7, MessageTypes DEF NodeStart
  <2> QED
    BY <1>3, <1>5, <2>3, <2>4 DEF ExchangeInv
<1>8. CASE NodeAck(m)
  <2>1. request[m] = Nothing /\ nodeMem[m] = <<>> /\ (With(m) => Numbered(m)) /\ (~With(m) => Stranger(m))
    BY <1>6, <1>8, MessageFacts DEF NodeAck, NodeInv, Stranger, Numbered, HalfMapped, Paired, Asking, Answered
  <2>2. nodeMem'[m] = <<>> /\ reply'[m] = Nothing
    BY <1>1, <1>8, <2>1 DEF NodeAck
  <2>3. CASE With(m)
    <3>1. reply[m] = Number(m) /\ host.phase = "enqueue"
      BY <1>6, <1>8, <2>1, <2>3, MessageFacts
         DEF NodeAck, NodeInv, Numbered, HalfMapped, Asking, Answered
    <3>2. node'[m] = "dequeue" /\ request'[m] = Mapping(m, "2MB", m)
      BY <1>1, <1>8, <3>1, MessageFacts DEF NodeAck
    <3>3. NodeInv(m)'
      BY <1>2, <1>3, <2>1, <2>2, <2>3, <3>1, <3>2 DEF NodeInv, Numbered, Asking, Sent
    <3>4. /\ request' = [request EXCEPT ![m] = Mapping(m, "2MB", m)]
          /\ node' = [node EXCEPT ![m] = "dequeue"] /\ reply' = [reply EXCEPT ![m] = Nothing]
      BY <1>8, <3>1, MessageFacts DEF NodeAck
    <3>5. Typed'
      BY <1>1, <1>2, <1>8, <3>4, MessageTypes DEF NodeAck
    <3> QED
      BY <1>3, <1>5, <3>3, <3>5 DEF ExchangeInv
  <2>4. CASE ~With(m)
    <3>1. \/ node'[m] = "exited" /\ request' = request
          \/ node'[m] = "dequeue" /\ request' = [request EXCEPT ![m] = Mapping(m, "2MB", m)]
      BY <1>1, <1>8 DEF NodeAck
    <3>4. \/ node' = [node EXCEPT ![m] = "exited"]
          \/ node' = [node EXCEPT ![m] = "dequeue"]
      BY <1>8 DEF NodeAck
    <3>5. Mapping(m, "2MB", m) \in Messages
      BY MessageTypes
    <3>6. request' \in [Nodes -> Messages]
      BY <1>1, <3>1, <3>5
    <3>2. NodeInv(m)'
      BY <1>1, <1>2, <1>3, <2>1, <2>2, <2>4, <3>1 DEF NodeInv, Stranger, Asking, Sent
    <3>3. Typed'
      BY <1>1, <1>2, <1>8, <3>4, <3>6, MessageTypes DEF NodeAck
    <3> QED
      BY <1>3, <1>5, <3>2, <3>3 DEF ExchangeInv
  <2> QED
    BY <2>3, <2>4
<1>9. CASE NodeDequeue(m)
  <2>1. request[m] = Nothing /\ nodeMem[m] = <<>> /\ (With(m) => HalfMapped(m)) /\ (~With(m) => Stranger(m))
    BY <1>6, <1>9, MessageFacts
       DEF NodeDequeue, NodeMapping, NodeInv, Stranger, Numbered, HalfMapped, Paired, Asking, Answered
  <2>2. CASE With(m)
    <3>1. reply[m] = Mapping(HostSide, "4KB", m) /\ host.phase = "dequeue"
      BY <1>6, <1>9, <2>1, <2>2, MessageFacts
         DEF NodeDequeue, NodeMapping, NodeInv, With, HalfMapped, Numbered, Asking, Answered
    <3>2. /\ node'[m] = "enqueue" /\ request'[m] = Mapping(m, "4KB", m)
          /\ reply'[m] = Nothing /\ nodeMem'[m] = <<Mapping(HostSide, "4KB", m)>>
      BY <1>1, <1>9, <2>1, <3>1, MessageFacts DEF NodeDequeue, NodeMapping
    <3>3. NodeInv(m)'
      BY <1>2, <1>3, <2>1, <2>2, <3>1, <3>2 DEF NodeInv, HalfMapped, Asking, Sent
    <3>4. /\ node' = [node EXCEPT ![m] = "enqueue"] /\ reply' = [reply EXCEPT ![m] = Nothing]
          /\ request' = [request EXCEPT ![m] = Mapping(m, "4KB", m)]
          /\ nodeMem' = [nodeMem EXCEPT ![m] = Append(nodeMem[m], Mapping(HostSide, "4KB", m))]
      BY <1>1, <1>9, <3>1, MessageFacts DEF NodeDequeue, NodeMapping
    <3>5. nodeMem' \in [Nodes -> Seq(Messages)]
      BY <1>1, <3>4, MessageTypes, AppendProperties
    <3>6. Typed'
      BY <1>1, <1>2, <3>4, <3>5, MessageTypes
    <3> QED
      BY <1>3, <1>5, <3>3, <3>6 DEF ExchangeInv
  <2>3. CASE ~With(m)
    <3>1. reply[m] = ErrorMap
      BY <1>6, <1>9, <2>1, <2>3, MessageFacts DEF NodeDequeue, NodeMapping, Stranger, Asking, Answered
    <3>2. node'[m] = "exited" /\ request'[m] = Nothing /\ reply'[m] = Nothing /\ nodeMem'[m] = <<>>
      BY <1>1, <1>9, <2>1, <3>1, MessageFacts DEF NodeDequeue, NodeMapping
    <3>3. NodeInv(m)'
      BY <1>2, <1>3, <2>1, <2>3, <3>2 DEF NodeInv, Stranger
    <3>4. Typed'
      BY <1>1, <1>9, <3>1, <3>2, MessageTypes DEF NodeDequeue, NodeMapping
    <3> QED
      BY <1>3, <1>5, <3>3, <3>4 DEF ExchangeInv
  <2> QED
    BY <2>2, <2>3
<1>10. CASE NodeEnqueue(m)
  <2>1. /\ ~With(m) /\ Paired(m) /\ request[m] = Nothing /\ reply[m] = Mapping(HostSide, "2MB", m)
        /\ nodeMem[m] = <<Mapping(HostSide, "4KB", m)>>
    BY <1>6, <1>10, MessageFacts
       DEF NodeEnqueue, NodeMapping, NodeInv, Stranger, Numbered, HalfMapped, Paired, Asking, Answered
  <2>2. /\ node'[m] = "done" /\ request'[m] = Nothing /\ reply'[m] = Nothing
        /\ nodeMem'[m] = FromHost(m)
    BY <1>1, <1>10, <2>1, MessageFacts DEF NodeEnqueue, NodeMapping, FromHost
  <2>3. NodeInv(m)'
    BY <1>2, <1>3, <2>1, <2>2 DEF NodeInv, Paired, FromNode
  <2>4. /\ node' = [node EXCEPT ![m] = "done"] /\ reply' = [reply EXCEPT ![m] = Nothing]
        /\ request' = request
        /\ nodeMem' = [nodeMem EXCEPT ![m] = Append(nodeMem[m], Mapping(HostSide, "2MB", m))]
    BY <1>1, <1>10, <2>1, MessageFacts DEF NodeEnqueue, NodeMapping
  <2>5. nodeMem' \in [Nodes -> Seq(Messages)]
    BY <1>1, <2>4, MessageTypes, AppendProperties
  <2>6. Typed'
    BY <1>1, <1>2, <2>4, <2>5, MessageTypes
  <2> QED
    BY <1>3, <1>5, <2>3, <2>6 DEF ExchangeInv
<1>11. CASE NodeRestart(m)
  <2>1. ~With(m) /\ Stranger(m) /\ request[m] = Nothing /\ reply[m] = Nothing
    BY <1>6, <1>11 DEF NodeRestart, NodeInv, Stranger, Numbered, HalfMapped, Paired, Asking, Answered
  <2>2. node'[m] = "start"
    BY <1>1, <1>11 DEF NodeRestart
  <2>3. NodeInv(m)'
    BY <1>2, <1>3, <1>11, <2>1, <2>2 DEF NodeInv, Stranger, NodeRestart
  <2>4. Typed'
    BY <1>1, <1>11 DEF NodeRestart
  <2> QED
    BY <1>3, <1>5, <2>3, <2>4 DEF ExchangeInv
<1> QED
  BY <1>7, <1>8, <1>9, <1>10, <1>11 DEF NodeNext

-----------------------------------------------------------------------------
(* A request the host only answers, with a refusal or with the address it  *)
(* did not mean for this node, leaves its sender a stranger.               *)
LEMMA TurnedAway ==
    ASSUME ExchangeInv, NEW m \in Nodes, ~With(m), request[m] # Nothing,
           NEW a, Answer(m, a),
           \/ a = ErrorMap
           \/ /\ request[m].type = "number"
              /\ \E size \in {"2MB", "4KB"}, c \in Nodes : a = Mapping(HostSide, size, c),
           UNCHANGED <<host, active, hostMem, node, nodeMem>>
    PROVE  ExchangeInv'
<1>1. Typed /\ HostInv /\ \A n \in Nodes : NodeInv(n)
  BY DEF ExchangeInv
<1>2. a \in Messages
  BY MessageTypes
<1>3. Typed'
  BY <1>1, <1>2, MessageTypes DEF Typed, Answer
<1>4. HostInv' /\ \A n \in Nodes : (Accepted(n)' <=> Accepted(n)) /\ (With(n)' <=> With(n))
  BY <1>1 DEF HostInv, Accepted, With
<1>5. ASSUME NEW n \in Nodes \ {m} PROVE NodeInv(n)'
  <2>1. request'[n] = request[n] /\ reply'[n] = reply[n]
    BY <1>1 DEF Answer, Typed
  <2> QED
    BY <1>1, <1>4, <2>1, Untouched
<1>6. request'[m] = Nothing /\ reply'[m] = a
  BY <1>1 DEF Answer, Typed
<1>7. Stranger(m) /\ (Asking(m, "ack") \/ Asking(m, "dequeue"))
  BY <1>1, Requests
<1>8. request[m].type = "number" => Asking(m, "ack")
  BY <1>1, Requests
<1>9. Stranger(m)'
  BY <1>4, <1>6, <1>7, <1>8 DEF Stranger, Asking, Answered
<1> QED
  BY <1>1, <1>3, <1>4, <1>5, <1>9 DEF ExchangeInv, NodeInv

(* A step of the host moves on the node it is with, at most. *)
LEMMA HostKeeps ==
    ASSUME ExchangeInv, NEW m \in Nodes, HostNext(m)
    PROVE  ExchangeInv'
<1>1. Typed /\ HostInv /\ \A n \in Nodes : NodeInv(n)
  BY DEF ExchangeInv
<1>2. request[m] # Nothing /\ node' = node /\ nodeMem' = nodeMem
  BY DEF HostNext, HostNumber, HostEnqueue, HostDequeue, HostMapping
<1>3. CASE HostNumber(m)
  <2>1. \A n \in Nodes : ~With(n)
    BY <1>3 DEF HostNumber, With
  <2>2. active' = active /\ hostMem' = hostMem /\ \A n \in Nodes : (Accepted(n)' <=> Accepted(n))
    BY <1>3 DEF HostNumber, Accepted
  <2>3. CASE request[m].type = "number"
    <3>1. Stranger(m) /\ Asking(m, "ack") /\ request[m] = Number(m)
      BY <1>1, <1>2, <2>3, Requests DEF Asking, Sent
    <3>2. host' = [phase |-> "enqueue", cur |-> m] /\ Answer(m, Number(m))
      BY <1>3, <2>3, <3>1, MessageFacts DEF HostNumber
    <3>3. HostInv'
      BY <1>1, <1>3, <2>2, <3>2 DEF HostInv, HostNumber
    <3>4. Typed'
      BY <1>1, <1>2, <2>2, <3>2, MessageTypes DEF Typed, Answer
    <3>5. request'[m] = Nothing /\ reply'[m] = Number(m)
      BY <1>1, <3>2 DEF Typed, Answer
    <3>6. Numbered(m)'
      BY <1>2, <2>2, <3>1, <3>5 DEF Numbered, Stranger, Asking, Answered
    <3>7. ASSUME NEW n \in Nodes \ {m} PROVE NodeInv(n)'
      <4>1. request'[n] = request[n] /\ reply'[n] = reply[n]
        BY <1>1, <3>2 DEF Answer, Typed
      <4>2. ~With(n)'
        BY <3>2 DEF With
      <4> QED
        BY <1>1, <1>2, <2>1, <2>2, <4>1, <4>2, Untouched
    <3>8. NodeInv(m)'
      BY <3>2, <3>6 DEF NodeInv, With
    <3> QED
      BY <3>3, <3>4, <3>7, <3>8 DEF ExchangeInv
  <2>4. CASE request[m].type # "number"
    <3>1. host' = [host EXCEPT !.phase = "exited"] /\ request' = request /\ reply' = reply
      BY <1>3, <2>4 DEF HostNumber
    <3>2. HostInv'
      BY <1>1, <1>3, <2>2, <3>1 DEF HostInv, HostNumber
    <3>3. \A n \in Nodes : ~With(n)'
      BY <1>1, <3>1 DEF With, HostInv
    <3>4. \A n \in Nodes : NodeInv(n)'
      BY <1>1, <1>2, <2>1, <2>2, <3>1, <3>3, Untouched
    <3>5. Typed'
      BY <1>1, <1>2, <2>2, <3>1 DEF Typed
    <3> QED
      BY <3>2, <3>4, <3>5 DEF ExchangeInv
  <2> QED
    BY <2>3, <2>4
<1>4. ASSUME NEW own \in {"2MB", "4KB"}, NEW expected, NEW next,
             host.phase \in {"enqueue", "dequeue"}, HostMapping(m, own, expected, next),
             ~With(m), host' = host => active' = active
      PROVE  ExchangeInv'
  <2>1. request[m].socket = m /\ host.cur # m /\ host.cur \in Nodes
    BY <1>1, <1>2, <1>4, Requests DEF With, HostInv
  <2>2. PICK a : /\ Answer(m, a)
                 /\ \/ a = ErrorMap
                    \/ request[m].type = "number" /\ a = Mapping(HostSide, own, host.cur)
    BY <1>4, <2>1 DEF HostMapping
  <2>3. host' = host /\ active' = active /\ hostMem' = hostMem
    BY <1>4, <2>1 DEF HostMapping
  <2> QED
    BY <1>2, <1>4, <2>1, <2>2, <2>3, TurnedAway
<1>5. CASE HostEnqueue(m) /\ ~With(m)
  <2>1. HostMapping(m, "4KB", "2MB", "dequeue") /\ host.phase = "enqueue" /\ active' = active
    BY <1>5 DEF HostEnqueue
  <2> QED
    BY <1>4, <1>5, <2>1
<1>6. CASE HostDequeue(m) /\ ~With(m)
  <2> DEFINE next == IF Len(active) + 1 < NumSockets THEN "number" ELSE "finished"
  <2>1. HostMapping(m, "2MB", "4KB", next) /\ host.phase = "dequeue"
    BY <1>6 DEF HostDequeue
  <2>2. host' = host => active' = active
    BY <1>6, <2>1 DEF HostDequeue
  <2> QED
    BY <1>4, <1>6, <2>1, <2>2
<1>7. CASE HostEnqueue(m) /\ With(m)
  <2>1. host.cur = m /\ host.phase = "enqueue" /\ active' = active /\ HostMapping(m, "4KB", "2MB", "dequeue")
    BY <1>7 DEF HostEnqueue, With
  <2>2. request[m].type = "map" /\ request[m].socket = m /\ Asking(m, "dequeue")
    BY <1>1, <1>2, <1>7, <2>1, Requests
  <2>3. request[m] = Mapping(m, "2MB", m) /\ Numbered(m)
    BY <1>1, <1>7, <2>1, <2>2 DEF Asking, Sent, NodeInv
  <2>4. /\ Answer(m, Mapping(HostSide, "4KB", m)) /\ host' = [host EXCEPT !.phase = "dequeue"]
        /\ hostMem' = [hostMem EXCEPT ![m] = Append(hostMem[m], Mapping(m, "2MB", m))]
    BY <2>1, <2>2, <2>3, MessageFacts DEF HostMapping
  <2>5. HostInv'
    BY <1>1, <2>1, <2>4 DEF HostInv
  <2>6. hostMem' \in [Nodes -> Seq(Messages)]
    BY <1>1, <2>4, MessageTypes, AppendProperties DEF Typed
  <2>7. Typed'
    BY <1>1, <1>2, <2>4, <2>6, MessageTypes DEF Typed, Answer
  <2>8. request'[m] = Nothing /\ reply'[m] = Mapping(HostSide, "4KB", m)
    BY <1>1, <2>4 DEF Typed, Answer
  <2>9. hostMem'[m] = <<Mapping(m, "2MB", m)>> /\ \A n \in Nodes \ {m} : hostMem'[n] = hostMem[n]
    BY <1>1, <2>3, <2>4 DEF Typed, Numbered
  <2>10. \A n \in Nodes : (Accepted(n)' <=> Accepted(n))
    BY <2>1 DEF Accepted
  <2>11. HalfMapped(m)'
    BY <1>2, <2>2, <2>3, <2>8, <2>9, <2>10 DEF HalfMapped, Numbered, Asking, Answered
  <2>12. host'.phase = "dequeue" /\ host'.cur = m
    BY <1>1, <2>1, <2>4 DEF HostInv
  <2>13. ASSUME NEW n \in Nodes \ {m} PROVE NodeInv(n)'
    <3>1. request'[n] = request[n] /\ reply'[n] = reply[n]
      BY <1>1, <2>4 DEF Answer, Typed
    <3>2. ~With(n) /\ ~With(n)'
      BY <2>1, <2>12 DEF With
    <3> QED
      BY <1>1, <1>2, <2>9, <2>10, <3>1, <3>2, Untouched
  <2> QED
    BY <2>5, <2>7, <2>11, <2>12, <2>13 DEF ExchangeInv, NodeInv, With
<1>8. CASE HostDequeue(m) /\ With(m)
  <2> DEFINE next == IF Len(active) + 1 < NumSockets THEN "number" ELSE "finished"
  <2>1. host.cur = m /\ host.phase = "dequeue" /\ HostMapping(m, "2MB", "4KB", next)
    BY <1>8 DEF HostDequeue, With
  <2>2. request[m].type = "map" /\ request[m].socket = m /\ Asking(m, "enqueue")
    BY <1>1, <1>2, <1>8, <2>1, Requests
  <2>3. request[m] = Mapping(m, "4KB", m) /\ HalfMapped(m)
    BY <1>1, <1>8, <2>1, <2>2 DEF Asking, Sent, NodeInv
  <2>4. /\ Answer(m, Mapping(HostSide, "2MB", m)) /\ host' = [host EXCEPT !.phase = next]
        /\ hostMem' = [hostMem EXCEPT ![m] = Append(hostMem[m], Mapping(m, "4KB", m))]
    BY <2>1, <2>2, <2>3, MessageFacts DEF HostMapping
  <2>5. host'.phase = next /\ host'.cur = m /\ host' \in [phase : {"number", "finished"}, cur : Nodes]
    BY <1>1, <2>1, <2>4 DEF HostInv
  <2>6. active' = Append(active, m)
    BY <1>8, <2>1, <2>5 DEF HostDequeue
  <2>7. /\ active' \in Seq(Nodes) /\ Len(active') = Len(active) + 1 /\ active'[Len(active) + 1] = m
        /\ \A i \in 1..Len(active) : active'[i] = active[i]
    BY <1>1, <2>6, AppendProperties DEF HostInv
  <2>8. Len(active) \in Nat /\ ~Accepted(m)
    BY <1>1, <2>3, LenProperties DEF HostInv, HalfMapped
  <2>9. \A i, j \in 1..Len(active') : active'[i] = active'[j] => i = j
    BY <1>1, <2>7, <2>8 DEF HostInv, Accepted
  <2>10. /\ Len(active') <= NumSockets
         /\ host'.phase # "finished" => Len(active') < NumSockets
    BY <1>1, <2>1, <2>5, <2>7, <2>8, ExchangeAssumption DEF HostInv
  <2>11. HostInv'
    BY <2>5, <2>7, <2>9, <2>10 DEF HostInv
  <2>12. Accepted(m)' /\ \A n \in Nodes \ {m} : (Accepted(n)' <=> Accepted(n))
    BY <2>7, <2>8 DEF Accepted
  <2>13. hostMem' \in [Nodes -> Seq(Messages)]
    BY <1>1, <2>4, MessageTypes, AppendProperties DEF Typed
  <2>14. Typed'
    BY <1>1, <1>2, <2>4, <2>13, MessageTypes DEF Typed, Answer
  <2>15. request'[m] = Nothing /\ reply'[m] = Mapping(HostSide, "2MB", m)
    BY <1>1, <2>4 DEF Typed, Answer
  <2>20. hostMem[m] = <<Mapping(m, "2MB", m)>>
    BY <2>3 DEF HalfMapped
  <2>21. Append(<<Mapping(m, "2MB", m)>>, Mapping(m, "4KB", m)) = FromNode(m)
    BY AppendSecond, MessageTypes DEF FromNode
  <2>16. hostMem'[m] = FromNode(m) /\ \A n \in Nodes \ {m} : hostMem'[n] = hostMem[n]
    BY <1>1, <2>4, <2>20, <2>21 DEF Typed
  <2>17. Paired(m)'
    BY <1>2, <2>2, <2>3, <2>12, <2>15, <2>16, MessageFacts
       DEF Paired, HalfMapped, Asking, Answered, FromNode
  <2>18. \A n \in Nodes : ~With(n)'
    BY <2>5 DEF With
  <2>19. ASSUME NEW n \in Nodes \ {m} PROVE NodeInv(n)'
    <3>1. request'[n] = request[n] /\ reply'[n] = reply[n]
      BY <1>1, <2>4 DEF Answer, Typed
    <3>2. ~With(n)
      BY <2>1 DEF With
    <3> QED
      BY <1>1, <1>2, <2>12, <2>16, <2>18, <3>1, <3>2, Untouched
  <2> QED
    BY <2>11, <2>14, <2>17, <2>18, <2>19 DEF ExchangeInv, NodeInv
<1> QED
  BY <1>3, <1>5, <1>6, <1>7, <1>8 DEF HostNext

-----------------------------------------------------------------------------
(***************************************************************************)
(* Every node is a stranger to the host, the one it is with, or accepted,  *)
(* and each of these fixes what both sides have mapped and what is under   *)
(* way: the inductive invariant.                                           *)
(***************************************************************************)
THEOREM ExchangeInvariant == Spec => []ExchangeInv
<1>1. Init => ExchangeInv
  <2> SUFFICES ASSUME Init PROVE ExchangeInv
    OBVIOUS
  <2>1. Typed
    BY MessageTypes DEF Init, Typed
  <2>2. HostInv
    <3>1. active \in Seq(Nodes) /\ Len(active) = 0
      BY EmptySeq DEF Init
    <3>2. NumSockets \in Int /\ NumSockets >= 1
      <4>1. Cardinality(Nodes) \in Int \/ NumSockets \in Int
        BY ExchangeAssumption
      <4> QED
        BY ExchangeAssumption
    <3> QED
      BY <3>1, <3>2 DEF Init, HostInv
  <2>3. \A n \in Nodes : Stranger(n) /\ ~With(n)
    BY DEF Init, Stranger, Accepted, With
  <2> QED
    BY <2>1, <2>2, <2>3 DEF ExchangeInv, NodeInv
<1>2. ExchangeInv /\ [Next]_vars => ExchangeInv'
  <2> SUFFICES ASSUME ExchangeInv, [Next]_vars PROVE ExchangeInv'
    OBVIOUS
  <2>1. CASE UNCHANGED vars
    BY <2>1 DEF vars, ExchangeInv, Typed, HostInv, NodeInv, With, Accepted, Stranger, Numbered,
                HalfMapped, Paired, Asking, Answered
  <2>2. CASE Next
    BY <2>2, NodeKeeps, HostKeeps DEF Next
  <2> QED
    BY <2>1, <2>2
<1> QED
  BY <1>1, <1>2, PTL DEF Spec

(* From the invariant to what a run checks. *)
LEMMA InvariantPairs == ExchangeInv => QueuesPaired
<1> SUFFICES ASSUME ExchangeInv PROVE QueuesPaired
  OBVIOUS
<1>1. Typed /\ HostInv /\ \A n \in Nodes : NodeInv(n)
  BY DEF ExchangeInv
<1>2. \A n \in Nodes : Len(hostMem[n]) <= 2 /\ Len(nodeMem[n]) <= 2
  <2>1. ASSUME NEW n \in Nodes
        PROVE  /\ hostMem[n] \in {<<>>, <<Mapping(n, "2MB", n)>>, FromNode(n)}
               /\ nodeMem[n] \in {<<>>, <<Mapping(HostSide, "4KB", n)>>, FromHost(n)}
    BY <1>1 DEF NodeInv, Stranger, Numbered, HalfMapped, Paired
  <2>2. ASSUME NEW n \in Nodes PROVE Len(hostMem[n]) <= 2
    <3> DEFINE s == hostMem[n]
    <3> DEFINE a == Mapping(n, "2MB", n)
    <3> DEFINE b == Mapping(n, "4KB", n)
    <3>1. s \in {<<>>, <<a>>, <<a, b>>}
      BY <2>1, Zenon DEF FromNode
    <3> HIDE DEF s, a, b
    <3>2. Len(s) <= 2
      BY <3>1, ShortSequences
    <3> QED
      BY <3>2 DEF s
  <2>3. ASSUME NEW n \in Nodes PROVE Len(nodeMem[n]) <= 2
    <3> DEFINE s == nodeMem[n]
    <3> DEFINE a == Mapping(HostSide, "4KB", n)
    <3> DEFINE b == Mapping(HostSide, "2MB", n)
    <3>1. s \in {<<>>, <<a>>, <<a, b>>}
      BY <2>1, Zenon DEF FromHost
    <3> HIDE DEF s, a, b
    <3>2. Len(s) <= 2
      BY <3>1, ShortSequences
    <3> QED
      BY <3>2 DEF s
  <2> QED
    BY <2>2, <2>3
<1>3. TypeOK
  BY <1>1, <1>2 DEF TypeOK, Typed, HostInv
<1>4. \A n \in Nodes : node[n] = "done" => Paired(n) /\ nodeMem[n] = FromHost(n)
  BY <1>1 DEF NodeInv, Stranger, Numbered, HalfMapped, Paired, Asking, Answered
<1> QED
  BY <1>1, <1>3, <1>4 DEF QueuesPaired, Paired, FromHost, FromNode, Accepted, HostInv, Typed

(***************************************************************************)
(* A node that is done and the host hold each other's memory crosswise, it *)
(* is accepted, no node is accepted twice, and no assertion on a size      *)
(* fails, whatever order the nodes of whatever set start in.               *)
(***************************************************************************)
THEOREM QueuesArePaired == Spec => []QueuesPaired
  BY ExchangeInvariant, InvariantPairs, PTL
=============================================================================
