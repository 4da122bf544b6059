-------------------------- MODULE TaskSystem_proof --------------------------
(***************************************************************************)
(* Proofs about TaskSystem, for any sockets, channels, capacity, lengths   *)
(* and window: receivers stay in step with senders, and what a call        *)
(* returns is one task, whole, that was not answered before.               *)
(***************************************************************************)
EXTENDS TaskSystem, SequenceTheorems, TLAPS

(* A point in the stream of bursts of a channel: inside a task with rest   *)
(* payload bursts to come, the next one being part, or between two tasks.  *)
Points == [task : Nat, part : Nat, rest : Nat]
Between == [task |-> 0, part |-> 0, rest |-> 0]
Point(t, part, rest) == IF rest = 0 THEN Between ELSE [task |-> t, part |-> part, rest |-> rest]

(* The burst b leads from point p to point r. *)
Advance(p, b, r) ==
    IF p.rest = 0
    THEN b.kind = "header" /\ b.bursts = TotalBursts(b.size) /\ r = Point(b.task, 0, b.bursts)
    ELSE b = Payload(p.task, p.part) /\ r = Point(p.task, p.part + 1, p.rest - 1)

(* The bursts in q lead from where the receiver is to where the sender is. *)
Linked(from, q, to) ==
    \E pt \in [1..(Len(q) + 1) -> Points] :
       /\ pt[1] = from /\ pt[Len(q) + 1] = to
       /\ \A i \in 1..Len(q) : Advance(pt[i], q[i], pt[i + 1])

Sender(d, w)   == IF d = "down" THEN Host ELSE w
Receiver(d, w) == IF d = "down" THEN w ELSE Host

SendPoint(a, w) ==
    IF call[a].op = "payload" /\ call[a].at = w
    THEN Point(call[a].task, call[a].part, TotalBursts(call[a].len) - call[a].part)
    ELSE Between
RecvPoint(a, w) ==
    IF call[a].op = "body" /\ call[a].at = w
    THEN Point(call[a].head.task, Len(call[a].buf), call[a].head.bursts - Len(call[a].buf))
    ELSE Between

ChannelInv(d, w) ==
    Linked(RecvPoint(Receiver(d, w), w), queue[d][w], SendPoint(Sender(d, w), w))

(* A task is in one place: with an actor that is about to send it or has   *)
(* begun to receive it, or as a header on its way.                         *)
Holds(a) == call[a].op \in {"header", "body"}
Held(a)  == IF call[a].op = "body" THEN call[a].head.task ELSE call[a].task
Carries(d, w, i, t) ==
    i \in 1..Len(queue[d][w]) /\ queue[d][w][i].kind = "header" /\ queue[d][w][i].task = t

PlaceInv ==
    /\ \A a \in Actors : Holds(a) => home[Held(a)] = call[a].at
    /\ \A d \in Directions, w \in Workers, i \in Nat, t \in Tasks : Carries(d, w, i, t) => home[t] = w
    /\ \A a, b \in Actors : Holds(a) /\ Holds(b) /\ Held(a) = Held(b) => a = b
    /\ \A a \in Actors, d \in Directions, w \in Workers, i \in Nat :
          ~(Holds(a) /\ Carries(d, w, i, Held(a)))
    /\ \A d, e \in Directions, w, v \in Workers, i, j \in Nat, t \in Tasks :
          Carries(d, w, i, t) /\ Carries(e, v, j, t) => d = e /\ w = v /\ i = j

Sending == [op : {"header", "payload"}, task : Tasks, len : Lengths, at : Workers, part : Nat]
Heads   == [kind : {"header"}, task : Tasks, bursts : Nat, size : Lengths]
Taking  == [op : {"body"}, at : Workers, buf : Seq(Bursts), head : Heads]

Calls   == [op : {"idle", "poll", "astray"}] \cup Sending \cup Taking

CallOK(a) ==
    /\ call[a].op = "poll" => a = Host
    /\ call[a].op = "header" => call[a].part = 0
    /\ call[a].op = "payload" => call[a].part < TotalBursts(call[a].len)
    /\ call[a].op = "body" =>
          /\ call[a].head.bursts = TotalBursts(call[a].head.size)
          /\ Len(call[a].buf) <= call[a].head.bursts
          /\ \A i \in 1..Len(call[a].buf) : call[a].buf[i] = Payload(call[a].head.task, i - 1)
    /\ call[a].op \in {"header", "payload", "body"} /\ a # Host => call[a].at = a

QueuesOK ==
    /\ queue \in [Directions -> [Workers -> Seq(Bursts)]]
    /\ \A d \in Directions, w \in Workers : Len(queue[d][w]) <= Capacity
CallsOK == call \in [Actors -> Calls] /\ \A a \in Actors : CallOK(a)
HomeOK ==
    /\ count \in 0..MaxTasks
    /\ home \in [Tasks -> Workers \cup {<<>>}] /\ \A t \in Tasks : home[t] # <<>> => t <= count
TurnsOK ==
    next \in [submitChannel : Counters(MaxChannels), submitSocket : Counters(Len(ActiveSockets)),
              recvChannel : Counters(MaxChannels), recvSocket : Counters(Len(ActiveSockets))]

TaskInv ==
    /\ QueuesOK /\ CallsOK /\ HomeOK /\ TurnsOK
    /\ PlaceInv
    /\ \A d \in Directions, w \in Workers : ChannelInv(d, w)
-----------------------------------------------------------------------------
(* Bursts of a task: at least one. *)
LEMMA BurstFacts ==
    /\ BurstBytes \in Nat \ {0} /\ Capacity \in Nat \ {0}
    /\ \A len \in Lengths : TotalBursts(len) \in Nat \ {0}
    /\ \A len \in Lengths : \A b \in 0..(len - 1) : b \div BurstBytes \in 0..(TotalBursts(len) - 1)
<1>1. BurstBytes \in Nat \ {0} /\ Capacity \in Nat \ {0} /\ Lengths \subseteq Nat \ {0}
  BY TaskAssumption
<1>2. ASSUME NEW B \in Nat \ {0}, NEW n \in Nat
      PROVE  /\ n \div B \in Nat /\ B * (n \div B) <= n /\ n < B * ((n \div B) + 1)
  OBVIOUS
<1>3. ASSUME NEW B \in Nat \ {0}, NEW x \in Nat, NEW y \in Nat, B * x < B * (y + 1)
      PROVE  x <= y
  BY <1>3
<1>4. ASSUME NEW len \in Lengths, NEW b \in 0..(len - 1)
      PROVE  b \div BurstBytes <= (len - 1) \div BurstBytes
  <2>1. b \in Nat /\ len - 1 \in Nat /\ b <= len - 1
    BY <1>1
  <2>2. BurstBytes * (b \div BurstBytes) < BurstBytes * (((len - 1) \div BurstBytes) + 1)
    BY <1>1, <1>2, <2>1
  <2> QED
    BY <1>1, <1>2, <1>3, <2>1, <2>2
<1>5. \A len \in Lengths : TotalBursts(len) \in Nat \ {0}
  BY <1>1, <1>2 DEF TotalBursts
<1>6. \A len \in Lengths : \A b \in 0..(len - 1) : b \div BurstBytes \in Nat
  BY <1>1, <1>2
<1> QED
  BY <1>1, <1>4, <1>5, <1>6 DEF TotalBursts

LEMMA ActorFacts ==
    /\ Host \notin Workers /\ Host \in Actors /\ \A w \in Workers : w \in Actors /\ w # Host
    /\ \A a \in Actors : Out(a) \in Directions /\ In(a) \in Directions
    /\ \A w \in Workers : /\ Sender("down", w) = Host /\ Receiver("down", w) = w
                           /\ Sender("up", w) = w /\ Receiver("up", w) = Host
<1>1. Sockets \subseteq Nat
  BY TaskAssumption DEF Sockets, ToSet
<1>2. Host \notin Workers
  BY <1>1 DEF Workers, Host
<1> QED
  BY <1>2 DEF Actors, Out, In, Directions, Sender, Receiver

LEMMA PointFacts ==
    ASSUME NEW t \in Nat, NEW part \in Nat, NEW rest \in Nat
    PROVE  /\ Point(t, part, rest) \in Points /\ Point(t, part, rest).rest = rest
           /\ rest = 0 => Point(t, part, rest) = Between
           /\ rest # 0 => Point(t, part, rest).task = t /\ Point(t, part, rest).part = part
           /\ Between \in Points /\ Between.rest = 0
  BY DEF Point, Points, Between

(* Nothing under way: receiver and sender are at the same point. *)
LEMMA LinkedEmpty ==
    ASSUME NEW p \in Points
    PROVE  Linked(p, <<>>, p)
<1> DEFINE pt == [i \in 1..1 |-> p]
<1>1. pt \in [1..(Len(<<>>) + 1) -> Points] /\ pt[1] = p
  OBVIOUS
<1> HIDE DEF pt
<1> QED
  BY <1>1 DEF Linked

(* The receiver takes the first burst, and only one that fits. *)
LEMMA LinkedTail ==
    ASSUME NEW S, NEW q \in Seq(S), q # <<>>, NEW from, NEW to, Linked(from, q, to)
    PROVE  \E r \in Points : Advance(from, Head(q), r) /\ Linked(r, Tail(q), to)
<1>1. PICK pt \in [1..(Len(q) + 1) -> Points] :
         /\ pt[1] = from /\ pt[Len(q) + 1] = to
         /\ \A i \in 1..Len(q) : Advance(pt[i], q[i], pt[i + 1])
  BY DEF Linked
<1>2. Len(q) \in Nat \ {0} /\ Head(q) = q[1]
  BY EmptySeq
<1>3. Tail(q) \in Seq(S) /\ Len(Tail(q)) = Len(q) - 1 /\ \A i \in 1..(Len(q) - 1) : Tail(q)[i] = q[i + 1]
  BY HeadTailProperties
<1> DEFINE ps == [i \in 1..Len(q) |-> pt[i + 1]]
<1>4. ps \in [1..(Len(Tail(q)) + 1) -> Points] /\ \A i \in 1..Len(q) : ps[i] = pt[i + 1]
  BY <1>1, <1>2, <1>3
<1> HIDE DEF ps
<1>5. \A i \in 1..Len(Tail(q)) : Advance(ps[i], Tail(q)[i], ps[i + 1])
  <2> SUFFICES ASSUME NEW i \in 1..Len(Tail(q)) PROVE Advance(ps[i], Tail(q)[i], ps[i + 1])
    OBVIOUS
  <2>1. ps[i] = pt[i + 1] /\ ps[i + 1] = pt[(i + 1) + 1] /\ Tail(q)[i] = q[i + 1] /\ i + 1 \in 1..Len(q)
    BY <1>2, <1>3, <1>4
  <2>2. Advance(pt[i + 1], q[i + 1], pt[(i + 1) + 1])
    BY <1>1, <2>1
  <2> QED
    BY <2>1, <2>2
<1>6. ps[1] = pt[2] /\ ps[Len(Tail(q)) + 1] = to
  BY <1>1, <1>2, <1>3, <1>4
<1>7. Advance(from, Head(q), pt[2]) /\ pt[2] \in Points
  BY <1>1, <1>2
<1>8. Linked(pt[2], Tail(q), to)
  BY <1>4, <1>5, <1>6 DEF Linked
<1> QED
  BY <1>7, <1>8

(* The sender adds the burst that leads on from where it is. *)
LEMMA LinkedAppend ==
    ASSUME NEW S, NEW q \in Seq(S), NEW b \in S, NEW from, NEW to, Linked(from, q, to),
           NEW r \in Points, Advance(to, b, r)
    PROVE  Linked(from, Append(q, b), r)
<1>1. PICK pt \in [1..(Len(q) + 1) -> Points] :
         /\ pt[1] = from /\ pt[Len(q) + 1] = to
         /\ \A i \in 1..Len(q) : Advance(pt[i], q[i], pt[i + 1])
  BY DEF Linked
<1> DEFINE n == Len(q)
           qq == Append(q, b)
<1>2. n \in Nat
  BY LenProperties
<1>3. Len(qq) = n + 1 /\ qq[n + 1] = b /\ \A i \in 1..n : qq[i] = q[i]
  BY AppendProperties
<1> DEFINE ps == [i \in 1..(n + 2) |-> IF i = n + 2 THEN r ELSE pt[i]]
<1>4. /\ ps \in [1..(n + 2) -> Points] /\ ps[n + 2] = r
      /\ \A i \in 1..(n + 1) : ps[i] = pt[i]
  BY <1>1, <1>2
<1> HIDE DEF ps, qq
<1>5. \A i \in 1..(n + 1) : Advance(ps[i], qq[i], ps[i + 1])
  <2> SUFFICES ASSUME NEW i \in 1..(n + 1) PROVE Advance(ps[i], qq[i], ps[i + 1])
    OBVIOUS
  <2>1. CASE i \in 1..n
    <3>1. ps[i] = pt[i] /\ qq[i] = q[i] /\ ps[i + 1] = pt[i + 1]
      BY <1>2, <1>3, <1>4, <2>1
    <3> QED
      BY <1>1, <2>1, <3>1
  <2>2. CASE i = n + 1
    <3>1. ps[i] = to /\ qq[i] = b /\ ps[i + 1] = r
      BY <1>1, <1>2, <1>3, <1>4, <2>2
    <3> QED
      BY <3>1
  <2> QED
    BY <1>2, <2>1, <2>2
<1>6. ps[1] = from /\ (n + 1) + 1 = n + 2
  BY <1>1, <1>2, <1>4
<1>7. Linked(from, qq, r)
  BY <1>3, <1>4, <1>5, <1>6 DEF Linked
<1> QED
  BY <1>7 DEF qq

(* What the fields of a call hold. *)
LEMMA CallFacts ==
    ASSUME CallsOK, NEW a \in Actors
    PROVE  /\ CallOK(a)
           /\ call[a].op \in {"idle", "poll", "header", "payload", "body", "astray"}
           /\ call[a].op \in {"header", "payload"} =>
                 /\ call[a] \in Sending /\ call[a].task \in Tasks /\ call[a].len \in Lengths
                 /\ call[a].at \in Workers /\ call[a].part \in Nat
           /\ call[a].op = "body" =>
                 /\ call[a] \in Taking /\ call[a].at \in Workers /\ call[a].buf \in Seq(Bursts)
                 /\ call[a].head \in Heads /\ call[a].head.task \in Tasks
                 /\ call[a].head.size \in Lengths /\ call[a].head.bursts \in Nat
                 /\ Len(call[a].buf) \in Nat
           /\ call[a].op = "idle" => call[a] = Idle
<1>1. CallOK(a) /\ call[a] \in Calls
  BY DEF CallsOK
<1>2. CASE call[a] \in [op : {"idle", "poll", "astray"}]
  BY <1>1, <1>2 DEF Idle
<1>3. CASE call[a] \in Sending
  BY <1>1, <1>3 DEF Sending
<1>4. CASE call[a] \in Taking
  <2>1. /\ call[a].op = "body" /\ call[a].at \in Workers /\ call[a].buf \in Seq(Bursts)
        /\ call[a].head \in Heads
    BY <1>4 DEF Taking
  <2>2. Len(call[a].buf) \in Nat
    BY <2>1, LenProperties
  <2> QED
    BY <1>1, <1>4, <2>1, <2>2 DEF Heads
<1> QED
  BY <1>1, <1>2, <1>3, <1>4 DEF Calls

-----------------------------------------------------------------------------
(* What taking the first burst of a channel does to the channels. *)
LEMMA QueueTail ==
    ASSUME QueuesOK, NEW d \in Directions, NEW w \in Workers, queue[d][w] # <<>>,
           queue' = [queue EXCEPT ![d][w] = Tail(@)]
    PROVE  /\ QueuesOK' /\ queue'[d][w] = Tail(queue[d][w])
           /\ \A e \in Directions, v \in Workers : e # d \/ v # w => queue'[e][v] = queue[e][v]
           /\ \A e \in Directions, v \in Workers, i \in Nat, t \in Tasks :
                 e # d \/ v # w => (Carries(e, v, i, t)' <=> Carries(e, v, i, t))
           /\ \A i \in Nat, t \in Tasks : Carries(d, w, i, t)' => Carries(d, w, i + 1, t) /\ i # 0
<1>1. queue \in [Directions -> [Workers -> Seq(Bursts)]]
  BY DEF QueuesOK
<1> DEFINE q == queue[d][w]
<1>2. /\ q \in Seq(Bursts) /\ Len(q) \in Nat \ {0} /\ Tail(q) \in Seq(Bursts) /\ Len(Tail(q)) = Len(q) - 1
      /\ \A i \in 1..(Len(q) - 1) : Tail(q)[i] = q[i + 1]
  BY <1>1, EmptySeq, HeadTailProperties
<1>3. /\ queue'[d][w] = Tail(q)
      /\ \A e \in Directions, v \in Workers : e # d \/ v # w => queue'[e][v] = queue[e][v]
      /\ queue' \in [Directions -> [Workers -> Seq(Bursts)]]
  BY <1>1, <1>2
<1>4. Len(Tail(q)) <= Capacity
  BY <1>2, BurstFacts DEF QueuesOK
<1>5. QueuesOK'
  BY <1>3, <1>4 DEF QueuesOK
<1>6. \A i \in Nat, t \in Tasks : Carries(d, w, i, t)' => Carries(d, w, i + 1, t) /\ i # 0
  BY <1>2, <1>3 DEF Carries
<1> QED
  BY <1>3, <1>5, <1>6 DEF Carries

(* What adding a burst does. *)
LEMMA QueueAppend ==
    ASSUME QueuesOK, NEW d \in Directions, NEW w \in Workers, NEW b \in Bursts,
           Enqueue(d, w, b)
    PROVE  /\ QueuesOK' /\ queue'[d][w] = Append(queue[d][w], b)
           /\ \A e \in Directions, v \in Workers : e # d \/ v # w => queue'[e][v] = queue[e][v]
           /\ \A e \in Directions, v \in Workers, i \in Nat, t \in Tasks :
                 Carries(e, v, i, t)' =>
                    \/ Carries(e, v, i, t)
                    \/ /\ e = d /\ v = w /\ i = Len(queue[d][w]) + 1
                       /\ b.kind = "header" /\ b.task = t
<1>1. queue \in [Directions -> [Workers -> Seq(Bursts)]] /\ queue' = [queue EXCEPT ![d][w] = Append(@, b)]
  BY DEF QueuesOK, Enqueue
<1> DEFINE q == queue[d][w]
           qq == Append(queue[d][w], b)
<1>2. /\ q \in Seq(Bursts) /\ Len(q) \in Nat /\ qq \in Seq(Bursts) /\ Len(qq) = Len(q) + 1
      /\ qq[Len(q) + 1] = b /\ \A i \in 1..Len(q) : qq[i] = q[i]
  BY <1>1, LenProperties, AppendProperties
<1>3. /\ queue'[d][w] = qq
      /\ \A e \in Directions, v \in Workers : e # d \/ v # w => queue'[e][v] = queue[e][v]
      /\ queue' \in [Directions -> [Workers -> Seq(Bursts)]]
  BY <1>1, <1>2
<1>4. Len(qq) <= Capacity
  BY <1>2, BurstFacts DEF Enqueue
<1> HIDE DEF qq
<1>5. QueuesOK'
  BY <1>3, <1>4 DEF QueuesOK
<1>6. ASSUME NEW i \in Nat, NEW t \in Tasks, Carries(d, w, i, t)'
      PROVE  Carries(d, w, i, t) \/ (i = Len(q) + 1 /\ b.kind = "header" /\ b.task = t)
  BY <1>2, <1>3, <1>6 DEF Carries
<1>7. \A e \in Directions, v \in Workers, i \in Nat, t \in Tasks :
         e # d \/ v # w => (Carries(e, v, i, t)' => Carries(e, v, i, t))
  BY <1>3 DEF Carries
<1> QED
  BY <1>3, <1>5, <1>6, <1>7 DEF qq

-----------------------------------------------------------------------------
(* A channel of which neither the bursts nor the points of its two ends    *)
(* change stays as it was.                                                 *)
LEMMA ChannelsSame ==
    ASSUME TaskInv, queue' = queue,
           \A b \in Actors, v \in Workers : /\ SendPoint(b, v)' = SendPoint(b, v)
                                           /\ RecvPoint(b, v)' = RecvPoint(b, v)
    PROVE  \A e \in Directions, v \in Workers : ChannelInv(e, v)'
<1> SUFFICES ASSUME NEW e \in Directions, NEW v \in Workers PROVE ChannelInv(e, v)'
  OBVIOUS
<1>1. Sender(e, v) \in Actors /\ Receiver(e, v) \in Actors
  BY ActorFacts DEF Sender, Receiver
<1>2. ChannelInv(e, v)
  BY DEF TaskInv
<1> QED
  BY <1>1, <1>2 DEF ChannelInv

(* An actor's step on one channel leaves the others as they were. *)
LEMMA ChannelsStep ==
    ASSUME TaskInv, NEW a \in Actors, NEW w \in Workers, a # Host => w = a, NEW d \in Directions,
           \A b \in Actors \ {a} : call'[b] = call[b],
           \A e \in Directions, v \in Workers : e # d \/ v # w => queue'[e][v] = queue[e][v],
           \A v \in Workers \ {w} : /\ SendPoint(a, v)' = SendPoint(a, v)
                                   /\ RecvPoint(a, v)' = RecvPoint(a, v),
           d # In(a) => RecvPoint(a, w)' = RecvPoint(a, w),
           d # Out(a) => SendPoint(a, w)' = SendPoint(a, w),
           ChannelInv(d, w)'
    PROVE  \A e \in Directions, v \in Workers : ChannelInv(e, v)'
<1> SUFFICES ASSUME NEW e \in Directions, NEW v \in Workers, e # d \/ v # w PROVE ChannelInv(e, v)'
  OBVIOUS
<1>1. Sender(e, v) \in Actors /\ Receiver(e, v) \in Actors
  BY ActorFacts DEF Sender, Receiver
<1>2. ASSUME NEW b \in Actors, b # a
      PROVE  SendPoint(b, v)' = SendPoint(b, v) /\ RecvPoint(b, v)' = RecvPoint(b, v)
  BY <1>2 DEF SendPoint, RecvPoint
<1>3. SendPoint(Sender(e, v), v)' = SendPoint(Sender(e, v), v)
  <2>1. CASE Sender(e, v) # a
    BY <1>1, <1>2, <2>1
  <2>2. CASE Sender(e, v) = a /\ v # w
    BY <2>2
  <2>3. CASE Sender(e, v) = a /\ v = w
    <3>1. e = Out(a)
      BY <2>3, ActorFacts DEF Sender, Out, Directions
    <3> QED
      BY <2>3, <3>1
  <2> QED
    BY <2>1, <2>2, <2>3
<1>4. RecvPoint(Receiver(e, v), v)' = RecvPoint(Receiver(e, v), v)
  <2>1. CASE Receiver(e, v) # a
    BY <1>1, <1>2, <2>1
  <2>2. CASE Receiver(e, v) = a /\ v # w
    BY <2>2
  <2>3. CASE Receiver(e, v) = a /\ v = w
    <3>1. e = In(a)
      BY <2>3, ActorFacts DEF Receiver, In, Directions
    <3> QED
      BY <2>3, <3>1
  <2> QED
    BY <2>1, <2>2, <2>3
<1>5. ChannelInv(e, v) /\ queue'[e][v] = queue[e][v]
  BY DEF TaskInv
<1> QED
  BY <1>3, <1>4, <1>5 DEF ChannelInv

(* Who sends and who receives on a channel. *)
LEMMA Ends ==
    ASSUME NEW a \in Actors, NEW w \in Workers, a # Host => w = a
    PROVE  /\ Sender(Out(a), w) = a /\ Receiver(In(a), w) = a
           /\ Out(a) \in Directions /\ In(a) \in Directions /\ Out(a) # In(a)
  BY ActorFacts DEF Sender, Receiver, Out, In, Directions

-----------------------------------------------------------------------------
(* A header of a task is nowhere else. *)
LEMMA OnePlace ==
    ASSUME PlaceInv, NEW d \in Directions, NEW e \in Directions, NEW w \in Workers, NEW v \in Workers,
           NEW i \in Nat, NEW j \in Nat, NEW t \in Tasks, Carries(d, w, i, t), Carries(e, v, j, t)
    PROVE  d = e /\ w = v /\ i = j
  BY DEF PlaceInv

(* Places: no task starts, ends or moves. *)
LEMMA PlacesSame ==
    ASSUME PlaceInv, CallsOK, home' = home,
           \A a \in Actors : /\ Holds(a)' <=> Holds(a)
                             /\ Holds(a) => Held(a)' = Held(a) /\ call'[a].at = call[a].at,
           NEW d, NEW w, NEW k \in {0, 1},
           \A e \in Directions, v \in Workers, i \in Nat, t \in Tasks :
              Carries(e, v, i, t)' =>
                 Carries(e, v, IF e = d /\ v = w THEN i + k ELSE i, t)
    PROVE  PlaceInv'
<1>1. \A a \in Actors : Holds(a) => Held(a) \in Tasks
  BY CallFacts DEF Holds, Held
<1>2. \A a \in Actors : Holds(a)' => home'[Held(a)'] = call'[a].at
  BY DEF PlaceInv
<1> DEFINE Shift(e, v, i) == IF e = d /\ v = w THEN i + k ELSE i
<1>3. \A e, v : \A i, j \in Nat : Shift(e, v, i) \in Nat /\ (Shift(e, v, i) = Shift(e, v, j) => i = j)
  OBVIOUS
<1>4. \A e \in Directions, v \in Workers, i \in Nat, t \in Tasks :
         Carries(e, v, i, t)' => Carries(e, v, Shift(e, v, i), t)
  OBVIOUS
<1> HIDE DEF Shift
<1>5. \A e \in Directions, v \in Workers, i \in Nat, t \in Tasks : Carries(e, v, i, t)' => home'[t] = v
  BY <1>3, <1>4 DEF PlaceInv
<1>6. \A a, b \in Actors : Holds(a)' /\ Holds(b)' /\ Held(a)' = Held(b)' => a = b
  BY DEF PlaceInv
<1>7. ASSUME NEW a \in Actors, NEW e \in Directions, NEW v \in Workers, NEW i \in Nat, Holds(a)'
      PROVE  ~Carries(e, v, i, Held(a))'
  <2>1. Held(a)' = Held(a) /\ Held(a) \in Tasks /\ Holds(a)
    BY <1>1, <1>7
  <2>2. ~Carries(e, v, Shift(e, v, i), Held(a))
    BY <1>3, <2>1 DEF PlaceInv
  <2>3. ASSUME Carries(e, v, i, Held(a))' PROVE FALSE
    <3>1. PICK t \in Tasks : t = Held(a)'
      BY <2>1
    <3>2. Carries(e, v, i, t)'
      BY <2>3, <3>1 DEF Carries
    <3> QED
      BY <1>4, <2>1, <2>2, <3>1, <3>2
  <2> QED
    BY <2>3
<1>8. \A e, f \in Directions, v, u \in Workers, i, j \in Nat, t \in Tasks :
         Carries(e, v, i, t)' /\ Carries(f, u, j, t)' => e = f /\ v = u /\ i = j
  <2> SUFFICES ASSUME NEW e \in Directions, NEW f \in Directions, NEW v \in Workers, NEW u \in Workers,
                      NEW i \in Nat, NEW j \in Nat, NEW t \in Tasks,
                      Carries(e, v, i, t)', Carries(f, u, j, t)'
               PROVE  e = f /\ v = u /\ i = j
    OBVIOUS
  <2>1. Carries(e, v, Shift(e, v, i), t) /\ Carries(f, u, Shift(f, u, j), t)
    BY <1>4
  <2>2. e = f /\ v = u /\ Shift(e, v, i) = Shift(f, u, j)
    BY <1>3, <2>1, OnePlace
  <2> QED
    BY <1>3, <2>2
<1> QED
  BY <1>2, <1>5, <1>6, <1>7, <1>8 DEF PlaceInv

(* An actor hands its task to a channel. *)
LEMMA PlacesSent ==
    ASSUME PlaceInv, CallsOK, home' = home, NEW a \in Actors, Holds(a), ~Holds(a)',
           \A b \in Actors \ {a} : call'[b] = call[b],
           NEW d \in Directions, NEW n \in Nat,
           \A e \in Directions, v \in Workers, i \in Nat, t \in Tasks :
              Carries(e, v, i, t)' =>
                 Carries(e, v, i, t) \/ (e = d /\ v = call[a].at /\ i = n /\ t = Held(a))
    PROVE  PlaceInv'
<1>1. \A b \in Actors : Holds(b) => Held(b) \in Tasks
  BY CallFacts DEF Holds, Held
<1>2. \A b \in Actors : Holds(b)' => b # a /\ Holds(b) /\ Held(b)' = Held(b) /\ call'[b].at = call[b].at
  BY DEF Holds, Held
<1>3. \A b \in Actors : Holds(b)' => home'[Held(b)'] = call'[b].at
  BY <1>2 DEF PlaceInv
<1>4. \A e \in Directions, v \in Workers, i \in Nat, t \in Tasks : Carries(e, v, i, t)' => home'[t] = v
  BY DEF PlaceInv
<1>5. \A b, c \in Actors : Holds(b)' /\ Holds(c)' /\ Held(b)' = Held(c)' => b = c
  BY <1>2 DEF PlaceInv
<1>6. ASSUME NEW b \in Actors, NEW e \in Directions, NEW v \in Workers, NEW i \in Nat, Holds(b)'
      PROVE  ~Carries(e, v, i, Held(b))'
  <2>1. PICK t \in Tasks : t = Held(b)' /\ t = Held(b) /\ Holds(b) /\ b # a
    BY <1>1, <1>2, <1>6
  <2>2. t # Held(a) /\ ~Carries(e, v, i, t)
    BY <2>1 DEF PlaceInv
  <2>3. ~Carries(e, v, i, t)'
    BY <2>2
  <2> QED
    BY <2>1, <2>3 DEF Carries
<1>7. \A e, f \in Directions, v, u \in Workers, i, j \in Nat, t \in Tasks :
         Carries(e, v, i, t)' /\ Carries(f, u, j, t)' => e = f /\ v = u /\ i = j
  <2> SUFFICES ASSUME NEW e \in Directions, NEW f \in Directions, NEW v \in Workers, NEW u \in Workers,
                      NEW i \in Nat, NEW j \in Nat, NEW t \in Tasks,
                      Carries(e, v, i, t)', Carries(f, u, j, t)'
               PROVE  e = f /\ v = u /\ i = j
    OBVIOUS
  <2>1. CASE t = Held(a)
    <3>1. ~Carries(e, v, i, t) /\ ~Carries(f, u, j, t)
      BY <2>1 DEF PlaceInv
    <3> QED
      BY <3>1
  <2>2. CASE t # Held(a)
    <3>1. Carries(e, v, i, t) /\ Carries(f, u, j, t)
      BY <2>2
    <3> QED
      BY <3>1, OnePlace
  <2> QED
    BY <2>1, <2>2
<1> QED
  BY <1>3, <1>4, <1>5, <1>6, <1>7 DEF PlaceInv

(* An actor takes the header at the front of a channel. *)
LEMMA PlacesTaken ==
    ASSUME PlaceInv, CallsOK, home' = home, NEW a \in Actors, ~Holds(a), Holds(a)',
           \A b \in Actors \ {a} : call'[b] = call[b],
           NEW d \in Directions, NEW w \in Workers, NEW s \in Tasks, Carries(d, w, 1, s),
           Held(a)' = s, call'[a].at = w,
           \A e \in Directions, v \in Workers, i \in Nat, t \in Tasks :
              e # d \/ v # w => (Carries(e, v, i, t)' => Carries(e, v, i, t)),
           \A i \in Nat, t \in Tasks : Carries(d, w, i, t)' => Carries(d, w, i + 1, t) /\ i # 0
    PROVE  PlaceInv'
<1>1. \A b \in Actors : Holds(b) => Held(b) \in Tasks
  BY CallFacts DEF Holds, Held
<1>2. \A b \in Actors : b # a =>
         (Holds(b)' <=> Holds(b)) /\ Held(b)' = Held(b) /\ call'[b].at = call[b].at
  BY DEF Holds, Held
<1>3. \A b \in Actors : Holds(b) => Held(b) # s
  BY DEF PlaceInv
<1>4. home[s] = w
  BY DEF PlaceInv
<1>5. \A b \in Actors : Holds(b)' => home'[Held(b)'] = call'[b].at
  BY <1>2, <1>4 DEF PlaceInv
<1>6. \A b, c \in Actors : Holds(b)' /\ Holds(c)' /\ Held(b)' = Held(c)' => b = c
  BY <1>2, <1>3 DEF PlaceInv
<1> DEFINE Shift(e, v, i) == IF e = d /\ v = w THEN i + 1 ELSE i
<1>7. \A e, v : \A i, j \in Nat : Shift(e, v, i) \in Nat /\ (Shift(e, v, i) = Shift(e, v, j) => i = j)
  OBVIOUS
<1>8. \A e \in Directions, v \in Workers, i \in Nat, t \in Tasks :
         Carries(e, v, i, t)' => Carries(e, v, Shift(e, v, i), t)
  OBVIOUS
<1>9. \A e \in Directions, v \in Workers, i \in Nat : ~Carries(e, v, i, s)'
  <2> SUFFICES ASSUME NEW e \in Directions, NEW v \in Workers, NEW i \in Nat, Carries(e, v, i, s)'
               PROVE  FALSE
    OBVIOUS
  <2>1. Carries(e, v, Shift(e, v, i), s) /\ Shift(e, v, i) \in Nat
    BY <1>7, <1>8
  <2>2. e = d /\ v = w /\ Shift(e, v, i) = 1
    <3> HIDE DEF Shift
    <3> QED
      BY <2>1, OnePlace
  <2>3. i # 0
    BY <2>2
  <2> QED
    BY <2>2, <2>3
<1> HIDE DEF Shift
<1>10. \A e \in Directions, v \in Workers, i \in Nat, t \in Tasks : Carries(e, v, i, t)' => home'[t] = v
  BY <1>7, <1>8 DEF PlaceInv
<1>11. ASSUME NEW b \in Actors, NEW e \in Directions, NEW v \in Workers, NEW i \in Nat, Holds(b)'
       PROVE  ~Carries(e, v, i, Held(b))'
  <2>1. CASE b = a
    BY <1>9, <2>1 DEF Carries
  <2>2. CASE b # a
    <3>1. PICK t \in Tasks : t = Held(b)' /\ t = Held(b) /\ Holds(b)
      BY <1>1, <1>2, <1>11, <2>2
    <3>2. ~Carries(e, v, Shift(e, v, i), t)
      BY <1>7, <3>1 DEF PlaceInv
    <3>3. ~Carries(e, v, i, t)'
      BY <1>8, <3>2
    <3> QED
      BY <3>1, <3>3 DEF Carries
  <2> QED
    BY <2>1, <2>2
<1>12. \A e, f \in Directions, v, u \in Workers, i, j \in Nat, t \in Tasks :
         Carries(e, v, i, t)' /\ Carries(f, u, j, t)' => e = f /\ v = u /\ i = j
  <2> SUFFICES ASSUME NEW e \in Directions, NEW f \in Directions, NEW v \in Workers, NEW u \in Workers,
                      NEW i \in Nat, NEW j \in Nat, NEW t \in Tasks,
                      Carries(e, v, i, t)', Carries(f, u, j, t)'
               PROVE  e = f /\ v = u /\ i = j
    OBVIOUS
  <2>1. Carries(e, v, Shift(e, v, i), t) /\ Carries(f, u, Shift(f, u, j), t)
    BY <1>8
  <2>2. e = f /\ v = u /\ Shift(e, v, i) = Shift(f, u, j)
    BY <1>7, <2>1, OnePlace
  <2> QED
    BY <1>7, <2>2
<1> QED
  BY <1>5, <1>6, <1>10, <1>11, <1>12 DEF PlaceInv

(* The host takes on a task that nobody has. *)
LEMMA PlacesNew ==
    ASSUME PlaceInv, CallsOK, HomeOK, queue' = queue, ~Holds(Host), Holds(Host)',
           \A b \in Actors \ {Host} : call'[b] = call[b],
           NEW s \in Tasks, s > count, Held(Host)' = s, call'[Host].at \in Workers,
           home' = [home EXCEPT ![s] = call'[Host].at]
    PROVE  PlaceInv'
<1>1. \A b \in Actors : Holds(b) => Held(b) \in Tasks /\ call[b].at \in Workers
  BY CallFacts DEF Holds, Held
<1>2. \A b \in Actors : b # Host =>
         (Holds(b)' <=> Holds(b)) /\ Held(b)' = Held(b) /\ call'[b].at = call[b].at
  BY DEF Holds, Held
<1>3. home[s] = <<>> /\ <<>> \notin Workers
  <2>1. home[s] = <<>>
    BY DEF HomeOK, Tasks
  <2>2. <<>> \notin Workers
    BY DEF Workers
  <2> QED
    BY <2>1, <2>2
<1>4. \A b \in Actors : Holds(b) => Held(b) # s
  BY <1>1, <1>3 DEF PlaceInv
<1>5. \A e \in Directions, v \in Workers, i \in Nat : ~Carries(e, v, i, s)
  BY <1>3 DEF PlaceInv
<1>6. \A t \in Tasks : t # s => home'[t] = home[t]
  BY DEF HomeOK
<1>7. home'[s] = call'[Host].at
  BY DEF HomeOK
<1>8. \A b \in Actors : Holds(b)' => home'[Held(b)'] = call'[b].at
  BY <1>1, <1>2, <1>4, <1>6, <1>7 DEF PlaceInv
<1>9. \A e \in Directions, v \in Workers, i \in Nat, t \in Tasks : Carries(e, v, i, t)' <=> Carries(e, v, i, t)
  BY DEF Carries
<1>10. \A e \in Directions, v \in Workers, i \in Nat, t \in Tasks : Carries(e, v, i, t)' => home'[t] = v
  BY <1>5, <1>6, <1>9 DEF PlaceInv
<1>11. \A b, c \in Actors : Holds(b)' /\ Holds(c)' /\ Held(b)' = Held(c)' => b = c
  BY <1>2, <1>4 DEF PlaceInv
<1>12. ASSUME NEW b \in Actors, NEW e \in Directions, NEW v \in Workers, NEW i \in Nat, Holds(b)'
       PROVE  ~Carries(e, v, i, Held(b))'
  <2>1. CASE b = Host
    BY <1>5, <1>9, <2>1 DEF Carries
  <2>2. CASE b # Host
    <3>1. PICK t \in Tasks : t = Held(b)' /\ t = Held(b) /\ Holds(b)
      BY <1>1, <1>2, <1>12, <2>2
    <3>2. ~Carries(e, v, i, t)'
      BY <1>9, <3>1 DEF PlaceInv
    <3> QED
      BY <3>1, <3>2 DEF Carries
  <2> QED
    BY <2>1, <2>2
<1>13. \A e, f \in Directions, v, u \in Workers, i, j \in Nat, t \in Tasks :
         Carries(e, v, i, t)' /\ Carries(f, u, j, t)' => e = f /\ v = u /\ i = j
  BY <1>9, OnePlace
<1> QED
  BY <1>8, <1>10, <1>11, <1>12, <1>13 DEF PlaceInv

(* The host is done with a task: nobody else has it. *)
LEMMA PlacesDone ==
    ASSUME PlaceInv, CallsOK, HomeOK, queue' = queue, Holds(Host), ~Holds(Host)',
           \A b \in Actors \ {Host} : call'[b] = call[b],
           home' = [home EXCEPT ![Held(Host)] = <<>>]
    PROVE  PlaceInv'
<1>1. \A b \in Actors : Holds(b) => Held(b) \in Tasks
  BY CallFacts DEF Holds, Held
<1>2. \A b \in Actors : Holds(b)' =>
         b # Host /\ Holds(b) /\ Held(b)' = Held(b) /\ call'[b].at = call[b].at
  BY DEF Holds, Held
<1>3. \A b \in Actors : Holds(b)' => Held(b) # Held(Host)
  BY <1>2, ActorFacts DEF PlaceInv
<1>4. \A e \in Directions, v \in Workers, i \in Nat : ~Carries(e, v, i, Held(Host))
  BY ActorFacts DEF PlaceInv
<1>5. \A t \in Tasks : t # Held(Host) => home'[t] = home[t]
  BY DEF HomeOK
<1>6. \A b \in Actors : Holds(b)' => home'[Held(b)'] = call'[b].at
  BY <1>1, <1>2, <1>3, <1>5 DEF PlaceInv
<1>7. \A e \in Directions, v \in Workers, i \in Nat, t \in Tasks : Carries(e, v, i, t)' <=> Carries(e, v, i, t)
  BY DEF Carries
<1>8. \A e \in Directions, v \in Workers, i \in Nat, t \in Tasks : Carries(e, v, i, t)' => home'[t] = v
  BY <1>4, <1>5, <1>7 DEF PlaceInv
<1>9. \A b, c \in Actors : Holds(b)' /\ Holds(c)' /\ Held(b)' = Held(c)' => b = c
  BY <1>2 DEF PlaceInv
<1>10. ASSUME NEW b \in Actors, NEW e \in Directions, NEW v \in Workers, NEW i \in Nat, Holds(b)'
       PROVE  ~Carries(e, v, i, Held(b))'
  <2>1. PICK t \in Tasks : t = Held(b)' /\ t = Held(b) /\ Holds(b)
    BY <1>1, <1>2, <1>10
  <2>2. ~Carries(e, v, i, t)'
    BY <1>7, <2>1 DEF PlaceInv
  <2> QED
    BY <2>1, <2>2 DEF Carries
<1>11. \A e, f \in Directions, v, u \in Workers, i, j \in Nat, t \in Tasks :
         Carries(e, v, i, t)' /\ Carries(f, u, j, t)' => e = f /\ v = u /\ i = j
  <2> SUFFICES ASSUME NEW e \in Directions, NEW f \in Directions, NEW v \in Workers, NEW u \in Workers,
                      NEW i \in Nat, NEW j \in Nat, NEW t \in Tasks,
                      Carries(e, v, i, t)', Carries(f, u, j, t)'
               PROVE  e = f /\ v = u /\ i = j
    OBVIOUS
  <2>1. Carries(e, v, i, t) /\ Carries(f, u, j, t)
    BY <1>7
  <2> QED
    BY <2>1, OnePlace
<1> QED
  BY <1>6, <1>8, <1>9, <1>10, <1>11 DEF PlaceInv

-----------------------------------------------------------------------------
(* Header and Payload are bursts, told apart by their kind. *)
LEMMA BurstTypes ==
    /\ \A t \in Tasks, len \in Lengths :
          /\ Header(t, len) \in Bursts /\ Header(t, len).kind = "header" /\ Header(t, len).task = t
          /\ Header(t, len).bursts = TotalBursts(len) /\ Header(t, len).size = len
    /\ \A t \in Tasks, i \in Nat : Payload(t, i) \in Bursts
    /\ \A t, i : Payload(t, i).kind = "payload"
    /\ \A b \in Bursts : b.kind = "header" => b \in Heads /\ b.task \in Tasks /\ b.size \in Lengths
    /\ Tasks \subseteq Nat
<1>1. \A len \in Lengths : TotalBursts(len) \in Nat
  BY BurstFacts
<1> QED
  BY <1>1 DEF Header, Payload, Bursts, Heads, Tasks

(* A burst sent leads the sender's end of the channel on. *)
LEMMA SendStep ==
    ASSUME TaskInv, NEW a \in Actors, NEW w \in Workers, a # Host => w = a,
           NEW d \in Directions, d = Out(a), NEW b \in Bursts, Enqueue(d, w, b),
           CallsOK', \A x \in Actors \ {a} : call'[x] = call[x], UNCHANGED <<next, count, home>>,
           \A v \in Workers : RecvPoint(a, v)' = RecvPoint(a, v),
           \A v \in Workers \ {w} : SendPoint(a, v)' = SendPoint(a, v),
           NEW r \in Points, Advance(SendPoint(a, w), b, r), SendPoint(a, w)' = r,
           PlaceInv'
    PROVE  TaskInv'
<1>1. QueuesOK /\ HomeOK /\ TurnsOK /\ ChannelInv(d, w)
  BY DEF TaskInv
<1>2. /\ QueuesOK' /\ queue'[d][w] = Append(queue[d][w], b)
      /\ \A e \in Directions, v \in Workers : e # d \/ v # w => queue'[e][v] = queue[e][v]
  BY <1>1, QueueAppend
<1>3. PICK x \in Actors : x = Receiver(d, w) /\ x # a
  BY ActorFacts DEF Receiver, Out
<1>4. Sender(d, w) = a /\ d # In(a)
  BY Ends
<1>5. Linked(RecvPoint(x, w), queue[d][w], SendPoint(a, w)) /\ queue[d][w] \in Seq(Bursts)
  BY <1>1, <1>3, <1>4 DEF ChannelInv, QueuesOK
<1>6. Linked(RecvPoint(x, w), Append(queue[d][w], b), r)
  BY <1>5, LinkedAppend
<1>7. RecvPoint(x, w)' = RecvPoint(x, w)
  BY <1>3 DEF RecvPoint
<1>8. ChannelInv(d, w)'
  BY <1>2, <1>3, <1>4, <1>6, <1>7 DEF ChannelInv
<1>9. \A e \in Directions, v \in Workers : ChannelInv(e, v)'
  BY <1>2, <1>4, <1>8, ChannelsStep
<1>10. HomeOK' /\ TurnsOK'
  BY <1>1 DEF HomeOK, TurnsOK
<1> QED
  BY <1>2, <1>9, <1>10 DEF TaskInv

(* A step of one actor leaves the calls of the others well formed. *)
LEMMA CallStep ==
    ASSUME CallsOK, NEW a \in Actors, NEW c \in Calls, call' = [call EXCEPT ![a] = c]
    PROVE  /\ call'[a] = c /\ \A x \in Actors \ {a} : call'[x] = call[x]
           /\ CallOK(a)' => CallsOK'
<1>1. /\ call' \in [Actors -> Calls] /\ call'[a] = c
      /\ \A x \in Actors \ {a} : call'[x] = call[x]
  BY DEF CallsOK
<1>2. \A x \in Actors \ {a} : CallOK(x)'
  BY <1>1 DEF CallsOK, CallOK
<1> QED
  BY <1>1, <1>2 DEF CallsOK

LEMMA SubmitHeaderKeeps ==
    ASSUME TaskInv, NEW a \in Actors, SubmitHeader(a)
    PROVE  TaskInv'
<1>1. QueuesOK /\ CallsOK /\ PlaceInv
  BY DEF TaskInv
<1>2. PICK t \in Tasks, len \in Lengths, w \in Workers :
         /\ call[a] \in Sending /\ call[a].op = "header" /\ call[a].task = t /\ call[a].len = len
         /\ call[a].at = w /\ call[a].part = 0 /\ (a # Host => w = a)
  BY <1>1, CallFacts DEF SubmitHeader, CallOK
<1>3. PICK b \in Bursts :
         /\ b = Header(t, len) /\ b.kind = "header" /\ b.task = t /\ b.bursts = TotalBursts(len)
         /\ b.size = len
  BY BurstTypes
<1>4. TotalBursts(len) \in Nat \ {0} /\ t \in Nat
  BY BurstTypes, BurstFacts
<1>5. PICK d \in Directions : d = Out(a)
  BY ActorFacts
<1>6. PICK c \in Sending : c = [call[a] EXCEPT !.op = "payload"]
  BY <1>2 DEF Sending
<1>7. c \in Calls /\ c.op = "payload" /\ c.task = t /\ c.len = len /\ c.at = w /\ c.part = 0
  BY <1>2, <1>6 DEF Sending, Calls
<1>8. call' = [call EXCEPT ![a] = c] /\ UNCHANGED <<next, count, home>> /\ Enqueue(d, w, b)
  BY <1>2, <1>3, <1>5, <1>6 DEF SubmitHeader
<1>9. call'[a] = c /\ (\A x \in Actors \ {a} : call'[x] = call[x]) /\ (CallOK(a)' => CallsOK')
  BY <1>1, <1>7, <1>8, CallStep
<1>10. CallsOK'
  BY <1>2, <1>4, <1>7, <1>9 DEF CallOK
<1>11. PlaceInv'
  <2>1. Holds(a) /\ ~Holds(a)' /\ Held(a) = t
    BY <1>2, <1>7, <1>9 DEF Holds, Held
  <2>2. PICK n \in Nat : n = Len(queue[d][w]) + 1
    BY <1>1, LenProperties DEF QueuesOK
  <2>3. \A e \in Directions, v \in Workers, i \in Nat, s \in Tasks :
           Carries(e, v, i, s)' =>
              Carries(e, v, i, s) \/ (e = d /\ v = call[a].at /\ i = n /\ s = Held(a))
    BY <1>1, <1>2, <1>3, <1>8, <2>1, <2>2, QueueAppend
  <2> QED
    BY <1>1, <1>8, <1>9, <2>1, <2>3, PlacesSent
<1>12. /\ \A v \in Workers : RecvPoint(a, v)' = RecvPoint(a, v)
       /\ \A v \in Workers \ {w} : SendPoint(a, v)' = SendPoint(a, v)
       /\ SendPoint(a, w) = Between /\ SendPoint(a, w)' = Point(t, 0, TotalBursts(len))
  BY <1>2, <1>4, <1>7, <1>9 DEF SendPoint, RecvPoint
<1>13. Point(t, 0, TotalBursts(len)) \in Points /\ Advance(Between, b, Point(t, 0, TotalBursts(len)))
  BY <1>3, <1>4, PointFacts DEF Advance
<1> QED
  BY <1>2, <1>5, <1>8, <1>9, <1>10, <1>11, <1>12, <1>13, SendStep

LEMMA SubmitPayloadKeeps ==
    ASSUME TaskInv, NEW a \in Actors, SubmitPayload(a)
    PROVE  TaskInv'
<1>1. QueuesOK /\ CallsOK /\ PlaceInv
  BY DEF TaskInv
<1>2. PICK t \in Tasks, len \in Lengths, w \in Workers, part \in Nat :
         /\ call[a] \in Sending /\ call[a].op = "payload" /\ call[a].task = t /\ call[a].len = len
         /\ call[a].at = w /\ call[a].part = part /\ part < TotalBursts(len) /\ (a # Host => w = a)
  BY <1>1, CallFacts DEF SubmitPayload, CallOK
<1>3. PICK b \in Bursts : b = Payload(t, part) /\ b.kind = "payload"
  BY BurstTypes
<1>4. PICK rest \in Nat : rest = TotalBursts(len) - (part + 1)
  BY <1>2, BurstFacts
<1>5. TotalBursts(len) = rest + (part + 1) /\ t \in Nat /\ part + 1 \in Nat /\ rest + 1 \in Nat
  BY <1>4, BurstTypes, BurstFacts
<1>6. PICK d \in Directions : d = Out(a)
  BY ActorFacts
<1>7. PICK c \in Calls :
         /\ c = IF part + 1 < TotalBursts(len) THEN [call[a] EXCEPT !.part = @ + 1] ELSE Idle
         /\ \/ /\ c.op = "payload" /\ c.task = t /\ c.len = len /\ c.at = w
               /\ c.part = part + 1 /\ rest # 0
            \/ c.op = "idle" /\ rest = 0
  <2>1. CASE part + 1 < TotalBursts(len)
    <3>1. PICK c \in Sending : c = [call[a] EXCEPT !.part = @ + 1]
      BY <1>2, <1>5 DEF Sending
    <3>2. c.op = "payload" /\ c.task = t /\ c.len = len /\ c.at = w /\ c.part = part + 1
      BY <1>2, <3>1 DEF Sending
    <3>3. c \in Calls /\ rest # 0
      BY <1>5, <2>1 DEF Calls
    <3> QED
      BY <2>1, <3>1, <3>2, <3>3, Zenon
  <2>2. CASE ~(part + 1 < TotalBursts(len))
    <3>1. Idle \in Calls /\ Idle.op = "idle"
      BY DEF Calls, Idle
    <3>2. rest = 0
      BY <1>2, <1>5, <2>2
    <3> QED
      BY <2>2, <3>1, <3>2, Zenon
  <2> QED
    BY <2>1, <2>2
<1>8. call' = [call EXCEPT ![a] = c] /\ UNCHANGED <<next, count, home>> /\ Enqueue(d, w, b)
  BY <1>2, <1>3, <1>6, <1>7 DEF SubmitPayload
<1>9. call'[a] = c /\ (\A x \in Actors \ {a} : call'[x] = call[x]) /\ (CallOK(a)' => CallsOK')
  BY <1>1, <1>8, CallStep
<1>10. CallsOK'
  BY <1>2, <1>5, <1>7, <1>9 DEF CallOK
<1>11. PlaceInv'
  <2>1. ~Holds(a) /\ ~Holds(a)'
    BY <1>2, <1>7, <1>9 DEF Holds
  <2>2. \A x \in Actors : /\ Holds(x)' <=> Holds(x)
                          /\ Holds(x) => Held(x)' = Held(x) /\ call'[x].at = call[x].at
    BY <1>9, <2>1 DEF Holds, Held
  <2>3. \A e \in Directions, v \in Workers, i \in Nat, s \in Tasks :
           Carries(e, v, i, s)' => Carries(e, v, i, s)
    BY <1>1, <1>3, <1>8, QueueAppend
  <2>4. \A e \in Directions, v \in Workers, i \in Nat, s \in Tasks :
           Carries(e, v, i, s)' => Carries(e, v, IF e = d /\ v = w THEN i + 0 ELSE i, s)
    BY <2>3
  <2> QED
    BY <1>1, <1>8, <2>2, <2>4, PlacesSame
<1>12. /\ \A v \in Workers : RecvPoint(a, v)' = RecvPoint(a, v)
       /\ \A v \in Workers \ {w} : SendPoint(a, v)' = SendPoint(a, v)
  BY <1>2, <1>7, <1>9 DEF SendPoint, RecvPoint
<1>13. SendPoint(a, w) = Point(t, part, rest + 1)
  <2>1. TotalBursts(len) - part = rest + 1
    BY <1>5
  <2> QED
    BY <1>2, <2>1 DEF SendPoint
<1>14. SendPoint(a, w)' = Point(t, part + 1, rest)
  <2>1. CASE rest = 0
    BY <1>7, <1>9, <2>1 DEF SendPoint, Point
  <2>2. CASE rest # 0
    <3>1. TotalBursts(len) - (part + 1) = rest
      BY <1>5
    <3> QED
      BY <1>7, <1>9, <2>2, <3>1 DEF SendPoint
  <2> QED
    BY <2>1, <2>2
<1>15. PICK p \in Points : p = Point(t, part, rest + 1) /\ p.rest = rest + 1 /\ p.task = t /\ p.part = part
  BY <1>5, PointFacts
<1>16. PICK r \in Points : r = Point(t, part + 1, rest)
  BY <1>5, PointFacts
<1>17. Advance(p, b, r)
  <2>1. p.rest # 0 /\ p.rest - 1 = rest
    BY <1>15
  <2> QED
    BY <1>3, <1>15, <1>16, <2>1 DEF Advance
<1> QED
  BY <1>2, <1>6, <1>8, <1>9, <1>10, <1>11, <1>12, <1>13, <1>14, <1>15, <1>16, <1>17, SendStep

-----------------------------------------------------------------------------
(* What a receiver finds at the front of its channel fits where it is. *)
LEMMA FrontFits ==
    ASSUME TaskInv, NEW a \in Actors, NEW w \in Workers, a # Host => w = a,
           NEW d \in Directions, d = In(a), queue[d][w] # <<>>
    PROVE  /\ Head(queue[d][w]) \in Bursts /\ Head(queue[d][w]) = queue[d][w][1]
           /\ 1 \in 1..Len(queue[d][w])
           /\ \E r \in Points : /\ Advance(RecvPoint(a, w), Head(queue[d][w]), r)
                                /\ Linked(r, Tail(queue[d][w]), SendPoint(Sender(d, w), w))
<1>1. queue[d][w] \in Seq(Bursts) /\ ChannelInv(d, w)
  BY DEF TaskInv, QueuesOK
<1>2. Linked(RecvPoint(a, w), queue[d][w], SendPoint(Sender(d, w), w))
  BY <1>1, Ends DEF ChannelInv
<1>3. Len(queue[d][w]) \in Nat \ {0}
  BY <1>1, EmptySeq
<1>4. Head(queue[d][w]) \in Bursts /\ Head(queue[d][w]) = queue[d][w][1]
  BY <1>1, HeadTailProperties
<1> QED
  BY <1>1, <1>2, <1>3, <1>4, LinkedTail

(* A burst taken leads the receiver's end of the channel on. *)
LEMMA RecvStep ==
    ASSUME TaskInv, NEW a \in Actors, NEW w \in Workers, a # Host => w = a,
           NEW d \in Directions, d = In(a), queue[d][w] # <<>>,
           queue' = [queue EXCEPT ![d][w] = Tail(@)],
           CallsOK', \A x \in Actors \ {a} : call'[x] = call[x], HomeOK', TurnsOK', PlaceInv',
           \A v \in Workers : SendPoint(a, v)' = SendPoint(a, v),
           \A v \in Workers \ {w} : RecvPoint(a, v)' = RecvPoint(a, v),
           Linked(RecvPoint(a, w)', Tail(queue[d][w]), SendPoint(Sender(d, w), w))
    PROVE  TaskInv'
<1>1. QueuesOK
  BY DEF TaskInv
<1>2. /\ QueuesOK' /\ queue'[d][w] = Tail(queue[d][w])
      /\ \A e \in Directions, v \in Workers : e # d \/ v # w => queue'[e][v] = queue[e][v]
  <2>1. QueuesOK /\ queue[d][w] # <<>> /\ queue' = [queue EXCEPT ![d][w] = Tail(@)] => QueuesOK'
    BY QueueTail
  <2>2. queue'[d][w] = Tail(queue[d][w])
    BY <1>1, QueueTail
  <2>3. \A e \in Directions, v \in Workers : e # d \/ v # w => queue'[e][v] = queue[e][v]
    BY <1>1, QueueTail
  <2> QED
    BY <1>1, <2>1, <2>2, <2>3
<1>3. PICK x \in Actors : x = Sender(d, w) /\ x # a
  BY ActorFacts DEF Sender, In
<1>4. Receiver(d, w) = a /\ d # Out(a)
  BY Ends
<1>5. SendPoint(x, w)' = SendPoint(x, w)
  BY <1>3 DEF SendPoint
<1>6. ChannelInv(d, w)'
  BY <1>2, <1>3, <1>4, <1>5 DEF ChannelInv
<1>7. \A e \in Directions, v \in Workers : ChannelInv(e, v)'
  BY <1>2, <1>4, <1>6, ChannelsStep
<1> QED
  BY <1>2, <1>7 DEF TaskInv

LEMMA RecvHeaderKeeps ==
    ASSUME TaskInv, NEW a \in Actors, NEW w \in Workers, a # Host => w = a,
           call[a].op \in {"idle", "poll"}, RecvHeader(a, w), TurnsOK', UNCHANGED <<count, home>>
    PROVE  TaskInv'
<1>1. QueuesOK /\ CallsOK /\ PlaceInv /\ HomeOK
  BY DEF TaskInv
<1>2. PICK d \in Directions : d = In(a)
  BY ActorFacts
<1>3. queue[d][w] # <<>> /\ queue' = [queue EXCEPT ![d][w] = Tail(@)]
  BY <1>2 DEF RecvHeader
<1>4. PICK b \in Bursts, r \in Points :
         /\ b = Head(queue[d][w]) /\ b = queue[d][w][1] /\ 1 \in 1..Len(queue[d][w])
         /\ Advance(RecvPoint(a, w), b, r) /\ Linked(r, Tail(queue[d][w]), SendPoint(Sender(d, w), w))
  BY <1>2, <1>3, FrontFits
<1>5. RecvPoint(a, w) = Between /\ Between.rest = 0
  BY DEF RecvPoint, Between
<1>6. /\ b.kind = "header" /\ b.bursts = TotalBursts(b.size) /\ r = Point(b.task, 0, b.bursts)
      /\ b \in Heads /\ b.task \in Tasks /\ b.size \in Lengths
  <2>1. b.kind = "header" /\ b.bursts = TotalBursts(b.size) /\ r = Point(b.task, 0, b.bursts)
    BY <1>4, <1>5 DEF Advance
  <2> QED
    BY <2>1, BurstTypes
<1>7. TotalBursts(b.size) \in Nat \ {0}
  BY <1>6, BurstFacts
<1>8. PICK c \in Taking : c = [op |-> "body", at |-> w, buf |-> <<>>, head |-> b]
  <2>1. <<>> \in Seq(Bursts)
    BY EmptySeq
  <2> QED
    BY <1>6, <2>1 DEF Taking
<1>9. c \in Calls /\ c.op = "body" /\ c.at = w /\ c.buf = <<>> /\ c.head = b /\ Len(c.buf) = 0
  BY <1>8 DEF Calls
<1>10. call' = [call EXCEPT ![a] = c]
  BY <1>2, <1>4, <1>8 DEF RecvHeader
<1>11. call'[a] = c /\ (\A x \in Actors \ {a} : call'[x] = call[x]) /\ (CallOK(a)' => CallsOK')
  BY <1>1, <1>9, <1>10, CallStep
<1>12. CallsOK'
  BY <1>6, <1>7, <1>9, <1>11 DEF CallOK
<1>13. PlaceInv'
  <2>1. ~Holds(a) /\ Holds(a)' /\ Held(a)' = b.task /\ call'[a].at = w
    BY <1>9, <1>11 DEF Holds, Held
  <2>2. Carries(d, w, 1, b.task)
    BY <1>4, <1>6 DEF Carries
  <2>3. /\ \A e \in Directions, v \in Workers, i \in Nat, t \in Tasks :
              e # d \/ v # w => (Carries(e, v, i, t)' => Carries(e, v, i, t))
        /\ \A i \in Nat, t \in Tasks : Carries(d, w, i, t)' => Carries(d, w, i + 1, t) /\ i # 0
    BY <1>1, <1>3, QueueTail
  <2> QED
    BY <1>1, <1>6, <1>11, <2>1, <2>2, <2>3, PlacesTaken
<1>14. /\ \A v \in Workers : SendPoint(a, v)' = SendPoint(a, v)
       /\ \A v \in Workers \ {w} : RecvPoint(a, v)' = RecvPoint(a, v)
  BY <1>9, <1>11 DEF SendPoint, RecvPoint
<1>15. RecvPoint(a, w)' = r
  <2>1. b.bursts - 0 = b.bursts
    BY <1>6, <1>7
  <2> QED
    BY <1>6, <1>9, <1>11, <2>1 DEF RecvPoint
<1>16. HomeOK'
  BY <1>1 DEF HomeOK
<1> QED
  BY <1>2, <1>3, <1>4, <1>11, <1>12, <1>13, <1>14, <1>15, <1>16, RecvStep

LEMMA RecvPayloadKeeps ==
    ASSUME TaskInv, NEW a \in Actors, RecvPayload(a)
    PROVE  TaskInv'
<1>1. QueuesOK /\ CallsOK /\ PlaceInv /\ HomeOK /\ TurnsOK
  BY DEF TaskInv
<1>2. PICK h \in Heads, buf \in Seq(Bursts), w \in Workers :
         /\ call[a] \in Taking /\ call[a].op = "body" /\ call[a].head = h /\ call[a].buf = buf
         /\ call[a].at = w /\ (a # Host => w = a) /\ h.task \in Tasks /\ h.size \in Lengths
         /\ h.bursts = TotalBursts(h.size)
         /\ \A i \in 1..Len(buf) : buf[i] = Payload(h.task, i - 1)
  BY <1>1, CallFacts DEF RecvPayload, CallOK
<1>3. PICK n \in Nat, k \in Nat : n = Len(buf) /\ k = h.bursts /\ n < k
  <2>1. Len(buf) \in Nat /\ h.bursts \in Nat
    BY <1>2, LenProperties DEF Heads
  <2> QED
    BY <1>2, <2>1 DEF RecvPayload
<1>4. PICK t \in Nat : t = h.task
  BY <1>2, BurstTypes
<1>5. PICK d \in Directions : d = In(a)
  BY ActorFacts
<1>6. queue[d][w] # <<>> /\ queue' = [queue EXCEPT ![d][w] = Tail(@)] /\ UNCHANGED <<next, count, home>>
  BY <1>2, <1>5 DEF RecvPayload
<1>7. PICK b \in Bursts, r \in Points :
         /\ b = Head(queue[d][w]) /\ Advance(RecvPoint(a, w), b, r)
         /\ Linked(r, Tail(queue[d][w]), SendPoint(Sender(d, w), w))
  BY <1>2, <1>5, <1>6, FrontFits
<1>8. RecvPoint(a, w) = Point(t, n, k - n)
  BY <1>2, <1>3, <1>4 DEF RecvPoint
<1>9. PICK p \in Points : p = Point(t, n, k - n) /\ p.rest = k - n /\ p.task = t /\ p.part = n
  <2>1. PICK m \in Nat : m = k - n /\ m # 0
    BY <1>3
  <2>2. Point(t, n, m) \in Points /\ Point(t, n, m).rest = m /\ Point(t, n, m).task = t /\ Point(t, n, m).part = n
    BY <2>1, PointFacts
  <2> QED
    BY <2>1, <2>2
<1>10. b = Payload(t, n) /\ r = Point(t, n + 1, k - (n + 1))
  <2>1. p.rest # 0 /\ p.rest - 1 = k - (n + 1)
    BY <1>3, <1>9
  <2> QED
    BY <1>7, <1>8, <1>9, <2>1 DEF Advance
<1>11. PICK bb \in Seq(Bursts) :
          /\ bb = Append(buf, b) /\ Len(bb) = n + 1 /\ bb[n + 1] = b
          /\ \A i \in 1..n : bb[i] = buf[i]
  <2>1. /\ Append(buf, b) \in Seq(Bursts) /\ Len(Append(buf, b)) = Len(buf) + 1
        /\ \A i \in 1..Len(buf) : Append(buf, b)[i] = buf[i]
        /\ Append(buf, b)[Len(buf) + 1] = b
    BY AppendProperties
  <2> QED
    BY <1>3, <2>1
<1>12. \A i \in 1..Len(bb) : bb[i] = Payload(h.task, i - 1)
  <2> SUFFICES ASSUME NEW i \in 1..(n + 1) PROVE bb[i] = Payload(t, i - 1)
    BY <1>4, <1>11
  <2>1. CASE i = n + 1
    <3>1. i - 1 = n
      BY <2>1
    <3> QED
      BY <1>10, <1>11, <2>1, <3>1
  <2>2. CASE i \in 1..n
    BY <1>2, <1>3, <1>4, <1>11, <2>2
  <2> QED
    BY <2>1, <2>2
<1>13. PICK c \in Taking : c = [call[a] EXCEPT !.buf = bb]
  BY <1>2 DEF Taking
<1>14. c \in Calls /\ c.op = "body" /\ c.at = w /\ c.buf = bb /\ c.head = h
  BY <1>2, <1>13 DEF Calls, Taking
<1>15. call' = [call EXCEPT ![a] = c]
  BY <1>2, <1>5, <1>7, <1>11, <1>13 DEF RecvPayload
<1>16. call'[a] = c /\ (\A x \in Actors \ {a} : call'[x] = call[x]) /\ (CallOK(a)' => CallsOK')
  BY <1>1, <1>14, <1>15, CallStep
<1>17. CallsOK'
  <2>1. Len(bb) <= h.bursts
    BY <1>3, <1>11
  <2> QED
    BY <1>2, <1>12, <1>14, <1>16, <2>1 DEF CallOK
<1>18. PlaceInv'
  <2>1. \A x \in Actors : /\ Holds(x)' <=> Holds(x)
                          /\ Holds(x) => Held(x)' = Held(x) /\ call'[x].at = call[x].at
    BY <1>2, <1>14, <1>16 DEF Holds, Held
  <2>2. /\ \A e \in Directions, v \in Workers, i \in Nat, s \in Tasks :
              e # d \/ v # w => (Carries(e, v, i, s)' => Carries(e, v, i, s))
        /\ \A i \in Nat, s \in Tasks : Carries(d, w, i, s)' => Carries(d, w, i + 1, s)
    BY <1>1, <1>6, QueueTail
  <2>3. \A e \in Directions, v \in Workers, i \in Nat, s \in Tasks :
           Carries(e, v, i, s)' => Carries(e, v, IF e = d /\ v = w THEN i + 1 ELSE i, s)
    BY <2>2
  <2> QED
    BY <1>1, <1>6, <2>1, <2>3, PlacesSame
<1>19. /\ \A v \in Workers : SendPoint(a, v)' = SendPoint(a, v)
       /\ \A v \in Workers \ {w} : RecvPoint(a, v)' = RecvPoint(a, v)
  BY <1>2, <1>14, <1>16 DEF SendPoint, RecvPoint
<1>20. RecvPoint(a, w)' = r
  BY <1>3, <1>4, <1>10, <1>11, <1>14, <1>16 DEF RecvPoint
<1>21. HomeOK' /\ TurnsOK'
  BY <1>1, <1>6 DEF HomeOK, TurnsOK
<1> QED
  BY <1>2, <1>5, <1>6, <1>7, <1>16, <1>17, <1>18, <1>19, <1>20, <1>21, RecvStep

-----------------------------------------------------------------------------
(* Steps that move no burst: the call of one actor changes, not the points *)
(* it is at.                                                               *)
LEMMA CallOnly ==
    ASSUME TaskInv, queue' = queue, NEW a \in Actors, \A x \in Actors \ {a} : call'[x] = call[x],
           call[a].op \in {"idle", "poll"} \/ Received(a),
           call'[a].op \in {"idle", "poll", "header", "astray"},
           CallsOK', HomeOK', TurnsOK', PlaceInv'
    PROVE  TaskInv'
<1>1. QueuesOK'
  BY DEF TaskInv, QueuesOK
<1>2. \A v \in Workers : SendPoint(a, v) = Between /\ SendPoint(a, v)' = Between /\ RecvPoint(a, v)' = Between
  BY DEF SendPoint, RecvPoint, Received
<1>3. \A v \in Workers : RecvPoint(a, v) = Between
  <2>1. CASE call[a].op \in {"idle", "poll"}
    BY <2>1 DEF RecvPoint
  <2>2. CASE Received(a)
    <3>1. Len(call[a].buf) \in Nat /\ call[a].head.bursts = Len(call[a].buf)
      BY <2>2, CallFacts DEF TaskInv, Received
    <3>2. call[a].head.bursts - Len(call[a].buf) = 0
      BY <3>1
    <3> QED
      BY <3>2 DEF RecvPoint, Point
  <2> QED
    BY <2>1, <2>2
<1>4. \A b \in Actors, v \in Workers : /\ SendPoint(b, v)' = SendPoint(b, v)
                                       /\ RecvPoint(b, v)' = RecvPoint(b, v)
  <2>1. \A b \in Actors \ {a}, v \in Workers : /\ SendPoint(b, v)' = SendPoint(b, v)
                                              /\ RecvPoint(b, v)' = RecvPoint(b, v)
    BY DEF SendPoint, RecvPoint
  <2> QED
    BY <1>2, <1>3, <2>1
<1>5. \A e \in Directions, v \in Workers : ChannelInv(e, v)'
  BY <1>4, ChannelsSame
<1> QED
  BY <1>1, <1>5 DEF TaskInv

(* A counter stays one, whether it overflows or not, and what it leads to, *)
(* as long as it is not below 0, is there.                                 *)
LEMMA TurnFacts ==
    /\ Len(ActiveSockets) \in Nat \ {0} /\ MaxChannels \in Nat \ {0}
    /\ \A m \in Nat \ {0} : Zero \in Counters(m)
    /\ \A m \in Nat \ {0} : \A c \in Counters(m) : Incremented(c, m) \subseteq Counters(m)
    /\ \A c \in Counters(MaxChannels) : Remainder(c) >= 0 => Remainder(c) \in Channels
    /\ \A c \in Counters(Len(ActiveSockets)) : SocketsAt(Remainder(c)) \subseteq Sockets
    /\ \A id \in TaskIds : <<id \div 10, id % 10>> \in Workers
    /\ Channels \subseteq Nat
<1>1. Len(ActiveSockets) \in Nat \ {0} /\ MaxChannels \in Nat \ {0}
  BY TaskAssumption, EmptySeq
<1>2. \A m \in Nat \ {0}, i \in Int : i % m \in 0..(m - 1)
  OBVIOUS
<1>3. ASSUME NEW m \in Nat \ {0} PROVE Zero \in Counters(m)
  BY DEF Zero, Counters
<1>4. ASSUME NEW m \in Nat \ {0}, NEW c \in Counters(m), NEW d \in Incremented(c, m)
      PROVE  d \in Counters(m)
  <2>1. c.neg \in BOOLEAN /\ c.rem \in 0..(m - 1)
    BY DEF Counters
  <2>2. (c.rem - 1) % m \in 0..(m - 1) /\ (c.rem + 1) % m \in 0..(m - 1)
    <3>1. c.rem - 1 \in Int /\ c.rem + 1 \in Int
      BY <2>1
    <3> QED
      BY <1>2, <3>1, Zenon
  <2>3. \A n \in 0..(m - 1) : [c EXCEPT !.rem = n] \in Counters(m) /\ [neg |-> TRUE, rem |-> n] \in Counters(m)
    BY DEF Counters
  <2>4. \/ d = [c EXCEPT !.rem = (c.rem - 1) % m] \/ d = Zero
        \/ d = [c EXCEPT !.rem = (c.rem + 1) % m] \/ d = [neg |-> TRUE, rem |-> (c.rem + 1) % m]
    BY <1>4 DEF Incremented
  <2> QED
    BY <1>3, <2>2, <2>3, <2>4
<1>5. \A c \in Counters(MaxChannels) : Remainder(c) >= 0 => Remainder(c) \in Channels
  BY <1>1 DEF Counters, Remainder, Channels
<1>6. ASSUME NEW c \in Counters(Len(ActiveSockets)) PROVE SocketsAt(Remainder(c)) \subseteq Sockets
  <2>1. Remainder(c) < 0 \/ Remainder(c) \in 0..(Len(ActiveSockets) - 1)
    BY <1>1 DEF Counters, Remainder
  <2>2. \A i \in 0..(Len(ActiveSockets) - 1) : ActiveSockets[i + 1] \in Sockets
    BY <1>1, TaskAssumption DEF Sockets, ToSet
  <2> QED
    BY <2>1, <2>2 DEF SocketsAt
<1>7. \A id \in TaskIds : <<id \div 10, id % 10>> \in Workers
  BY TaskAssumption, Zenon DEF Workers, Sockets, Channels
<1>8. Channels \subseteq Nat
  BY DEF Channels
<1> QED
  BY <1>1, <1>3, <1>4, <1>5, <1>6, <1>7, <1>8

(* The calls begun by these steps. *)
LEMMA NewCalls ==
    /\ Idle \in Calls /\ Idle.op = "idle"
    /\ [op |-> "poll"] \in Calls /\ [op |-> "poll"].op = "poll"
    /\ Astray \in Calls /\ Astray.op = "astray"
    /\ \A t \in Tasks, len \in Lengths, w \in Workers :
          /\ Submitting(t, len, w) \in Calls /\ Submitting(t, len, w).op = "header"
          /\ Submitting(t, len, w).task = t /\ Submitting(t, len, w).len = len
          /\ Submitting(t, len, w).at = w /\ Submitting(t, len, w).part = 0
<1>1. \A t \in Tasks, len \in Lengths, w \in Workers : Submitting(t, len, w) \in Sending
  BY DEF Submitting, Sending
<1>2. Idle \in Calls /\ [op |-> "poll"] \in Calls /\ Astray \in Calls
  BY DEF Idle, Astray, Calls
<1>3. \A x \in Sending : x \in Calls
  BY DEF Calls
<1> QED
  BY <1>1, <1>2, <1>3 DEF Submitting, Idle, Astray

(* An index below 0: the host is in no call that the channels know of.     *)
LEMMA AstrayKeeps ==
    ASSUME TaskInv, call[Host].op \in {"idle", "poll"}, call' = [call EXCEPT ![Host] = Astray],
           TurnsOK', UNCHANGED <<queue, count, home>>
    PROVE  TaskInv'
<1>1. CallsOK /\ PlaceInv /\ HomeOK /\ Host \in Actors
  BY ActorFacts DEF TaskInv
<1>2. PICK c \in Calls : c = Astray /\ c.op = "astray"
  BY NewCalls
<1>3. call' = [call EXCEPT ![Host] = c]
  BY <1>2
<1>4. call'[Host] = c /\ (\A x \in Actors \ {Host} : call'[x] = call[x]) /\ (CallOK(Host)' => CallsOK')
  BY <1>1, <1>3, CallStep
<1>5. CallsOK' /\ HomeOK'
  BY <1>1, <1>2, <1>3, <1>4 DEF CallOK, HomeOK
<1>6. PlaceInv'
  <2>1. \A x \in Actors : /\ Holds(x)' <=> Holds(x)
                          /\ Holds(x) => Held(x)' = Held(x) /\ call'[x].at = call[x].at
    BY <1>2, <1>3, <1>4 DEF Holds, Held
  <2>2. \A e \in Directions, v \in Workers, i \in Nat, s \in Tasks :
           Carries(e, v, i, s)' => Carries(e, v, IF e = 0 /\ v = 0 THEN i + 0 ELSE i, s)
    BY DEF Carries
  <2> QED
    BY <1>1, <1>3, <2>1, <2>2, PlacesSame
<1> QED
  BY <1>1, <1>2, <1>3, <1>4, <1>5, <1>6, CallOnly

(* A new task, at a worker that is there. *)
LEMMA NewTaskKeeps ==
    ASSUME TaskInv, NEW len \in Lengths, NEW w \in Workers,
           call[Host] = Idle, count < MaxTasks, queue' = queue, TurnsOK', count' = count + 1,
           call' = [call EXCEPT ![Host] = Submitting(count + 1, len, w)],
           home' = [home EXCEPT ![count + 1] = w]
    PROVE  TaskInv'
<1>1. QueuesOK /\ CallsOK /\ PlaceInv /\ HomeOK /\ TurnsOK /\ Host \in Actors
  BY ActorFacts DEF TaskInv
<1>2. PICK s : s = count + 1
  OBVIOUS
<1>7. s \in Tasks /\ s > count /\ count \in Nat
  BY <1>1, <1>2, TaskAssumption DEF HomeOK, Tasks
<1>8. PICK c \in Calls : /\ c = Submitting(s, len, w) /\ c.op = "header" /\ c.task = s
                         /\ c.len = len /\ c.at = w /\ c.part = 0
  BY <1>7, NewCalls
<1>9. call' = [call EXCEPT ![Host] = c]
  BY <1>2, <1>8
<1>10. call'[Host] = c /\ (\A x \in Actors \ {Host} : call'[x] = call[x]) /\ (CallOK(Host)' => CallsOK')
  BY <1>1, <1>9, CallStep
<1>11. CallsOK'
  BY <1>8, <1>10 DEF CallOK
<1>12. HomeOK'
  <2>1. count' \in 0..MaxTasks
    BY <1>2, <1>7, TaskAssumption DEF Tasks
  <2>2. home' \in [Tasks -> Workers \cup {<<>>}]
    BY <1>1, <1>2, <1>7 DEF HomeOK
  <2>3. ASSUME NEW t \in Tasks, home'[t] # <<>> PROVE t <= count'
    <3>1. t = s \/ home'[t] = home[t]
      BY <1>1, <1>2 DEF HomeOK
    <3>2. t = s \/ t <= count
      BY <1>1, <2>3, <3>1 DEF HomeOK
    <3> QED
      BY <1>2, <1>7, <3>2 DEF Tasks
  <2> QED
    BY <2>1, <2>2, <2>3 DEF HomeOK
<1>14. PlaceInv'
  <2>1. ~Holds(Host) /\ Holds(Host)' /\ Held(Host)' = s /\ call'[Host].at = w
    BY <1>8, <1>10 DEF Holds, Held, Idle
  <2>2. home' = [home EXCEPT ![s] = call'[Host].at]
    BY <1>2, <1>8, <2>1
  <2> QED
    BY <1>1, <1>7, <1>10, <2>1, <2>2, PlacesNew
<1>15. call[Host].op = "idle" /\ call'[Host].op = "header"
  BY <1>8, <1>10 DEF Idle
<1> QED
  BY <1>1, <1>10, <1>11, <1>12, <1>14, <1>15, CallOnly

LEMMA HostSubmitKeeps ==
    ASSUME TaskInv, NEW id \in TaskIds \cup {-1}, NEW len \in Lengths, HostSubmit(id, len)
    PROVE  TaskInv'
<1>1. QueuesOK /\ CallsOK /\ PlaceInv /\ HomeOK /\ TurnsOK /\ Host \in Actors
  BY ActorFacts DEF TaskInv
<1>2. PICK channel, c, n :
         /\ channel = IF id < 0 THEN Remainder(next.submitChannel) ELSE id % 10
         /\ c \in IF id < 0 THEN Incremented(next.submitChannel, MaxChannels) ELSE {next.submitChannel}
         /\ n \in IF channel = 0 THEN Incremented(next.submitSocket, Len(ActiveSockets))
                                ELSE {next.submitSocket}
         /\ next' = [next EXCEPT !.submitChannel = c, !.submitSocket = n]
         /\ \/ /\ channel >= 0
               /\ \E socket \in IF id < 0 THEN SocketsAt(Remainder(n)) ELSE {id \div 10} :
                    /\ call' = [call EXCEPT ![Host] = Submitting(count + 1, len, <<socket, channel>>)]
                    /\ home' = [home EXCEPT ![count + 1] = <<socket, channel>>]
               /\ count' = count + 1
            \/ call' = [call EXCEPT ![Host] = Astray] /\ UNCHANGED <<count, home>>
  BY DEF HostSubmit
<1>3. call[Host] = Idle /\ call[Host].op = "idle" /\ count < MaxTasks /\ queue' = queue
  BY DEF HostSubmit, Idle
<1>4. c \in Counters(MaxChannels) /\ n \in Counters(Len(ActiveSockets)) /\ TurnsOK'
  <2>1. c \in Counters(MaxChannels) /\ n \in Counters(Len(ActiveSockets))
    BY <1>1, <1>2, TurnFacts DEF TurnsOK
  <2> QED
    BY <1>1, <1>2, <2>1 DEF TurnsOK
<1>5. CASE call' = [call EXCEPT ![Host] = Astray] /\ UNCHANGED <<count, home>>
  BY <1>3, <1>4, <1>5, AstrayKeeps
<1>6. ASSUME channel >= 0, count' = count + 1,
             NEW socket \in IF id < 0 THEN SocketsAt(Remainder(n)) ELSE {id \div 10},
             call' = [call EXCEPT ![Host] = Submitting(count + 1, len, <<socket, channel>>)],
             home' = [home EXCEPT ![count + 1] = <<socket, channel>>]
      PROVE  TaskInv'
  <2>1. <<socket, channel>> \in Workers
    <3>1. CASE id < 0
      <4>1. socket \in Sockets
        BY <1>4, <1>6, <3>1, TurnFacts
      <4>2. channel \in Channels
        BY <1>1, <1>2, <1>6, <3>1, TurnFacts DEF TurnsOK
      <4> QED
        BY <4>1, <4>2 DEF Workers
    <3>2. CASE ~(id < 0)
      <4>1. id \in TaskIds
        BY <3>2
      <4> QED
        BY <1>2, <1>6, <3>2, <4>1, TurnFacts
    <3> QED
      BY <3>1, <3>2
  <2> QED
    BY <1>3, <1>4, <1>6, <2>1, NewTaskKeeps
<1> QED
  BY <1>2, <1>5, <1>6

LEMMA HostRecvKeeps ==
    ASSUME TaskInv, HostRecv
    PROVE  TaskInv'
<1>1. CallsOK /\ PlaceInv /\ HomeOK /\ TurnsOK /\ Host \in Actors
  BY ActorFacts DEF TaskInv
<1>2. PICK c \in Calls : c = [op |-> "poll"] /\ c.op = "poll"
  BY NewCalls
<1>3. /\ call' = [call EXCEPT ![Host] = c] /\ UNCHANGED <<queue, next, count, home>>
      /\ call[Host].op = "idle"
  BY <1>2 DEF HostRecv, Idle
<1>4. call'[Host] = c /\ (\A x \in Actors \ {Host} : call'[x] = call[x]) /\ (CallOK(Host)' => CallsOK')
  BY <1>1, <1>3, CallStep
<1>5. CallsOK' /\ HomeOK' /\ TurnsOK'
  BY <1>1, <1>2, <1>3, <1>4 DEF CallOK, HomeOK, TurnsOK
<1>6. PlaceInv'
  <2>1. \A x \in Actors : /\ Holds(x)' <=> Holds(x)
                          /\ Holds(x) => Held(x)' = Held(x) /\ call'[x].at = call[x].at
    BY <1>2, <1>3, <1>4 DEF Holds, Held
  <2>2. \A e \in Directions, v \in Workers, i \in Nat, s \in Tasks :
           Carries(e, v, i, s)' => Carries(e, v, IF e = 0 /\ v = 0 THEN i + 0 ELSE i, s)
    BY <1>3 DEF Carries
  <2> QED
    BY <1>1, <1>3, <2>1, <2>2, PlacesSame
<1> QED
  BY <1>1, <1>2, <1>3, <1>4, <1>5, <1>6, CallOnly

LEMMA HostPollKeeps ==
    ASSUME TaskInv, HostPoll
    PROVE  TaskInv'
<1>1. CallsOK /\ PlaceInv /\ HomeOK /\ TurnsOK /\ Host \in Actors
  BY ActorFacts DEF TaskInv
<1>2. PICK channel, c, n :
         /\ channel = Remainder(next.recvChannel)
         /\ c \in Incremented(next.recvChannel, MaxChannels)
         /\ n \in IF channel = 0 THEN Incremented(next.recvSocket, Len(ActiveSockets)) ELSE {next.recvSocket}
         /\ next' = [next EXCEPT !.recvChannel = c, !.recvSocket = n]
         /\ \/ channel >= 0 /\ \E socket \in SocketsAt(Remainder(n)) : RecvHeader(Host, <<socket, channel>>)
            \/ UNCHANGED <<queue, call>>
            \/ call' = [call EXCEPT ![Host] = Astray] /\ UNCHANGED queue
  BY DEF HostPoll
<1>3. call[Host].op = "poll" /\ count' = count /\ home' = home
  BY DEF HostPoll
<1>4. c \in Counters(MaxChannels) /\ n \in Counters(Len(ActiveSockets)) /\ TurnsOK'
  <2>1. c \in Counters(MaxChannels) /\ n \in Counters(Len(ActiveSockets))
    BY <1>1, <1>2, TurnFacts DEF TurnsOK
  <2> QED
    BY <1>1, <1>2, <2>1 DEF TurnsOK
<1>5. CASE call' = [call EXCEPT ![Host] = Astray] /\ UNCHANGED queue
  BY <1>3, <1>4, <1>5, AstrayKeeps
<1>6. ASSUME channel >= 0, NEW socket \in SocketsAt(Remainder(n)), RecvHeader(Host, <<socket, channel>>)
      PROVE  TaskInv'
  <2>1. socket \in Sockets /\ channel \in Channels
    BY <1>1, <1>2, <1>4, <1>6, TurnFacts DEF TurnsOK
  <2>2. <<socket, channel>> \in Workers
    BY <2>1 DEF Workers
  <2> QED
    BY <1>1, <1>3, <1>4, <1>6, <2>2, RecvHeaderKeeps
<1>7. CASE UNCHANGED <<queue, call>>
  <2>1. CallsOK' /\ HomeOK'
    BY <1>1, <1>3, <1>7 DEF CallsOK, CallOK, HomeOK
  <2>2. PlaceInv'
    BY <1>1, <1>3, <1>7 DEF PlaceInv, Holds, Held, Carries
  <2> QED
    BY <1>1, <1>3, <1>4, <1>7, <2>1, <2>2, CallOnly
<1> QED
  BY <1>2, <1>5, <1>6, <1>7

LEMMA HostReturnKeeps ==
    ASSUME TaskInv, HostReturn
    PROVE  TaskInv'
<1>1. CallsOK /\ PlaceInv /\ HomeOK /\ TurnsOK /\ Host \in Actors
  BY ActorFacts DEF TaskInv
<1>2. PICK t \in Tasks : t = call[Host].head.task /\ call[Host].op = "body"
  BY <1>1, CallFacts DEF HostReturn, Received
<1>3. PICK c \in Calls : c = Idle /\ c.op = "idle"
  BY NewCalls
<1>4. /\ call' = [call EXCEPT ![Host] = c] /\ UNCHANGED <<queue, next, count>>
      /\ home' = [home EXCEPT ![t] = <<>>] /\ Received(Host)
  BY <1>2, <1>3 DEF HostReturn
<1>5. call'[Host] = c /\ (\A x \in Actors \ {Host} : call'[x] = call[x]) /\ (CallOK(Host)' => CallsOK')
  BY <1>1, <1>4, CallStep
<1>6. CallsOK' /\ HomeOK' /\ TurnsOK'
  BY <1>1, <1>3, <1>4, <1>5 DEF CallOK, HomeOK, TurnsOK
<1>7. PlaceInv'
  <2>1. Holds(Host) /\ Held(Host) = t /\ ~Holds(Host)'
    BY <1>2, <1>3, <1>5 DEF Holds, Held
  <2> QED
    BY <1>1, <1>4, <1>5, <2>1, PlacesDone
<1> QED
  BY <1>1, <1>3, <1>4, <1>5, <1>6, <1>7, CallOnly

LEMMA WorkerReplyKeeps ==
    ASSUME TaskInv, NEW w \in Workers, NEW len \in Lengths, WorkerReply(w, len)
    PROVE  TaskInv'
<1>1. CallsOK /\ PlaceInv /\ HomeOK /\ TurnsOK /\ w \in Actors
  BY ActorFacts DEF TaskInv
<1>2. PICK t \in Tasks : t = call[w].head.task /\ call[w].op = "body" /\ call[w].at = w
  BY <1>1, CallFacts, ActorFacts DEF WorkerReply, Received, CallOK
<1>3. PICK c \in Calls : /\ c = Submitting(t, len, w) /\ c.op = "header" /\ c.task = t
                         /\ c.len = len /\ c.at = w /\ c.part = 0
  BY NewCalls
<1>4. call' = [call EXCEPT ![w] = c] /\ UNCHANGED <<queue, next, count, home>> /\ Received(w)
  BY <1>2, <1>3 DEF WorkerReply
<1>5. call'[w] = c /\ (\A x \in Actors \ {w} : call'[x] = call[x]) /\ (CallOK(w)' => CallsOK')
  BY <1>1, <1>4, CallStep
<1>6. CallsOK' /\ HomeOK' /\ TurnsOK'
  BY <1>1, <1>3, <1>4, <1>5 DEF CallOK, HomeOK, TurnsOK
<1>7. PlaceInv'
  <2>1. \A x \in Actors : /\ Holds(x)' <=> Holds(x)
                          /\ Holds(x) => Held(x)' = Held(x) /\ call'[x].at = call[x].at
    BY <1>2, <1>3, <1>5 DEF Holds, Held
  <2>2. \A e \in Directions, v \in Workers, i \in Nat, s \in Tasks :
           Carries(e, v, i, s)' => Carries(e, v, IF e = 0 /\ v = 0 THEN i + 0 ELSE i, s)
    BY <1>4 DEF Carries
  <2> QED
    BY <1>1, <1>4, <2>1, <2>2, PlacesSame
<1> QED
  BY <1>1, <1>3, <1>4, <1>5, <1>6, <1>7, CallOnly

-----------------------------------------------------------------------------
(***************************************************************************)
(* On every channel the bursts under way lead from where the receiver is   *)
(* to where the sender is, and every task not answered is in one place.    *)
(***************************************************************************)
THEOREM TaskInvariant == Spec => []TaskInv
<1>1. Init => TaskInv
  <2> SUFFICES ASSUME Init PROVE TaskInv
    OBVIOUS
  <2>1. QueuesOK
    <3>1. <<>> \in Seq(Bursts) /\ Len(<<>>) = 0
      BY EmptySeq
    <3> QED
      BY <3>1, BurstFacts DEF Init, QueuesOK
  <2>2. CallsOK
    BY DEF Init, CallsOK, CallOK, Calls, Idle
  <2>3. HomeOK
    BY TaskAssumption DEF Init, HomeOK
  <2>4. TurnsOK
    BY TurnFacts DEF Init, TurnsOK, Channels
  <2>5. /\ \A a \in Actors : ~Holds(a)
        /\ \A d \in Directions, w \in Workers, i \in Nat, t \in Tasks : ~Carries(d, w, i, t)
    BY DEF Init, Holds, Idle, Carries
  <2>6. PlaceInv
    BY <2>5 DEF PlaceInv
  <2>7. ASSUME NEW d \in Directions, NEW w \in Workers PROVE ChannelInv(d, w)
    <3>1. Sender(d, w) \in Actors /\ Receiver(d, w) \in Actors
      BY ActorFacts DEF Sender, Receiver
    <3>2. RecvPoint(Receiver(d, w), w) = Between /\ SendPoint(Sender(d, w), w) = Between
      BY <3>1 DEF Init, RecvPoint, SendPoint, Idle
    <3>3. Between \in Points
      BY DEF Between, Points
    <3>4. queue[d][w] = <<>>
      BY DEF Init
    <3> QED
      BY <3>2, <3>3, <3>4, LinkedEmpty DEF ChannelInv
  <2> QED
    BY <2>1, <2>2, <2>3, <2>4, <2>6, <2>7 DEF TaskInv
<1>2. TaskInv /\ [Next]_vars => TaskInv'
  <2> SUFFICES ASSUME TaskInv, [Next]_vars PROVE TaskInv'
    OBVIOUS
  <2>1. CASE UNCHANGED vars
    <3>1. QueuesOK' /\ CallsOK' /\ HomeOK' /\ TurnsOK' /\ PlaceInv'
      BY <2>1 DEF TaskInv, vars, QueuesOK, CallsOK, CallOK, HomeOK, TurnsOK, PlaceInv, Holds, Held, Carries
    <3>2. \A b \in Actors, v \in Workers : /\ SendPoint(b, v)' = SendPoint(b, v)
                                           /\ RecvPoint(b, v)' = RecvPoint(b, v)
      BY <2>1 DEF vars, SendPoint, RecvPoint
    <3>3. \A e \in Directions, v \in Workers : ChannelInv(e, v)'
      BY <2>1, <3>2, ChannelsSame DEF vars
    <3> QED
      BY <3>1, <3>3 DEF TaskInv
  <2>2. CASE HostNext
    <3>1. Host \in Actors
      BY ActorFacts
    <3> QED
      BY <2>2, <3>1, HostSubmitKeeps, SubmitHeaderKeeps, SubmitPayloadKeeps, HostRecvKeeps,
         HostPollKeeps, RecvPayloadKeeps, HostReturnKeeps DEF HostNext
  <2>3. ASSUME NEW w \in Workers, WorkerNext(w) PROVE TaskInv'
    <3>1. w \in Actors
      BY ActorFacts
    <3>2. ASSUME WorkerRecv(w) PROVE TaskInv'
      <4>1. call[w].op = "idle" /\ RecvHeader(w, w) /\ UNCHANGED <<next, count, home>>
        BY <3>2 DEF WorkerRecv, Idle
      <4>2. TurnsOK'
        BY <4>1 DEF TaskInv, TurnsOK
      <4> QED
        BY <3>1, <4>1, <4>2, RecvHeaderKeeps
    <3> QED
      BY <2>3, <3>1, <3>2, RecvPayloadKeeps, WorkerReplyKeeps, SubmitHeaderKeeps, SubmitPayloadKeeps
         DEF WorkerNext
  <2>4. CASE Finished
    BY <2>1, <2>4 DEF Finished
  <2> QED
    BY <2>1, <2>2, <2>3, <2>4 DEF Next
<1> QED
  BY <1>1, <1>2, PTL DEF Spec

(* From the invariant to what a run checks. *)
LEMMA InvariantIntact == TaskInv => TasksIntact
<1> SUFFICES ASSUME TaskInv PROVE TasksIntact
  OBVIOUS
<1>1. QueuesOK /\ CallsOK /\ HomeOK /\ TurnsOK /\ PlaceInv
  BY DEF TaskInv
<1>2. TypeOK
  <2>1. Waiting \subseteq 1..count
    BY <1>1 DEF Waiting, HomeOK, Tasks
  <2> QED
    BY <1>1, <2>1, CallFacts DEF TypeOK, QueuesOK, HomeOK, TurnsOK
<1>3. ASSUME NEW a \in Actors, NEW w \in Workers, a # Host => w = a PROVE InStep(a, w)
  <2> SUFFICES ASSUME queue[In(a)][w] # <<>>
               PROVE  IF call[a].op = "body" /\ call[a].at = w /\ ~Received(a)
                      THEN Head(queue[In(a)][w]) = Payload(call[a].head.task, Len(call[a].buf))
                      ELSE /\ Head(queue[In(a)][w]).kind = "header"
                           /\ Head(queue[In(a)][w]).bursts # 0 /\ Head(queue[In(a)][w]).size # 0
    BY DEF InStep
  <2>1. PICK d \in Directions : d = In(a)
    BY ActorFacts
  <2>2. PICK b \in Bursts, r \in Points : b = Head(queue[d][w]) /\ Advance(RecvPoint(a, w), b, r)
    BY <1>3, <2>1, FrontFits
  <2>3. CASE call[a].op = "body" /\ call[a].at = w /\ ~Received(a)
    <3>1. PICK t \in Nat, n \in Nat, m \in Nat :
             /\ t = call[a].head.task /\ n = Len(call[a].buf) /\ m = call[a].head.bursts - n /\ m # 0
      <4>1. /\ call[a].head.task \in Nat /\ Len(call[a].buf) \in Nat /\ call[a].head.bursts \in Nat
            /\ Len(call[a].buf) <= call[a].head.bursts /\ Len(call[a].buf) # call[a].head.bursts
        BY <1>1, <2>3, CallFacts, BurstTypes DEF CallOK, Received
      <4> QED
        BY <4>1
    <3>2. RecvPoint(a, w) = Point(t, n, m)
      BY <2>3, <3>1 DEF RecvPoint
    <3>3. PICK p \in Points : p = RecvPoint(a, w) /\ p.rest = m /\ p.task = t /\ p.part = n
      <4>1. /\ Point(t, n, m) \in Points /\ Point(t, n, m).rest = m
            /\ Point(t, n, m).task = t /\ Point(t, n, m).part = n
        <5>1. m # 0
          BY <3>1
        <5> QED
          BY <5>1 DEF Point, Points
      <4> QED
        BY <3>2, <4>1
    <3>4. b = Payload(t, n)
      BY <2>2, <3>1, <3>3 DEF Advance
    <3> QED
      BY <2>1, <2>2, <2>3, <3>1, <3>4
  <2>4. CASE ~(call[a].op = "body" /\ call[a].at = w /\ ~Received(a))
    <3>1. RecvPoint(a, w) = Between
      <4>1. CASE call[a].op = "body" /\ call[a].at = w
        <5>1. Len(call[a].buf) \in Nat /\ call[a].head.bursts = Len(call[a].buf)
          BY <1>1, <2>4, <4>1, CallFacts DEF Received
        <5>2. call[a].head.bursts - Len(call[a].buf) = 0
          BY <5>1
        <5> QED
          BY <4>1, <5>2 DEF RecvPoint, Point
      <4>2. CASE ~(call[a].op = "body" /\ call[a].at = w)
        BY <4>2 DEF RecvPoint
      <4> QED
        BY <4>1, <4>2
    <3>2. b.kind = "header" /\ b.bursts = TotalBursts(b.size)
      BY <2>2, <3>1 DEF Advance, Between
    <3>3. b.size \in Lengths /\ b.bursts # 0 /\ b.size # 0
      <4>1. b.size \in Lengths
        BY <3>2, BurstTypes
      <4> QED
        BY <3>2, <4>1, BurstFacts, TaskAssumption
    <3> QED
      BY <2>1, <2>2, <2>4, <3>2, <3>3
  <2> QED
    BY <2>3, <2>4
<1>4. FramesInStep
  BY <1>3, ActorFacts DEF FramesInStep
<1>5. ReturnsWhole
  <2> SUFFICES ASSUME NEW a \in Actors, Received(a)
               PROVE  /\ home[call[a].head.task] = call[a].at
                      /\ \A b \in 0..(call[a].head.size - 1) :
                            /\ b \div BurstBytes < Len(call[a].buf)
                            /\ call[a].buf[(b \div BurstBytes) + 1] = Payload(call[a].head.task, b \div BurstBytes)
    BY DEF ReturnsWhole
  <2>1. /\ call[a].op = "body" /\ call[a].head.size \in Lengths /\ Len(call[a].buf) \in Nat
        /\ Len(call[a].buf) = TotalBursts(call[a].head.size)
        /\ \A i \in 1..Len(call[a].buf) : call[a].buf[i] = Payload(call[a].head.task, i - 1)
    BY <1>1, CallFacts DEF Received, CallOK
  <2>2. home[call[a].head.task] = call[a].at
    BY <1>1, <2>1 DEF PlaceInv, Holds, Held
  <2>3. ASSUME NEW b \in 0..(call[a].head.size - 1)
        PROVE  /\ b \div BurstBytes < Len(call[a].buf)
               /\ call[a].buf[(b \div BurstBytes) + 1] = Payload(call[a].head.task, b \div BurstBytes)
    <3>1. PICK i \in Nat : i = b \div BurstBytes /\ i < Len(call[a].buf)
      BY <2>1, <2>3, BurstFacts
    <3>2. i + 1 \in 1..Len(call[a].buf) /\ (i + 1) - 1 = i
      BY <2>1, <3>1
    <3> QED
      BY <2>1, <3>1, <3>2
  <2> QED
    BY <2>2, <2>3
<1> QED
  BY <1>2, <1>4, <1>5 DEF TasksIntact

(***************************************************************************)
(* Tasks survive their way through the channels, for any number of sockets *)
(* and channels, any capacity of a channel and any task lengths: receivers *)
(* stay in step with senders, and what a call returns is one task, whole,  *)
(* that was not answered before.                                           *)
(***************************************************************************)
THEOREM TasksStayIntact == Spec => []TasksIntact
  BY TaskInvariant, InvariantIntact, PTL
=============================================================================
