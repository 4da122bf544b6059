# A TLA+ development of memsharing-sgxcard

The repository lets programs on a host and programs (enclaves) on the nodes of
VCA/SGX cards exchange data through memory that each maps from the other over
PCIe. This directory models its core, model-checks the models with TLC on small
instances and proves what matters most with TLAPS for instances of every size.

## The system

| part | state it keeps | operations | talks to |
|---|---|---|---|
| ring of `mem-sharing-library` (`vca_mem.c`) | words and two indices per channel in the consumer's memory (`ring_2mb`), two indices in the producer's (`ring_4kb`) | `s_variable_multi_enqueue`, `_dequeue` | the other side, by write-combined remote stores |
| task queues of `mem-sharing-library` | two queues per socket, round-robin counters | `host_submit_task`, `host_recv_task`, `vca_submit_task`, `vca_recv_task` | the rings |
| mapping exchange of `mem-sharing-library` | one ZMQ socket, the mappings made | `initialize_system`, `init_enqueue`, `init_dequeue` | a node and the host, by requests and replies |
| host gateway (`com-library/host-gateway`) | active sockets, connection store | accepting thread; main thread: scan, socket reads, delivery | nodes by task queues, clients by TCP |
| `libvcacom` | one connection | connect, send, receive | the gateway |
| A-LUT manager (`plx_alm.c`, `plx_hw.c`) | array of blocks, the hardware table | `plx_ioremap`, `plx_iounmap`, cleanup, clear | DMA mapping driver, block and virtio drivers |
| DMA mapping driver (`sgx5.c`) | three slots with stored maps | writes to its sysfs files | A-LUT manager |
| DMA engine driver (`plx_dma.c`) | descriptor ring, head, tail | prepare, submit, cleanup, callbacks | block i/o, virtio |
| block i/o frontend (`vcablk`) | list of bios, contexts, request ring, disks of the device page | make request, completion work, create, start, stop, destroy | backend by rings and device page |
| block i/o backend (`vcablk_bcknd`) | buffers, completion ring, disks, mapping of the page | transfer, respond, open and close ioctls, `ftb_work`, reset | DMA engine, A-LUT manager, frontend |
| virtio over PCIe (`vop`), its network driver | rings of receive buffers, used ring, ring of transfers | put and take buffers, transfer, callbacks, poll and refill | DMA engine, the other side's memory |
| boot protocol (`plx_lbp.c`) | scratch pad registers shared with the card, one lock, cached BIOS information | handshake, commands, boot, flash, reset, each with timeouts | card firmware |
| card state manager and agent (`vca_csm`, `vca_csa`, `vca_agent.sh`) | boot parameters in the host's memory, counted requests | commands to the agent, ioctls of the boot protocol | boot protocol, a script on the card |
| driver core (`plx_main.c`, `plx_intr.c`) | devices, doorbells | probe, interrupts, power button | all drivers |
| card manager, buses, virtio core | devices of the kernel | forwarding | driver core |

What is hard in it: two machines share memory whose stores become visible late
and out of order; every wait is a spin, so an error of one index stops both
sides; several nodes talk to one host in any order; the gateway has two threads
that share its state; the lookup table keeps mappings that nobody uses any
more and shares them with new requests; a DMA ring is worked on by submitters,
an engine and three kinds of cleanup at once; a disk's commands, answers and
rings are fields of a page that the node may take away at any time; a network
link hands out buffers of several sizes to a sender that waits for one of them;
commands to a card and their answers share a few registers or fields, with
nothing that ties an answer to its command and a caller that may give up first.
`PROJECT.json` lists these hazards line by line, each with the properties that
would catch it.

What makes each part correct: a ring is a lossless FIFO and never overwrites
what is not read; a task arrives whole, where it was sent, and is answered; the
two sides of a queue hold each other's memory crosswise; a message reaches its
destination once and in order, and its source can be answered; a mapping leads
to the memory asked for until it is given back; a DMA transfer is reported once,
in order, after the data has been moved, and not forgotten; a disk behaves like
one: a bio ends once, with its data moved if it ended well, and what it held
comes back; both ends of a disk use the same rings, a disk in use is not taken
away, and one that was opened comes to run; a link loses no buffer and delivers
every message; a command to a card that is reported as done was done, with its
own data and its own answer.

## The modules

### SharedRing, FifoChannels

`SharedRing` is a `queue_object` seen from both sides. `ring` with `RP` and `LC`
is the 2 MB in the consumer's memory, `LP` and `RC` the page in the producer's.
`MAX_ITEMS`, the number of channels, the range of `unsigned int` and the sizes
of bursts are constants. Every store is a step: a `memcpy` puts its words into
`pend[c]`, from where the bus delivers them in any order (`DeliverWord`; the
library asks for write-combining in `setup_mtrr_mappings`), an index that is
stored remotely waits in `rpWb` or `rcWb` for `DeliverRP` or `DeliverRC`, and an
`mfence` waits until all of a producer's stores are visible. The host build's
fence in the dequeue is left out, which only admits more behaviours.

`FifoChannels` states what a channel promises: an enqueue of n words takes
effect at once if they fit, a dequeue returns the next words. Its state (words
sent, words received, last delivery) is kept by `SharedRing` as history, so the
refinement needs no mapping of names.

### TaskSystem

Header and payload bursts over FIFO channels of bursts. The abstraction is
justified by `RefinesFifo`: all calls use `NUM_ITEMS` words, so a channel of
8192 words holds 255 bursts. `call[a]` says where an actor is inside
`common_submit_task` or `common_recv_task`. The counters of `host_submit_task` and
`host_recv_task` are signed and advanced at every poll; each is kept as its sign
and the remainder of its absolute value, and whether a value is the last before
an overflow is left open (`Incremented`). After an overflow the remainder is
negative, passes the assertion, and is used as an index: the poll may find
nothing, whatever lies there, or go astray (`Astray`), from where nothing is
followed. The environment is that of the examples: one host thread, one thread
per channel on a card (`task_queue_multi.c`, `task_queue_multi_threaded.c`), and
up to `Window` tasks not yet answered. Host and worker may spin on each other's
full channel for ever (`BothSpin`): one task longer than a channel is enough.

### MapExchange

`host` and `node[n]` are where the two programs are in `init_host_task_system`
and `init_vca_task_system`, `request[n]` and `reply[n]` the one message a
REQ/REP pair has under way. A mapping is its owner, size and socket. The host
takes the requests of all nodes from one socket: it may get a number where it
expects a mapping, with `out->socket` left uninitialized or from an earlier call
(`Stale`), and the reverse. An `assert` that fails and an `exit` are phases.
The node's check of its acknowledgement is modelled as written
(`NodeAck`, `AsNumber`). An address whose lower half happens to equal a socket number
is left out.

### Alm

`entries` is the array of `struct plx_alm`, `hw` the lookup table, `live` the
mappings that callers hold. All functions run under `alm_lock`, so a call is an
action: `AddShared`, `AddNew`, `AddNoRoom`, `AddTooBig`, `Del`, `Clear`. The
model is the build with `ALUT_UNMAP_LAZY`. The loop of `plx_alm_add_entry` is
written as sets (`Sharable`, `Room`, `First`); `MCAlm` has the loop itself, and
`ScanAgrees` compares them in every reachable table. The hardware table may hold
anything at first: `plx_a_lut_clear` is called before the number of segments is
set. `segment_size` is taken to be a power of two, as the code's masks need; the
code sets it to a BAR's length (a power of two) divided by 256 or 128.

### Gateway

The accepting thread (`AcceptInit`, `AcceptInsert`, `AcceptActivate`) and the
main thread (`Start`, `Scan`, `SocketRead`, `SocketEmpty`, the `Deliver`
actions) of the host gateway, with nodes and clients as its environment. A TCP
stream is a sequence of parts, two for each header and one for a content, and a
read returns any number of them (`SocketRead`): half a header, several messages,
the end of one and the beginning of the next. What stands where the code expects
a header is read as one (`HeaderAt`, `Skips`), and all that follows is passed on
as one message (`PassedOn`). Nodes send to every address, also before the other
node is there: then the gateway crashes, and what its peers do afterwards is not
followed. A client may connect again; what was under way to its old connection
is lost. Where the reads of a client end is left out: its inbox is kept part by
part. Addresses are reduced to host and socket, a message to its addresses,
source and number. `vca_com_hhg_create_com` returns at once, because its caller passes a
pointer to NULL, and the comparisons that would lead to
`vca_com_gate_deliver_failure` are unsigned and never true: neither does
anything in the model.

### PlxDma

One channel of the DMA engine driver. Submitters hold `prep_lock` from
`plx_dma_prep_memcpy_lock` to the end of `plx_dma_tx_submit_unlock`; whoever runs
`plx_dma_cleanup` (the interrupt thread, a submitter that finds the ring full, a
thread that polls in `dma_sync_wait`) holds `cleanup_lock`, and `reap` is its
local state. Reads and stores that another party can see are steps of their own:
the valid bit, the head, the two cookies of `plx_dma_cookie_status`, the status
bits read and cleared by `plx_dma_ack_interrupt`, the tail. All callers pass a
flag, so the last descriptor of a transfer becomes valid in
`plx_dma_tx_submit_unlock` and interrupts.

The engine is external and known from what the driver says of it: it takes
descriptors in order, clears the valid bit by a write that may arrive after the
interrupt (`WriteBack`) but not after the answer to a register read
(`CleanupFlush`), raises an interrupt when a status bit is newly set, stops at a
descriptor that is not valid, stops sometimes at one that is (`HwStall`), and
does nothing more after an error. `dma_sync_wait` gives up after five seconds,
taken to be enough unless the engine has failed. `desc`, `moved`, `size` and `ran`
are history: which transfer a slot is for, how much of it was moved, what was
reaped.

### BlockIo, BlockDevice

`BlockDevice` states what a block device promises: each unit of a bio (one page
buffer of one of its segments) is read or written at one instant after the bio
was submitted, a bio ends once, and one that ends well has had all its units.
Nothing orders the units of two bios that are pending together, and units of a
bio that failed may still take place, as comments in the backend say.

`BlockIo` is one disk between its start and its stop. Frontend: submitters
(`MakeRequest`, with the congestion limits), the request thread (`thread`: a
context, one mapping and one ring entry per segment, publication of all of them,
or `RequestBreak`), the completion work (`TakeAck`, `DoneTail`, `DoneEnd`).
Backend: the request thread (`backend`: the entries of a bio, one buffer after
the other, to the DMA channel) and the channel's callbacks, which answer.
A context goes back by two stores (`PoolLink`, `PoolTail`), an answer is added by
reading `last_add`, writing and publishing (`TransferFails` or `TransferDone`,
`WriteRet`, `PublishAck`), and other threads run in between: nothing keeps a
second one from doing the same. `met` is history: whether two threads have been
inside the same of these at once. From then on the list of contexts or the
completion ring may be anything, and what is popped from outside the pool is not
modelled, so the properties speak of the time before; `OnlyFailuresMeet` says
that this includes every behaviour without failures. The pools of mappings and
of buffers are counters, the pool of contexts is the list that it is. Any step
that can fail may fail (`Faults`, at most `MaxFaults` times).
`moved`, `ends` and `faults` are history. The refinement maps `waiting` and
`listed` to pending, lets a unit that is read take place when its buffer is
filled, and gives a bio that was ended twice, or ended well before all its data
had moved, a status no block device has: `ImplementsDevice` therefore also says
that neither happens.

The DMA channel moves in order and calls back in order, as `PlxDma` shows.
Left out: REQ_FLUSH and synchronous transfers, the MEMCPY mode, the interrupt
flags (waits are loops with a timeout), the two seconds after which an answer
that finds no room is given up (`AckRoom` shows that there is room, until two
threads have met), and errors
of the medium, which the backend only warns of.

### BlockDev

The life of one disk: the device page the node's driver allocates and announces
(`page`, with the fields both sides write), the frontend's work
(`ProbeStart`, `Handle`, `Ack`, `Clear`), users who open the disk, loading,
unloading and crash of the node's driver; the backend's work
(`FtbPage`, `FtbOpened`, `FtbDevs`, `FtbRun`), the ioctls that open and close with
their waits and timeouts, and the reset the host performs with the card. A page
has an address, and a driver that is loaded again may get the one the last page
had. `mishaps` is history: the races the code has, by name.

| mishap | what happened | where |
|---|---|---|
| `lost` | the frontend cleared a command newer than the one it answered | `vcablk.c:389` |
| `missed` | a disk was opened between the search for waiting disks and the flag that reports a new page | `vcablk_bcknd.c:265`, `:756` |
| `address` | a new page at the old address was closed again | `vcablk_bcknd.c:302` |
| `stale` | an ioctl began while a command or an answer was under way | `vcablk_bcknd.c:91` |
| `late` | a wait timed out before the answer | `vcablk_bcknd.c:99` |
| `failed` | a step failed | |

The safety properties are checked through all of them; the environment ends
after `stale`, because every answer may then belong to another command.
`OpenedDiskRuns` is about behaviours without them. Assumed: loading takes longer
than one run of `ftb_work`; a driver is not unloaded in the middle of its own
work; the host's reset does not overlap an ioctl or the work; a page that is
taken from under a waiting ioctl ends in its timeout. Left out: the ioctls that
only report, the kdump flag, removal of modules, several disks.

### VopLink

One direction of a network link while both sides are up. The receiver puts its
buffers into rings in the sender's memory, one ring per size (`KvecPut`, and
`UpdateIdx` every `Period` buffers); the sender's thread `vrd` takes a message and
a buffer (`GetRead`, `TransferRead`, `ChooseRing`, `KvecGet`), `vrd` itself or, when
data is copied first, the thread `vdm` starts the transfer, and the callback of
the DMA channel finishes every item from the last one finished to its own
(`CallbackItem`). The buffer returns through the used ring (`KvecUsed`, `Consume`),
and the receiver's driver polls, refills by size and kicks (`Poll`). `aligned` is
the feature that decides between copying and transferring in place; both are
checked. A buffer is two elements of a ring with the same head, as in the code,
and the heads of taken elements are cleared to 0, which is also a head.

A transfer that fails is finished by the thread that started it, while the
callback finishes others. `transfer_done` is therefore two steps
(`TransferReturns`, `TransferEnds`), between which `put_descriptors` of the other
context may read the same index; the reset of an item disables a callback still
to come (`Disabled`), whose transfer then leaves the channel silently
(`DmaForget`). A callback may finish an item under the thread that is still
submitting it: the thread is then lost in a BUG_ON or a NULL mapping (`writer.pc =
"lost"`). `clashed` is history: two contexts were inside `put_descriptors`.

`Init` is a link on which all buffers were used `n` times, for some `n` in `Rounds`, so
that counters and indices wrap within a few messages. `UInt` stands for the
range of `unsigned int` in the refill test. Left out: how a device comes up and
goes down, interrupts (every wait polls, with a timeout), the arithmetic of
alignment, messages of other than two descriptors, cancellation, which no code
in the repository requests.

### Agent

The ioctl VCA_AGENT_COMMAND step by step (`_plx_csm_agent_command`: `Lock`,
`Clear`, `Command`, `Ring`, then `Seen` or `TimedOut`, `MapMem`, `CopyMem`, `Ack`),
the card's driver (`Interrupt`; `Wake`, `Fetch`, `Mark` of `csa_mem_show`) and the
script that reads a command, runs it and writes its output (`Store`, `Fill`,
`Finish`). The fields of the boot parameters keep their names. A request carries a
number that the code does not have: it is history, by which `AnswerFits` tells one
answer from another. `CSM_STOP` sets the boot parameters up anew, the card may
crash or reboot, and the allocation of the answer may fail. The size the host
asks for is read as 8 bytes over a field of 4 (`plx_hw.c:1780`) and so is never 0:
with no answer there the host copies from card address 0 (`MapMem`). `alone` notes that the
card owed no answer when the call cleared `csa_finished`; only of those calls does
`AnswerFits` speak, because for others it is false (see the deviations below). What a command
does on the card and the 4 KB of its output are a model value.

### Lbp

Every call of `plx_lbp.c` that writes a register, as a script of steps: take and
leave `lbp_lock`, check the state or the version, write data, write a command,
wait until it is gone (`Consumed`) or until the card's state has one of the flags
of a mask (`State`), read data. `Script` names the scripts by their ioctl, `Call`
starts one, and each step is an action of the thread that makes it. `Failed` is
the common exit: the lock is left, and a handshake writes NOT_READY after that.
Two flags written without the lock (`PowerFlag`) and the interrupt may come
between any two steps. A call that has to wait for the lock has done nothing, so
it begins when the lock is free.

The firmware is external. From the host's use of it: it takes a command when it
is between two, puts the answer into the data registers, then empties the command
register, then sets its state (a host that waits for CONSUMED and reads data at
once needs this order); it may show BUSY meanwhile; boot, flash and the start of a
system take longer than the host's polls, which would otherwise miss the states
they wait for; after a reset it starts later than the 100 ms after which the host
writes DOWN. A wait may run out of time at any point (limits can be set to 0).
`owed`, `bad`, `alone` are history: commands not yet done as they were meant, a
value read that is not the one asked for, and whether the card was between two
commands when the lock was taken. Left out: `plx_lbp_get_state`, which only reads,
`plx_lbp_set_param`, which sets the limits, versions of the protocol other than
the current one and 0.0, and `plx_lbp_flash_firmware`, which is a stub.

## The runs

| run | shows | bounds |
|---|---|---|
| `shared_ring` | the ring is a FIFO, never overwrites, and drains | 2 channels of 4 slots, bursts of 2 and 3 words, 7 words per channel: every index passes the upper bound, both by stopping at it and by splitting; indices wrap in 16 values |
| `task_system` | tasks stay framed, whole, and are answered | 2 sockets of 2 channels each, the second one active first; 3 tasks of one or two payload bursts, by turn or by task id, 2 unanswered at once; a channel of 2 bursts, so that one task is longer than a channel and host and worker may spin on each other; a counter may overflow at any value with the right remainder |
| `map_exchange` | queues are paired and sizes agree for any order of starts and restarts | 3 nodes |
| `map_exchange_node_zero` | the finding below | 2 or more nodes, one of them number 0 |
| `alm` | mappings survive sharing, lazy unmapping and cleanup | 5 segments, 3 mappings held, 6 requests: equal, nested, overlapping, unaligned, too big; the mappings are symmetric |
| `gateway` | the order of each source is kept, nothing is passed on twice, sources can be answered, and everything is taken | 2 nodes, 1 client; 2 messages to any of the three, or 1 and a reconnection; with the empty message of each connection, reads cut and join up to 8 parts |
| `plx_dma` | callbacks in order, none but the last left behind, waiters told the truth and served | 4 descriptors; one thread with a transfer of 1 that waits, one with two transfers of 2 and a callback: the ring is full, found full again after a cleanup, and wraps; the cookies wrap at 4; the engine may stop any number of times |
| `block_io` | the two drivers are a block device, pools lose nothing, answers find room, every bio ends | 2 writes and 2 reads of one and two segments on 2 sectors, 2 contexts, a request ring of 4, a completion ring of 2, one failure of any kind: rings wrap and are full, contexts run out, submitters wait, two pushes and two answers overlap |
| `block_dev` | both ends use the same rings, a disk in use stays, an opened disk comes to run | 2 addresses, 2 loads, 2 opens, 1 user, 1 failure, a crash or an unload at any point |
| `vop_link` | no buffer is lost or used twice, messages arrive in order and whole, all of them, and descriptors return | 1 big and 4 small buffers, 5 messages of which 2 need the big one, 4 items, so that the last message uses the first item again, and three failed transfers, enough for a callback to take the ring for empty; counters from before their wrap; a poll takes at most 2 and may leave buffers free |
| `agent` | a command to a card that owes nothing gets its own answer, and gets it | 2 callers, 3 commands of which any may reboot the card, one crash, CSM_STOP or failed allocation, any number of timeouts |
| `lbp` | a call that reports success did what it says, the lock is left on every path, a handshake keeps what it asked for | two programs, one that links and resets and one that makes the other calls, in any order and number; one timeout, error, failed copy or power flag |

Bounds that cap a run (`MaxWords`, `MaxTasks`, `MaxSent`, `MaxEpoch`,
`MaxTransfers`, `Share`, `MaxCalls`, `MaxFaults`) are named in the
guards they limit. The calls of `lbp` are not bounded: one timeout or failure
meets every call in every state of the card that any sequence of calls leads to.
Deadlock is checked except in `map_exchange`, where the exchange ends, in
`gateway`, which may crash, and in the DMA, block, link, agent and boot models,
where everybody may rest when nobody asks for anything; a run of `TaskSystem`
ends in `Finished`: where it would go on without the bound, where the host has
gone astray, or where host and worker spin on each other.

`VopLinkStart.cfg` is the instance of `vop_link` with counters at 0 and the sizes
of the rings not announced yet, with two failed transfers; the properties hold
there too.

The type invariant is listed by itself where a mutant of the code breaks it, and
is otherwise a conjunct of `TasksIntact`, `QueuesPaired`, `QueueReady` and
`AnswerFits`. `SyncCompletes` also says that a waiter is told of a completion only
when there was one (`CookieHonest`), `PoolConserved` also that a disk at rest holds
nothing (`QuietMeansClean`).

### Fairness

Every wait in the code is a loop that tries again, so weak fairness of each
thread is what a scheduler that runs all threads provides.
- `SharedRing`: a call that began runs to its end, the consumer polls, a store
  is visible eventually. No producer has to call.
- `TaskSystem`: the host thread and each worker run on. The host thread, when it
  has nothing to submit, asks for results.
- `MapExchange`: nodes and host run on, and the ZMQ_REP socket queues requests
  fairly. Nobody has to start a node again.
- `Gateway`: the main thread runs on; every node reads all its channels, without
  which the gateway spins on a full one. The accepting thread gets the write
  lock at some point of the many at which it is free (strong fairness).
- `PlxDma`: every thread runs on, with the locks it waits for passed on; the
  engine stops by itself at an invalid descriptor, and takes a valid one if it
  is started again and again (strong fairness: it does not stop at the same
  descriptor every time). Its late writes need no fairness, a register read
  brings them in.
- `BlockIo`: the kernel runs both request threads, the completion work and woken
  submitters, and the DMA channel calls back. Nobody has to submit.
- `BlockDev`: work that is queued runs, and waits time out. Nobody has to load,
  open, use or close.
- `VopLink`: the driver polls after an interrupt, the threads run and poll, the
  channel moves and calls back. Nobody has to send.
- `Agent`: callers, interrupts and the agent run on; the mutex is passed on to
  whoever waits (strong fairness). Nobody has to ask or to give up, and a card
  need not start.

### Finding

A node with number 0 that starts while the host exchanges mappings with
another node takes the refusal for its acknowledgement
(`vca_mem.c:252`), and the mapping it sends next may end the host.
`map_exchange_node_zero` is the run that shows it.

### Other deviations seen while modelling

These have no run of their own; for each, the property named fails in a checked
model, in the instance of its run or in one outside its bounds. Where a `.cfg` is
named, `tlc -config <cfg> <module>` shows it.
- The host's counters of polls are signed and advanced in a spinning loop
  (`vca_mem.c:842`, `vca_mem.h:99-102`). After 2^31 polls the remainder is negative
  and passes `assert((channel < MAX_CHANNELS) && (socket < VCA_SOCKETS))` (`:849`,
  the same in `host_submit_task`, `:827`): channels are skipped, or memory outside
  the arrays is taken for one. `IndicesInRange` fails (`TaskSystemOverflow.cfg`,
  `MCTaskSystem`), and `EveryTaskAnswered` excepts what follows.
- A host that submits a task longer than a channel, or several, while its worker
  submits a result, may spin with it for ever (`vca_mem.c:773`). The run
  `task_system` reaches it; `EveryTaskAnswered` without `BothSpin` fails there.
- The valid bit of a transfer's last descriptor is set before the head is
  advanced (`plx_dma.c:632-633`). If the engine finishes it and the interrupt
  thread cleans up in between, the callback waits for the next transfer, although
  a comment (`:276`) says that the code protects against it. `NoCallbackMissing`
  fails in the instance of `plx_dma`; `NothingStranded` shows that the callback does
  not wait longer.
- A page found again at the address of the last one is opened with an address
  the work has just reset (`vcablk_bcknd.c:302`), so that its next run closes it:
  the disk is created and never run. `NewPageDetected` fails in the instance of
  `block_dev`.
- A command that follows one whose caller gave up may be told the answer to that
  one (`plx_hw_ops_vca_csm.c:460`): `csa_finished` is cleared once, before the new
  command is written, and the late answer may come after that.
  `LateAnswersDropped` fails in the instance of `agent`, without failures too.
- A handshake that failed writes NOT_READY after it has left the lock
  (`plx_lbp.c:378`), and erases the readiness of a handshake that began meanwhile.
  `ReadinessIndicated` fails with two programs that link and one timeout.
- The recovery flags of a card are read from the data register whatever it holds
  (`plx_lbp.c:1155`): after a query of the MAC address, two bytes of it.
  `RecoveryFlagsRead` fails with `get_mac_addr` followed by `get_rcvy_state`.
- A message to a node other than 0 goes to a channel of node 0 (`vca_com.c:212`):
  the socket is passed as a task id, although the documentation of
  `vca_com_send_msg` says "sends message *msg* to *dst* using communication channel"
  (`libvcacom/README.md:67`). `AddressedHere` fails (`GatewayAddress.cfg`,
  `Gateway`). While node 0 is not there the queue does not exist and the gateway
  crashes, although "If the connection is found, the message is delivered
  immediately." (`host-gateway/README.md:65-66`): `FoundIsDelivered` fails
  (`GatewayDeliver.cfg`, `Gateway`).
- Messages that arrive in one read are passed on as one, with a length larger
  than what was read, and one cut by the end of a read is passed on in pieces
  (`host-host-gateway.c:158-167`, whose comment is "handle empty and bulked up
  msgs"). `OneMessageEach` fails (`GatewayBulk.cfg`, `Gateway`).
- The pool of contexts is a "simple method to pop and push elements in pool
  without locks" (`vcablk_pool.h:129-130`), and is pushed to by two threads: one
  context is lost when they overlap (`:166`). `PushNeedsNoLock` fails
  (`BlockIoPool.cfg`, `MCBlockIo`).
- The backend's request thread and a DMA callback may answer at once
  (`vcablk_bcknd_disk.c:187`): both write the same element, a bio ends well for
  another's data, and `last_add` may go back behind answers already taken, which
  the frontend reports as unexpected (`vcablk_disk.c:186-191`). `AnswersExpected`
  fails (`BlockIoAnswers.cfg`, `MCBlockIo`).
- A transfer of the link that could not be mapped or submitted is reported to the
  receiver like one that was moved (`vop_common.c:903`), and the counter of
  finished transfers is not advanced for it: when its item is used again before
  the next callback, that callback finishes it before its data has moved.
  `Intact` fails without its exception for failures.
- The thread that finishes a failed transfer and the callback return descriptors
  at once (`vop_common.c:954`): the second overwrites the entry of the first,
  which never comes back to the driver. The comment of `put_descriptors` says "This
  needs to be synchronized by the caller" (`:615`). `PutsSynchronized` fails
  (`VopLinkPuts.cfg`, `MCVopLink`).
- After as many failed transfers in a row as there are items but one, the callback
  of the next finds its counter where it should end (`vop_common.c:990`, "Wrong id %u
  callback ind_dma_next %u") and finishes nothing: the item is never free again.
  `CallbackIdRight` fails (`VopLinkStop.cfg`, `MCVopLink`).
- The refill test of the network driver subtracts unsigned numbers
  (`vca_virtio_net.c:737`). When bigger buffers are missing and one poll takes
  nearly all small ones, the difference wraps, nothing is refilled, and a sender
  that waits for a small buffer waits for ever: `EveryMessageArrives` fails with
  `Sizes = <<1, 1, 1, 1, 0>>`. The default sizes with the default `napi_weight`
  keep clear of it.
- A call of the boot protocol that runs out of time leaves its command in the
  register, and the firmware may be working on it: it empties the register of the
  next call's command, which is taken for done. `DoneAsTold` fails without its
  condition `alone`.
- A command given after another caller gave up on a reboot is lost with the system
  that goes down; `AnswerComes` fails without `alone`. (A doorbell that is counted as
  served although its command was not read, `vca_csa_sysfs.c:89`, does not show here:
  its caller is told the late answer described above.)

Read in the code and outside the models' properties: `plx_lbp_boot_from_usb`
reports an error of the card as success and does not check that it is ready; the
cached parameters asked of a card in state UP always end in
`LBP_SPAD_i7_WRONG_STATE`, after the value was read; a card that reports an error
to `plx_lbp_send_ramdisk` is never told to clear it; a second handshake without a
reset between them reads the CPU's number as the memory size; `set_param` sets the
timeout of MAC updates together with that of commands; after a
failed allocation of the agent's answer the host is told of success and copies
what is at card address 0; `vca_dev_common.h` says of
the agent's doorbell that the host sets it, and the card does.

## The proofs

`SharedRing_proof` proves, for any channels, ring size, burst sizes and bound on
the words sent, the type invariant, `NoOverwrite`, `CopiesInOrder` and the safety
part of the refinement of `FifoChannels`. The assumption is that an
`unsigned int` holds every index and wraps at a multiple of `MAX_ITEMS`
(`SpanAssumption`: 8192 divides 2^32). The properties are not inductive: they
speak of the words between two indices, while what a step preserves is where
each word of a channel is. The inductive invariant `RingInv` relates the four
indices and their delayed copies to the numbers of words sent and received by
their distances in the ring, and says that every word between the consumer's
index and the producer's is in its slot (`UnreadInv`), that what is still in
`pend` belongs to the burst being copied (`PendInv`), and how much of that burst
is in the ring or in `pend` at each point of the call (`CopyInv`). Lemmas about
`Slot` and the remainder reduce the arithmetic of `unsigned int` to distances.

`Alm_proof` proves for any table, segment size, requests and holders that the
array is what `plx_alm_check` demands, that a mapping leads where it should until
it is given back, that `BUG_ON` in `plx_alm_del_entry` is not met, and that a
request is refused only when it cannot be placed. All rest on
`CountersSuffice`: fewer mappings are held than a u16 counts. The inductive
invariant `AlmInv` adds that a held mapping lies inside the block its first
segment names, at the right distance; that a block's counter is one more than
the number of mappings in it; and that the hardware table follows every block.
It is stated of an array, not of the variable, because a request works on what
the cleanup has left (`PreparedInv`), and it is proved one action at a time:
`AddSharedStep`, `AddNewStep`, `DelStep`, `ClearStep`.

`TaskSystem_proof` proves `TasksIntact` for any sockets and channels per socket,
any capacity of a channel, any task lengths, any window and any counters of the
host, overflowed or not; a host that has gone astray does nothing more. `TasksIntact`
speaks of the next burst of a channel and of the call that returns. What a step
preserves is the whole stream: `ChannelInv` says that the bursts under way lead,
one after the other, from the point of a task where the receiver is to the point
where the sender is, so a receiver that takes one and a sender that adds one
both keep it; `PlaceInv` says that a task not answered is in exactly one place,
with an actor that sends or receives it or as a header on its way. That a
channel's stream is well formed is an existence of points between its bursts,
not a recursive definition, which keeps the proof free of induction.

`MapExchange_proof` proves `QueuesPaired` for any set of nodes and any number of
them the host waits for. The inductive invariant `ExchangeInv` sorts the nodes:
one the host is with has a number only or half of its mappings, in step with the
host's phase; every other one is paired, or a stranger that holds nothing of the
host's. A stranger may have taken a refusal for its acknowledgement, as the
finding above shows; the proof covers that path, and only the host
suffers from it.

`PlxDma_proof` proves, for any ring of two or more descriptors, any submitters,
transfer sizes and number of transfers, and any number of cookies not below the
size of the ring, `TypeOK`, `CallbacksInOrder`, `NothingStranded` and
`CookieHonest`, which is the safety half of `SyncCompletes`. The code's indices
wrap, so a state does not tell how often they have; the inductive invariant
`DmaInv` says that some count of descriptors from the first one ever programmed
explains it: there are positions of the tail, the reaper, the engine, the first
valid descriptor, the head and the end of what is programmed, in this order and
less than a ring apart, of which the indices are the remainders. From the
positions follow which slots are valid, which of the engine's writes are late,
which slot has which cookie, how much of each transfer is moved and which
completions have been reaped. The part about interrupts (`Interrupted`) says
what the interrupt thread still owes at each of its places when no interrupt is
on its way: it rests only when nothing but the last transfer moved is left, and
within the second cleanup it has seen far enough. `CookieHonest` follows because
fewer transfers await their completion than there are cookies
(`FewerThanCookies`), so `dma_async_is_complete` cannot mistake an old cookie for
a new one, whichever of the two reads it lies between.

`Card_proof` is about both ways in which a host commands a card. Of `Lbp` it proves
`TypeOK`, `CacheHonest` and `DoneAsTold` for any threads, any of the ioctls for each of them and
any number of timeouts, errors and failed copies (`ConstantsFit`). That the lock is
left is a fact about scripts: what needs it comes after a step that takes it and
before one that leaves it, in every script and in everything that can be left of one
(`Bracketed`, `Inside`, `Outside`, `ScriptsFit`); the remainder of a call and the
holder of `lbp_lock` then fit at every step (`Calls`). `CacheHonest` is about two
variables at the end of a handshake; the inductive part (`HandshakeInv`) says at each
step of its script what the card may be doing. Once the command register has been
emptied there is no command in it but the handshake's own (`CommandAt`); the card is
not READY before it has linked, and idle when it does (`LinkingAt`), so that the wait
for READY cannot be satisfied by what an earlier call left; from then on it does
nothing but the handshake's commands (`ServingAt`), and when the register is found
empty the data registers have the answer to the last of them (`DataAt`).
`DoneAsTold` is an invariant of its own on top of these (`Kept`). One part of it is
about the scripts (`Told`): each command is followed by the wait that tells of its
end (`WaitedFor`), its data is written just before it, a value is read after the
command that answers with it and nothing but waits in between, and a command that is
waited for by the card's state comes after a look at that state (`Unchecked`), so
that no flag of an earlier command is mistaken for its own. The other part is what
the holder of the lock has (`Holds`): at each step nothing is owed and the card is
able to take a command (`Resting`), or the one command given is at one stage of its
way and the state does not yet show its end (`Serving`), or it failed and the step
that looks for the error comes next (`Refused`). The commands of a boot and of a
flash come last in their call, after which the card may be on its way elsewhere. A
call is believed only while it has not failed and has found the card idle
(`Trusted`); the power button, which writes the card's state without the lock,
can only fail it. The order in which the firmware answers and empties the register,
and that its system waits for the end of the call that booted it, are part of the
external model.

Of `Agent`, which it instantiates with variables of its own (the hypothesis
`Agent!ConstantsFit` is what `Agent` assumes of its constants), it proves `AnswerFits`
for any callers, commands, calls and faults. The
inductive invariant `AgentInv` follows the one request of a caller that found the
card idle: until it rings nothing is rung, counted or under way; while it waits
the request is at one place between doorbell and `csa_finished`, and the answer
is its own or was lost to a fault; when it has the answer, the card is settled.

`BlockDev_proof` proves `TypeOK`, `RingsMatch` and the action property
`BusyDiskStays` for any addresses of device pages and any number of loads, opens,
uses and failures. It assumes that there is an address, and that none is 0. The
properties speak of the two disks; what a step preserves is what the command and
the answer in the device page are about. The inductive invariant `DevInv` says
whose turn it is (`Turns`: a command that nobody has read has been rung for, a page
under way has not been replaced); that a disk is created at most once for each
open and each page opened, which bounds the rings (`RingCount`); that no create is
read for a backend that serves already (`Created`), also on a page that lies where
the last one was and that the backend has not noticed yet (`Unnoticed`); at which
stage the answer to a stop is (`Stopping`); and that a disk that runs is neither
run again nor sent a destroy (`Running`). The last two hold only while no ioctl
has begun with a command under way and none has given up while an answer was
due, as `BusyDiskStays` does. A page that was closed is excluded from the stages
(`Left`): what is still written there, only the frontend writes.

`BlockIo_proof` proves `TypeOK`, `PoolConserved`, `AckRoom` and the refinement of
`BlockDevice` for any bios and segments, any sizes of rings and pools that the
compile-time checks of `vcablk_disk.h` allow (`SizesAssumption`), any congestion
limits, any number of failures of every kind and any interleaving of the threads.
Nothing in the code keeps two threads from overlapping between the two stores of a
push to the pool of contexts, or between reading and writing `last_add` in an
answer, and afterwards the properties are false, as
[other deviations](#other-deviations-seen-while-modelling) describes. So they say
what holds until then (`~met`), and `OnlyFailuresMeet` proves when that is: a push
by the request thread and an answer by the backend's thread are both answers to a
failure, so no two threads meet before something has failed, and of behaviours
without failures everything is proved of the code as it is. The properties speak
of the pool, of one ring, or of what users see; each needs to know where
everything else is. The inductive invariant `BlockInv` follows it around:
- a bio that has not ended is at one place (in the list, with the request thread,
  with a context in use, with the completion work) and has ended at most once
  (`BiosHeld`);
- a context in use is at one of the stages request thread, request ring, backend,
  channel, completion ring (`Placed`). Nowhere else is its cookie found, so the
  cookies in the completion ring are distinct and fewer than the contexts, and
  there is room for one more: `AckRoom`;
- what is published in the request ring is the entries of whole bios, in order,
  each bio with its own cookie, and behind them those of the bio being written
  (`RequestsQueued`). So the backend, which takes entries as long as the cookie is
  the same, takes exactly one bio (`BackendAt`), although the code compares cookies
  only;
- the free contexts form a list from head to tail; a push half done has linked
  its context behind the tail (`Pushing`), and a context popped meanwhile is the
  head's. Each mapping has an owner or is free (`Mapped`), which is why they are
  all back when the contexts are;
- a unit is submitted once, in order (`BackendProgress`, `NotBegun`); when the
  transfer that carries the cookie is called back, all units of its bio have moved
  or are ahead of it (`TransfersQueued`), so an answer without an error speaks of a
  bio whose data has moved (`Ended`).

The refinement follows from `BlockInv` in the states before and after a step:
`StepIsDevices` maps each action to one of the block device or to none. A read
takes place in `Transfer`, where its buffer is filled, a write in `TransferDone`.

Only model-checked: liveness (`DrainsAgain`, `EveryTaskAnswered`,
`ConnectedOrLeftDown`, `EverythingTaken`, the second half of `SyncCompletes`,
`EveryBioEnds`, `OpenedDiskRuns`, `EveryMessageArrives`, `AnswerComes`), which is
out of this prover's reach; `ScanAgrees`, which is about a recursive operator;
`RoutedInOrder` and `QueueReady` of `Gateway`; and everything about `VopLink`.

## Not modelled, and the plan

Left out for good:
- system calls of the library (page maps, huge pages, mmap, MTRR) and the
  enclave's copy of the ring code (`tstd_vca_mem.c`);
- the registration code of the buses, the tables of operations, procfs and
  debugfs files, and the managers that forward ioctls: no logic of their own;
- the virtio core and most of its network driver, which are the Linux kernel's
  with renamed symbols;
- the DMA mapping driver: three sysfs files that forward to the A-LUT manager,
  with the failure paths the hazards describe.

Left out so far: the rest of the driver core, that is how devices are probed and
taken down, how interrupts and doorbells are handed out, and the power button.
Most of it is set-up that runs once, in the kernel's order.

The driver under `node-drivers` is a copy of the one under `host-drivers`, and
the two `dma-mapping-driver` directories repeat its headers: half of the
repository's lines are the second copy of something. With these, the vendored
virtio, generated files and debug interfaces, the modelled parts are a small
share of the lines and most of the protocols.

Next, proofs: `BuffersConserved` and `Intact` of `VopLink`; the order of messages
in `Gateway`.
