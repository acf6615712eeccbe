# TLA+ models of the esix IPv6 stack and its demo

esix is a small IPv6 stack for microcontrollers, with a socket API, TCP and UDP
on ICMPv6 and IPv6, and a demo that runs it on a Cortex-M3 under FreeRTOS. This
directory holds TLA+ modules of the stack, of the demo's drivers and servers and
of the FreeRTOS kernel they run on, the TLC configurations that check them, and
proofs of their main invariants. Source paths below are relative to the
repository (`src/` is left out).

## 1. Inventory

### Parts, their state and what they do

| Part | State | Operations | Correct when | Module |
|---|---|---|---|---|
| Sockets (`esix/socket.c`) | `esix_sockets` (state, addresses, ports, sequence numbers, one queue of sent, received and child elements per slot), `esix_last_port` | `socket`, `bind`, `listen`, `connect`, `accept`, `send`, `sendto`, `recv`, `recvfrom`, `close`, `esix_socket_housekeep` | ports are not shared, slots and queue memory are given back, queues hold what is served, unacknowledged bytes are resent or given up | `EsixSocket` |
| TCP (`esix/tcp6.c`) | the connection part of a slot | one case of `esix_tcp_process` per flag combination | acknowledgements free what was acknowledged, FIN and RST end a connection once | `EsixSocket` |
| UDP (`esix/udp6.c`) | none | `esix_udp_process`, `esix_udp_send` | a datagram goes to the socket of its port | `EsixSocket` |
| Tables (`esix/intf.c`) | `addrs`, `routes`, `neighbors` | find, add or refresh, remove | one row per key, permanent rows stay | `EsixIntf` |
| IPv6 (`esix/ip6.c`) | none | `esix_ip_process`, `esix_ip_send` | packets for the node are handled, others leave by a route and a resolved next hop | `EsixIp` |
| ICMPv6 (`esix/icmp6.c`) | none | solicitation, advertisement, router advertisement, echo, errors, listener query | neighbours are learnt and answered, routers do not disturb each other, prefixes are configured and withdrawn | `EsixIp` |
| Clock (`esix/esix.c`) | `current_time` | `esix_init`, `esix_periodic_callback`, `esix_ip_housekeep` | what has lapsed goes, after it had a chance to be renewed | `EsixSocket`, `EsixIp` |
| FreeRTOS glue (`demo/esix_glue.c`) | the send queue of 3 packets | `esix_w_malloc`, `esix_w_free`, `esix_w_send_packet` | a packet has one owner, nobody waits for ever for room | `Ethernet` |
| Ethernet driver (`demo/ethernet.c`) | receive FIFO, interrupt mask, a semaphore, the tasks' variables | interrupt handler, receive task, send task, start-up | every frame is noticed, read whole and fits the buffer | `Ethernet` |
| Serial port (`demo/uart.c`) | queue of 256 characters, a semaphore | `uart_putc`, task, interrupt handler | no character is overwritten or stuck | `Uart` |
| Start-up (`demo/main.c`) | - | `main` | it reaches the scheduler | `Board` |
| Servers (`demo/main.c`, `demo/mdns.c`) | descriptors and buffers of six tasks | the calls of the socket API they make | they keep listening, lose no session and leave no slot taken | `ServerTasks` |
| Scheduler (`demo/FreeRTOS/tasks.c`, port) | ready, delayed, pending, suspended and terminated lists, tick count | create, delete, delay, suspend, resume, tick, switch, inherit | the most important ready task runs, sleepers wake in time | `RtosTasks`, `RtosKernel` |
| Queues (`demo/FreeRTOS/queue.c`) | a ring, two lock counts, a mutex holder, two lists of waiters | send, receive and peek by tasks and interrupts | a bounded FIFO, no lost wake-up, no early time-out | `RtosBuffer`, `RtosQueue`, `RtosKernel` |
| Lists (`demo/FreeRTOS/list.c`) | doubly linked rings with a marker | insert, insert at the end, remove, walk | they are sequences | `RtosList` |
| Heap (`demo/FreeRTOS/portable/MemMang/heap_2.c`) | a free list by size | `pvPortMalloc`, `pvPortFree` | an allocator | `RtosHeap` |
| `esix/tools.c`, `demo/boot.c`, co-routines, Doxygen | - | helpers on bytes, start of the C program, not compiled | - | not modelled |

### How they interact

A frame sets the receive interrupt of the Ethernet controller; its handler gives
a semaphore to the receive task (priority 4), which reads the FIFO and passes
the frame to `esix_ip_process`. That calls the ICMPv6, TCP or UDP handler; the
handler changes tables or sockets and answers through `esix_icmp_send`,
`esix_tcp_send` or `esix_udp_send`, all of which end in `esix_ip_send` and
`esix_w_send_packet`. That queues the packet for the send task (priority 3) and
blocks while the queue is full; the send task frees the packet. `main_task`
(priority 1) calls `esix_periodic_callback` every second. The server tasks call
the socket API. All these share the tables and the socket table, and there is no
lock. `main` calls `esix_init` before it starts the scheduler. Semaphores,
queues, delays and memory are FreeRTOS's.

### What is hard here

- API calls in any order, on descriptors whose slot was closed by the peer, by
  a time-out or by a RST and may have been reused by another server;
- segments lost, repeated and reordered, and sequence numbers that wrap;
- full socket table, full queue, full tables, refused allocations half way
  through a handler;
- retransmission, give-up and table aging on one coarse clock, with unsigned
  32-bit dates that wrap;
- router advertisements of several routers for several prefixes, refreshed,
  withdrawn and aged in any order;
- the moment between a test and what follows it: a frame that comes between the
  test for an empty FIFO and the unmasking of the interrupt, an interrupt
  between a task's look at a queue and its waiting for it;
- interrupts while the scheduler is suspended or a queue is locked, a tick count
  that wraps, a priority that is inherited while its task waits elsewhere;
- handlers that preempt application calls (no lock).

`PROJECT.json` lists each hazard at its line with the properties about it.

## 2. Modules

### The stack

`EsixSocket` - sockets, TCP, UDP, retransmission. A slot is a record; the
single linked list of queue elements is three sequences, one per `qe_type`,
because the code appends at the end, looks up the first element of one type
and counts all. Each API call and each flag case of `esix_tcp_process` is one
action. `wire` is what the last step handed to the layers below. `fd` is what
the applications hold in their descriptor variables: they make any call on any
descriptor, also a stale one. `TcpIn` and `UdpIn` are all segments and
datagrams from the configured sets; any of them may arrive at any time, so
loss, repetition and reordering need no network of their own. Datagrams may also
be sent to the `Groups` the node has joined; nobody answers one that no socket wants.
`MaxChild` bounds the children in a listener's queue: the code has no limit for
them (`esix/socket.c:295`), and the element of a session that dies before
`accept` stays.

`EsixIntf` - the three tables as operators on functions from slots to rows.
The index a look-up returns is a set of at most one slot, empty for -1.

`EsixIp` EXTENDS `EsixIntf` - the handlers of ICMPv6, output (`esix_ip_send`
with route choice, neighbour resolution and source selection), and aging. `mem`
is the set of allocations that succeed in the step; those of `MayFail` may be
refused. A solicitation sent in place of an unresolved packet is part of the
step that sends the packet. `Prefixes` are what routers may advertise, `fe80` among
them if the instance says so: such an option is handled like any other, hits the
link-local route and makes the node probe for its own address. The node forms its
addresses from the link-layer address in row 0 of its cache. That row is its own as
long as nobody advertises `fe80`; with such a router it may expire, and then be
another host's (`OwnHosts`) or empty: `NullLla` is what the code reads through the
null pointer (`esix/icmp6.c:462`), one of `Llas`, because memory at 0 may hold
anything.

### The demo

`ServerTasks` EXTENDS `EsixSocket` - the six server tasks and `main_task` on the
real socket table: a step is one call of a task, one packet of a client or one
tick. `up` says which servers run and which clients each has. Clients connect up
to `MaxSyns` times, may stay half-open, talk, close, reset and come back. `usurped`
(ghost) becomes true when a server that sets up late is given a slot that another
task still names, or is refused its port; the properties say what holds unless
that happens. The first can only happen to a server that sets up after clients
have come and gone, which the mDNS task does (it starts 600 ticks after the
others). The second is possible because `socket` takes its provisional port from
`FIRST_PORT` .. `LAST_PORT` in the order of the host, while the servers give `bind`
theirs in the order of the network: on the little-endian board 2010 (0x07DA) is
55815 (0xDA07), which lies in 32000 .. 65535, so another socket may have it by
then. The servers do not test what `bind` returns and go on with the port they
have. `MdnsGroup` is one of the stack's `Groups`: queries come to it or to the node's
address, and the answer goes to it.

`Ethernet`, `Uart` - the drivers: a step is one access to a device or one kernel
call, and tasks and interrupts come in between in any order. This is more than
priorities allow, so what holds here holds for every assignment of priorities.
Semaphores and queues are what `BoundedFifo` says of them. The FIFO is a
sequence of words `<<n, i>>`: word `i` of the `n`-th frame of the wire. A header
that is not one, because the receiver is out of step, may say anything.
`RXINT` is taken as "the FIFO is not empty" (`demo/ethernet.c:212`).

`Board` EXTENDS `Ethernet`, `Uart` - `main` from the drivers' start-up through
`esix_init`, which sends three packets into a queue of three, or fewer when there
is no memory for one, to the scheduler;
interrupts stay masked until then (the port starts with `uxCriticalNesting`
0xaaaaaaaa). `Loads` bounds what comes in, what applications send and print.

### The kernel

`RtosTasks` - the scheduler: each function of `tasks.c` and of the port is an
operator from its state, a record, to the next. `RtosBuffer` - the ring of a
queue. `RtosQueue` - the critical sections of `queue.c` as operators on scheduler
and queue. `RtosKernel` makes steps of them: a step is one critical section, one
call between them or one interrupt handler, so that a blocking call is several
steps with interrupts and other tasks in between. A script says which calls the
tasks may make, in any order, and which interrupts there are. Interrupts do not
use mutexes (`ScriptsAssumption`; `demo/FreeRTOS/include/semphr.h:556`: "Mutex type
semaphores cannot be used from within interrupt service routines"), the handle of
the idle task is not given out, and fewer ticks are missed in one suspension of the
scheduler than the tick count has values (`BoundsAssumption`; there are 2^32).

`RtosList` - the linked lists with their pointers; the loop of `vListInsert` is
one step per iteration, because it runs with interrupts enabled and handlers
work on other lists meanwhile. `TaskLists` - the sequences that `RtosTasks`
takes lists for.

`RtosHeap` - the heap; `Allocator` - what its callers rely on.

### Abstract specifications and refinement

| Abstract | Detailed | Mapping | Checked by |
|---|---|---|---|
| `BoundedFifo` | `RtosKernel` (queues) | the items from the read pointer on | run `kernel`, `QueuesAreFifos`; theorem `QueuesImplementFifos` |
| `TaskLists` | `RtosList` | the ring from the walking pointer on, or from the marker | run `list`, `ListsAreSequences` |
| `Allocator` | `RtosHeap` | the blocks in use with the sizes asked for | run `heap`, `BlocksAreTheirs`; theorem `HeapIsAllocator` |

`RtosTasks` is written on top of the sequences of `TaskLists`, `Ethernet` and
`Uart` on top of `BoundedFifo`, and the refused allocations of `EsixSocket` and
`EsixIp` are those `Allocator` may refuse: each layer is checked against what the
next relies on. `ServerTasks` is `EsixSocket` with its applications: theorem
`ServersUseTheStack`.

`MC*` modules hold constants, views and scripts for TLC, `*Proofs` the theorems
(section 6).

### What the abstraction leaves out

The stack:

- Every call, handler and tick is one step. On the target an application call
  can be preempted by the receive task, and a handler is not. The step is the
  unit the code is written for; what preemption adds is not modelled
  (section 7).
- Parsing: versions, lengths, checksums, skipped extension headers. A frame
  is a record that reached its handler. The handlers compare and convert
  option lengths; the input sets contain options of every kind, also those a
  conforming router would not send together, so the handler sees all
  combinations of prefix options. No router advertises a multicast prefix or
  `::/64` (`AddressesAssumption`); `SourcesUnicast` rests on the former, since the
  node would take a group for its own unicast address.
- `EsixSocket` has no routes and `EsixIp` no sockets. `UpperSend` stands for
  all segments and datagrams of sockets, `send_unreachable` for a datagram
  nobody listens for.
- Payloads keep their length, not their content; `recvfrom`'s truncation to
  `max_len` and empty sends are left out, and so is the address `accept` writes
  for its caller (it copies the listener's `raddr`).
- `bind` to an own address other than `addrs[0]` is excluded by a guard: the
  code's loop does not advance its index and never returns
  (`esix/socket.c:430`).
- The `mtu` and `ttl` of routes, which nothing reads.
- Boot is one initial state of the stack, because `esix_init` runs before the
  scheduler. The flags of the node's own neighbour row are never written; at
  boot the allocator (heap_2) hands out fresh zero memory, so they are 0.
- `esix_icmp_send_mld` stores the group through a pointer computed from an
  uninitialised one (`esix/icmp6.c:634`). The store is not modelled.
- When adding an address fails after its row was stored, the code removes a
  group given by an uninitialised variable, with type and length swapped; no
  row can match, and the model leaves the table alone.

The demo:

- `ServerTasks` keeps two payloads, one a server ends the session for and one it
  does not; the page, the texts and the LED are left out, and `toggle_led` and
  `help` are one more line to say. `vTaskDelay` is a point where a task may rest
  as long as it likes. A `socket()` that fails at start-up, which the servers do
  not test for, is outside the model.
- Packets are alike, so `pvPortMalloc` gives a fixed free one. `alloc_count` is
  only printed. `ether_disable` and `ether_mii_request` are called by nobody;
  the other interrupts' handlers are empty.
- `hardware_init`, `boot.c` and `uart_printf`'s formatting.

The kernel:

- Critical sections are one step. The two `pvPortMalloc` of `xTaskCreate` and the
  two `vPortFree` of `prvDeleteTCB` are one suspension and resumption of the
  scheduler. `OverflowMod` = 2 stands for 2^32 overflows of the tick count.
- `configIDLE_SHOULD_YIELD` is 0, co-routines, tracing and statistics are off
  (`FreeRTOSConfig.h`). `vQueueDelete`, recursive and counting semaphores, the
  alternative API and `vTaskPrioritySet` are not used by the demo and not
  modelled.
- The scripts leave out uses the demo does not make and this version of the
  kernel does not support: a finite wait on a mutex (its time-out does not give
  back what it made the holder inherit, `queue.c:929`), two mutexes at once
  (`tasks.c:2175` gives the base priority back with the first), the deletion of
  a holder (`pxMutexHolder` keeps pointing to it, `tasks.c:517`), and the
  suspension or deletion of a task that was woken for an item and has not fetched
  it yet (`tasks.c:847`; nobody is woken in its place).
- A list operation is not interrupted by one on the same list; the kernel sees
  to it. `xItemValue` is only set on an item in no list, except by priority
  inheritance, which `RtosTasks` models.
- Both calls of the heap run with the scheduler suspended and no interrupt uses
  the heap, so they are single steps. Sizes that wrap when the header is added
  are excluded by assumption. heap_2 never joins blocks; neither does the model.

### Behaviour of the code the model shows and no property names

- Duplicate address detection looks the address up after a busy wait in the
  task that handles frames, so it only finds neighbours known before.
- A solicited advertisement refreshes a neighbour's date and keeps its old
  link-layer address; an unsolicited one for an unknown target is stored as
  REACHABLE.
- With a full neighbour cache the answer to a solicitation cannot be resolved:
  a solicitation is sent instead of the advertisement. `SolicitationAnswered`
  therefore assumes room.
- The first matching route wins, so a default route that was learnt before an
  on-link route takes its traffic.
- A lifetime of 2^32 - 1 gives the date one second ago, or 0, which means
  "never", in the first second.
- A listener query is taken as general when its body has 4 bytes and as one for
  a group when it has 44; one of the standard 20 bytes is ignored. The report
  carries the node's own link-local address in place of the group.
- A frame that the Ethernet task discards is read as many words as it has bytes
  (`demo/ethernet.c:195`), so frames right behind it are lost with it, and what
  comes next is read from the middle. The task is in step again when it finds the
  FIFO empty. `inStep` (ghost) says so, and `FramesWhole` and `FramesGiven` hold
  while it is true.
- `uart_putc` drops a character that finds 256 others waiting.
- A server's session that dies before the server closes it leaves a descriptor
  to a slot that may be somebody else's by then (`demo/main.c:203`).

## 3. Runs

A `VIEW` leaves out of fingerprints only what no step reads, and counts dates of
`EsixSocket` and `EsixIp` from the present. The code only compares dates with
the clock, so all relative states are explored and the state space is finite
without the bound: `MaxTime` (1000) is never reached by a shortest path.
`CHECK_DEADLOCK FALSE` is there for `MaxTime`, in `board` for `Loads` (the board
is silent when nothing more comes), in `servers` for `MaxTime` as well.
Properties of `wire` are stated of steps, because states with the same view may
differ in it.

| Run | Instance | Question |
|---|---|---|
| `table` | 3 slots, 2 descriptors (symmetric), 5 ports, all flag cases, children queued | are ports and slots kept apart and given back in all orders of calls and segments? |
| `data` | 1 slot, queue limit 2, sequence numbers modulo 5, give-up age 2 | queues, contiguity, timer and give-up with every sequence and acknowledgement number |
| `nd` | 2 hosts, one of them a router, 1 prefix; cache of 2 rows; `NEW_NEIGHBOR_TIMEOUT` 5, `STALE_DURATION` 3 and a housekeeping every 2 s as in the code, `NEIGHBOR_TIMEOUT` 7; zero, short and infinite lifetimes, mixed prefix options, hop limits 0 and 255, refused allocations | solicitation before removal, answers, aging, typing with wrapped dates, agreement of address and route |
| `rd` | 2 routers, the prefix `fe80`, lifetimes 0 and 1; routing table of 3 rows, which overflows, cache of 1 row; periods as short as they can be; refused allocations, those of solicitations included | do routers disturb each other? what is left of the rows of `esix_init`, and of the keys, when the tables' first rows go? |
| `servers` | 4 slots, one queued element per socket, 2 connections, up to two servers at once: http with chargen, http with mdns, tcp with two clients, udp with echo | do the servers stay up and give everything back? |
| `board` | buffer of 28 bytes, frames that fit it and frames that do not, a FIFO of 16 words, send queue of 3, 4 packets, 2 frames, or a frame and 2 packets, or a packet and 3 characters on a serial queue of 2 | is anything lost, mixed up, overrun or stuck between interrupt and task? |
| `kernel` | idle and three tasks, a queue of 2 and a mutex, tick count modulo 4, six scripts | are the scheduler and the queues right at every interleaving of calls and interrupts? |
| `kernel_live` | the same with four scripts | does everyone get on? |
| `list` | three lists, one of each use, and 3 items with 3 values | do pointers implement sequences? |
| `heap` | 96 bytes, requests of 0, 1, 12, 30 and 100 bytes | do blocks implement an allocator? |
| `claim_event_order` | idle and three tasks that take a mutex and wait for a queue | section 5 |
| `claim_withdraw` | 1 router, 1 prefix, lifetimes 0 and 1 | section 5 |

Why the bounds are enough to be interesting. In `table` three slots hold a
listener, a session and one more socket, so the table fills up while a session
is pending, and the port range (5 ports for 3 slots, the smallest that
`config.h` allows) wraps. In `data` the modulus 5 is larger than the 3 bytes that
can be outstanding, so wrapped and unwrapped windows both occur and the first
unacknowledged byte is never ambiguous. In `nd` one row is the node's own, and the
two hosts, and a duplicate of the node, compete for the other one;
`NEIGHBOR_TIMEOUT` is scaled from 180 s to 7 s, which is odd and larger than
`STALE_DURATION` plus the housekeeping period, the two relations that matter. That
the cache has no two rows for one key needs a third row to go wrong, which makes
the instance too large together with the router: it is left to the theorem
`KeysStayDistinct`. In `rd` the permanent routes leave one row for the default routes
of two routers, or two when the link-local route is withdrawn; the one row of the
cache is the node's own until it lapses, and whoever comes first may then take it.
One remote port and one
peer suffice in `table` and `data`, because the code compares peers with equality
only and several sessions of one four-tuple are already possible with one peer.

In `servers` two connections are the fewest with which a slot of a dead session
is taken by the next while a server still names it; sequence numbers and the
retransmission age, which `data` covers, are reduced to nothing; the range of
provisional ports is 79 .. 84, so that it holds one of the servers' ports and a
refused `bind` is among what happens. In `board` the
buffer is the smallest that a header and a payload of more than one word fit, the
two sizes lie on either side of it, a FIFO of 16 words holds one frame of each,
and 3 + 1 packets are the queue of the code, full, and one more. The tick count of
`kernel` wraps within each script, waits are up to half of its range, and one tick
may be missed while the scheduler is suspended. The scripts are: a consumer and
a producer with interrupts that send and receive; two consumers of one priority
that race; peeking, and both ends of a queue; three tasks and a mutex; sleeping
and suspending; creating and deleting. In `list` one of the values is that of the
marker; in `heap` the requests need rounding, split a block, take it whole, do not
fit, and are 0.

The properties, by subject:

- sockets: `PortsDistinct`, `AbandonedOnlyWithListener`, `QueuesSound` (a CLOSED
  slot owns nothing, elements are served; packets in `data`, children in `table`);
- transmission: `RexmitArmed`, `TxContiguous`, `GiveUpBound`;
- servers: `ServersListen`, `SessionsHeld`, `ComesToRest`;
- tables: `KeysDistinct`, `PermanentRows`, `LapsedGone`,
  `PrefixAgesTogether`, `RoutersIsolated`;
- neighbours: `SolicitedBeforeRemoval`, `SolicitationAnswered`;
- drivers: `ToldOfFrames` (a frame in the FIFO is going to be read, and the task
  is told of no frame it has read), `FramesWhole` (what the stack is given is the
  next whole frame that is for it), `PacketsOwned` (one owner, none lost),
  `NothingOverrun` (frame buffer, queues, serial port), `Delivered` (start-up
  ends, frames, packets and characters arrive);
- kernel: `KernelSound` (the lists agree with each other, with priorities and
  with time), `HighestRuns`, `NoLostWakeup`, `PriorityInheritance` (one holder, at
  least as important as its waiters, with its own priority back afterwards, and
  event lists in the order of priorities),
  `ListsChangeInTime` (no sleeper is woken early, and interrupts leave alone what
  a task is at), `TimedOutFully`, `QueuesAreFifos`, `ListsEmpty` (sleepers wake,
  the deleted are freed), `EqualsShare`, `InversionEnds`;
- lists and heap: `ListsSound`, `ListsAreSequences`, `InsertionEnds`, `HeapSound`,
  `BlocksAreTheirs`.

Two more, `SourcesUnicast` (no packet leaves with a group as its source) and
`BestFit` (the block handed out is the smallest that fits), are about single steps;
they are proved (section 6), and no run checks them.

Each of the others has a mutant (in the module, before the definition it replaces) that
breaks it.

## 4. Fairness and liveness

- `board`: weak fairness of `main`, of each driver task, of each interrupt
  handler and of the devices that finish what they began. Interrupts are taken
  when unmasked; the driver tasks have the highest priorities and wait for nothing
  but their semaphores and queues. Nothing makes frames, packets or characters
  come.
- `servers`: weak fairness of each server task (they have one priority and share
  the processor by time slices), and of `Leaves`: a client that is connected
  goes away some time. The latter is an assumption on clients, not something the
  code sees to: `recv` in `demo/main.c:273` is tried for ever while a silent
  client stays connected.
- `kernel_live`: weak fairness of the timer, of a pending switch and of the
  start; strong fairness of each task's steps inside a call, because a time slice
  is long enough for one, and of giving a mutex back, which is an assumption on
  applications. What a task computes between its calls may last for ever.
- `list`: weak fairness of the loop of `vListInsert`.

In the stack, what must happen in time is stated as a bound on the clock
(`GiveUpBound`, `LapsedGone`), which needs no fairness: the housekeeping is part
of the tick.

## 5. Where comments and code disagree

Two runs check what a comment says, and end in a counterexample:

- `claim_event_order`: FreeRTOS says that event lists are always in the order of
  priorities (`demo/FreeRTOS/tasks.c:1637`, `:1838`), but `vTaskPriorityInherit`
  changes the event item's value in place (`:2144`). A task that holds a mutex,
  waits for a queue and then inherits a priority stays behind waiters that it now
  outranks. The demo has no mutex; the scripts of `kernel` never wait while holding
  one, and there the order is kept (`PriorityInheritance`).
- `claim_withdraw`: "a lifetime of 0 means remove the address/route"
  (`esix/icmp6.c:480`, `:483`). The route goes; the address stays, because length
  and type are swapped in the call (`:484`).

The models of the stack follow the code, not the comment, in these cases, which
have no run of their own:

| Comment | Code |
|---|---|
| `esix/intf.c:111` the link-local route never expires | a prefix option for `fe80::/64` with lifetime 0 removes it (`esix/icmp6.c:487`), one with a lifetime gives it that date (`:499`) |
| `esix/intf.c:62`, `:75` the first row of the neighbour table is the node itself and never expires | a prefix option for `fe80::/64` makes the node probe for its own address, which is in the cache and is marked as solicited (`esix/icmp6.c:358`); the advertisement of a duplicate gives the row a date (`:274`), and it goes when that has passed |
| `esix/socket.c:26`, `esix/config.h:38` at most `ESIX_QUEUE_DEPHT` packets | one more gets in, because the test looks at the elements that are there, counted from 0 (`esix/socket.c:30`; theorem `QueuesAreBounded`) |
| `esix/tcp6.c:105` an ACK removes every acknowledged packet | the plain comparison keeps segments from before the wrap when the ACK comes from behind it (`esix/socket.c:579`), once in 4 GiB of a connection |
| `esix/socket.c:145` only the connected peer can talk to the socket | nobody can, the peer included (`esix/udp6.c:53`) |
| `esix/tcp6.c:159` "is the packet in order?" | only the acknowledgement number is compared (`:160`) |
| `esix/socket.c:566` expire what ends before the acknowledgement | the plain comparison also frees bytes behind the wrap on a late ACK from before it (`:579`) |
| `esix/icmp6.c:405` the prefix length must be 64 | a later option of another length is used (`:404`) |
| `esix/intf.c:479` bail out if an answer was received | the answer cannot have been handled yet (`:480`) |
| `esix/config.h:33` the number of routes | `esix_ip_send` looks at 4 of them (`esix/ip6.c:160`) |
| `esix/tcp6.c:80` store the remote node's sequence number | another field is stored (`:86`) |
| `esix/socket.c:641` "exp backoff fashion" | `^2` is exclusive or (`:643`); `GiveUpBound` accounts for it |
| `esix/include/socket.h:102` the number of connections allowed | ignored (`esix/socket.c:445`) |
| `esix/include/socket.h:113` `accept` returns the connection's socket | its slot may have been reused (`esix/socket.c:256`) |
| `esix/icmp6.c:223` answer even if the neighbour was not added, for a full table say | the answer cannot be resolved then (`:233`) |
| `esix/icmp6.c:266` check that the advertisement was asked for | one for an unknown target is stored before (`:254`) |
| `esix/icmp6.c:498` a local route for the own subnet | a default route learnt before is taken (`esix/ip6.c:176`) |
| `esix/icmp6.c:480` only a lifetime of 0 means removal | an infinite one wraps into the past (`:493`) |

## 6. Proofs

TLAPS checks the theorems for every value of the constants that satisfies the
named assumptions.

`EsixSocketProofs`, from `SizesAssumption`, `PortsAssumption` and
`EnvAssumption`:

- The invariant is `IInv == TypeOK /\ RecordsOK`. `RecordsOK` gives
  `RecordInv` for every slot: a CLOSED slot is empty, elements are served, the
  queue is bounded, the sent segments are contiguous, and `Timely`: the
  retransmission date of a slot with sent segments is not in the past and not
  later than the deadline of each segment, and segments are in the order in
  which they were sent. `GiveUpBound` and `RexmitArmed` are not inductive; they
  follow from `Timely`, because housekeeping runs in every tick, moves each due
  date, and gives up when the oldest segment is too old.
- From it: `TypeCorrect`, `ClosedSlotsOwnNothing`, `ElementsAreServed`,
  `QueuesAreBounded` (packets, not children), `QueuesStaySound`, `RetransmissionArmed`,
  `TransmitQueueContiguous`, `GiveUpWithinBound`.
- `PortsStayDistinct` and `SocketsStayReachable` rest on one relation between a
  slot before and after a step (`Keeps`): it does not take over a port, does
  not come to life, and loses children only with its listener. `socket`, a SYN
  and `accept`, which do not keep every slot, are treated by themselves.

`EsixIpProofs`, from `TablesAssumption`, `AddressesAssumption`,
`NoRowAssumption`, `DatesAssumption` and `InputsAssumption`:

- The invariant is `AddrInv(addrs) /\ RouteInv(routes) /\ CacheInv(neighbors)`
  and the range of the clock. Each part says that rows are typed, that keys are
  distinct and that the rows of `esix_init` are in place; for the link-local route
  and the node's own row of the cache only if `fe80` is not in `Prefixes`.
  `AddrInv` adds that an autoconfigured address is in an advertised prefix
  with mask 64 and formed from one of `OwnHosts` (without `fe80` from the node's own
  link-layer address, which makes the refresh of an address hit the row that is
  there); `RouteInv` adds that a route has a router as next hop exactly when it is a
  default route, without which a withdrawn router could leave a route behind.
- Each table operator preserves its part whatever it is called with; the
  handlers combine them.
- From it: `TypeCorrect`, `KeysStayDistinct`, `InitialRowsStay`,
  `RoutersDoNotInterfere` and, with a lemma on the dates that storing gives to
  rows, `AddressAgesWithRoute`. `InitialRowsStay` says of any router what stays,
  and of those that do not advertise `fe80` that everything does;
  `AddressAgesWithRoute` is about the latter.
- `OnlyUnicastSources` follows the source of each packet from the frame it answers:
  a group is replaced by an own address that suits the destination
  (`esix_intf_check_source_addr`) or the packet is not sent (`IcmpSendUnicast`), a
  solicitation sent in place of a packet comes from the link-local address, which
  is the one in slot 0 (`LinkLocalIs`), and no own address is a group.
- `SolicitorsAnswered` follows the answer through the tables as the handler leaves
  them: the neighbour that asks was found or has been stored (`SolicitorKnown`), a
  route leads to it, so the look-up of the next hop finds its row.
- `NothingOutlivesItsDate` adds `FreshInv`: a row is past its date by two ticks at
  most, by one when housekeeping has just run. It assumes `LifetimesFit`: no
  advertised lifetime but the infinite one is so long that the date it gives wraps.
  The code has no guard against one that is; the row it makes lapses at once.
- `SolicitedFirst` adds `UnhurriedInv`: a neighbour that has not been solicited does
  not lapse before the next housekeeping is over. It assumes that `STALE_DURATION`
  is at least the period of housekeeping (2; it is 3 in the code; with less,
  neighbours are removed unasked) and that there is memory for the solicitations.

The last part of `EsixSocketProofs` is about the servers; it adds `ServersAssumption`:

- `ServersUseTheStack` is the refinement of `EsixSocket` by the demo: a step of a
  server, a client or `main_task` is a step of the socket layer, so the theorems about
  the socket layer hold of it.
- The invariant is `ServersInv`: the socket layer's own, with the fact that receive
  queues only hold what peers sent; where each server stands and what it has
  received; and, unless `usurped`, that each server's socket is as far set up as the
  server is (`SetUp`), nobody else names it, nobody else's socket waits for
  connections, and no session is out of reach of `accept`.
- From it: `ServersKeepListening` and `NoSessionForgotten`.

`BoardProofs`, from `EthernetAssumption` and `UartAssumption`, for any frames,
any FIFO and any number of packets:

- `ToldInTime`, `NothingIsOverrun` and `PacketsStayOwned` need one invariant,
  `BoardInv`, of four parts. `ReceiveInv`: the receive task is told
  exactly once of what lies in the FIFO: while it waits either the interrupt is
  unmasked or the semaphore is given, and neither is while it is at work. `PacketInv`: a packet
  is free, or once in the queue, or in the hands of one task. `UartToken`: of a
  character that is being sent there is one trace (the register, its interrupt or
  the semaphore), so the task never writes to a register that is full.
  `UartQueue`: the serial queue is bounded and holds characters that were put.
- `FramesStayWhole` needs `FrameInv`: the FIFO holds the words of consecutive
  frames, each whole but for the first (`Whole`), and while the task is in step
  its place in a frame says which word comes next, and that no frame for the
  stack was passed over (`Aligned`). A discarded frame may cost the task its step,
  because a word too many may be read with it; it is in step again when it finds
  the FIFO empty (`inStep`), and the theorem says nothing of the time between.

`RtosListProofs`, from `ListsAssumption`:

- The invariant is `IInv == TypeOK /\ Linked /\ AllOrdered /\ Counted /\ Sorted
  /\ InsertionOK`. That a ring is one cycle through its marker is said by
  `AllOrdered`: there is an order of its members that the pointers follow.
  `InsertionOK` is about a `vListInsert` under way: its item is in no list, its
  iterator is at the marker or at an item that is not greater, or for the greatest
  value at the last one; with it the item is linked in where the order wants it,
  whatever happens to other lists between iterations.
- From it: `ListTypes`, `ListsLinked`, `ListsCounted`, `ListsSorted`,
  `ListsStaySound`.

`RtosHeapProofs`, from `HeapAssumption`:

- The invariant is `HeapInv`: the blocks tile the heap (`Tiles`), the free list
  has each free block once and nothing else, in the order of sizes
  (`Lists`, `SortedBy`), and each block in use holds what was asked for
  (`RequestsHeld`).
- From it: `HeapTypes`, `HeapIsTiled`, `FreeListIsSorted`, `HeapStaysSound`;
  `FirstFitIsBest`, because the first block that fits in a sorted list is the
  smallest that fits; and `HeapIsAllocator`, the refinement: every step of the
  heap is a step of `Allocator` or none, in which no two requests share a byte.

`RtosTasksProofs`, from `TasksAssumption`, `ItemsAssumption`, `QueuesAssumption` and
`BoundsAssumption`, is about operators, not steps:

- What the ring of `queue.c` holds from the read pointer on is empty at first
  (`NewBufferIsEmpty`), and writing at the back, at the front and reading are
  `Append`, prepending and `Head`/`Tail` of it (`BackAppends`, `FrontPrepends`,
  `ReadTakesFirst`), for every length.
- Which lists the tasks are in is two functions: `P[t]` is the priority of the ready
  list that `t` is in, or one of the numbers `Delayed`, `Overflowed`, `Suspended`,
  `Terminated` and `Absent` (and `Limbo` between two lists); `E[t]` is the event list
  it waits on, `Pending` or `Nothing`. `Settled(k, P, E)` says that the lists of the
  scheduler are those, in their orders, and that counters, priorities and wake times
  agree with them. There is a lemma for each function of `tasks.c`: from `Settled`
  for `P` and `E` it leads to `Settled` for the `P` and `E` it makes of them. The
  quantified formula is thus about two functions, whatever lists there are.
- The loops of `xTaskResumeAll`, `prvCheckDelayedTasks` and `prvUnlockQueue` are folds
  in the model. A fold is the last value of a run of single rounds (`FoldIsRun` and
  what follows it), and facts about runs are proved by induction over a set
  of natural numbers, since the induction theorems of the library are out of reach.

`RtosKernelProofs`, from the same and `ScriptsAssumption`, is about every script, any
number of tasks, queues and priorities, and any length of the tick count:

- `OneTaskHoldsEach` and `QueuesImplementFifos` need `MutexInv`: queues are blocks
  whose pointers agree, the record of a task in a call is well formed (`FramesOK`:
  the stage it is at goes with the call it is in), and a mutex is empty exactly when
  one task holds it. Every step does one of four things to one queue (`QueueStep`): it
  puts an item in, takes the first one out, peeks, or moves a lock count. The first
  three are the steps of `BoundedFifo`.
- `ListsStaySound` is `KernelSound`. Its invariant is `KernelInv`: for some `P` and
  `E`, `Sound(P, E)`: the scheduler is settled (`Settled`); only the running task has
  the scheduler suspended, and it is ready unless it is about to give up the
  processor (`Staged`); a task in a call holds times, waits and priorities it may
  hold (`FramesCareful`); a mutex whose holder is about to inherit is still
  taken (`EmptyAtInherit`); and no two calls create one task (`CreatesOK`). With it
  go the ghosts: `left` is the time to the wake time of each sleeper, and clock and
  tick count differ by the missed ticks. Each action is shown to be a move
  (`Moves(Q, F, P, E, n)`): it leads to a `Q` and `F` that are sound again, with `n`
  ticks processed, and says which tasks left which lists.
- `ListsChangeWhenTheyMay` (`ListsChangeInTime`) follows from what a move may do.
- `NoCallFailsEarly` (`TimedOutFully`) needs `Aged`: the ghost `age` of a call that
  waits is not less than what the call has waited so far by its own account, that is
  the time it was given, less the time it has left, plus the ticks since the time it
  noted (`OfAge`), and that time has not come round again, across the wrap of the
  tick count and of its overflow count (`Behind`).
- `NoWakeupIsLost` is `SparesWaiters(script) => NoLostWakeup`. `NoLostWakeup` is not
  inductive: it says nothing of a queue that is locked, and that *somebody* is on its
  way is not enough when two items are there. `WaitInv` counts. For each queue and
  side (receivers wait for items, senders for free slots): if somebody waits, what
  there is to be had is at most the number of tasks that are on their way, plus what
  the lock has counted for `prvUnlockQueue` (`Served`). A task is on its way when it
  is in the call, on no event list, and at a stage from which it looks at the queue
  again (`Coming`). With it go: whoever is on an event list is in the call the list
  is for (`WaitersLook`); the queue is locked while a call makes up its mind, and
  holds no more than was counted since (`QueuesLocked`); and a task that waits for
  termination is in no call of `queue.c` (`EndedLeave`). What the operations of
  `tasks.c` do to those who wait is that they only ever take them off lists (`Trims`),
  `vTaskPlaceOnEventList` excepted; what a step does to the counts is one of few
  kinds (`QuietStep`, `TurnStep`, `UnlockStep`).
- The hypothesis `SparesWaiters` is a condition on the script: no task deletes another
  that may call `queue.c`. It is needed: with three tasks, two of which receive from
  one queue, an interrupt that sends wakes the first, the third task deletes it before
  it runs, and the second waits for ever beside an item. `vTaskDelete` tells nobody.
  Deleting oneself, being suspended or timed out on the way is all right.

`RtosPriorityProofs`, from the same assumptions, is about who runs:

- `MostImportantRuns` is `Spec /\ [][FallYields]_vars => []HighestRuns`. `TopInv` says
  that the running task is at least as important as every ready one (`Best`), or a
  switch is to come (`Switches`: it is pending, or was missed while the scheduler was
  suspended), or the running task is at the end of a call that will ask for one
  (`WillYield`). Every operation of `tasks.c` keeps it (`KeepsTop`) because whoever
  makes a task ready, or pends it, compares it with the running one. The hypothesis
  `FallYields` says that a running task whose priority falls has a switch coming. One
  line can break it: `vTaskPriorityDisinherit`, when a mutex is given back for which
  nobody waits any more.
- `HoldersInherit` is `UsesMutexesWell(script) => PriorityInheritance`, and
  `HighestRunsAlways` is `UsesMutexesWell(script) => HighestRuns`, with nothing assumed
  of the steps. A script uses mutexes well if each task takes no more than one of them,
  either waits for it for ever or does not wait, never peeks at it, waits for no other
  queue, and is suspended by nobody but itself and never deleted; tasks that take no
  mutex are free in everything else. `OrderInv` is the invariant. Its part `HoldInv` is what the
  discipline gives: what is held was taken by a call of the script, a task in a call
  holds nothing, a call on a mutex waits for ever, an interrupt never unlocks one with
  a wake-up counted. `PrioInv` relates priorities to mutexes:
  - `EventsInOrder`: the value by which a task is sorted into event lists is the one
    of its priority *now*, and the lists are in the order of the values. It holds
    because a task that inherits is on no event list.
  - `NoSleepers`: whoever waits for a mutex does not sleep, so no tick takes it away.
  - `HoldersLead`: the holder is as important as each task that waits, and as a task
    between `vTaskPriorityInherit` and `vTaskPlaceOnEventList` (`Placing`), where an
    interrupt can come in.
  - `OnlyOwed`: a priority that is not a task's own is owed to such a task, and for a
    mutex that the task holds. So a task that holds nothing has its own.
  - `FirstComes`: when the mutex is free, somebody on its way to it is as important as
    each task that waits. Whoever takes it next must lead those who still wait: the
    task that runs is the most important one that is ready (`TopInv`), so the one
    woken, or one as important, gets there first. This is why priorities and
    scheduling are one invariant and not two.

  With it `FallYields` is no hypothesis any more: a giver whose priority falls had
  inherited it from a task that waits (`OnlyOwed`), the first of the event list is at
  least as important (`EventsInOrder`), so `xTaskRemoveFromEventList` asks for a switch
  (`GiveFalls`). The assumption of `MCRtosKernel` shows that the scripts of `kernel` and
  `kernel_live` are of this kind.

Only model-checked:

- Priorities of holders in scripts that break the discipline. It is there for a reason.
  When a finite wait for a mutex times out, or the task that waits is suspended or
  deleted, the holder keeps the priority it inherited and gives it up with the mutex,
  but does not yield to a ready task in between. A holder that waits for another queue
  inherits while it is on an event list, which section 5 shows to upset the order.
- `ListsAreSequences`: the abstract sequence is the ring as it is walked from a
  pointer, defined by recursion on data.
- The claims of section 5, and every liveness property (`Delivered`, `ComesToRest`, `InsertionEnds`,
  `ListsEmpty`, `EqualsShare`, `InversionEnds`).

Out of the prover's reach are liveness and ENABLED, induction over data and RECURSIVE
operators; no module declares one.

## 7. Not modelled

- Preemption inside API calls and handlers of the stack: there is no lock, so the
  receive task may run between a test and an assignment of `send`
  (`esix/socket.c:533`). `EsixSocket`'s records would have to be split into the
  reads and writes of the compiled code.
- The loop of `bind` (`esix/socket.c:430`), excluded by a guard: it either ends in
  its first iteration or never.
- An active open with its peer (`esix/tcp6.c:81`): `EsixSocket` has the handler,
  the demo opens no connection and the model has no peer that keeps to TCP.
- The wait of duplicate address detection (`esix/intf.c:480`), a busy loop in the
  only task that could process an answer.
- `esix/tools.c` (byte order, `memcpy`, `memcmp`): pure functions on bytes; the
  models use equality. `demo/boot.c` and `hardware_init`: assignments to
  registers before anything runs. Co-routines are not compiled. Kernel API that
  the demo does not use is listed in section 2.

What could follow: `EsixSocket`'s connection with a conforming peer on a lossy
network and a liveness property of the transfer; the linked list of
`esix/socket.c` with its allocations as a refinement of one sequence per type; what
is left of priority inheritance for tasks that hold two mutexes.
