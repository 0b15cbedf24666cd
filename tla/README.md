# LBL4: a TLA+ model of the load balancer

LBL4 is a layer-4 load balancer. A controller written in C++ keeps the list of
backends, computes a Maglev table for every service and writes it into BPF maps;
an XDP program forwards the packets of clients by these tables. This directory
holds TLA+ modules translated from the source, TLC configurations that check
them on small instances, and TLAPS proofs about them. Paths below are relative
to `src/`; `user_ebpf/` stands for `controller/user_ebpf/`. `PROJECT.json` maps
every definition to its lines, and lists runs, mutants, findings and hazards.

## 1. Inventory

| component | state | operations | modelled by |
|---|---|---|---|
| Session manager (`user_ebpf/session_manager`) | sessions by descriptor, vectors of descriptors by service, virtual IPs, logical ids | create, remove, refresh, report, expire, allocate a VIP, assign an id | `Registry` |
| Event loop (`user_ebpf/io_epoll`) | connections with their buffers, the connection counter, the batch of events at hand | accept, expire, ask for keepalives and reports, hang-up, read, decode, close, stop | `EventLoop`, `Framing` |
| Handlers (`user_ebpf/handlers`) | none of their own | INIT_REQ, KEEPALIVE_RESP, REPORT, CLOSE_REQ, `send_all` | `Registry`, `EventLoop`, `LoadBalancer`, `Statistics` |
| Wire protocol (`user_ebpf/protocol`) | none | build a frame, parse a header, try to decode | `Frames`, `Framing`, `FrameChannel` |
| Maps manager (`user_ebpf/maps_manager`) | the rebuild flag; the maps shared with the kernel | add a backend, set its status, create or rewrite a table, trigger, wait, read the counters | `Registry`, `LoadBalancer`, `Statistics` |
| Main program (`user_ebpf/main`) | the signal flag, the threads | start-up, the rebuild round, shutdown | `EventLoop`, `LoadBalancer`, `Statistics` |
| Scorer and Maglev builder (`model/routing_logic`) | the table under construction | score the instances of a service, build a table | `Maglev`, `LoadBalancer` |
| XDP program (`model/kernel_ebpf`) | `services_map`, `backends_map`, `sessions_map`, `stats_map` | pick a backend, track a connection, forward, reset, drop, pass, count | `Balancer`, `LoadBalancer`, `Statistics` |
| eBPF loader (`user_ebpf/ebpf_loader`) | the skeleton, whether it is attached | load, attach, detach | `Statistics` |
| Statistics worker (`user_ebpf/stats`) | previous samples by logical id | sample, subtract, export over gRPC, start, stop | `Statistics` |
| Event logger (`user_ebpf/logger`) | a gRPC stub | one synchronous call per event | `Statistics` (the caller), `Collector` (the other end) |
| Collector and database access (`model/backend`) | a pool of ten connections | store samples and events, answer queries | `Collector`, `Sink` |
| REST backend (`model/backend/main.py`) | none | queries, probes of the database, shell scripts | `Collector`; the scripts not |
| Test backend and clients (`user_ebpf/protocol_test`) | none that others see | register, answer, disconnect; open, use and close connections | the peers and clients of `EventLoop` and `LoadBalancer` |
| Dashboard, monitor, recovery | see the notes in `PROJECT.json` | | not |

How they interact. The main thread runs the event loop: backends connect over
TCP or a Unix socket and register with INIT_REQ; the loop keeps their sessions,
asks each for a sign of life every second, and closes those that hang up, ask
for it or are silent for more than twenty seconds. Every registration and every
close writes a slot of `backends_map`. A close also sets a flag that wakes the
Maglev thread; five seconds wake it as well. That thread reads the registry,
under several short locks, builds one table for each service and writes it into
an inner map of `services_map`, entry by entry. The XDP program reads all of it
for every packet, and keeps in `sessions_map` which backend a flow was given. A third
thread samples the packet counters every five seconds and exports them to the
collector, a Python process that stores them in a database and serves the dashboard;
the main thread calls the same process for every event it logs.

What is hard about it:

- **The descriptor is the identity of a backend.** Sessions, logical ids and slots
  are keyed by it, and the kernel hands a closed number out again at once.
- **Events are read in batches.** An event may be about a connection that an
  earlier event of its batch has closed, and whose number another one has by now.
- **The close path is entered from everywhere**: a hangup, an end of stream, an
  expiry, three kinds of CLOSE_REQ, a malformed frame. It frees the buffer that
  the decode loop goes on reading.
- **Sends block, and may kill.** `send_all` retries a full buffer for ever, and no
  one handles SIGPIPE.
- **Three threads of execution share the maps without a common lock**: a table is
  rewritten under the packets that are balanced with it; the registry changes
  between two reads of the scorer, and a session may be freed under it; the flag is
  set without the mutex and cleared after the wait.
- **The stream has no boundaries**: frames are cut and joined at will.
- **Unchecked indices**: `build_table` walks a permutation without looking at its
  end.
- **Samples are taken from what changes under them**: counters are added up CPU by
  CPU, ids are read before they are assigned, and a session is read through a bare
  pointer after the lock was given back.
- **The way of a sample can break anywhere**: a failed export may have stored any number of
  rows; a commit that raises in a `finally` clause keeps its connection for ever.

What makes each part correct:

- *Registry and loop*: a session belongs to the process that is connected; the
  vector of a service holds its live sessions, each once; a slot is active exactly
  while its owner has a session; virtual IPs are distinct, within their block, and
  kept; every disconnect and every zombie is cleaned up, and no one else is closed.
- *Framing*: handlers get every frame whole, in order, once, without waiting for
  more bytes than the frame has; a connection is closed for a reason only.
- *Maglev*: no walk leaves its permutation; the finished table has no hole; shares
  follow the weights; the loop ends.
- *Threads and maps*: an active slot has an open connection, unless its backend was
  registered after the close; no close is forgotten, and it waits for the timer for one
  reason only; an entry leads to another service only where it was not written, was
  written through the id of another table, or was read from a freed session.
- *XDP program*: the packets of an open connection keep their backend, as long as it
  keeps its entry and the id in it is not handed on.
- *Membership*: whatever the controller does, a slot goes from one backend to another
  through nobody, and a virtual IP is given once.
- *Statistics*: no packet is reported twice; of an id that was not taken over, none is
  credited to another backend but in a row read from freed memory; sampling goes on; the
  program ends in order.
- *Collector*: success means that the whole sample is stored; connections are lost
  only to what went wrong; storing resumes.

## 2. Modules

`Registry` is the state of the session manager and of `backends_map`, with one
action formula for each operation; it has no next-state relation of its own.
`EventLoop`, `Balancer` and `Statistics` extend it, `LoadBalancer` extends `Balancer`.
`Collector` stands for itself: it meets `Statistics` in `Sink`, what one promises of an
export and the other is shown to keep.

### Registry

A backend process, the address it registers and its connection are one value of
`Peer`: what can go wrong is that a descriptor, a session or a slot of one is taken
for another's. A
session's `last_seen` is kept as seconds of silence (`idle`), which stops growing
at `Timeout + 1`. `service_groups[s][fd]` counts how often a descriptor is in the
vector of a service, so a double entry is a state of the model. Virtual IPs are
kept by their last byte. `fd_to_id` never forgets, as in the code.

`Membership` is the abstract specification of what the registry shows the clients of
the load balancer: who is behind a slot, and which address a service has.
`ImplementsMembership` maps `member[i]` to the address in slot `i` while it is active.
The refinement is checked and proved twice: for the atomic handlers of `EventLoop`, and for
`LoadBalancer`, where a registration is three steps and a close up to five.

### EventLoop

One action is a stretch of the loop that a peer or the clock cannot observe from
inside: reading the events, handling one event, one frame, one send. The position
in the loop is `pc`, the unhandled events are `batch`, each with the hang-up flag
it had when the batch was read, the descriptors a loop over sessions has still to
visit are `pending`, and the decoded frames of the connection at hand are `cur` and
`frames`. Between any two actions peers connect, send, stop and resume reading or
hang up, a second passes, or a signal arrives. After a handler has closed the
connection, `ContinueFreed` leaves open what the loop finds in the freed buffer:
nothing, the frames that follow, or a crash. A message type without a handler may
or may not compare equal to CLOSE_CONNECTION, since `res` is uninitialised. A send
to a peer that is gone either returns or ends the process (`SendKills`). `strays` is a
history variable: the descriptors on which a session was registered from such a buffer.

### Frames, FrameChannel, Framing

`Framing` is one connection in bytes: `sent` frames with their place in the stream,
`written` bytes in the kernel, `received` bytes returned by `recv`, `erased` bytes
taken out of the buffer. The buffer is the interval between the last two. The
decoder reads a header at `erased`; in the middle of a frame it would read anything
(`HeadersAt`), so a wrong count of consumed bytes is not hidden by the model.
`FrameChannel` is the abstract specification: a queue of whole frames with a short
list of reasons to close. `ImplementsChannel` is the refinement, with the same
variables `sent`, `delivered`, `open` and `gone`.

Two consequences of the code that the model makes visible: all of a burst is read
before the first frame is decoded, so a megabyte of small frames closes the
connection; and a frame between one and sixteen megabytes passes the header check
but can never be received.

### Maglev

`build_table` with one look at a slot as a step. The permutations are every affine
permutation the two hashes may yield, the scores any numbers; `counters` allows for
the floating-point quotient that falls just short of an integer. The `-1` of a
backend without an id is the value EMPTY, as in the unsigned arithmetic of the code.

### Balancer and LoadBalancer

`Balancer` is the XDP program. It looks at `backends_map` twice, first to find the
backend and again to use it, so a packet of a connection is two steps: `Sent` picks the
backend and updates the entry of the flow, `Arrive` gives the verdict, and what happens
in between is the others'. The table is read once, and its entries are words.

`LoadBalancer` puts three actors beside each other. The main thread is cut at each point
where another one can see the registry or the maps half changed (`main_pc`). A frame is
handled out of the connection, or, behind one that closed it, out of the freed buffer
(`Decodes`, `buffer`): so a backend may be registered on a descriptor that is closed
already (`strays`), and a descriptor may be closed twice. The Maglev thread (`pc`) waits in
steps, because `trigger_rebuild` does not take the mutex: it looks at the flag
(`CheckFlag`), goes to sleep (`FallAsleep`), and is woken by a notification
(`CloseNotify`), by the timer, or by nothing. Then it reads the vector of a service, looks
up each session (`LookUp`) and uses the pointer without a lock (`ReadId`), builds a table,
creates or reopens an inner map, and writes it entry by entry. Freed memory reads as any id
there is, or as none. What slots a backend gets in a table, if any, is left open by
`BuildTable`. A new map may fail to be created or to be published; nobody looks at the
result. Clients open, use and close connections.

`Alias` is a parameter for a question the source does not settle: which table a number is
a descriptor of. A lookup in a map of maps gives the *id* of the inner map, and
`update_service_map` writes through it as if it were a descriptor. In the passing runs it
may be that of any table or of none (`AnyFd`), and the theorems hold for every `Alias`.
That it is the descriptor of one of the other maps (`backends_map`, `sessions_map`) is left
out.

The histories say where things come from, and no action reads them: `past` (what a
descriptor has registered for), `seen` (the instances the thread last read), `missed` (a
notification found the thread about to sleep), `wild` (ids read from freed memory),
`misfiled` (positions of a table that its own rebuild did not write), `strays`, `route`.

### Statistics

The life of the process, from loading the XDP program to detaching it, with the sampler
beside it. `main` is the place of the main thread, `pc` that of the sampler. A
registration is two steps, before and after the id is assigned, then the thread waits for
the logger. `CopyCounter` reads the counter of one CPU, so `Forward` may count on others
meanwhile. After the counters the session is looked up; if the main thread frees it before
the row is filled in (`freed`), the row may name any backend or none, since the memory may
hold the session of another one by then, or the read ends the process (`ReadFaults`). A
`Name` remembers whether it was read so. An export returns after any number of rows was
stored. Connections are left out, since neither a registration nor the sampler asks for
them; so are bytes and rates, which are treated as packets are. `forwarded` and `stored`
are history variables.

### Sink, Collector

`Collector` has the calls that share the connection pool as `Caller`s of four kinds, which
differ in what they do with their connection when a statement fails: `ExportStats` (three
transactions a row, each committed in a `finally` clause), calls that commit so (`Writer`),
queries (`Reader`), and the probes of `connection.py` (`Probe`), which give a connection
back only when all went well. A `Reader` on a connection that just broke may lose it too,
since the pool's own rollback may raise before the connection is uncounted. An idle or held connection breaks when the database goes
away; the pool hands a broken one out unseen. The pool is psycopg2's: what the model
knows of it is that it keeps one idle connection, counts those it handed out, and throws a
broken one away. `Sink` is the contract of an export, with the same variables `size`,
`written` and `answer`.

### MC modules and proofs

`MCEventLoop`, `MCMaglev`, `MCLoadBalancer`, `MCStatistics` hold the finite sets, the
symmetry sets and the derived constants of the configurations. `RegistryProofs` has the
lemmas about the registry and `SumProofs` those about sums over finite sets that the
others share; `EventLoopProofs`, `LoadBalancerProofs`, `MaglevProofs`, `FramingProofs`,
`StatisticsProofs` and `CollectorProofs` hold the theorems. Operators named
`Mut...` are defective variants used to test that a property can fail.

## 3. What the runs check

| run | question | result |
|---|---|---|
| `EventLoop_safety` | Two backends on two reused descriptors that crash, read slowly and send frames behind CLOSE_REQ into the freed buffer, one failing `EPOLL_CTL_ADD`: are the books still right? | `TypeOK`, `SessionOwner`, `CountNotAbove`, `GroupsMatchSessions`, `BackendsMirror`, `ImplementsMembership` hold |
| `EventLoop_live` | With every other kind of frame: is every zombie, hangup and signal dealt with, nobody else closed, and no address given twice? | `ZombieClosed`, `HangupCleanedUp`, `SignalStops`, `ClosedForCause`, `VipsDistinct` hold |
| `EventLoop_zombie` | The same for a peer that stops reading for ever | `ZombieClosed` is violated |
| `EventLoop_sigpipe` | Does the controller survive a sudden disconnect? | `SurvivesDisconnects` is violated |
| `Framing_segments` | Frames cut anywhere, malformed, too long, interrupted | `TypeOK`, `ImplementsChannel`, `AllDelivered` hold |
| `Maglev_build` | Three backends on five slots | `TypeOK`, `InBounds`, `TableComplete`, `WeightedShare`, `Terminates` hold |
| `LoadBalancer_tables` | Two services, a reused and a fresh descriptor, rewrites that reach any table or none, sessions freed under the scorer: what leads where, and what waits for what? | `TypeOK`, `NoMissedClose`, `Isolated` hold |
| `LoadBalancer_flows` | A TCP and a UDP flow in a `sessions_map` for one, one descriptor for two backends, second closes, frames behind CLOSE_REQ: who gets the packets? | `PinsKnown`, `ActiveMeansOpen`, `RouteKept`, `ImplementsMembership` hold |
| `LoadBalancer_reuse` | The TCP flow, with a reused descriptor | `StatefulRoute` is violated |
| `LoadBalancer_inplace` | Tables reopened by the id of their map | `TablesFollow` is violated |
| `Statistics_samples` | The sampler against CPUs that count, backends that come and go, sessions freed while they are read, exports that fail half stored, failing start-ups and signals | `TypeOK`, `CountedOnce`, `RowsNameTheirBackend`, `OrderlyEnd`, `SampledAgain`, `StopEnds` hold |
| `Collector_pool` | The pool through an outage of the database, a restart of the collector and a refused statement | `TypeOK`, `LeaksBounded`, `ImplementsSink`, `StoresAgain`, `CallsEnd` hold |

Notes on the properties.

- `SessionOwner` excepts `strays`. An INIT_REQ in the freed buffer registers a session on
  a closed descriptor, which the next connection inherits; the property says that this
  is the only way to get one.
- `ImplementsMembership` is weaker than it may look: a slot may be filled by another
  backend after it was nobody's, which is how `LoadBalancer_reuse` misroutes.
- `CountNotAbove` bounds the counter from one side. From the other it is off: a
  connection closed twice (a frame behind CLOSE_REQ, or a hangup event behind an
  expiry) is counted down twice, so the accept loop may exceed MAX_CONNECTIONS.
- `ClosedForCause` names each reason to close a connection. One of them is not a
  good one: the event was about an earlier connection of the same number. TLC shows
  it (expiry, accept and the old hangup in one batch); the property is stated so
  that nothing else can close an innocent client.
- `ActiveMeansOpen` excepts the same strays: a backend registered from the freed buffer is
  active, and gets packets, until something closes its descriptor again.
- `NoMissedClose` says what a disconnect may wait for. `trigger_rebuild` notifies without
  the mutex, so a notification between the thread's last look at the flag and its sleep is
  lost, and the close waits for the five seconds of the timer (`missed`). The property says
  that this is the only way: as long as the thread has not read the registry again, the close
  is still on its way to the flag, or the flag is set and somebody will look at it, or the
  notification was lost so. A registration notifies nobody and always waits for the timer.
- `Isolated` names the three ways in which an entry may lead to a backend of another
  service, all of which the model has: the zeros of a new table, which are the id of the
  first backend that ever registered; entries written through the id of another table; and
  ids read from a freed session. Descriptors that are reused are not excepted: an entry
  leads to what has served the service at some time.
- `RouteKept` has no premise. A packet of an open connection goes to another backend only if
  the flow has lost its entry, or if the id in it was handed on to another backend. The entry
  is lost only to another flow in a full `sessions_map`, or by the FIN of an earlier
  connection on the same ports, if its backend went and came back. Where no descriptor is
  reused and the map has room this is `StatefulRoute`, which `LoadBalancer_reuse` refutes
  otherwise. Both cover a connection until its client closes its side; after that the first
  acknowledgement deletes the entry, and nothing is promised.
- `PinsKnown` includes INVALID_BACKEND: a flow that found no backend is pinned to
  that, and is not balanced when backends return.
- `TablesFollow` is checked where it is refuted only. With numbers that are no descriptors
  the second rebuild of a service reaches nothing; with numbers that are, it may reach the
  table of another service.
- `CountedOnce` is an upper bound on purpose: the packets of an export that fails are
  lost, since the snapshots have moved on. A failed call tells the worker nothing about
  what was stored, so repeating it would count twice.
- `RowsNameTheirBackend` leaves out two kinds of rows, which do credit other backends: those
  of an id that a second registration may take over (`OwnIds`), since the name is looked up
  after the counters were read, and those read from a session that was freed meanwhile.
  The second kind needs no reuse of descriptors, only of memory.
- `OrderlyEnd` says nothing of a crash: the XDP program is detached by a destructor, so
  after `ReadFaults` (or SIGPIPE) it goes on forwarding. A kernel that refuses to detach
  is the other exception.
- `LeaksBounded` is the reason why `StoresAgain` is conditional (`RoomLeft`): an outage
  can cost a connection for every call in progress, and nothing but a restart brings
  them back. A collector started while the database is down has no pool, ever.

### Findings

1. `EventLoop_zombie`: a peer that does not read stops the loop in `send_all`
   (`user_ebpf/handlers/src/handlers.cpp:19`), and with it the timer.
2. `EventLoop_sigpipe`: a send to a backend that has left raises SIGPIPE
   (`handlers.cpp:16`).
3. `LoadBalancer_reuse`: a descriptor keeps its logical id for ever
   (`session_manager.h:78`); open connections go to the next owner.
4. `LoadBalancer_inplace`: an id is used as a descriptor (`maps_manager.cpp:21`), so
   the second and every later rebuild of a service does not reach its table.

### Bounds

All bounds are constants of the configurations. Two peers and one or two
descriptors are the least that let a number be reused while another connection
lives; one descriptor is enough where only its reuse matters. Two unread frames
(`MaxStream`) let a frame follow the one that closes. `Timeout` is 0 or 1, which
separates "silent" from "silent too long". `MaxServices` is 1 or 2, so the block of
addresses is used up, and `MaxBackends` is 2, so an id beyond the array happens.
`MaxRegistrations` lets a descriptor or a service be registered again. Tables have
two entries: enough for a half-written table. `MaxSessions` is the number of entries of
`sessions_map`: one for two flows, so the kernel gives up the entry of an open connection.
The Maglev instance has five slots,
three backends and a word of 16 values, which scales the products that would wrap in
32 bits. Framing uses a header of two bytes and payloads that are empty, short,
longer than the buffer and longer than the header check allows. `LoadBalancer_tables`
has two registrations, one of which may be on the descriptor of the other, and two services;
`LoadBalancer_flows` has one descriptor and one service, but everything a close can go
through. Its states are compared without the histories about tables (`VIEW Observed`): no
action and none of its properties read them. The backends are symmetric in both.
`Statistics` has two CPUs (the least between which a packet can be counted), one packet,
which is the one that may be reported twice or under the wrong name, and two registrations,
on a fresh and on a reused descriptor; what more packets could show, a sum below the
snapshot before it, is excluded by proof (`CountInv`). The pool of `Collector` has six connections for four callers: two
more than all of them can hold, so a leak of one or two leaves room and a leak of three
does not. One outage, one crash and one refused statement, in any order, at any point.

Deadlock is checked in the runs of `EventLoop` and `LoadBalancer`, where time passes
or the Maglev thread wakes in every state, in `Statistics_samples`, where only a
process that has ended stands still, and in `Collector_pool`, where a call can always
begin or the collector come back. `Maglev_build` ends when the table is full and
`Framing_segments` when the connection is closed and the frames are used up.

### Fairness

- `EventLoop`: weak fairness of the loop, a thread that runs whenever it is not
  blocked, and of `Second`, the clock. Peers owe nothing, which is why a peer
  that never resumes reading refutes `ZombieClosed`.
- `LoadBalancer`: weak fairness of each thread, and strong fairness of `TimeOut`: a wait ends
  after five seconds, however often it is interrupted. `LoadBalancer_inplace` needs it so
  that the stale table is not that of a thread that stopped. Registrations are bounded, so
  "once backends stop coming and going" is reached.
- `Framing`: weak fairness of the loop, which comes back to a connection with bytes
  unread since epoll is level-triggered. `Maglev`: of its only loop.
- `Statistics`: weak fairness of both threads. That a call to the collector returns is
  part of it; neither the logger nor the worker sets a deadline, so `SampledAgain` and
  `StopEnds` hold of a collector that answers, with success or not.
- `Collector`: weak fairness of each call, which a thread of the server runs, and of the
  controller's next export. Nobody has to restart the collector or the database, so
  `StoresAgain` speaks of runs in which they are up from some point on.

## 4. What is proved

Every theorem holds for all values of the constants that satisfy the named
assumptions, which TLC evaluates in the runs.

- `EventLoopProofs`, on the registry: `TypeCorrect`, `GroupsCorrect`, `MirrorCorrect`,
  `VipsCorrect`, `MembershipImplemented`. The invariants of the registry are not inductive as they stand.
  `RegistryInv` adds that ids are handed out in order and never twice, that a
  session has an id (`IdsDistinct`), and that the addresses in use are those below
  the next one (`VipsBelowNext`). Each handler changes the registry in one of three
  ways, it registers, closes or refreshes, and `RegistryProofs` has one lemma for
  each; `RegistryStep` sorts the actions of the loop into the three. Nothing is
  assumed of what peers send or of what the freed buffer holds.
- `EventLoopProofs`, on sockets: `CountCorrect`, `OwnerCorrect`. A session belongs to the peer of its
  connection because an INIT_REQ carries the address of the peer that wrote it, in its
  stream (`StreamsOwn`) and in the buffer being decoded, as long as the connection of
  that buffer is open (`FramesOwn`). That the counter is not above the number of
  connections needs `IsFiniteSet(Fd)`, for the lemmas about cardinality.
- `EventLoopProofs`, on closes: `ClosesHaveCause`, an action property. Every socket has a
  peer of its own whose connection is alive (`SocketsLive`); what a hangup event reported
  stays true until its turn comes, because a connection that was hung up is not taken up
  again (`HangupsTrue`); and a session on the timer's list cannot be heard of before the
  list is done (`PendingExpired`).
- `LoadBalancerProofs`, on slots and pins: `ActiveSlotsOpen`, `NoCloseMissed`,
  `PinsCorrect`, `ThreadsImplementMembership`. `LBInv` joins what is left of the registry's facts
  between the steps of a registration and of a close: an active slot is that of a descriptor
  with an open connection or a stray, which has a session or whose close has begun, and which is
  neither being registered nor taken out (`SlotsOwned`); and a service that anyone has read the
  instances of has an address (`SeenInv`). A pin is set only to an id that is active when a
  packet looks at it (`PickActive`), whatever the table holds, and an id stays its
  descriptor's (`IdsStay`).
- `LoadBalancerProofs`, on tables: `ThreadsTypeCorrect`, `TablesIsolated`. `PastInv` says that
  nothing in the registry is older than the registrations that were made. `ListedFds`,
  `BuildHome` and `TablesHome` follow an id from the vector that is scored, through the table
  that is built, to the entries that are written: but for ids that were read from a freed
  session, and entries that the service's own rebuild did not write, it leads (`Home`) to no
  descriptor that never served the service. Nothing is assumed of `Alias`, nor of what
  descriptors are reused.
- `LoadBalancerProofs`, on connections: `ConnectionsKeepBackend`, an action property, for
  reused descriptors and a full `sessions_map` too. `FlowInv` relates the state of a
  connection to its entry, and `PacketInv` to a packet between the two looks: the slot they
  name holds the address the connection went to, or its id was handed on (`RouteOk`); and an
  entry keeps a FIN of an earlier connection only while its backend is gone, or if it came back.
  `FreshInv` says that no entry and no packet names the slot `add_backend` is about to fill,
  unless its descriptor registers again.
- `MaglevProofs`: `TypeCorrect`, `WalksStayInBounds`, `TablesComplete`,
  `SharesFollowWeights`. The code does
  not bound `next[i]`. What bounds it is the number of slots that are taken or that
  backend `i` has walked past: each is paid for by one increment of `filled`
  (`Paid`). Slots walked past must be counted because a backend whose id is EMPTY
  writes slots that stay free. Assumed is `PermAssumption`: no row repeats a slot.
  Behind the shares is a number of rounds: every backend has had `R` full turns, those
  before `turn` one more, and the one at `turn` has had `c` slots of it (`ShareInv`).
- `FramingProofs`: `TypeCorrect` and `FramesIntact`, the refinement of `FrameChannel`.
  The inductive invariant says that frames lie one behind the other (`Laid`), that
  the delivered ones are the first of the stream (`Prefix`), and that the buffer
  begins where the last of them ends (`Aligned`). From these, the header the decoder
  reads is that of the next frame (`HeaderRead`), since two frames never begin at the
  same place.
- `StatisticsProofs`: `SamplerTypeCorrect`, `EndOrderly`, `PacketsCountedOnce`,
  `RowsCorrect`. `EndInv` says that the sampler has not begun before `main` starts it and
  has ended when `main` comes to detach, and that nothing is attached at the exit.
  `CountInv` is the argument for the counters: what is stored for an id, and what an export
  or a sample still has in hand for it, is not above its last snapshot, and that is not
  above what the CPUs have counted; while they are copied, the sum and what is left to copy
  are bounded too. The unsigned difference is the true one because a counter never runs
  back and, under `MaxPackets < Word`, none reaches the width of the word. `OwnInv` says
  that an id of a descriptor that is not reused names one backend for ever: what is sampled
  and stored of it, but for rows read from freed memory (`Known`), is under that backend's
  name, and what is counted of such ids is not above what was forwarded to it.
  `StatisticsAssumption` has `IsFiniteSet(Peer)`, for sums
  over the names.
- `SumProofs`: what a reader expects of `SumFunctionOnSet` (the sum over nothing, over one
  element more or less, of a part, of two tables, of a table split by a key). The library's
  induction theorems take a predicate as a parameter, which no prover here can instantiate;
  `InductionOnNat` and `InductionOnSet` are induction for a *set* of numbers, or of
  subsets of a finite set, and follow from the well-founded order of the naturals. With
  them the recursive function behind the sum can be shown to exist (`SumTableDef`).
- `CollectorProofs`: `CollectorTypeCorrect`, `LeaksCorrect`, `SinkImplemented`. An outage
  breaks connections at once, and they leak later, one call at a time; so `LeakInv` counts
  a broken connection as leaked already, and bounds those idle or held by the number of
  callers.

Every safety property that a passing run checks is a theorem. Only model-checked is
liveness, which the prover cannot treat: `ZombieClosed`, `HangupCleanedUp`, `SignalStops`,
`AllDelivered`, `Terminates`, `SampledAgain`, `StopEnds`, `StoresAgain` and
`CallsEnd`.

## 5. What is not modelled

- Rewriting of headers, checksums and ARP: no property here tells the outcomes apart.
- The bytes of protobuf payloads, tokens and addresses: a message parses or does not,
  a token is right or wrong; a malformed address is the sender's own.
- Counts of bytes and rates: they are sampled, subtracted and stored as packets are, and
  the interval of the division is a constant of the code.
- `cleanup_sessions`, `collect_live_sessions`, `get_all_sessions`, `update_service_map2`:
  nothing calls them.
- The receive loop of the test backend and the raw TCP responder: programs to try the
  controller with. What they send is among what the peers of `EventLoop` may send.
- Races inside the containers of the session manager (`fd_to_id` is read by other
  threads without a lock): there is no state between before and after to name.
- The Maglev thread after the main thread has left `main`: it is detached, and what it
  finds of the destroyed objects has no state to name either.
- What goes on inside psycopg2, whose `SimpleConnectionPool` is not made for threads.
- Restarts of the controller: nothing is persisted, and the recovery component is empty.
- The monitor, whose readings of the host become the payload of a REPORT; the shell
  scripts and the dashboard, which show or start what is modelled elsewhere.

## 6. Plan

Done, in this order: `Registry` and `EventLoop` (what most other things depend on),
their proofs, `Maglev` and its proofs, `Balancer` and `LoadBalancer`, `Framing` with
its abstract specification and its refinement proof; then `Membership` as the abstract
specification of the registry, `Statistics`, `Collector` with `Sink`, the proofs
about sockets, threads, tables and the pool; then the proofs about sums, the sampler, the
shares of a table, the causes of a close and the route of a connection.

Next:

1. *Backend*: the receive loop of `protocol_client.cpp`, against `FrameChannel`.
2. *Rebuilds*: that the thread reads every registration in the end, over an instance small
   enough for liveness beside `LoadBalancer_tables`.
3. *Proofs*: what of the liveness arguments is safety, such as the bound on the rounds of
   `build_table` and the order of the events between two ticks.
