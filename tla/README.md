# A TLA+ model of PARD

PARD is an extension of the gem5 simulator in which every hardware request
carries the identity of the logical domain (LDom) that issued it, and in which
shared resources (last-level cache, memory controller, I/O bridge, IDE
controller, interrupt controllers) behave differently for each domain.  The code
that is specific to PARD lives in `src/pardg5-v/`; `src/gem5-pard/` is a copy of
gem5 it is compiled into.  This directory models the former. Of gem5 it models
what the PARD parts cannot be understood without: the snooping bus between the
caches, the local APIC, the start and stop of a processor, and the poll queue of
the simulation loop.

## The parts of the system

| Part | Source (`src/pardg5-v/`) | What it does |
|---|---|---|
| I/O bridge | `hyper/mem/bridge.*` | two transmit lists joined by a credit counter; refuses and retries requests |
| Address mapper | `hyper/mem/addr_mapper.*`, `hyper/base/ldom_addr.hh` | rewrites addresses per LDom on the way down and restores them on the way up |
| Cache tags | `hyper/mem/cache/tags/*` | LRU sets whose victims are chosen within a per-LDom way mask |
| Cache MSHRs | `hyper/mem/cache/mshr*.*` | outstanding misses, their targets and their order of issue |
| Cache | `hyper/mem/cache/cache_impl.hh`, `base.*` | the classic gem5 cache with LDom tags |
| DRAM control | `hyper/mem/dram_ctrl.*` | per-LDom priority and row-buffer mask |
| Control planes | `hyper/base/ControlPlane.hh`, `hyper/gm/*` | parameter, statistics and trigger tables; the registers through which software reaches them |
| Global manager | `hyper/arch/glomgr.*` | accepts operator connections, frames and executes commands, starts and stops LDoms |
| Logical domain | `hyper/arch/PARDg5VLDomain.*`, `hyper/arch/system.*`, `hyper/arch/bios.*` | builds the boot image and initialises the processor of an LDom |
| DMA port | `hyper/dev/dma_device.*` | splits device transfers into packets, counts acknowledgements, retries, drains |
| IDE disk | `hyper/dev/ide_disk.*` | the ATA command state machine and its DMA engine |
| IDE controller | `hyper/dev/ide_ctrl.*` | PCI function with one channel per LDom; bus-master registers |
| I/O APIC | `hyper/dev/pardg5v/i82094aap5v.*`, `intdev.*` | redirects interrupt pins, per LDom, to local APICs |
| Timer, platform | `hyper/dev/pardg5v/i8254p5v.*`, `platform.*` | timer interrupts and their wiring |
| UART and terminal | `hyper/dev/uart8250p5v.*`, `terminal.*` | per-LDom console and its interrupts |
| PCI device, Ethernet tap | `hyper/dev/pcidev.*`, `hyper/dev/ethertap.*` | configuration space; host networking |
| Configuration, utilities | `configs/`, `utils/`, `patch/` | Python machine descriptions, operator tools |

## How the parts interact

Processors and their caches send requests down a bus to the shared last-level
cache and from there to memory; requests to devices go down the north bridge, that
is, through an address mapper and the I/O bridge, to the I/O bus, where IDE
controller, UART, timer and I/O APIC are. Every request carries the number of its
LDom, which is kept in register QR0 of the processor. gem5's port protocol joins
the parts: a peer may refuse a packet, and then owes a retry to the one whose packet
it refused. Devices move data through DMA ports and interrupt the processors of the
LDom they serve through the I/O APIC. The global manager starts and stops LDoms, and
both it and software write the tables of the control planes (way masks, memory
priorities) while all this runs.

## Modules

| Module | What it is |
|---|---|
| `Bridge` | the timing protocol of `PARDg5VBridge` |
| `CreditLink` | what the bridge promises: two bounded first-in first-out lists |
| `AddrMapper` | `PARDg5VRangeAddrMapper` and its table, between two peers that may refuse |
| `MappedBridge` | mapper and bridge composed as the north bridge is configured |
| `CacheTags` | one set of the way-partitioned tag store under the cache's handlers |
| `PrivateLRU` | what partitioning promises to one LDom: an LRU cache of its own |
| `Mshr` | a miss register: its targets, deferral, snoops, promotion |
| `Coherence` | a tree of caches over snooping buses |
| `DmaPort` | `PARDg5VDmaPort` in timing mode |
| `Ide` | IDE controller and disks over one `DmaPort`, with the drivers of the LDoms |
| `LDoms` | which LDom a processor belongs to |
| `Uart8250`, `IoApic`, `LocalApic` | serial ports; I/O APIC; gem5's local APIC |
| `Console` | the three composed, with timers and the LDoms' interrupt handlers |
| `Processors` | registry of LDoms; start, stop, halt and wake-up of processors |
| `ControlPlanes` | adaptor and connector registers, and the parameters behind them |
| `ParameterTables` | what they promise: tables read and written entry by entry |
| `Manager` | the global manager with the poll queue, composed with the last three |
| `BridgeProofs`, `AddrMapperProofs`, `MappedBridgeProofs`, `CacheTagsProofs`, `DmaPortProofs`, `ConsoleProofs` and `WayProofs`, `ManagementProofs` | proofs |
| `MCBridge`, `MCAddrMapper`, `MCMappedBridge`, `MCCacheTags`, `MCCoherence`, `MCIde`, `MCConsole`, `MCManager` | small instances for TLC |

A definition named `X_Something` next to a definition `X` is a deliberately wrong
form of it. Each property of a passing run is violated when one of these takes the
place of the correct definition (`PROJECT.json`, "mutants").

### Bridge

State: the two transmit lists, whether the send event of each port is scheduled,
the counter `outstandingResponses`, the flag `retryReq`, and the fields of a packet
that routing depends on. The buses on both sides are environment: the upstream bus
layer is idle, waiting for a retry with the refused request, or about to send it
again; a bus that refused a packet of the bridge owes a retry. Actions:

| Action | Code |
|---|---|
| `BusSend`, `BusResend` | `BridgeSlavePort::recvTimingReq`, called for a new or a refused request |
| `BusAbandon` | the sender of the refused request drops it (`MemSidePacketQueue::sendDeferredPacket`) |
| `MasterTrySendAccepted`, `...Refused` | `BridgeMasterPort::trySendTiming`, by what the bus answers, with `retryStalledReq` |
| `RecvTimingResp` | `BridgeMasterPort::recvTimingResp` with `schedTimingResp` |
| `SlaveTrySendAccepted`, `...Refused` | `BridgeSlavePort::trySendTiming` |

Ticks are left out: a scheduled event fires at some later step. Packets are objects
of a fixed set that are reused after deletion. Atomic and functional accesses do not
touch this state.

`CreditLink` has neither counters nor events nor retries. It lets a request in only
while the request list has room and fewer responses are owed than the response list
can hold. `Bridge` implements it with `reqs`, `far` and `resps` as the two lists and
the requests in service.

### Address mapper

`AddrMapper` keeps of a packet its address and the stack of addresses saved in
sender states; the address it was issued to and its whereabouts are history. `recvTimingReq` and `recvTimingResp` are the handlers, with
the peer's answer as a parameter. The table is a sequence of ranges and the first
one that contains an address wins; the end of a range is computed modulo the size of
the address space as the C++ expression is. `Rebuilt` are the packets whose sender
makes a new packet for a retry, as the caches do; all other senders keep the refused
object and send it again, which matters because the mapper changes it.

### North bridge

`MappedBridge` instantiates both modules over one set of packets. The mapper calls
the bridge inside the call it received, so each action joins one operation of each.
The properties are about what neither module says alone: the bridge cannot tell the
mapper from a bus, and each finds its own sender state on a response.

### Cache tags

`CacheTags` is one set (sets do not interact): the recency order as a position for
each way, what each way holds, the way masks, and which blocks have an outstanding
miss. The actions are the cache handlers that use the tags: `Read`, `Write`, `Take`
and `Writeback` are the cases of `access` and `recvTimingReq`, `Fill` and `Complete`
are `recvTimingResp` with `handleFill`, `Snoop` is `handleSnoop`, `Flush` and
`MemWriteback` are the two ways to write dirty blocks back without replacing them,
and `SetMask` is the manager. Coherence state is reduced to valid, writable and
dirty, and what the targets of a miss leave of its block is a nondeterministic
choice. An empty mask makes the next allocation fail `assert(waymask)`, which ends
the simulation (`aborted`). `stale` and `strayed` are history and follow the newest
data of each block.

The environment is restricted at one point: a writeback that makes the copy in this
cache writable comes from the only cache above that had the block, so there is no
outstanding miss for it here.

`PrivateLRU` is the promise to one LDom: the order of its ways changes only when one
of its own blocks is used, filled or dropped, and a new block takes the way used
longest ago. It does not mention other LDoms. `PrivateSpec` says that the shared set
implements it for each LDom.

### Caches

`Coherence` has one record for each cache: its blocks, its miss registers, the write
buffer, why it is blocked and whether it owes a retry. The operators on a working
record (`recvTimingReq`, `handleSnoop`, `recvTimingResp`, `allocateBlock`,
`getNextMSHR`, `sendDeferredPacket`) carry the names of the code; `Mshr` has those of
a register. A request and all the snoops it causes are one call in the simulator and
one step here. Responses, retries, send events and the passing of the hit latency
(`Ripen`: a register or writeback is ready to be sent) are steps of their own, in any
order. A block's data is the number of writes made to it, so `Coherent` compares what
a processor reads or overwrites with the newest version. Assertions of the code put
their name into `failed`. Which block is replaced is open here; `CacheTags` has the
choice. A register promoted with its deferred targets is ready at once, as in
`mshr.cc:422`. The limit on targets is compared by equality (`cache_impl.hh:575`), and
the run passes it.

### DMA port, IDE disks and controller

`DmaPort` cuts a transfer at line boundaries, sends the packets one after another,
and counts the acknowledged part in the transfer's `reqState`. `SendEvent` and
`RecvRetry` send, with the bus's answer as a parameter; responses come in any order;
`Drain` is a checkpoint waiting for the port. `Ide` puts the disks and the channels of
the controller on top of it. The handlers of a disk are operators on a record that is
built up through the calls one handler makes. The drivers are not in the repository.
They are modelled from the ATA protocol that the code implements: one command at a
time on a channel, by programmed I/O or DMA, with interrupts or polling; they may
stop a transfer at any time, change the interrupt enable bit with no interrupt
pending, and reset a disk between commands. The units are small (a line of 2, a
sector of 2, a page of 4), chosen so that descriptors, pages, lines and sectors end
at different places. LDom `g` has channel `g` with disks `2g` and `2g+1`, as
`PARDg5Main.py:253-262` configures them.

### Interrupts

`Uart8250` keeps the enable and status bits, which of the two events are scheduled,
and the number of bytes in the terminal's buffer. Of time it keeps whether the last
interrupt is at most 225 ns away, which the code asks. `IoApic` has a select register
and a table for every LDom, the rotating offset and the pin states they share, and
messages on their way. `LocalApic` has requests, vectors in service, and the cached
highest of both. `getRegArrayBit` takes a vector modulo 5 where bits are set modulo
32 (`interrupts.hh:183`); `LocalApicAssumption` asks for vectors that this does not
confuse. `Console` composes them with the serial driver that `uart8250p5v.cc` is
written for: it programs its table entries and the port, reads the interrupt
identification until nothing is pending or a number of passes is reached, and ends
with an EOI. Handlers nest as far as the local APIC lets them. `Restarts` is a
checkpoint: it keeps scheduled events, and loses the bytes of the terminal and the
time of the last interrupt.

An edge that comes while its entry is masked is lost; `Announced` shows that the
port announces the byte again. The timers of the LDoms share a pin whose state is
shared as well ("XXX, BUGS here", `i82094aap5v.cc:345`). No tick is lost, since the
timer raises and lowers the pin in one call (`EveryTickSent`). `platform.cc:89` writes
a table that sends every LDom's console interrupts to processor 0 until software
programs the entry; ports interrupt only once they are enabled, so `LDomsApart` holds
for software that programs the entry first.

### Management

`Processors` has for each processor the state of its thread, of the CPU and of its
tick, its LDom (QR0) and how far its program is. `startupLDomVM` and `shutdownLDomVM`
are the manager's, `tick` executes one instruction of the atomic CPU, and `wakeup` is
the end of every interrupt request. `aborted` stands for a failed assertion or an
access to what does not exist; the model stops there.

`ControlPlanes` has the adaptors' select register and the connectors' registers for a
command and its operands. A writer takes a lock of the adaptor, selects, writes the
operands in any order and then the command. The driver and its lock are external
(`cpa.ko` is not in the repository). The manager writes the same parameters by name,
of which only the way masks take effect (`Named`; the memory controller's function for
it is an empty stub, `dram_ctrl.hh:70`).

`Manager` has the simulation loop of `simulate.cc` as far as it polls: SIGIO sets a
flag; the loop tests and clears it, polls, and processes what the poll found, the
listener before the connection. Reads are blocking and byte by byte: between the
bytes of a packet only clients move. The end of a connection reads as bytes 0xFF, so
that a truncated packet fills the buffer and is dropped. Clients connect, send in one
piece or several, and close at any time.

## Runs

| Run | Instance | What it shows |
|---|---|---|
| `bridge` | 4 packets (one posted), 2 ports, 2 + 2 slots | credits are exact, every port with something to send is woken exactly once, no retry is lost, and the bridge implements `CreditLink` with its fairness: what enters leaves |
| `mapper` | 4 packets, 2 LDoms, memory map, senders that rebuild a refused packet and senders that do not | requests of different LDoms stay apart, the original address is in each response to a sender that rebuilds, everything is answered |
| `mapper_translates_twice` | I/O map, senders that do not rebuild | *violated*: a refused request is translated twice |
| `mapped_bridge` | 4 packets, 2 ports, 1 + 1 slots | mapper and bridge agree on every packet, the mapper is transparent to the bridge, responses come back to the right port with the right address, stalled requests get through |
| `tags_static` | 3 ways, 2 LDoms, 4 blocks, disjoint masks {0,2} and {1} | each LDom sees a private LRU cache of its own ways, whatever the other does |
| `tags_masks` | 2 ways, 2 LDoms, 3 blocks, masks rewritten at any time | fills respect the mask of the moment, no dirty data are lost, blocks with an outstanding upgrade are not replaced |
| `tags_mask_beyond` | masks for ways the cache does not have | *violated*: the victim is then outside the mask |
| `tags_flush` | as `tags_masks` | *violated*: a flush writes an LDom's data without its identity |
| `coherence` | two L1 caches of different LDoms over an L2, and an I/O cache on the memory bus; 3 blocks, one way, 1 or 2 registers | no assertion fails, nobody reads or overwrites old data, newest data have one owner, one writer at a time, all requests drain |
| `ide` | two LDoms, three disks, one port; every kind of command, stops, resets, checkpoints | the disks use the port one transfer at a time and as it expects, data arrive where the command says and nowhere else, no panic, commands end |
| `console` | two LDoms on three processors; serial ports, timers, nested handlers, restarts | bytes in or out are always announced, interrupts stay in their LDom, handlers nest, no tick is lost, all requests are served and all bytes read and sent |
| `manager` | two processors, up to three LDoms and clients, two writers, three planes | commands are executed whole and once, an accepted client is served, processors tick exactly while active and with their own tag, operations on planes are atomic |

Components without a run of their own (`DmaPort`, `Uart8250`, `IoApic`, `LocalApic`,
`Processors`, `ControlPlanes`) are checked in the composition they are part of. That
`Ide` and `Console` use theirs as the components' own specifications allow is a
property there (`PortSpec`, `ComponentSpecs`), and of `Manager` it is proved
(`ManagerImplements`), so what is proved of a component alone holds in the
composition. Many invariants are not listed in a run because they are
proved: exact pending counts of the port, bounded queues of the bridge, `Unique`,
`Confined` and `InvalidLast` of the tags, `HighestExact` of the local APIC, and others
(see Proofs). The type invariants of `Ide`, `Console` and `Manager` document the state;
they hold on the instances above and are not listed either.

`MCCoherenceOrder.cfg` is a configuration of `MCCoherence` that is not one of the
runs; see the observations below.

**Bounds.** The bridge needs enough packets to fill either list and stall one more,
and one that is never answered: four with two slots. The mapper has no queues; two
LDoms and addresses on which the table acts differently are enough. Three ways
with two of them in one mask are the least for which a victim within the mask differs
from the oldest of the set and there is a choice; four blocks make the first LDom
replace its own. With masks that change two ways are enough: the old and the new
one. The blocks of one LDom are symmetric, since no constant tells them apart. In
`coherence` the processors have two requests, one and two (`MaxOps`); with one way
each second block replaces the first, and one write buffer and at most two registers
make every cache block; the two blocks of one LDom are shared with the I/O cache, the
third is another LDom's. `ide`, `console` and `manager` have scenarios (`Scenarios`,
`Plans`): each fixes how many commands, bytes, ticks, checkpoints or clients there are,
and together they fire every action. Two commands in a row, two disks contending, or a
checkpoint in a transfer are each in one of them, but not all three at once.

**Deadlock** is not checked where a machine may stop: after `assert(waymask)`
(`tags_masks`), and when processors, drivers or clients have nothing left to ask for
(`coherence`, `ide`, `console`, `manager`). The liveness properties of the last four
show that they do not stop earlier.

**Fairness.** Scheduled events fire and devices answer (weak fairness), since gem5's
event queue executes every event. A bus that refused a packet owes a retry and does
not refuse for ever (strong fairness of the accepting step, `bridge` and
`mapped_bridge`), since a layer becomes free whenever its current packet has passed.
In `coherence` it is weak fairness of all steps other than new requests, written out
with `EventDue`: while an event is due, some event happens. It names no particular
event, and with finitely many requests none can be passed over for ever. In `ide` drivers go on
with what they started, the bus takes a packet in the end, memory answers, checkpoints
end, and a disk's event fires with the port free. The last is more than the
simulator promises for ever: a disk that finds the port busy tries again after a fixed
period, and with an endless supply of commands others could be faster each time. With
the finite number of the scenarios the port becomes free and stays so. In `console`
software goes on executing and messages arrive. In `manager` the loop goes on and a
client that connected sends or closes. Nothing makes a master, a processor or an
operator begin anything.

## Proofs

The proofs hold for every set of packets, ports, LDoms, processors and blocks, every
queue size, table, associativity, line size and vector set that the named assumptions
of the modules allow.

**Bridge** (`BridgeProofs`). The inductive invariant adds to the properties that a
packet is in one place only (`Placement`) and that its fields fit that place
(`Fields`). Exact credits alone are not inductive: adding one to the counter is right
only if the packet was not inside before, and subtracting one only if it was. From it
follow the credits, the bounds of both queues, wake-ups, retries and routing, and that each step is a step of
`CreditLink` or none.

**Address mapper** (`AddrMapperProofs`). The invariant says what the peers hold
between two calls. Sender states are exact for all senders and tables. That a request
is translated once needs senders that rebuild, or a table that leaves its own targets
alone (`Idempotent`); that LDoms stay apart needs a table that is one-to-one on the
addresses in use (`Separating`) as well. `mapper_translates_twice` shows that the
first assumption is needed.

**North bridge** (`MappedBridgeProofs`). `BridgeImplemented`: every step of the
composition is one of the bridge or leaves it alone, so its invariant holds behind the
mapper too. What is needed of it is stated as `BridgeFacts`. `AlwaysAgree` then rests
on an invariant that joins the two modules: which packets carry the mapper's state,
that dropped packets are not inside the bridge, and that none inside is retired.
`RoundTrips` adds that the address saved for a packet inside is the one it was issued
to. It assumes senders that rebuild the packets they send again
(`NeedsResponse \ Inhibited \subseteq Rebuilt`), as the mapper's own `Restored` does and
as the run has it: a sender that sends the refused object again gets the translated
address back.

**Cache tags** (`CacheTagsProofs`). Every handler has one of four effects on the set
(`Effect`): no way changes its block and the order stays; a valid way moves to the
head; a way is emptied and moves to the tail; a block that was not in the set takes
the way `findVictim` gives, which has no outstanding miss, and moves to the head. One
lemma for each action shows which effect it has, and the properties follow from the
effects. The inductive invariant is `IInv`: types, a recency order that numbers the
ways one to one, `Unique`, `InvalidLast`, `UpgradesOnly` and `DirtySafe`. `InvalidLast`
rests on the order being one to one, `UpgradesOnly` on `Unique`: a write that misses
on permission records a miss for every way that holds the block. `FillsInMask` assumes
that no mask consists only of ways the cache does not have; `tags_mask_beyond` shows
why. `Isolation`, the refinement of `PrivateLRU`, assumes masks that are also disjoint
and not rewritten.

**DMA port** (`DmaPortProofs`), about `PortSpec`: any device that gives an event to one
transfer at a time. The packets queued and in flight are disjoint intervals, and
together with the acknowledged size they make up each transfer. The pending count,
the single wake-up, completion with the last response in whatever order, and the end
of a drain follow.

**Interrupts** (`ConsoleProofs`, `WayProofs`). First the components alone, `UartSpec`,
`IoApicSpec` and `LocalApicSpec`: software and devices access the registers as they
like. `OnlyEnabled` and `InputNoticed` are inductive together: an event that is
scheduled but not enabled would go out without interrupting. `HighestExact` needs that
a set of vectors has a greatest element, which is proved first, as no induction over
data is available. `SentHome` holds while the LDom's entries lead to its own
processors.

Then the composition `Console`, for any number of LDoms and processors, any vectors,
destinations and buffer sizes, and any scenario. `ConsoleAssumption` says what is asked
of software: its entries for console and timer lead to its own processors, and its
set-up is `Orderly` (it writes the top half of an entry before the bottom half, and
enables interrupts of the port last, with the console's entry programmed and the
divisor latch closed). The inductive invariant `CInv` has the invariants of the
components and four parts of its own:

- `Started`: of each LDom's set-up, what has been executed so far is in its table and
  its port (`Along`). An unmasked entry of the timer was therefore programmed, a port
  with interrupts enabled has its console entry programmed, and ticks and console
  interrupts go to the LDom's own processors although the first table sends them to
  processor 0.
- `Home`: messages under way are for the LDom of their processor.
- `Nested`: the handlers of a processor are for the vectors in service, the highest
  innermost. With `HighestExact` this gives `HandlersNest`, and that an EOI ends the
  handler that issues it.
- `Driver`: for each place of the driver in its handler, what is announced (`Waiting`).
  `Announced` is the part for the driver that is not looking. It is not inductive: when
  the handler gives up after its passes, or finds nothing pending, what is still there
  must have been announced again while it looked, and for bytes to be sent the transmit
  interrupt has to be enabled the whole time.

That each step keeps `Driver` rests on nothing being lost on the way: a vector at a
processor, as a message, a request or a handler that has not begun (`At`), stays there
until the driver looks. From `CInv` follow `Announced`, `LDomsApart`, `HandlersNest`,
that every step is one of each component (`ComponentSpecs`), and that a tick of an
unmasked timer is sent (`EveryTickSent`).

**Management** (`ManagementProofs`). First `ProcessorsSpec` and `PlanesSpec`: commands
and interrupts in any order, any writers. `OwnTag` is not inductive, as an interrupt
starts a processor; added is that only initialised processors have interrupts sent to
them. `AtomicAccess` is a refinement: the step that writes the command register is the
operation on the table, all others are invisible. Its invariant says what a writer
relies on between accesses: it has the lock, its adaptor selects its plane, and the
operands it wrote are there. It uses that networks of different adaptors are disjoint,
as in `configs/PARDg5-V.py`.

Then `Manager`, for any clients, commands, packets and buffer size. `PacketsWhole`
(`WholeCommands`) rests on `MInv`: the descriptors and the queue of the simulation loop
fit each other (`Sockets`), and of each client's packet nothing has been read, or its
beginning is in the manager's buffer and the rest is still to come, or it is over and
nothing that follows can start another. `ManagerImplements` says that what the manager
does to processors and planes are steps of theirs, so `TicksExactly`, `OwnTag` and
`AtomicAccess` hold of the whole system.

Only model-checked: all liveness (`StalledAccepted`, `LinkFairSpec`, `Answered`,
`Drains`, `CommandsFinish`, `BytesPass`, `RequestsServed`, `Served`,
`FirstHeard`, `Released`), which needs ENABLED; all of `Coherence`, whose handlers are
recursive over the tree of caches; and the disks and drivers of `Ide` (`NoPanic`,
`OneAtATime`, `PortSpec`, `DataMoved`, `NoStrayWrite`), whose properties are about sums
over the chunks and descriptors of a command.

## Where code and comments disagree

The three violating runs and the findings in `PROJECT.json` give the details. These
observations have no run of their own:

- *Caches.* `getNextMSHR` says "We need to make sure to perform the writeback first
  To preserve the dirty data" (`cache_impl.hh:1678-1679`), but it looks for a conflicting
  writeback only if some write is ready (1638). The writeback of a temporary block is
  ready after the hit latency, while the block's deferred miss is ready at once, so the
  miss can go first. `tlc -config MCCoherenceOrder.cfg MCCoherence` shows it: with two
  write buffers `WritebackFirst` is violated within half a minute. In the machine of
  `coherence` every property holds.
- *Stopping an LDom.* `glomgr.hh:100` calls `shutdownLDomVM` "Stop Logical Domain VM".
  It suspends the processor and leaves its interrupt sources alone; the next timer
  interrupt wakes it (`interrupts.cc:291`), and it runs from the kernel's entry. What
  holds is that it runs with its own tag (`OwnTag`).
- *Mapper.* With senders that send the refused object again, a response comes back with
  the address translated once and not with the original one: the same cause as
  `mapper_translates_twice`. Refused attempts are counted again as bytes read or written
  (`addr_mapper.cc:170`, "Number of bytes read from this memory", 281), as the
  statistics are updated before the peer is asked.
- *Tags.* `LRU::set` stores a mask of zero without complaint, and the next allocation of
  that LDom fails `assert(waymask)` (`lru.cc:213`). `guestCapacity` ("Cache capacity of
  each guests", `tags/base.cc:181`) is added to at every query and not reset
  (`lru.cc:368`).
- *IDE.* A software reset during a DMA command leaves the command's event in the queue
  (`ide_disk.cc:336`); the modelled driver resets between commands. A command written
  while an interrupt is pending and has since been disabled is dropped
  (`ide_disk.cc:822`). `dmaRead` transforms the buffer when a timing read has only been
  queued (`dma_device.hh:236`); no shipped configuration enables this.
- *Interrupts.* `writeReg`'s bound admits one register past the table
  (`i82094aap5v.cc:194`); no driver selects it. With vectors that `getRegArrayBit`
  confuses a request would be dropped.
- *Manager.* The host signals once for input that arrives together, and the manager takes
  one packet and one connection for each signal. A second packet of a client, and clients
  queued behind one that is refused, wait for the next signal. A client that closes before
  the manager turned to its packet leaves the manager attached until then, and the next
  client is refused. A client that connects just after another closed may be refused when
  one poll finds both, since the listener comes first. A connection that ends while the
  queue is serviced makes it forget what the poll found on later descriptors, those of
  terminals (`pollevent.cc:142`). A packet that fills the buffer is terminated one byte
  beyond it (`glomgr.cc:319`). LDoms can be created beyond the number of processors, and
  one that was not created can be shut down (510, 524): both end in `aborted`. A restarted
  LDom finds its devices' transfers and timers of its previous life.
- *Control planes.* The command register executes on every access, reads included
  (`CPConnector.cc:137`). Trigger counts wrap at 16 bits (`ControlPlane.hh:165`), but
  nothing calls `checkTrigger`.

## Not modelled

- Caches: uncacheable accesses, load-linked and store-conditional, the prefetcher (no
  shipped configuration has one), error responses, `squash`, draining; the fully
  associative tags.
- Atomic and functional accesses of bridge, mapper, caches and DMA port: a call that
  leaves no protocol state behind.
- IDE: registers that are stored and read back, the PCI configuration space, address
  decoding, commands the disk panics on.
- Interrupts: the APIC timer, messages between processors, task priority, NMI, SMI and
  INIT; signals without an LDom (keyboard, mouse, clock); programming of the timers'
  counters; the terminal's sockets.
- Manager: the text of commands and replies, the limit of the listening queue, the
  interactive console, which calls the same functions.
- Logical domains: boot images, descriptor tables, ACPI and SMBIOS (constants written to
  memory).
- DRAM scheduling, which is gem5's and uses none of PARD's parameters yet.
- PCI device, Ethernet tap, port proxy, the Python configurations (which supply the
  constants of the runs), checkpoints other than those named, statistics.

The tree under `src/` contains all of gem5, some 400,000 lines, of which PARD's own code
is a small part. What of gem5 the PARD parts do not depend on (other architectures, CPU
models, Ruby, devices) is not modelled, so that the modelled lines are a small share of
the whole tree although most of PARD's protocols are covered.
