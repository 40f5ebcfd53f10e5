# Verification of the computrendering GPU simulator

TLA+ models, TLC runs and TLAPS proofs about the cycle accurate GPU simulator
under `src/arch/funcmodel`, read from its code. Line numbers refer to files
under `src/`; `CP` stands for
`arch/funcmodel/CommandProcessor/cmCommandProcessor.cpp`.

## 1. The system

The simulator clocks a set of boxes (`cmoMduBase`) once per cycle
(`CG1CMDL::simulationLoop`). Boxes share no state: they pass objects through
*signals*, delay lines with a latency of at least one cycle and a bandwidth, so
the order in which the boxes of a cycle are clocked must not matter. A failed
check (`CG_ASSERT`) throws out of the loop and ends the simulation.

| Component | State | Operations | Talks to | Correct when |
|---|---|---|---|---|
| Signal (`common/base/cmGPUSignal.cpp`) | ring of slots, read and write slot, reads pending | read, write with and without a latency, setData | the two boxes it joins | it is a delay line: every object once, in its cycle, in order |
| SignalBinder, cmoMduBase | table of signals by name | register, bind, dump | all boxes | both ends agree on latency and bandwidth, every signal is bound |
| Command Processor | statusRegister and its stack, held transaction, update buffers, stored load, tickets | one transaction after the other from the trace driver | every unit by a command and a state signal; memory | each batch sees the registers and programs of its place in the trace, units get only commands they can take, every trace ends |
| StreamController | index, attribute and output FIFOs, post-shading cache | fetch, load, commit | shaders, memory, Primitive Assembler | vertices leave in order, none lost, cache entries not freed in use |
| Primitive Assembler, Clipper | vertex and triangle queues | assemble, clip | StreamController, Rasterizer | requests never exceed queue space, the last triangle comes last |
| Rasterizer | five sub-boxes with FIFOs | setup, traversal, Hierarchical Z, interpolation | Clipper, shaders, ROPs | FIFOs never overflow, the batch ends once |
| Unified shader | threads, register file | fetch, decode, execute, texture | StreamController, Rasterizer | threads neither lost nor run twice |
| Z stencil test, color write (`GenericROP`) | stamp queues, caches | test, blend, clear, flush, swap | Rasterizer, memory | stamps on one address in order |
| Cache system | lines, reserves, request queues | fetch, reserve, replace, flush | its unit, memory | a reserved line is not replaced |
| Memory Controller (v1, V2) | request entries, buffers, service queue, bus counters; per channel a scheduler with its queues | admit, split, schedule, serve | all units that use memory | accesses to an address in order, queues never overflow, buses agree, buffers come back |
| Display Controller | state, blitter, wake-up queue | swap, dump, blit | Command Processor, memory | the frame is whole when it is shown |
| DynamicMemoryOpt | pools of free objects | new, delete | all boxes | no object is handed out twice |
| HAL, GAL, OGL, D3D | register cache, program and memory allocation | API calls | trace | writes keep their order |
| Behaviour model, trace tools, tests | - | - | - | out of scope (sequential or formats) |

The hard behaviours: every box decides on what the others told it a cycle ago;
two batches are in the pipeline at once; register writes and program loads
overtake batches through buffers; vertices come back from the shaders out of
order and are shared through a cache whose lines are given back in two steps;
requests for triangles and memory are granted ahead of the room they need; reads
overtake writes in a memory channel; the two ends of a bus count its cycles each
for itself; and signals are only moved when somebody looks at them. `PROJECT.json` lists the hazards with their lines and the properties
that cover them.

## 2. The modules

| Module | Models |
|---|---|
| `DelayLine` | what a signal promises: a line of cells, a usual latency and three ways to fail |
| `Signal` | the ring of `Signal`: `clock`, `readGenFast`, both `writeGenFast`, `setData`, `create`; refines `DelayLine` (`IsDelayLine`) |
| `CommandProcessor` | `clock`, `processNewcgoMetaStream`, `processGPUCommand`, `processGPUEvent`, `reset`, with the control automata of StreamController, Primitive Assembler, Clipper, Rasterizer, Z stencil, color write and Display Controller as environment |
| `MemoryPort` | the Command Processor's writes and program loads against its bus in MemoryControllerV2 |
| `VertexStream` | what the Stream Controller promises: the vertices of the batch, in order |
| `Streamer` | the boxes of the Stream Controller; refines `VertexStream` (`IsVertexStream`) |
| `TriangleStream` | what the geometry pipe promises: the visible triangles of every batch, in order |
| `GeometryPipe` | Primitive Assembly, Clipper, Triangle Setup, Triangle Traversal; refines `TriangleStream` (`IsTriangleStream`) |
| `ChannelMemory` | what a memory channel promises: conflicting transactions in order, each answered once |
| `ChannelScheduler` | the Fifo, RWFifo and BankQueue schedulers; refines `ChannelMemory` (`IsChannelMemory`) |
| `MemoryController` | MemoryControllerV2 between its clients and the channel schedulers |
| `Filter` | what a box keeps of a sequence, for `Streamer` and `TriangleStream` |
| `ModArith` | lemmas: positions of a ring, cycles of a bus, induction over sets of numbers and over sequences |
| `Signal_proofs`, `CommandProcessor_proofs`, `MemoryPort_proofs`, `Streamer_proofs`, `GeometryPipe_proofs`, `ChannelScheduler_proofs`, `MemoryController_proofs` | the theorems on each model |
| `MC...` | sets, traces and streams of the runs |

How they fit: all models but `Signal` take from `DelayLine` that a link of latency 1
delivers in the next cycle what was sent in this one. So a step of them is a cycle of the
simulation: each box reads the links as the last cycle left them. `CommandProcessor` leaves
open how long a memory access takes (`MemoryBusy`); `MemoryPort` is that access in detail,
with the controller's queues left open; `MemoryController` has these for all units,
with the schedulers left open; `ChannelScheduler` is one of them. Likewise `Streamer` and
`GeometryPipe` are what `CommandProcessor` takes for units that end when they have
worked: the first gives vertices in order to a Primitive Assembly that asks for them,
the second takes them.

### Signal

State and names are those of the class. Only `cycle - lastCycle` is ever used, so
the model keeps it as `lag`; `Tick` is the loop starting the next cycle. The two
ends may call in any order and any number of times. `call` holds the result of
the last access, `error` the assertion that ended the simulation. The mask of the
code is a modulus because the capacity is a power of two; the model asks only
for `MaxLatency < Capacity <= 2 * MaxLatency`, which holds of the least one.

`IsDelayLine` is `DL!Spec` under the mapping that reads the ring from the current
cycle on. It says in one sentence what users of signals assume, and is checked
step by step: every read returns what the line would, every write lands where
it should, and each of the three assertions fires exactly when the line calls for it.
A write with a latency moves the slot of those without one for good
(`cmGPUSignal.cpp` 254): the line keeps that as its usual latency (`usual`).

### CommandProcessor

`cp` is a record of the fields of the object, and `clock()` is sequential code
over them; the operators take a record to the next one, and the actions choose by
`status` (`statusRegister`). `Transact` and `FetchAndProcess` are the part that
drains a buffer or takes and executes a transaction; `EndGeometry`,
`EndFragment`, `AfterBatch` the ends of the phases. `comm[u]` is the command link
of unit `u`. The states of the units are read from `unit`, which holds their
values at the end of the last cycle: that is what the state links deliver.

Data is reduced to what the order properties need. A register write carries its
place in the trace; `hw.geom` and `hw.frag` are the last write that reached the
units of each group, `hw.vertex` and `hw.fragment` the group's value when the
program was loaded. `order` is what they would be had each transaction been
executed when it was taken, and `due` its fragment part at the last DRAW. The
kinds `geomReg`, `fragReg`, `clipReg`, `depthRangeReg` differ in group and targets
(`processGPURegisterWrite`). The commands that need the units to themselves
differ in their workers: `swap` (also the color dump and the blit), `dumpDepth`
(also the stencil dump), `clearZ`, `color` and `depth` (the clears, flushes and the
saving and restoring of state that use one kind of unit), `flushZ` with its delay.

A unit in its `drawing` or `working` state reads no command; `Accepts` holds the
assertions of the units' command handlers, and a command on a link that its unit
does not accept ends the simulation (every action requires `UnitsAccept`). Units
finish in any order and after any time that `MayFinish` allows: a unit ends a
batch after the units that feed it.

Left out: the validation log, forced transactions of the debugger, the skipping
of draws and frames, the bandwidth of shader and texture commands (these boxes
take a command in every state), and display refresh that is not synchronised.

### MemoryPort

`command`, `size`, `moved` (`sent`, `requested`), `received`, `transCycles`,
`freeTickets` and `lastSize` are fields of the Command Processor; `busCycles` and
`reserved` are `BusState` of the controller, `atMemory` the reads it holds. The
controller's stages are taken in the order of its `clock`: requests, bus counters,
service, reservation, states. Queues, channels and DRAM decide only *when* a read is
ready and what is accepted, and are open. A transaction carries its place in the
buffer, for `InBuffer`.

### VertexStream, Streamer

`Streamer` has the top box, Fetch, Output Cache, one Loader and Commit of the
Stream Controller, each an operator per cycle, with all links between them. Shaders
answer inputs in any order (`shading`); Primitive Assembly asks for vertices ahead
(`request`). `freeLines`, `freeEntries` and `freeInputs` are the counts Fetch keeps of
what other boxes own; `tag`, `valid` and `freeList` are the post-shading cache;
`fifo`, `lastUse`, `dealloc` and `confirm` are Commit's, with the two steps in which
a line of output memory is given back. A line holds the index its attributes belong to
(`memory`), the only data. `AssertionsHold` gathers the assertions of the boxes,
and that the Output Cache ends its cycle: in the case `Loops` it would not.
`IsVertexStream` says that Primitive Assembly gets the indices of the batch in order, each
with its own attributes, whatever hits the cache and however late the shaders are.

### TriangleStream, GeometryPipe

`GeometryPipe` composes Primitive Assembly, Clipper, Triangle Setup and Triangle
Traversal with the part of the Command Processor that starts and ends the phases. Each
box asks the one before it for triangles (`askAssembly`, `askClipper`, `askSetup`) and
reserves entries for them; a pipe of latency n is a sequence of n groups. A receiver
does not look at its bus while its unit starts a triangle, and the sender counts the
same cycles (`wait`, `busWait`): `AssertionsHold` says that no triangle arrives unseen.
`CreditsKept` relates the reserved entries to what was asked for and is under way.
`TriangleStream` is the promise: the triangles of the primitive, in order, each with
its facing, without those that are degenerate, rejected or culled. The refinement
mapping is what is still in the pipe, filtered by what the rest of the pipe drops.
Vertices are numbers on a circle, whose cyclic order is the facing.

### ChannelMemory, ChannelScheduler

One scheduler of a memory channel, of any of the three kinds and both switching policies,
one cycle per step. Transactions are numbered in the order they were sent, so that a
queue is a set with a least element; `waits` is the `dependency` pointer of a queue entry.
When the DDR module takes a command, when data return and which page is open are left open,
and with it the choice among the banks: what is proved and checked holds for all of them.
`ChannelMemory` says what a channel promises the controller; `IsChannelMemory` is the
refinement. `Overlap` is `overlapsWith`, which calls adjacent blocks overlapping;
`ChannelMemory` asks for common bytes only, so the code may be stricter, not laxer.

### MemoryController

`MemoryController::clock`, stage by stage, with all its clients: `entries` and
`systemEntries` are the two request buffers, `queued` the channel queues, `inMemory` what
the schedulers hold, `service` the service queue, `busCycles`, `onBus` and `reserved` the
buses, `state` what `sendBusState` tells each client. Clients send whatever the state they
read lets them, each with one link and one bus, and count the transmission for themselves
as the Command Processor does (`trans`). The schedulers answer in any order, for
`ChannelScheduler` says that any is possible. A load (`Loads`) says which requests there
are. `freeReadBuffers` is unsigned in the code, hence `Word`.

## 3. The runs

| Run | Question | Result |
|---|---|---|
| `signal_boxes` | is a signal written with and without a latency a delay line, whatever the order of the calls? | pass |
| `cp_registers` | pipelined batches, register writes and vertex programs, 7 transactions, two stamp units of each kind: does each batch see its registers? | pass |
| `cp_memory` | transfers and exclusive commands, with and without pipelined batches: do they meet no batch, and does every trace end (`Completes`)? | pass |
| `cp_stored_load` | fragment program loads between pipelined batches | violates `FragmentProgramInOrder` |
| `port_transfers` | both assertions of the bus, tickets, the program buffer, the end of every transfer | pass |
| `port_load_shader` | the first request of LOAD_SHADER_PROGRAM | violates `SizeAllowed` |
| `streamer_order` | two vertices sent and two lines given back in a cycle: vertices in order with their attributes, resources accounted for, the Output Cache ends its cycles (`~Loops`), every batch ends | pass |
| `streamer_lost` | an index with two lines on their way back | violates `LinesLeft` |
| `streamer_stale` | a line revived and given back again at once | violates `IsVertexStream` |
| `geometry_pipe` | visible triangles in order, no overrun of a bus or a queue, credits, every batch ends | pass |
| `channel_scheduler` | queues never full, no deadlock, both kinds served, conflicts in order, all answered | pass |
| `memory_controller` | entries and buffers for what was admitted, buses agree, buffers come back, everything drains | pass |

### Bounds

- Signals: latency 2 in a ring of 4, bandwidth 2, two objects up to symmetry,
  and a gap of up to 4 cycles (`MaxLag`): longer than the latency, so both tests
  for lost data are reached, and than the ring, so pointers wrap. The theorem removes
  these bounds for the invariants.
- Traces: `MaxTransactions` of 4 to 7. Three draws with writes between them put
  three batches in flight or held, which is one more than the pipeline takes.
  Seven transactions also fill the update buffers.
- `MaxUpdates` is 1 or 2 for the 512 of the code; the buffer is a queue, and full
  and empty are the only cases the code tells apart.
- `ConsecutiveDrawDelay` is the code's 2. `FlushDelay` is 2 for the code's
  10000: with both, the end command and the states it causes pass before the delay ends.
- Two units each of Z stencil and color write in `cp_registers`, one elsewhere.
- Memory port: transactions of 5 bytes on a bus of 2, which does not divide them; 2
  tickets, fewer than a load has transactions; sizes of one to three transactions
  with whole and partial last ones.
- Streamer: streams of 4 to 6 indices that repeat in turn, at once and after another one
  (`MixedStreams`), with 3 lines and 3 entries, so that all resources run out and all
  rings wrap; two indices fetched a cycle; two shaders, so that inputs overtake; two buses
  to Primitive Assembly, the default, so that two lines are given back at once. The first
  may be revived and the second confirmed with a single free line before it: as close to
  `Loops` as can be. Batches follow each other without end. No stream has an index three
  times in a row, for which the code is wrong (points 3, 4 and 12).
- Geometry pipe: one batch of each primitive, with 5 vertex entries (odd, and fewer than
  the vertices), a bus of 3 cycles and start latencies of 2, so that bus and unit
  overlap; queues that run full; rejected, degenerate and culled triangles and
  vertices left over; a batch of which nothing is seen.
- Channel scheduler: queues of 2, the smallest size that ever accepts, and for one RWFifo
  3 writes, so that chains form; three blocks, two of which overlap; limits of 1 reads and 2 writes. Four
  transactions: two chains of dependencies across the two queues.
- Memory controller: the smallest number of entries and write buffers with which it ever
  accepts (twice the clients, twice the writers), one read buffer, a counter that wraps at
  8, a service queue of one, two clients of which one only reads, two channels. Five
  requests of one chunk, more than there are entries, or three of one or two chunks,
  or three with system memory.

Deadlock checking is off in `signal_boxes` only, where a failed assertion ends the
behaviour. In the other models the boxes are clocked for ever.

### Fairness

Every model has weak fairness of its step: the loop clocks every box for ever. Beyond it:

- `CommandProcessor`: a unit that can finish a batch or a command does so some day, as
  does a memory access. Units work on finitely many vertices, triangles and stamps
  (`GeometryPipe` and `Streamer` show it of theirs), and `MemoryPort` shows that the
  port's part of an access ends. The trace driver need not give anything: a trace may end at
  any time.
- `MemoryPort`: the controller accepts reads again and again and writes again and again
  when it can (its queues drain whatever the port does, which is `Drains` of
  `MemoryController`), and a read that is at the controller is ready some day.
- `Streamer`: indices of a batch come from memory, shaders answer, Primitive Assembly
  asks for vertices while it waits for some.
- `GeometryPipe`: vertices that were asked for arrive, the phases of a batch that may end
  are ended, and the rasterizer comes to the last fragment of its triangles.
- `ChannelScheduler`: the DDR module takes the last command of a transaction and returns
  the data of a read, each of which its timing allows after finitely many cycles.
- `MemoryController`: the scheduler of a channel accepts and answers what it is sent
  (`Answered` of `ChannelScheduler`), transfers to and from system memory end and
  the next can start. Clients need not send anything.

## 4. Proofs

The theorems hold for every value of the constants that satisfies the named
ASSUMEs of the module (TLC evaluates these for each run) and the hypotheses below.

| Module | Theorems | Hypotheses |
|---|---|---|
| `Signal_proofs` | `SignalType`, `CounterExact`, `UnreadInWindow`, `ImplementsDelayLine` | `FirstCycle = 0` |
| `CommandProcessor_proofs` | `CommandProcessorType`, `RegistersAlwaysInOrder`, `BatchesOverlapOnce`, `LockedTransfersAlone`, `ExclusiveCommandsAlone`, `CommandsAccepted` | `ConsecutiveDrawDelay >= 2`; for `CommandsAccepted` no straddling registers in pipelined traces |
| `MemoryPort_proofs` | `PortType`, `BusNeverBusy`, `NoTicketLost` | none |
| | `LoadsStayInBuffer`, `TransactionSizes` | no LOAD_SHADER_PROGRAM |
| `Streamer_proofs` | `StreamerTyped`, `ResourcesAddUp`, `CountersNeverFail`, `NothingLeft` | none |
| `GeometryPipe_proofs` | `PipeTyped`, `NoneUnexpected`, `NoCreditLost`, `PipeIsTriangleStream` | none |
| `ChannelScheduler_proofs` | `SchedulerType`, `NeverFull`, `NoDeadlock`, `BothServed`, `ImplementsMemory` | none |
| `MemoryController_proofs` | `ControllerType`, `BuffersNeverLost`, `EntriesSuffice`, `WritesAccepted` | none |

The hypotheses are facts of the code, or are needed because of a point of section 5.
Every box calls `setData` for cycle 0 (point 7); contents for a later cycle are put in
slots the read point does not follow. `ConsecutiveDrawDelay` is the constant 2 of
`cmCommandProcessor.h` 56: with one cycle, the second DRAW would meet units that have not
read the first. `GPU_D3D9_DEPTH_RANGE` and the clip registers are the `Straddling`
registers, which units of both phases have (points 5 and 6). The first request of
LOAD_SHADER_PROGRAM has the size of another program (point 2): with it, `port_load_shader`
violates the two theorems.

All proofs have one difficulty in common: a box decides on a state that is a cycle old,
so a property alone is never inductive, and the strengthening says what is still
on the links.

### Signal

The inductive invariant is `TypeOK /\ PendentExact /\ InWindow /\ WriteAhead`.
`PendentExact` (the counter is the number of objects in flight) and `InWindow` (they lie
in the latency + 1 slots from the read point, and reads and writes meet only
there) are what `signal_boxes` checks. They are not inductive alone: a write
without a latency goes where `nextWrite` is, which is inside the window only because
`nextWrite` is one to `MaxLatency` slots ahead of `nextRead` (`WriteAhead`).
`PendentExact` needs that a filled slot grows by one cell, hence `TypeOK`; and
`clock` preserves the window because nothing may be left in the slots it
passes (`LostData`), which is again `PendentExact` when the gap is longer than the
ring's window. `ModArith` holds the lemmas on positions of a ring.

`ImplementsDelayLine` is the refinement of `DelayLine`. The ring is lazy: it turns when it
is next used, while the line moves every cycle. So the cell that arrives in n cycles is
that of the slot n + `lag` after the read point (`Line`), what lies in slots that were
passed since the last use is late (`Overdue`), and the usual latency is the distance
of the two points (`Distance`). A step of the ring is a step of the line or none, and
each assertion is the failure of the line with the same meaning.

### Command Processor

What a cycle can do to the Command Processor is stated once, in terms of the fields
that change: `Processes` for a transaction (eight ways), `EndsGeometry`, `EndsFragment`,
`Finishes`, `Exclusively` and others for the states, and `Move` for the whole. All theorems use
this and the few facts each needs.

- `IInv` counts batches. `FlowOf` says, for each state, how many batches the geometry
  and the fragment units were given, so that the two differ by one or not at all, and
  which units are at work; it is stated for the state the units will have when they have read
  what is on the links (`Willed`, `Batched`). `Course` says which state, stack, held
  transaction, stored load and buffers can come together, `CountOf` that every batch is a
  transaction of the trace, `Sound` what is sent when. From these follow `OneBatchAhead`,
  `LockedAlone` and `ExclusiveAlone`.
- `OrdersAt` relates the registers in the units, the buffered updates and the
  transaction held to the place in the trace: the value a phase is due is that of the last
  buffered update, or that of the units if there is none. That is `RegistersInOrder`.
- `AInv` adds for `UnitsAccept` that no straddling register is held or buffered in a
  pipelined trace (`Proper`), and that the units end in the order of the pipe, because each
  waits for the end of the one before it (`InOrderOfPipe`): the Command Processor looks at
  the last unit of a phase only, and sends the next command to all of them.

### Memory port

Both ends count the cycles of a transmission. `InStep`: the controller's count is the
Command Processor's, one cycle late for a write and one cycle early for the data of a
read, so that both reach zero before either starts the next. `OnePlace` keeps a ticket in
one place. `Parts`: the reads asked for are disjoint pieces of what was requested, and what
was received is the rest, counted in bytes, so that the load is over when the last read
is; `TooMuch` keeps the two unconditional theorems true with LOAD_SHADER_PROGRAM.

### Stream Controller

`IInv` was checked by TLC on the streams of `streamer_order`, and on those of `streamer_lost`
and `streamer_stale` up to where an assertion fails, before it was proved.

- `Ring`: the entries of the FIFO in use are those of the indices received and not sent, counted
  modulo its size; those on their way take the next ones. There are never more than the
  size, so no two of them share an entry (`RingApart`, from `ModApart`).
- `OwnEntries`: an input that is loaded or shaded has an entry of its own, in use and not
  shaded. So what a shader answers, however late, goes to the index it belongs to.
- `Accounts` is `ResourcesAccounted` with the bound on `LinesNow` when Commit has finished. A
  step keeps it for two reasons: every answer that shares no line adds exactly one line to
  those with a last use (`UsesIs`, a bijection), and every line given back in the last
  cycle is either confirmed or revived, never both (`ConfirmNext`).
- `FreedKept`: what Commit compares with (`freed`) are the lines it gave back in the last
  cycle; at the start of a batch it still holds those of the last one, and then
  nothing is answered.
- `Control` and `Gone`: the boxes end one cycle after the other, and which links are empty
  by then. `freed` and the unconfirmed lines are not cleared at START, hence `NothingLeft`.

A cycle of a box is stated once, by what it means for the others (`Fetches`, `Looks`,
`Takes`, and `FifoNext`, `UsesNext`, `ConfirmNext` and `FreedNext` for Commit), and
the steps of the invariant use these only. The accounts are those of Fetch. They hold with
a line that the Output Cache has lost (point 3) as well: there, Fetch counts a
line free that the Output Cache does not have.

### Geometry pipe

`IInv` names what a box takes for granted of the boxes around it; it was checked by TLC on
the instance of `geometry_pipe` before it was proved.

- `Phases` relates the states of the boxes to that of the Command Processor and to the
  orders on the links: who draws, who was told to, and who has told that it is done.
- `ClipperOrder`, `SetupOrder` and `TraversalOrder` say that the mark of the end of a batch
  is the last thing on a bus, in a unit or in a queue (`EndsBatch`), that there is one mark
  at most, and that a box which is not drawing has nothing before it (`Vacant`). A box that
  has seen the mark is idle: so the next batch starts with empty queues.
- `Forgotten`: a request that was made before the mark is answered by nothing, and the
  box that asked gives the reserved entries back when the mark arrives. That is the step
  where credits could be lost, and `CreditsKept` holds through it because requests
  and triangles on the way are counted together.
- `Room`: what a queue holds and what it has reserved is never above its size.
- `InTime`: how the cycles that the sender counts (`busWait`) and those the receiver counts
  (`wait`) differ while triangles are on the bus. A triangle arrives when the unit
  has just come free, never while it starts another. This is what `AssertionsHold` needs.

In `IInv` the primitive and its data enter by the number of triangles in a group only;
which of them are rejected or culled is arbitrary, for what `Only` leaves is no longer than
what it is given. That is an induction, which `ModArith` makes possible: the library states
induction for predicates, which the provers cannot instantiate, and `Induction`, `Recursion`
and `SequenceInduction` state it for sets and functions, from `LeastElement`.

`PipeIsTriangleStream` is about the data. Its invariant is `IInv /\ Content`; TLC checked
`Content` on the instance of `geometry_pipe` first. `Content` says three things:

- `Gathered`: the assembly queue holds the vertices of the batch that are still needed,
  each in its entry (`Slot`; a fan keeps its first in entry 0 and goes round the others),
  and the counters of Primitive Assembly are functions of the vertices received and of the
  triangles assembled (`Consumed`). Then the entries that `EntriesOf` reads hold the
  vertices that `Corners` names (`TriangleGathered`), for each primitive, also where the
  queue wraps. The entries of vertices that are needed differ (`SlotsDiffer`), so a
  vertex that arrives overwrites none of them.
- While the Command Processor is in DRAWING, the culling register of Triangle Setup is
  that of the batch in the geometry phase. Later the two may differ: the register of
  Triangle Setup is then the older batch's, on which it still works.
- What a triangle in each queue may be: behind the Clipper none is outside of the frustum,
  so that Triangle Setup, which only culls, leaves those that can be seen.

A step of the pipe is a step of the stream by one law for each box and each bus, `Passes`:
what is in it, followed by what enters, is what leaves, followed by what is in it then.
For the buses this is `FlatCarry`; for the Clipper and Triangle Setup it holds of what can be
seen (`ClipperPasses`, `SetupPasses`); for Primitive Assembly what enters is nothing, and
what is in it is the rest of the batch (`UnassembledIs`). The law composes
(`PassesThrough`): what leaves one part enters the one before it. So the pipe as a whole
loses at its end what Triangle Traversal rasterized (`Batched`), unless a batch is drawn.
A register is written only when the boxes it is for hold nothing (`RegistersPass`), hence no
triangle is culled by the register of another batch; that the mark of the batch before
has left them is `IInv` again.

### Channel schedulers

From one inductive invariant, `IInv`. Transactions are numbered apart, and one on the
link is newer than the queued (`Numbered`); who waits, waits for an older one
(`WaitsBack`): so the oldest front of all never waits, and there is no deadlock.
`DependencyKept` is the heart of the refinement: a transaction waits for the *newest* it
overlaps with only, and that is enough because a queue is first in, first out, so that
the older ones have left when the newest has. `RoomKept` counts the transaction on the link
and the one that answers to the state on its way; `CountsKept` ties the history of who
was passed over to the counter of the policy; `Apart` keeps a transaction in one place,
so that it is performed and answered once.

### Memory Controller

`IInv` counts credits. While some client may send, there is an entry in each
memory for all that is on the links *and* one more for each client (`EntryCredits`),
which is why twice the number of clients is the right threshold; the same with writers
and write buffers (`WriteCredits`). `Transmissions` says how the two counts of a bus
differ while a write or data are on the link, and that they agree otherwise, and that a
client which was told it may write finds its bus not reserved.

`BInv` follows a request through the controller for `BuffersAccounted`: in which sets and
queues it is in each of its states, that a queue holds it once, and how many buffers
it holds there. The count of read buffers is modulo 2^32 and may go below zero (point 10):
the equation holds in integers, and the wrapped counter is its remainder.

### Not proved

- `AssertionsHold` of `Streamer`, but for the counters (`CountersNeverFail`), and with it
  `FreeLinesUnused` and `IsVertexStream`: not true for all sizes and streams
  (points 3, 4 and 12), so the runs check them for their streams.
- Liveness: `Completes`, `Ends`, `BatchFinishes`, `BatchesRasterized`, `Answered` and
  `Drains` are beyond the prover, as is anything with ENABLED.
- The properties of the violation runs are false.

## 5. Where code and text disagree

Shown by a run:

1. `cp_stored_load`, CP 7963: a fragment program load is stored in END_GEOMETRY even when
   the next batch has started, and is then executed before that batch's fragment phase,
   though it follows it in the trace. CP 2101 says why fragment register writes are not.
2. `port_load_shader`, CP 8100: LOAD_SHADER_PROGRAM takes the size of its first request
   from the fragment program.
3. `streamer_lost`, `cmStreamerCommit.cpp` 318: Commit looks for the *indices* that were
   given back a cycle ago. An index in consecutive cycles may have two lines, and one of them
   is then neither confirmed nor used, though Fetch counts it free: in the end the Output
   Cache asserts that no line is left.
4. `streamer_stale`, `cmStreamerOutputCache.cpp` 315: the tag of a line that was not
   confirmed is made valid again even if the line was given back once more in the same
   cycle. An index that hits it gets another's attributes.

Seen while reading or in earlier states of the models, without a run of their own:

5. CP 4082-4220: the clip registers are geometry registers, written while fragment
   units draw, but go to the Rasterizer as well, which asserts READY
   (`cmRasterizer.cpp` 560) and reads nothing while it draws. `UnitsAccept` fails for a
   trace of a draw and a clip register write with pipelined batches; so the kind
   `clipReg` is left out of the pipelined traces.
6. CP 4442: `GPU_D3D9_DEPTH_RANGE` is a fragment register sent to the Clipper, which by
   then may work on the next batch. `depthRangeReg` is left out likewise.
7. `cmGPUSignal.h` 198-231: the example of `setData` from cycle 1 does not work: the data
   are put in slot 1 for the first read to look in slot 0. No caller uses a cycle above 0.
8. `cmGPUSignal.h` 237 gives every write without a latency the largest one; after a write
   with a latency it is that one (`cmGPUSignal.cpp` 254). `DelayLine` has what the code does.
9. `cmMemoryControllerV2.cpp` 1349: the end of a read of system memory panics when the
   service queue is full. Places are asked for, not kept (1682), so reads of GPU memory can
   fill it: a load of both kinds needs a queue for all reads that may be open.
10. `cmMemoryControllerV2.cpp` 1501, 1577: a read takes a read buffer without the test
   for one that reads of system memory have (1155). The unsigned counter wraps, and
   while it has, that test lets reads of system memory go on. `BuffersAccounted` shows
   that the count is right again once the buffers are back.
11. `cmMemoryControllerV2.cpp` 201: the constructor counts the stamp units once, the
   threshold (1837) twice, and of write buffers it only asks for one: a configuration
   it lets pass may never accept a request. The runs take the threshold as the size.
12. `cmStreamerOutputCache.cpp` 283: the loop over the lines given back a cycle ago and the
   search in the free list within it share one counter. A line that comes earlier in the
   free list than among the former is found again and again (`Loops`). While no index has
   two lines there is a free line for each one revived, so that this does not come about in
   `streamer_order` (`AssertionsHold`). With two lines for an index, as in point 3, and two
   buses it does: in the stream v v v w v v the second line of v and that of w are given back
   at once, v counts as revived because of a use of its first line, and w is confirmed while
   no line is free. TLC finds this for that stream with the other constants of
   `MCStreamer_Order.cfg`.
13. `cmTriangleTraversal.cpp` 559: nothing checks that the triangle queue is at least
   `TriangleBatch + TrianglesCycle - 1`, without which no batch of triangles may ever
   be complete (`SizeAssumption`).
14. `cmStreamerCommit.cpp` 570: Commit looks for the end of the batch after a vertex it
   sends only, and Fetch (629) in every cycle: a batch without indices never ends. The
   streams of the runs have indices.

Points 1, 5 and 6 need pipelined batches.

## 6. Not modelled

Components with status `not_modelled` in `PROJECT.json`, with reasons: most of the
repository is the behaviour model, the drivers and their tables, trace players and vendored
code, none of which is concurrent, and of the simulator the shaders, caches and ROPs
are in the plan. The map covers a small share of the lines for that reason.

Of the modelled components:

- names, tracing and dumps of signals; the effect of single registers; the memory image;
  statistics and debugging commands everywhere;
- `Streamer`: more than one Loader, the input cache, attribute addresses, registers;
- `GeometryPipe`: triangle setup in the shaders (`triangleShQSz` is never set there: the
  parameter loader assigns the size of that queue to `batchQueueSize`), strips and fans
  over several instances, which Primitive Assembly joins, lines and points, the
  extra hop through the top box of the Rasterizer, fragments, Hierarchical Z, interpolation
  and the fragment FIFO;
- `ChannelScheduler`: the timing of the DDR module and its bursts, the order in which banks
  are tried, and with it how long the front of one bank may wait (`FairToBoth` is about
  reads and writes), statistics of pages;
- `MemoryController`: splitting of addresses, counters per ROP (`useRopCounters`), queues per
  bank, preloads, masks, inner signals.

## 7. Plan

1. For `Streamer`, the condition on streams and sizes under which no line is lost and none
   is stale, and `IsVertexStream` under it.
2. `Rasterizer`: the hierarchy of automata with the fall through of RAST_END, and
   Hierarchical Z; `GenericROP`; the fetch caches with their reserves.
3. Thread scheduling of the unified shader, `DynamicMemoryOpt`, `SignalBinder`, HAL
   `RegisterWriteBuffer` and `ShaderProgramSched`, the wake-up queue.
