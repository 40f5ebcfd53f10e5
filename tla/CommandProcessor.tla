-------------------------- MODULE CommandProcessor --------------------------
(***************************************************************************)
(* The Command Processor (cmoCommandProcessor) and, as its environment,    *)
(* the control automata of the units it drives.  It takes the transactions *)
(* of the driver one by one and overlaps the geometry phase of a batch     *)
(* with the fragment phase of the one before it: register writes that come *)
(* too early are kept in two buffers, programs are loaded and memory is    *)
(* written while units work.                                               *)
(*                                                                         *)
(* A step is a cycle of the simulation.  Every link has latency 1 (module  *)
(* DelayLine), so in a cycle the Command Processor sees the states the     *)
(* units had at the end of the previous one, each unit reads what was sent *)
(* to it in the previous one, and the order of the boxes does not matter.  *)
(* clock() is sequential code over the fields of one object: the operators *)
(* below take the state of the Command Processor to its next state, and    *)
(* the actions at the end choose one by statusRegister.                    *)
(***************************************************************************)
EXTENDS Naturals, Sequences, FiniteSets

CONSTANTS
  ZStencil, ColorWrite,    \* the stamp units: Z and stencil test, color write
  MaxUpdates,              \* MAX_REGISTER_UPDATES
  ConsecutiveDrawDelay,    \* CONSECUTIVE_DRAW_DELAY
  FlushDelay,              \* cycles of FLUSH_Z after the flush
  Kinds,                   \* the kinds of transaction in the traces, for each
                           \* value of pipelinedBatches
  MaxTransactions          \* bound: transactions in a trace

Geometry == {"streamer", "pa", "clipper"}
Fragment == {"rasterizer"} \cup ZStencil \cup ColorWrite
Units == Geometry \cup Fragment \cup {"dac"}

GeomRegisters == {"geomReg", "clipReg"}
FragRegisters == {"fragReg", "depthRangeReg"}
Registers == GeomRegisters \cup FragRegisters
MemoryKinds == {"write", "lockedWrite", "preload", "lockedPreload"}
LoadKinds == {"loadVertex", "loadFragment", "loadShader"}
ExclusiveKinds == {"swap", "dumpDepth", "clearZ", "color", "depth", "flushZ"}
AllKinds == Registers \cup MemoryKinds \cup LoadKinds \cup ExclusiveKinds
            \cup {"draw", "event", "initEnd", "reset"}

ASSUME UnitAssumption ==
  /\ IsFiniteSet(ZStencil) /\ ZStencil # {}
  /\ IsFiniteSet(ColorWrite) /\ ColorWrite # {}
  /\ ZStencil \cap ColorWrite = {}
  /\ (ZStencil \cup ColorWrite)
       \cap {"streamer", "pa", "clipper", "rasterizer", "dac"} = {}

ASSUME BoundAssumption ==
  /\ DOMAIN Kinds \subseteq BOOLEAN
  /\ MaxUpdates \in Nat \ {0}
  /\ ConsecutiveDrawDelay \in Nat
  /\ FlushDelay \in Nat \ {0}
  /\ \A pipelined \in DOMAIN Kinds : Kinds[pipelined] \subseteq AllKinds
  /\ MaxTransactions \in Nat

VARIABLES
  cp,        \* the fields of the Command Processor
  comm,      \* comm[u]: the commands on their way to unit u
  unit,      \* unit[u]: its state and the batches it was given
  fetched,   \* transactions taken from the driver
  order,     \* what the registers and programs would be had every
             \* transaction been executed when it was taken
  due        \* the fragment part of order at the last DRAW

vars == <<cp, comm, unit, fetched, order, due>>

Phases == {"geom", "frag"}
Phase(register) == IF register \in GeomRegisters THEN "geom" ELSE "frag"

\* A transaction; value tells one register write from another.
None == [kind |-> "none", value |-> 0]
Transaction == [kind : AllKinds \cup {"none"}, value : 0 .. MaxTransactions]

\* The units a register write goes to.
Targets(register) ==
  CASE register = "geomReg" -> {"streamer", "pa"}
    [] register = "clipReg" -> {"clipper", "rasterizer"}
    [] register = "fragReg" -> Fragment \cup {"dac"}
    [] register = "depthRangeReg" -> {"clipper", "rasterizer"}

\* The units that execute a command run between batches, and whether the
\* display controller works once they have finished.
Workers(kind) ==
  CASE kind \in {"swap", "color"} -> ColorWrite
    [] kind \in {"dumpDepth", "depth", "flushZ"} -> ZStencil
    [] kind = "clearZ" -> {"rasterizer"} \cup ZStencil
Displayed(kind) == kind \in {"swap", "dumpDepth"}

NoRegisters == [geom |-> 0, frag |-> 0, vertex |-> 0, fragment |-> 0]

Init ==
  /\ \E pipelined \in DOMAIN Kinds :
       cp = [status |-> "reset", pipelined |-> pipelined, stack |-> "ready",
             fetch |-> TRUE, last |-> None,
             geometryStarted |-> FALSE, drawDelay |-> 0,
             updates |-> [p \in Phases |-> <<>>],
             stored |-> FALSE, loading |-> FALSE,
             backup |-> [last |-> None, fetch |-> FALSE],
             workEnd |-> FALSE, flushDelay |-> 0, traceEnd |-> FALSE,
             hw |-> NoRegisters, out |-> [u \in Units |-> <<>>]]
  /\ comm = [u \in Units |-> <<>>]
  /\ unit = [u \in Units |-> [state |-> "reset", batch |-> 0]]
  /\ fetched = 0
  /\ order = NoRegisters
  /\ due = [frag |-> 0, fragment |-> 0]

All(us, state) == \A u \in us : unit[u].state = state

-----------------------------------------------------------------------------
(***************************************************************************)
(* processNewcgoMetaStream: the last transaction is executed, stored or    *)
(* held.  c is the state of the Command Processor so far in this cycle.    *)
(***************************************************************************)

Send(c, us, command) ==
  [c EXCEPT !.out = [u \in Units |->
                       IF u \in us THEN Append(@[u], command) ELSE @[u]]]

\* A held transaction is tried again in the next cycle that processes one.
Hold(c) == [c EXCEPT !.fetch = FALSE]
Taken(c) == [c EXCEPT !.fetch = TRUE]
Enter(c, status) == [c EXCEPT !.status = status]
EnterFor(c, status) == [c EXCEPT !.stack = c.status, !.status = status]

\* The geometry phase is over and that of the next batch has not started.
BetweenGeometry(c) == c.status = "endGeometry" /\ ~c.geometryStarted

\* Mutant: the lock is not looked at.
MemoryAllowedUnlocked(c) ==
  c.status \in {"ready", "drawing"} \/ BetweenGeometry(c)

MemoryAllowed(c) ==
  \/ c.status = "ready"
  \/ /\ c.status = "drawing" \/ BetweenGeometry(c)
     /\ c.last.kind \notin {"lockedWrite", "lockedPreload"}

Memory(c) ==
  IF ~MemoryAllowed(c) THEN Hold(c)
  ELSE EnterFor(Taken(c), IF c.last.kind \in {"write", "lockedWrite"}
                          THEN "memoryWrite" ELSE "memoryPreload")

\* processGPURegisterWrite
Apply(c, t) ==
  Send([c EXCEPT !.hw[Phase(t.kind)] = t.value], Targets(t.kind), "reg")

Buffered(c, p) ==
  \/ c.status = "drawing"
  \/ c.status = "endGeometry" /\ (p = "frag" \/ c.geometryStarted)

\* Mutant: a fragment register write may overtake the batch before it.
NotYetNever(c, p) == FALSE

\* "Fragment register updates after a batch can't be stored until the fragment
\* phase starts the same batch."
NotYet(c, p) == c.status = "endGeometry" /\ p = "frag" /\ c.geometryStarted

\* Mutant: one entry too many.
FullLate(c, p) == Len(c.updates[p]) > MaxUpdates
Full(c, p) == Len(c.updates[p]) = MaxUpdates

RegisterWrite(c) ==
  LET p == Phase(c.last.kind) IN
  IF ~Buffered(c, p) THEN Apply(Taken(c), c.last)
  ELSE IF NotYet(c, p) \/ Full(c, p) THEN Hold(c)
  ELSE [Taken(c) EXCEPT !.updates[p] = Append(@, c.last)]

\* Mutant: nothing keeps two draws apart but the state of the streamer.
DrawAllowedNoDelay(c) ==
  /\ c.status \in {"ready", "endGeometry"}
  /\ unit["streamer"].state = "ready"

DrawAllowed(c) ==
  /\ c.status \in {"ready", "endGeometry"}
  /\ unit["streamer"].state = "ready"
  /\ c.drawDelay = 0

\* GPU_DRAW: the fragment units start with the geometry units only if no
\* batch is being drawn.
Draw(c) ==
  IF ~DrawAllowed(c) THEN Hold(c)
  ELSE LET d == Send([c EXCEPT !.geometryStarted = TRUE,
                               !.drawDelay = ConsecutiveDrawDelay,
                               !.fetch = c.pipelined],
                     Geometry \cup {"dac"}, "draw")
       IN  IF c.status = "ready" THEN Enter(Send(d, Fragment, "draw"), "drawing")
           ELSE d

LoadVertex(c) ==
  IF c.status = "ready" \/ BetweenGeometry(c)
  THEN EnterFor(Taken(c), "memoryRead") ELSE Hold(c)

\* GPU_LOAD_FRAGMENT_PROGRAM: in END_GEOMETRY it is stored, over one that may
\* already be there.
LoadFragment(c) ==
  IF c.status \notin {"ready", "endGeometry", "endFragment"} THEN Hold(c)
  ELSE IF c.status = "endGeometry" THEN [Taken(c) EXCEPT !.stored = TRUE]
  ELSE EnterFor(Taken(c), "memoryRead")

LoadShader(c) ==
  IF c.status = "ready" THEN EnterFor(Taken(c), "memoryRead") ELSE Hold(c)

\* Mutant: a command that needs the units to itself does not wait for it.
WhenReadyEarly(c) == c.status \in {"ready", "endGeometry"}
WhenReady(c) == c.status = "ready"

\* SWAP, DUMP, BLIT, CLEAR, FLUSH, SAVE, RESTORE and RESET_STATE.
Exclusive(c) ==
  IF ~WhenReady(c) THEN Hold(c)
  ELSE Send([Taken(c) EXCEPT !.status = "exclusive", !.workEnd = FALSE],
            Workers(c.last.kind), "work")

\* processGPUEvent
Event(c) == IF WhenReady(c) THEN Taken(c) ELSE Hold(c)

\* META_STREAM_INIT_END leaves processNewTransaction as it finds it.
InitEnd(c) == IF WhenReady(c) THEN c ELSE Hold(c)

\* GPU_RESET is executed in any state.
Reset(c) == Enter(Send(Taken(c), Units \ {"dac"}, "reset"), "reset")

Process(c) ==
  CASE c.last.kind \in MemoryKinds -> Memory(c)
    [] c.last.kind \in Registers -> RegisterWrite(c)
    [] c.last.kind = "draw" -> Draw(c)
    [] c.last.kind = "loadVertex" -> LoadVertex(c)
    [] c.last.kind = "loadFragment" -> LoadFragment(c)
    [] c.last.kind = "loadShader" -> LoadShader(c)
    [] c.last.kind \in ExclusiveKinds -> Exclusive(c)
    [] c.last.kind = "event" -> Event(c)
    [] c.last.kind = "initEnd" -> InitEnd(c)
    [] c.last.kind = "reset" -> Reset(c)
    [] OTHER -> c

-----------------------------------------------------------------------------
(***************************************************************************)
(* What clock() does in each state.  t is what the driver gives in this    *)
(* cycle: a transaction, or None at the end of the trace.                  *)
(***************************************************************************)

\* The oldest buffered register write of phase p is sent.
Drain(c, p) ==
  [Apply(c, Head(c.updates[p])) EXCEPT !.updates[p] = Tail(@)]

Fetch(c, t) ==
  IF ~c.fetch THEN c
  ELSE IF t = None THEN [c EXCEPT !.traceEnd = TRUE]
  ELSE [c EXCEPT !.last = t]

\* Mutant: geometry updates wait for the END_FRAGMENT phase.
DrainsLate(c) ==
  CASE c.status = "ready" /\ c.updates.geom # <<>> -> "geom"
    [] c.status \in {"ready", "endFragment"} /\ c.updates.frag # <<>> -> "frag"
    [] OTHER -> "none"

\* The buffer a cycle drains instead of taking a transaction.
Drains(c) ==
  CASE (c.status = "ready" \/ BetweenGeometry(c)) /\ c.updates.geom # <<>> -> "geom"
    [] c.status \in {"ready", "endFragment"} /\ c.updates.frag # <<>> -> "frag"
    [] OTHER -> "none"

Fetches(c) ==
  /\ c.status \in {"ready", "drawing", "endGeometry"}
  /\ Drains(c) = "none"
  /\ c.fetch

\* A transaction is executed in READY, and during a batch when batches are
\* pipelined.
FetchAndProcess(c, t) ==
  LET d == Fetch(c, t) IN
  IF d.traceEnd \/ ~(c.status = "ready" \/ c.pipelined) THEN d ELSE Process(d)

Transact(c, t) ==
  IF Drains(c) # "none" THEN Drain(c, Drains(c)) ELSE FetchAndProcess(c, t)

\* The transaction may have changed the state: then the end of the phase
\* waits.
EndGeometry(c) ==
  IF c.status = "drawing" /\ All({"clipper"}, "end")
  THEN Enter(Send([c EXCEPT !.geometryStarted = FALSE], Geometry, "end"), "endGeometry")
  ELSE c

\* Mutant: the first color write unit that ends is enough.
EndFragmentFirst(c) ==
  IF c.status = "endGeometry" /\ \E u \in ColorWrite : All({u}, "end")
  THEN Enter(Send(c, Fragment, "end"), "endFragment")
  ELSE c

EndFragment(c) ==
  IF c.status = "endGeometry" /\ All(ColorWrite, "end")
  THEN Enter(Send(c, Fragment, "end"), "endFragment")
  ELSE c

\* Mutant: the last transaction tells whether a batch follows.
NextBatchStale(c) ==
  IF c.last.kind = "draw" THEN Enter(Send(c, Fragment, "draw"), "drawing")
  ELSE Enter(IF c.pipelined THEN c ELSE Taken(c), "ready")

\* END_FRAGMENT with nothing more to do: the next batch, or READY.
NextBatch(c) ==
  IF c.geometryStarted THEN Enter(Send(c, Fragment, "draw"), "drawing")
  ELSE Enter(IF c.pipelined THEN c ELSE Taken(c), "ready")

\* Mutant: the load stays stored.
StoredLoadKept(c) ==
  IF c.loading
  THEN [c EXCEPT !.last = c.backup.last, !.fetch = c.backup.fetch, !.loading = FALSE]
  ELSE Process([c EXCEPT !.backup = [last |-> c.last, fetch |-> c.fetch],
                         !.last = [kind |-> "loadFragment", value |-> 0],
                         !.loading = TRUE])

\* The stored load takes the place of the last transaction, and gives it back
\* in the first END_FRAGMENT cycle after it.
StoredLoad(c) ==
  IF c.loading
  THEN [c EXCEPT !.last = c.backup.last, !.fetch = c.backup.fetch,
                 !.stored = FALSE, !.loading = FALSE]
  ELSE Process([c EXCEPT !.backup = [last |-> c.last, fetch |-> c.fetch],
                         !.last = [kind |-> "loadFragment", value |-> 0],
                         !.loading = TRUE])

AfterBatch(c) ==
  IF Drains(c) # "none" THEN Drain(c, Drains(c))
  ELSE IF c.stored THEN StoredLoad(c)
  ELSE NextBatch(c)

\* The last bytes arrived: the program goes to the shaders.
Loaded(c) ==
  LET d == Enter(c, c.stack) IN
  CASE c.last.kind = "loadVertex" -> [d EXCEPT !.hw.vertex = c.hw.geom]
    [] c.last.kind = "loadFragment" -> [d EXCEPT !.hw.fragment = c.hw.frag]
    [] OTHER -> d

\* SWAP, DUMP and BLIT: the workers, then the display controller.
DisplayCycle(c) ==
  LET d == IF All(Workers(c.last.kind), "end") /\ ~c.workEnd
           THEN Send(Send([c EXCEPT !.workEnd = TRUE], Workers(c.last.kind), "end"),
                     {"dac"}, "work")
           ELSE c
  IN  IF All({"dac"}, "end") THEN Enter(Send(d, {"dac"}, "end"), "ready") ELSE d

\* FLUSH_Z waits after the flush for the updates of the HZ buffer.
FlushZCycle(c) ==
  LET d == IF All(ZStencil, "end") /\ c.flushDelay = 0
           THEN Send([c EXCEPT !.flushDelay = FlushDelay], ZStencil, "end")
           ELSE c
  IN  IF d.flushDelay = 0 THEN d
      ELSE [d EXCEPT !.flushDelay = @ - 1,
                     !.status = IF d.flushDelay = 1 THEN "ready" ELSE @]

WorkCycle(c) ==
  IF All(Workers(c.last.kind), "end")
  THEN Enter(Send(c, Workers(c.last.kind), "end"), "ready") ELSE c

ExclusiveCycle(c) ==
  IF Displayed(c.last.kind) THEN DisplayCycle(c)
  ELSE IF c.last.kind = "flushZ" THEN FlushZCycle(c)
  ELSE WorkCycle(c)

\* reset(): no held transaction, no batch, no register of the last one.
Restart(c) ==
  [c EXCEPT !.status = "ready", !.fetch = TRUE, !.geometryStarted = FALSE,
            !.drawDelay = 0, !.updates = [p \in Phases |-> <<>>],
            !.stored = FALSE, !.hw = NoRegisters]

-----------------------------------------------------------------------------
(***************************************************************************)
(* The units: a unit that works reads no command.                          *)
(***************************************************************************)

Reads(u) == unit[u].state \in {"ready", "end"}

\* The Clipper stores a register write in its end state too.
Accepts(u, command) ==
  CASE command \in {"draw", "work"} -> unit[u].state = "ready"
    [] command = "reg" -> IF u = "clipper" THEN Reads(u)
                          ELSE unit[u].state = "ready"
    [] command = "end" -> unit[u].state = "end"
    [] command = "reset" -> Reads(u)

Upstream(u) ==
  CASE u = "streamer" -> {}
    [] u = "pa" -> {"streamer"}
    [] u = "clipper" -> {"pa"}
    [] u = "rasterizer" -> {"clipper"}
    [] u \in ZStencil -> {"rasterizer"}
    [] u \in ColorWrite -> ZStencil
    [] OTHER -> {}

\* A unit finishes a batch after the units it gets its work from.
Passed(u, batch) ==
  \/ unit[u].batch > batch
  \/ unit[u].batch = batch /\ unit[u].state # "drawing"

MayFinish(u) ==
  \/ unit[u].state = "working"
  \/ /\ unit[u].state = "drawing"
     /\ \A v \in Upstream(u) : Passed(v, unit[u].batch)

Obey(u, command) ==
  CASE command = "draw" ->
         [state |-> IF u = "dac" THEN "ready" ELSE "drawing",
          batch |-> unit[u].batch + 1]
    [] command = "work" -> [unit[u] EXCEPT !.state = "working"]
    [] command = "end" -> [unit[u] EXCEPT !.state = "ready"]
    [] command = "reg" -> unit[u]
    [] command = "reset" -> [unit[u] EXCEPT !.state = "reset"]

\* The clock of every unit; those in done finish.
UnitsClock(done) ==
  unit' = [u \in Units |->
             IF unit[u].state = "reset" THEN [unit[u] EXCEPT !.state = "ready"]
             ELSE IF comm[u] # <<>> THEN Obey(u, Head(comm[u]))
             ELSE IF u \in done THEN [unit[u] EXCEPT !.state = "end"]
             ELSE unit[u]]

\* A command a unit does not accept, or a second one in a cycle, fails an
\* assertion of the unit or of the signal, and the simulation stops.
UnitsAccept ==
  \A u \in Units :
    comm[u] # <<>> => Len(comm[u]) = 1 /\ Accepts(u, Head(comm[u]))

-----------------------------------------------------------------------------
\* What the driver sends next.  INIT_END follows a clear (TraceDriverMeta), and
\* RESET is taken to begin a trace.
Transactions ==
  IF fetched = MaxTransactions THEN {None}
  ELSE LET kinds == { k \in Kinds[cp.pipelined] :
                        /\ k = "reset" => fetched = 0
                        /\ k = "initEnd" => cp.last.kind = "color" }
       IN  {None} \cup { [kind |-> k, value |-> fetched + 1] : k \in kinds }

\* Execution in the order of the trace.
InOrder(t) ==
  CASE t.kind \in Registers -> [order EXCEPT ![Phase(t.kind)] = t.value]
    [] t.kind = "loadVertex" -> [order EXCEPT !.vertex = order.geom]
    [] t.kind = "loadFragment" -> [order EXCEPT !.fragment = order.frag]
    [] OTHER -> order

\* The cycle of a Command Processor that ends in state c, having taken t.  A
\* failed assertion has stopped the simulation.
Becomes(c, t) ==
  /\ UnitsAccept
  /\ cp' = [c EXCEPT !.out = [u \in Units |-> <<>>]]
  /\ comm' = c.out
  /\ fetched' = IF t = None THEN fetched ELSE fetched + 1
  /\ order' = InOrder(t)
  /\ due' = IF c.out["streamer"] = <<"draw">>
            THEN [frag |-> order'.frag, fragment |-> order'.fragment] ELSE due
  /\ \E done \in SUBSET { u \in Units : MayFinish(u) } : UnitsClock(done)

Now == [cp EXCEPT !.drawDelay = IF @ > 0 THEN @ - 1 ELSE 0]
Given == IF Fetches(cp) /\ ~cp.traceEnd THEN Transactions ELSE {None}

ResetState == cp.status = "reset" /\ Becomes(Restart(Now), None)
Ready ==
  /\ cp.status = "ready"
  /\ \E t \in Given : Becomes(Transact(Now, t), t)
Drawing ==
  /\ cp.status = "drawing"
  /\ \E t \in Given : Becomes(EndGeometry(FetchAndProcess(Now, t)), t)
EndGeometryState ==
  /\ cp.status = "endGeometry"
  /\ \E t \in Given : Becomes(EndFragment(Transact(Now, t)), t)
EndFragmentState == cp.status = "endFragment" /\ Becomes(AfterBatch(Now), None)
MemoryPreload == cp.status = "memoryPreload" /\ Becomes(Enter(Now, cp.stack), None)
MemoryBusy == cp.status \in {"memoryWrite", "memoryRead"} /\ Becomes(Now, None)
MemoryWritten == cp.status = "memoryWrite" /\ Becomes(Enter(Now, cp.stack), None)
MemoryRead == cp.status = "memoryRead" /\ Becomes(Loaded(Now), None)
ExclusiveState == cp.status = "exclusive" /\ Becomes(ExclusiveCycle(Now), None)

Next ==
  \/ ResetState \/ Ready \/ Drawing \/ EndGeometryState \/ EndFragmentState
  \/ MemoryPreload \/ MemoryBusy \/ MemoryWritten \/ MemoryRead
  \/ ExclusiveState

\* A unit that can finish does, and so does a memory access: the only things
\* the simulation leaves open.
Fairness ==
  /\ WF_vars(Next)
  /\ \A u \in Units : WF_vars(MayFinish(u) /\ Next /\ unit'[u].state = "end")
  /\ WF_vars(MemoryWritten \/ MemoryRead)

Spec == Init /\ [][Next]_vars /\ Fairness

-----------------------------------------------------------------------------
Statuses == {"reset", "ready", "drawing", "endGeometry", "endFragment",
             "memoryWrite", "memoryPreload", "memoryRead", "exclusive"}
Commands == {"reset", "reg", "draw", "end", "work"}
RegisterFile == [geom : 0 .. MaxTransactions, frag : 0 .. MaxTransactions,
                 vertex : 0 .. MaxTransactions, fragment : 0 .. MaxTransactions]

TypeOK ==
  /\ cp.status \in Statuses /\ cp.stack \in Statuses
  /\ {cp.pipelined, cp.fetch, cp.geometryStarted, cp.stored, cp.loading,
      cp.workEnd, cp.traceEnd, cp.backup.fetch} \subseteq BOOLEAN
  /\ cp.last \in Transaction /\ cp.backup.last \in Transaction
  /\ cp.drawDelay \in 0 .. ConsecutiveDrawDelay
  /\ cp.flushDelay \in 0 .. FlushDelay
  /\ \A p \in Phases : /\ cp.updates[p] \in Seq(Transaction)
                       /\ Len(cp.updates[p]) <= MaxUpdates
  /\ cp.hw \in RegisterFile /\ order \in RegisterFile
  /\ cp.out = [u \in Units |-> <<>>]
  /\ comm \in [Units -> Seq(Commands)]
  /\ unit \in [Units -> [state : {"reset", "ready", "drawing", "working", "end"},
                         batch : 0 .. MaxTransactions]]
  /\ fetched \in 0 .. MaxTransactions

\* Each geometry phase starts with the registers and the vertex program of its
\* place in the trace: none later, none missing; each fragment phase with the
\* fragment registers of its batch, though later writes were taken from the
\* driver before it started (GPU_DRAW, update buffers).
RegistersInOrder ==
  /\ comm["streamer"] = <<"draw">> =>
       cp.hw.geom = order.geom /\ cp.hw.vertex = order.vertex
  /\ comm["rasterizer"] = <<"draw">> => cp.hw.frag = due.frag

\* Each fragment phase starts with the fragment program of its batch.
FragmentProgramInOrder ==
  comm["rasterizer"] = <<"draw">> => cp.hw.fragment = due.fragment

\* No unit of us works and no batch is half way through the pipeline.
Idle(us) ==
  /\ \A u \in us : unit[u].state = "ready"
  /\ \A u, v \in Units : unit[u].batch = unit[v].batch

\* A locked transfer finds the units idle: it is not overtaken by the batches
\* before it in the trace, nor does it overtake them (getLocked).
LockedAlone ==
  (/\ cp.status \in {"memoryWrite", "memoryPreload"}
   /\ cp.last.kind \in {"lockedWrite", "lockedPreload"}) => Idle(Units)

\* A swap, a dump, a clear, a flush has the pipeline to itself: the buffers it
\* works on hold every batch before it and no part of a later one.
ExclusiveAlone ==
  cp.status = "exclusive" => Idle(Units \ (Workers(cp.last.kind) \cup {"dac"}))

\* A batch is followed by at most one other: the fragment units are never more
\* than one batch behind, and a batch is in one phase of the pipeline only.
OneBatchAhead ==
  \A u \in Geometry, v \in Fragment :
    unit[v].batch <= unit[u].batch /\ unit[u].batch <= unit[v].batch + 1

\* Every trace is executed to its end: no transaction is held for ever, no
\* unit is waited for that was not started, and what was buffered is applied.
Completes ==
  <>[](/\ cp.traceEnd /\ cp.status = "ready"
       /\ cp.hw.geom = order.geom /\ cp.hw.frag = order.frag
       /\ \A u \in Units : unit[u].state = "ready")
=============================================================================
