---------------------------- MODULE GeometryPipe ----------------------------
(***************************************************************************)
(* The boxes that make triangles of vertices: Primitive Assembly, the      *)
(* Clipper, Triangle Setup and Triangle Traversal.  Each asks the box      *)
(* before it for the triangles it has room for; a triangle takes several   *)
(* cycles to cross a bus or a unit, and a receiver does not look at its    *)
(* bus while its unit starts a triangle: the sender counts the same cycles.*)
(* The Command Processor draws a batch while the triangles of the one      *)
(* before are rasterized.                                                  *)
(*                                                                         *)
(* A step is a cycle of all boxes.  A link of latency 1 is the number sent *)
(* in the last cycle; a link of latency n a sequence of n groups, of which *)
(* the first arrives (DelayLine).  Vertices are numbers on a circle, so    *)
(* that their order is the facing of a triangle (TriangleStream).          *)
(***************************************************************************)
EXTENDS Integers, Sequences, FiniteSets

CONSTANTS
  Batches,          \* the batches drawn: primitive, indices, culling
  Outside,          \* vertices outside of the view frustum
  VerticesCycle,    \* vertices that arrive in a cycle
  TrianglesCycle,   \* triangles a box sends in a cycle
  AssemblyQueue,    \* entries of the assembly queue
  ClipBuffer,       \* entries of the clip buffer
  ClipStart,        \* cycles between triangles that start in the Clipper
  ClipLatency,      \* cycles in the Clipper
  BusLatency,       \* cycles on the bus to Triangle Setup
  SetupFIFO,        \* entries of the setup FIFO
  SetupStart,       \* cycles between triangles that start in Triangle Setup
  SetupLatency,     \* cycles in Triangle Setup
  OutputLatency,    \* cycles on the bus to Triangle Traversal
  TriangleQueue,    \* entries of Triangle Traversal
  TriangleBatch     \* triangles rasterized together

ASSUME SizeAssumption ==
  /\ {VerticesCycle, TrianglesCycle, ClipStart, ClipLatency, BusLatency, SetupFIFO,
      SetupStart, SetupLatency, OutputLatency, TriangleBatch} \subseteq Nat \ {0}
  /\ AssemblyQueue \in Nat /\ AssemblyQueue >= 4
  /\ ClipBuffer \in Nat /\ ClipBuffer > 3 * TrianglesCycle
  /\ TriangleQueue \in Nat /\ TriangleQueue >= TriangleBatch + TrianglesCycle - 1

ASSUME BatchAssumption ==
  Batches \subseteq [primitive : {"TRIANGLE", "TRIANGLE_STRIP", "TRIANGLE_FAN", "QUAD", "QUAD_STRIP"},
                     indices : Seq(Nat), culling : {"NONE", "FRONT", "BACK", "FRONT_AND_BACK"}]

VARIABLES
  cp, command,      \* state of the Command Processor, and its orders
  batch, culling,   \* registers: of the geometry phase, of Triangle Setup
  pa, clp, ts, tt,  \* state of the boxes
  askAssembly, askClipper, askSetup,   \* triangles asked for in the last cycle
  clipIn, clipExec, bus, setup, setupOut,   \* triangles on their way
  out               \* triangles rasterized in the last cycle

links == <<askAssembly, askClipper, askSetup, clipIn, clipExec, bus, setup, setupOut, out>>
vars == <<cp, command, batch, culling, pa, clp, ts, tt, links>>

Pending == INSTANCE TriangleStream WITH pending <- <<>>
Last == Pending!Last

Smaller(m, n) == IF m < n THEN m ELSE n
Take(s, n) == SubSeq(s, 1, n)
Drop(s, n) == SubSeq(s, n + 1, Len(s))
Newest(s) == s[Len(s)]
CountDown(n) == IF n > 0 THEN n - 1 ELSE 0

Empty(latency) == [n \in 1 .. latency |-> <<>>]
Carry(pipe, group) == Append(Tail(pipe), group)

\* Boxes between batches.  The reset at the start of the simulation is over.
Idle(box) == [box EXCEPT !.state = "READY"]

PaStart ==
  [state |-> "DRAWING", received |-> 0, asked |-> 0, stored |-> 0, free |-> 0,
   queue |-> [n \in 0 .. AssemblyQueue - 1 |-> 0], requests |-> 0,
   lastVertex |-> IF batch.primitive \in {"QUAD", "QUAD_STRIP"} THEN 3 ELSE 2,
   count |-> 0, wait |-> 0, odd |-> TRUE, last |-> FALSE]
ClpStart(window) ==
  [state |-> "DRAWING", requested |-> 0, window |-> window, reserved |-> 0,
   wait |-> 0, busWait |-> 0, buffer |-> <<>>]
TsStart ==
  [state |-> "DRAWING", requested |-> 0, reserves |-> 0, wait |-> 0,
   last |-> FALSE, fifo |-> <<>>]
TtStart ==
  [state |-> "DRAWING", requested |-> 0, queue |-> <<>>, finished |-> TRUE, size |-> 0]

Init ==
  /\ cp = [status |-> "READY", started |-> FALSE]
  /\ command = [geometry |-> "none", raster |-> "none"]
  /\ batch \in Batches /\ culling = batch.culling
  /\ pa = Idle(PaStart) /\ clp = Idle(ClpStart(0)) /\ ts = Idle(TsStart) /\ tt = Idle(TtStart)
  /\ askAssembly = 0 /\ askClipper = 0 /\ askSetup = 0
  /\ clipIn = Empty(1) /\ clipExec = Empty(ClipLatency) /\ bus = Empty(BusLatency)
  /\ setup = Empty(SetupLatency) /\ setupOut = Empty(OutputLatency)
  /\ out = <<>>

-----------------------------------------------------------------------------
(***************************************************************************)
(* The Command Processor: the geometry phase of a batch may start when     *)
(* that of the one before has ended, the fragment phase when the fragment  *)
(* phase of the one before has.  It may do other work in any cycle.        *)
(***************************************************************************)

Order(geometry, raster) == command' = [geometry |-> geometry, raster |-> raster]

Draw ==
  /\ cp.status = "READY"
  /\ batch' \in Batches /\ culling' = batch'.culling
  /\ cp' = [status |-> "DRAWING", started |-> TRUE]
  /\ Order("DRAW", "DRAW")

EndGeometry ==
  /\ cp.status = "DRAWING" /\ clp.state = "END"
  /\ cp' = [status |-> "END_GEOMETRY", started |-> FALSE]
  /\ Order("END", "none") /\ UNCHANGED <<batch, culling>>

DrawAhead ==
  /\ cp.status = "END_GEOMETRY" /\ ~cp.started
  /\ batch' \in Batches /\ UNCHANGED culling
  /\ cp' = [cp EXCEPT !.started = TRUE]
  /\ Order("DRAW", "none")

\* The last unit of the fragment phase ends some time after the Rasterizer.
EndFragment ==
  /\ cp.status = "END_GEOMETRY" /\ ts.state = "END" /\ tt.state = "END"
  /\ cp' = [cp EXCEPT !.status = "END_FRAGMENT"]
  /\ Order("none", "END") /\ UNCHANGED <<batch, culling>>

\* The registers of the fragment phase are written first.
NextBatch ==
  /\ cp.status = "END_FRAGMENT" /\ cp.started
  /\ cp' = [cp EXCEPT !.status = "DRAWING"]
  /\ Order("none", "DRAW") /\ culling' = batch.culling /\ UNCHANGED batch

AllDrawn ==
  /\ cp.status = "END_FRAGMENT" /\ ~cp.started
  /\ cp' = [cp EXCEPT !.status = "READY"]
  /\ Order("none", "none") /\ UNCHANGED <<batch, culling>>

OtherWork == Order("none", "none") /\ UNCHANGED <<cp, batch, culling>>

CommandProcessorCycle ==
  Draw \/ EndGeometry \/ DrawAhead \/ EndFragment \/ NextBatch \/ AllDrawn \/ OtherWork

-----------------------------------------------------------------------------
(***************************************************************************)
(* Primitive Assembly.                                                     *)
(***************************************************************************)

VertexCount == Len(batch.indices)
Needed == IF batch.primitive \in {"QUAD", "QUAD_STRIP"} THEN 4 ELSE 3
Mod(n) == n % AssemblyQueue

\* The entry after this one; a fan keeps its first vertex in entry 0.
\* (Mutant: it does not.)
AfterWrapped(entry, n) == Mod(entry + n)
After(entry, n) ==
  IF batch.primitive = "TRIANGLE_FAN" /\ entry = AssemblyQueue - 1
  THEN 1 ELSE Mod(entry + n)

\* Entries of the vertices of the next triangle, so that all triangles of a
\* strip have the same facing.
EntriesOf(p) ==
  LET at(n) == Mod(p.lastVertex - n)
  IN  CASE batch.primitive = "TRIANGLE"       -> <<at(2), at(1), at(0)>>
        [] batch.primitive = "TRIANGLE_STRIP" -> IF p.odd THEN <<at(2), at(1), at(0)>>
                                                          ELSE <<at(1), at(2), at(0)>>
        [] batch.primitive = "TRIANGLE_FAN"   ->
             <<0, IF p.lastVertex = 1 THEN AssemblyQueue - 1 ELSE at(1), at(0)>>
        [] batch.primitive = "QUAD"           -> IF p.odd THEN <<at(3), at(2), at(0)>>
                                                          ELSE <<at(2), at(1), at(0)>>
        [] batch.primitive = "QUAD_STRIP"     -> IF p.odd THEN <<at(3), at(2), at(0)>>
                                                          ELSE <<at(1), at(3), at(0)>>

\* Vertices that no later triangle uses; a quad is two triangles.
Used(p) ==
  CASE batch.primitive = "TRIANGLE"   -> 3
    [] batch.primitive = "QUAD"       -> IF p.odd THEN 0 ELSE 4
    [] batch.primitive = "QUAD_STRIP" -> IF p.odd THEN 0 ELSE 2
    [] OTHER                          -> 1

PassOver(p) ==
  [p EXCEPT !.stored = @ - Used(p), !.count = @ + 1,
            !.lastVertex = IF Used(p) = 0 THEN @ ELSE After(@, Used(p)),
            !.odd = IF batch.primitive \in {"TRIANGLE", "TRIANGLE_FAN"} THEN @ ELSE ~@]
Requested(p) == [p EXCEPT !.requests = @ - 1, !.wait = ClipStart]

\* A degenerate triangle is not sent and takes no request.
AssembleTriangle(a) ==
  LET at == EntriesOf(a.pa)
      v == [n \in 1 .. 3 |-> a.pa.queue[at[n]]]
  IN  IF a.pa.requests = 0 \/ a.pa.last \/ a.pa.stored < Needed THEN a
      ELSE IF Pending!Degenerate(v) THEN [a EXCEPT !.pa = PassOver(@)]
      ELSE [pa |-> Requested(PassOver(a.pa)),
            sent |-> Append(a.sent, Pending!Triangle(v[1], v[2], v[3]))]

\* What may follow in a cycle, here and in ReceiveVertices: one state.
Assemble(p) ==
  LET after[n \in 0 .. TrianglesCycle] ==
        IF n = 0 THEN {[pa |-> p, sent |-> <<>>]}
        ELSE { AssembleTriangle(a) : a \in after[n - 1] }
  IN  after[TrianglesCycle]

\* When the last triangle was assembled the mark of the end follows.
SendTriangles(p) ==
  IF p.requests > 0 /\ p.wait = 0 /\ p.last
  THEN {[pa |-> [Requested(p) EXCEPT !.state = "END"], sent |-> <<Last>>]}
  ELSE IF p.wait = 0 THEN Assemble(p)
  ELSE {[pa |-> p, sent |-> <<>>]}

\* It may ask for more vertices than the batch has left.
AskVertices(p) ==
  IF p.received + p.asked < VertexCount
  THEN Smaller(AssemblyQueue - p.stored - p.asked, VerticesCycle)
  ELSE 0

ReceiveVertices(p, m) ==
  LET after[n \in 0 .. m] ==
        IF n = 0 THEN {p}
        ELSE { [q EXCEPT !.queue[q.free] = batch.indices[q.received + 1],
                         !.free = After(@, 1), !.received = @ + 1,
                         !.stored = @ + 1, !.asked = @ - 1] : q \in after[n - 1] }
  IN  after[m]

NoneLeft(p) == p.received = VertexCount /\ p.stored < Needed

DrawAssembly(p) ==
  \E m \in 0 .. Smaller(VerticesCycle, Smaller(p.asked, VertexCount - p.received)) :
    \E o \in {[p EXCEPT !.wait = CountDown(@)]} :
    \E a \in SendTriangles([o EXCEPT !.asked = @ + AskVertices(o)]) :
    \E q \in ReceiveVertices(a.pa, m) :
        /\ pa' = IF NoneLeft(q) THEN [q EXCEPT !.last = TRUE] ELSE q
        /\ clipIn' = Carry(clipIn, a.sent)

AssemblyCycle ==
  LET quiet == clipIn' = Carry(clipIn, <<>>)
  IN  \E p \in {[pa EXCEPT !.requests = @ + askAssembly]} :
      \/ pa.state = "READY" /\ command.geometry = "DRAW" /\ pa' = PaStart /\ quiet
      \/ pa.state = "DRAWING" /\ DrawAssembly(p)
      \/ pa.state = "END" /\ command.geometry = "END" /\ pa' = Idle(p) /\ quiet
      \/ pa.state # "DRAWING" /\ command.geometry = "none" /\ pa' = p /\ quiet

-----------------------------------------------------------------------------
(***************************************************************************)
(* The Clipper.                                                            *)
(***************************************************************************)

\* After the end of a batch Triangle Setup does not know yet, and asks for
\* more: what it asks for in that time is forgotten.  (Mutant: it is not.)
ListenAlways(c) == [c EXCEPT !.requested = @ + askClipper]
Listen(c) ==
  [c EXCEPT !.requested = IF c.window > 0 THEN 0 ELSE @ + askClipper,
            !.window = CountDown(@)]

RoomForClipped(c) == Smaller(ClipBuffer - c.reserved - Len(c.buffer), TrianglesCycle)

StartsClipping == clp.state = "DRAWING" /\ clp.wait = 0

\* A triangle outside of the frustum is dropped, and its entry is free.
\* (Mutant: the entry stays reserved, here and in EndSetupHeld.)
InView == { t \in Pending!Items : t.last \/ ~Pending!Rejected(t.vertices) }
EndClippingHeld(c, group) ==
  [c EXCEPT !.buffer = @ \o Pending!Only(group, InView),
            !.reserved = @ - Len(Pending!Only(group, InView))]
EndClipping(c, group) ==
  [c EXCEPT !.buffer = @ \o Pending!Only(group, InView), !.reserved = @ - Len(group)]

\* The bus waits for TrianglesCycle triangles or the end of the batch.
ClippedSent(c) ==
  IF /\ c.requested > 0 /\ c.busWait = 0 /\ c.buffer # <<>>
     /\ Len(c.buffer) >= TrianglesCycle \/ Newest(c.buffer).last
  THEN Smaller(TrianglesCycle, Smaller(Len(c.buffer), c.requested)) ELSE 0

SendClipped(c) ==
  LET n == ClippedSent(c)
      ends == n > 0 /\ c.buffer[n].last
  IN  [c EXCEPT !.buffer = Drop(@, n), !.requested = @ - n,
                !.busWait = IF n > 0 THEN SetupStart ELSE @,
                !.window = IF ends THEN BusLatency + 4 ELSE @,
                !.state = IF ends THEN "END" ELSE @]

DrawClipper(c) ==
  LET room == RoomForClipped(c)
      group == IF StartsClipping THEN Head(clipIn) ELSE <<>>
  IN  \E d \in {EndClipping([c EXCEPT !.reserved = @ + room,
                                     !.wait = IF group # <<>> THEN ClipStart - 1
                                              ELSE CountDown(@),
                                     !.busWait = CountDown(@)],
                            Head(clipExec))} :
      /\ askAssembly' = room
      /\ clipExec' = Carry(clipExec, group)
      /\ bus' = Carry(bus, Take(d.buffer, ClippedSent(d)))
      /\ clp' = SendClipped(d)

ClipperCycle ==
  LET quiet == /\ askAssembly' = 0
               /\ clipExec' = Carry(clipExec, <<>>) /\ bus' = Carry(bus, <<>>)
  IN  \E c \in {Listen(clp)} :
      \/ /\ clp.state = "READY" /\ command.geometry = "DRAW"
         /\ clp' = ClpStart(c.window) /\ quiet
      \/ clp.state = "DRAWING" /\ DrawClipper(c)
      \/ clp.state = "END" /\ command.geometry = "END" /\ clp' = Idle(c) /\ quiet
      \/ clp.state # "DRAWING" /\ command.geometry = "none" /\ clp' = c /\ quiet

-----------------------------------------------------------------------------
(***************************************************************************)
(* Triangle Setup, when it is not done in the shaders.                     *)
(***************************************************************************)

RoomForSetup(s) ==
  IF s.last THEN 0
  ELSE Smaller(SetupFIFO - Len(s.fifo) - s.reserves, TrianglesCycle)

StartsSetup == ts.state = "DRAWING" /\ ts.wait = 0

Facing ==
  { t \in Pending!Items :
      t.last \/ ~(Pending!Culled(t.vertices, culling) \/ Pending!Degenerate(t.vertices)) }
EndSetupHeld(s, group) ==
  [s EXCEPT !.fifo = @ \o Pending!Only(group, Facing),
            !.reserves = @ - Len(Pending!Only(group, Facing))]
EndSetup(s, group) ==
  [s EXCEPT !.fifo = @ \o Pending!Only(group, Facing), !.reserves = @ - Len(group)]

SetupSent(s) == Smaller(TrianglesCycle, Smaller(s.requested, Len(s.fifo)))
SendSetup(s) ==
  LET n == SetupSent(s)
  IN  [s EXCEPT !.fifo = Drop(@, n), !.requested = @ - n,
                !.state = IF n > 0 /\ s.fifo[n].last THEN "END" ELSE @]

DrawSetup(s) ==
  LET room == RoomForSetup(s)
      group == IF StartsSetup THEN Head(bus) ELSE <<>>
  IN  \E d \in {EndSetup([s EXCEPT !.reserves = @ + room,
                                  !.wait = IF group # <<>> THEN SetupStart - 1
                                           ELSE CountDown(@),
                                  !.last = IF group # <<>> THEN Newest(group).last ELSE @],
                         Head(setup))} :
      /\ askClipper' = room
      /\ setup' = Carry(setup, group)
      /\ setupOut' = Carry(setupOut, Take(d.fifo, SetupSent(d)))
      /\ ts' = SendSetup(d)

SetupCycle ==
  LET quiet == /\ askClipper' = 0
               /\ setup' = Carry(setup, <<>>) /\ setupOut' = Carry(setupOut, <<>>)
  IN  \E s \in {[ts EXCEPT !.requested = @ + askSetup]} :
      \/ ts.state = "READY" /\ command.raster = "DRAW" /\ ts' = TsStart /\ quiet
      \/ ts.state = "DRAWING" /\ DrawSetup(s)
      \/ ts.state = "END" /\ command.raster = "END" /\ ts' = Idle(s) /\ quiet
      \/ ts.state # "DRAWING" /\ command.raster = "none" /\ ts' = s /\ quiet

-----------------------------------------------------------------------------
(***************************************************************************)
(* Triangle Traversal: it rasterizes TriangleBatch triangles together, or  *)
(* what is left of the batch.                                              *)
(***************************************************************************)

\* The behaviour model reaches the last fragment of the triangles, or the mark
\* of the end is sent, when Hierarchical Z takes fragments.
Rasterize(t) ==
  IF Head(t.queue).last
  THEN [t EXCEPT !.queue = Tail(@), !.finished = TRUE, !.state = "END"]
  ELSE [t EXCEPT !.queue = Drop(@, t.size), !.finished = TRUE]
Rasterized == IF Head(tt.queue).last THEN <<Last>> ELSE Take(tt.queue, tt.size)

\* The mark of the end is not one of them.
BatchSize(t) ==
  LET n == Smaller(Len(t.queue), TriangleBatch)
  IN  IF t.queue[n].last THEN n - 1 ELSE n

StartBatch(t) ==
  IF /\ t.finished /\ t.queue # <<>>
     /\ Len(t.queue) >= TriangleBatch \/ Newest(t.queue).last
  THEN [t EXCEPT !.finished = FALSE, !.size = BatchSize(t)]
  ELSE t

ReceiveSetup(t, group) ==
  [t EXCEPT !.queue = @ \o group, !.requested = @ - Len(group)]

\* Mutant: room for one triangle is enough to ask for TrianglesCycle.
RoomForOne(t) == IF Len(t.queue) + t.requested < TriangleQueue THEN TrianglesCycle ELSE 0
RoomForTriangles(t) ==
  IF Len(t.queue) + t.requested + TrianglesCycle <= TriangleQueue
  THEN TrianglesCycle ELSE 0

DrawTraversal ==
  \E done \in BOOLEAN :
    /\ done => ~tt.finished
    /\ \E t \in {ReceiveSetup(StartBatch(IF done THEN Rasterize(tt) ELSE tt), Head(setupOut))} :
       LET room == RoomForTriangles(t)
       IN  /\ askSetup' = room
           /\ tt' = [t EXCEPT !.requested = @ + room]
           /\ out' = IF done THEN Rasterized ELSE <<>>

TraversalCycle ==
  LET quiet == askSetup' = 0 /\ out' = <<>>
  IN  \/ tt.state = "READY" /\ command.raster = "DRAW" /\ tt' = TtStart /\ quiet
      \/ tt.state = "DRAWING" /\ DrawTraversal
      \/ tt.state = "END" /\ command.raster = "END" /\ tt' = Idle(tt) /\ quiet
      \/ tt.state # "DRAWING" /\ command.raster = "none" /\ UNCHANGED tt /\ quiet

-----------------------------------------------------------------------------
Boxes == AssemblyCycle /\ ClipperCycle /\ SetupCycle /\ TraversalCycle

Next == CommandProcessorCycle /\ Boxes

\* The simulator clocks the boxes, the Command Processor ends the phases,
\* vertices that were asked for arrive, and the behaviour model comes to the
\* last fragment.
Fairness ==
  /\ WF_vars(OtherWork /\ Boxes)
  /\ WF_vars((EndGeometry \/ EndFragment \/ NextBatch \/ AllDrawn) /\ Boxes)
  /\ WF_vars(/\ pa.state = "DRAWING" /\ pa.asked > 0 /\ pa.received < VertexCount
             /\ AssemblyCycle /\ pa'.received > pa.received
             /\ Next)
  /\ WF_vars(~tt.finished /\ TraversalCycle /\ out' # <<>> /\ Next)

Spec == Init /\ [][Next]_vars /\ Fairness

-----------------------------------------------------------------------------
Triangles == Pending!Items
States == {"READY", "DRAWING", "END"}
Groups(pipe) == \A n \in DOMAIN pipe : pipe[n] \in Seq(Triangles) /\ Len(pipe[n]) <= TrianglesCycle

\* Every field stays in its type and every queue within its size.
TypeOK ==
  /\ cp \in [status : {"READY", "DRAWING", "END_GEOMETRY", "END_FRAGMENT"}, started : BOOLEAN]
  /\ command \in [geometry : {"none", "DRAW", "END"}, raster : {"none", "DRAW", "END"}]
  /\ batch \in Batches /\ culling \in { b.culling : b \in Batches }
  /\ {pa.state, clp.state, ts.state, tt.state} \subseteq States
  /\ pa.received \in Nat /\ (pa.state = "DRAWING" => pa.received <= VertexCount)
  /\ pa.stored \in 0 .. AssemblyQueue /\ pa.asked \in 0 .. AssemblyQueue
  /\ pa.free \in 0 .. AssemblyQueue - 1 /\ pa.lastVertex \in 0 .. AssemblyQueue - 1
  /\ pa.requests \in 0 .. ClipBuffer /\ pa.wait \in 0 .. ClipStart
  /\ clp.reserved \in 0 .. ClipBuffer /\ clp.wait \in 0 .. ClipStart
  /\ clp.requested \in Nat /\ clp.window \in 0 .. BusLatency + 4
  /\ clp.buffer \in Seq(Triangles) /\ clp.busWait \in 0 .. SetupStart
  /\ ts.requested \in Nat /\ ts.reserves \in 0 .. SetupFIFO /\ ts.wait \in 0 .. SetupStart
  /\ ts.fifo \in Seq(Triangles) /\ ts.last \in BOOLEAN
  /\ tt.requested \in 0 .. TriangleQueue /\ tt.queue \in Seq(Triangles)
  /\ tt.finished \in BOOLEAN /\ tt.size \in 0 .. TriangleBatch
  /\ \A pipe \in {clipIn, clipExec, bus, setup, setupOut} : Groups(pipe)

EndsBatch(s) == \A n \in 1 .. Len(s) - 1 : ~s[n].last

\* The assertions of the boxes hold and no triangle is lost on a bus: orders
\* find their boxes in the states they are for, a box reads its bus in the
\* cycle a triangle arrives, its queue has an entry for it, and nothing
\* follows the last triangle of a batch.
AssertionsHold ==
  /\ command.geometry = "DRAW" => pa.state = "READY" /\ clp.state = "READY"
  /\ command.geometry = "END" => pa.state = "END" /\ clp.state = "END"
  /\ command.raster = "DRAW" => ts.state = "READY" /\ tt.state = "READY"
  /\ command.raster = "END" => ts.state = "END" /\ tt.state = "END"
  /\ Head(clipIn) # <<>> => StartsClipping
  /\ Head(clipExec) # <<>> => clp.state = "DRAWING"
  /\ Head(bus) # <<>> => StartsSetup
  /\ Head(setup) # <<>> => ts.state = "DRAWING"
  /\ Head(setupOut) # <<>> => tt.state = "DRAWING"
  /\ clp.state = "DRAWING" => clp.reserved + Len(clp.buffer) <= ClipBuffer
  /\ ts.state = "DRAWING" => ts.reserves + Len(ts.fifo) <= SetupFIFO
  /\ tt.state = "DRAWING" => Len(tt.queue) + tt.requested <= TriangleQueue
  /\ pa.state = "DRAWING" => pa.stored + pa.asked <= AssemblyQueue
  /\ EndsBatch(clp.buffer) /\ EndsBatch(ts.fifo) /\ EndsBatch(tt.queue)

\* The triangles in a pipe.
Crossing(pipe) ==
  Cardinality({ at \in (DOMAIN pipe) \X (1 .. TrianglesCycle) : at[2] <= Len(pipe[at[1]]) })

\* An entry a box has reserved is a triangle that was asked for and not sent,
\* or one on its way: none is reserved for ever, and none arrives unreserved.
CreditsKept ==
  /\ clp.state = "DRAWING" =>
       clp.reserved = pa.requests + askAssembly + Crossing(clipIn) + Crossing(clipExec)
  /\ ts.state = "DRAWING" /\ clp.state = "DRAWING" /\ cp.status = "DRAWING" =>
       ts.reserves = clp.requested + askClipper + Crossing(bus) + Crossing(setup)
  /\ tt.state = "DRAWING" /\ ts.state # "READY" =>
       tt.requested = ts.requested + askSetup + Crossing(setupOut)

-----------------------------------------------------------------------------
Flat(pipe) ==
  LET all[n \in 0 .. Len(pipe)] == IF n = 0 THEN <<>> ELSE all[n - 1] \o pipe[n]
  IN  all[Len(pipe)]

\* What is left of the batch in Primitive Assembly.
Unassembled ==
  IF command.geometry = "DRAW" THEN Pending!From(batch, 0) \o <<Last>>
  ELSE IF pa.state = "DRAWING" THEN Pending!From(batch, pa.count) \o <<Last>>
  ELSE <<>>

InPipe ==
  tt.queue \o Flat(setupOut) \o ts.fifo
    \o Pending!Seen(Flat(setup) \o Flat(bus), culling)
    \o Pending!Seen(clp.buffer \o Flat(clipExec) \o Flat(clipIn) \o Unassembled, batch.culling)

\* Of every batch exactly the triangles that can be seen are rasterized, in
\* order, with their own vertices, and then the end of the batch: the pipe
\* implements TriangleStream.
Stream == INSTANCE TriangleStream WITH pending <- InPipe
IsTriangleStream == Stream!Spec

\* Every batch drawn is rasterized: its fragment phase starts and ends.
BatchesRasterized ==
  /\ (cp.started /\ cp.status = "END_GEOMETRY") ~> (cp.status = "DRAWING")
  /\ (cp.status = "DRAWING") ~> (cp.status = "END_FRAGMENT")
=============================================================================
