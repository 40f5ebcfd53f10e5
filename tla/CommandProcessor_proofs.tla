---------------------- MODULE CommandProcessor_proofs ----------------------
(***************************************************************************)
(* With any number of stamp units, register updates and transactions, in   *)
(* every trace: the Command Processor keeps the batches apart, draws each  *)
(* with its registers, and, without the registers that belong to both      *)
(* phases, sends no unit a command it does not accept.                     *)
(***************************************************************************)
EXTENDS CommandProcessor, TLAPS

-----------------------------------------------------------------------------
(* The fields of the Command Processor.                                    *)

CPState ==
  [status : Statuses, pipelined : BOOLEAN, stack : Statuses, fetch : BOOLEAN, last : Transaction,
   geometryStarted : BOOLEAN, drawDelay : 0 .. ConsecutiveDrawDelay,
   updates : [Phases -> Seq(Transaction)],
   stored : BOOLEAN, loading : BOOLEAN, backup : [last : Transaction, fetch : BOOLEAN],
   workEnd : BOOLEAN, flushDelay : 0 .. FlushDelay, traceEnd : BOOLEAN, hw : RegisterFile,
   out : [Units -> Seq(Commands)]]
Fields ==
  {"status", "pipelined", "stack", "fetch", "last", "geometryStarted", "drawDelay", "updates",
   "stored", "loading", "backup", "workEnd", "flushDelay", "traceEnd", "hw", "out"}

\* d is c but for some fields.
But(c, d, fields) == \A f \in Fields \ fields : d[f] = c[f]

Silent(c) == \A u \in Units : c.out[u] = <<>>
\* us are sent a command, and nothing else is sent.
Sends(d, us, command) == \A u \in Units : d.out[u] = IF u \in us THEN <<command>> ELSE <<>>

\* Memory is transferred for the state that is on the stack.
Memories == {"memoryWrite", "memoryPreload", "memoryRead"}
Home(c) == IF c.status \in Memories THEN c.stack ELSE c.status

-----------------------------------------------------------------------------
(* What processing a transaction may come to.                              *)

Holds(c, d) ==
  But(c, d, {"fetch"}) /\ ~d.fetch /\ c.last.kind \notin {"reset", "none"}
Skips(c, d) ==
  /\ But(c, d, {"fetch", "stored"}) /\ d.fetch \in {TRUE, c.fetch}
  /\ c.last.kind \in {"event", "initEnd", "loadFragment", "none"}
  /\ d.stored # c.stored => c.status = "endGeometry"
Keeps(c, d) ==
  LET p == Phase(c.last.kind) IN
  /\ But(c, d, {"fetch", "updates"}) /\ d.fetch /\ c.last.kind \in Registers
  /\ c.status \in {"drawing", "endGeometry"}
  /\ ~(c.status = "endGeometry" /\ p = "frag" /\ c.geometryStarted)
  /\ Len(c.updates[p]) < MaxUpdates
  /\ d.updates = [c.updates EXCEPT ![p] = Append(@, c.last)]
Transfers(c, d) ==
  /\ But(c, d, {"fetch", "status", "stack"}) /\ d.fetch /\ d.stack = c.status
  /\ d.status \in Memories
  /\ d.status = "memoryRead" <=> c.last.kind \in LoadKinds
  /\ c.last.kind = "loadVertex" => c.status = "ready" \/ BetweenGeometry(c)
  /\ c.last.kind \in {"lockedWrite", "lockedPreload"} => c.status = "ready"
  /\ c.last.kind \in MemoryKinds \cup LoadKinds
Writes(c, d) ==
  /\ But(c, d, {"fetch", "hw", "out"}) /\ d.fetch /\ c.last.kind \in Registers
  /\ ~Buffered(c, Phase(c.last.kind))
  /\ d.hw = [c.hw EXCEPT ![Phase(c.last.kind)] = c.last.value]
  /\ Sends(d, Targets(c.last.kind), "reg")
Draws(c, d) ==
  /\ But(c, d, {"fetch", "status", "geometryStarted", "drawDelay", "out"})
  /\ DrawAllowed(c) /\ c.last.kind = "draw"
  /\ d.fetch = c.pipelined /\ d.geometryStarted /\ d.drawDelay = ConsecutiveDrawDelay
  /\ IF c.status = "ready" THEN d.status = "drawing" /\ Sends(d, Units, "draw")
     ELSE d.status = "endGeometry" /\ Sends(d, Geometry \cup {"dac"}, "draw")
Begins(c, d) ==
  /\ But(c, d, {"fetch", "status", "workEnd", "out"}) /\ d.fetch
  /\ c.last.kind \in ExclusiveKinds /\ c.status = "ready"
  /\ d.status = "exclusive" /\ ~d.workEnd /\ Sends(d, Workers(c.last.kind), "work")
Restarts(c, d) ==
  /\ But(c, d, {"fetch", "status", "out"}) /\ d.fetch /\ c.last.kind = "reset"
  /\ d.status = "reset" /\ Sends(d, Units \ {"dac"}, "reset")

Processes(c, d) ==
  \/ Holds(c, d) \/ Skips(c, d) \/ Keeps(c, d) \/ Transfers(c, d) \/ Writes(c, d)
  \/ Draws(c, d) \/ Begins(c, d) \/ Restarts(c, d)

-----------------------------------------------------------------------------
(* The units and the operators on the fields.                              *)

LEMMA UnitsAre ==
  /\ Units = Geometry \cup Fragment \cup {"dac"}
  /\ Geometry \cap Fragment = {} /\ "dac" \notin Geometry \cup Fragment
  /\ "streamer" \in Geometry /\ "clipper" \in Geometry /\ "pa" \in Geometry
  /\ "rasterizer" \in Fragment
  /\ ZStencil \subseteq Fragment /\ ColorWrite \subseteq Fragment
  /\ ZStencil # {} /\ ColorWrite # {} /\ ZStencil \cap ColorWrite = {}
  /\ \A k \in ExclusiveKinds : Workers(k) \subseteq Fragment /\ Workers(k) # {}
  /\ \A k \in Registers : Targets(k) \subseteq Units
BY UnitAssumption DEF Units, Geometry, Fragment, Workers, ExclusiveKinds, Targets, Registers,
                      GeomRegisters, FragRegisters

LEMMA SendIs ==
  ASSUME NEW c \in CPState, NEW us, NEW k \in Commands
  PROVE  /\ Send(c, us, k) \in CPState /\ But(c, Send(c, us, k), {"out"})
         /\ \A u \in Units : Send(c, us, k).out[u] = IF u \in us THEN Append(c.out[u], k) ELSE c.out[u]
<1> DEFINE o == [u \in Units |-> IF u \in us THEN Append(c.out[u], k) ELSE c.out[u]]
<1>1. o \in [Units -> Seq(Commands)]
  BY DEF CPState
<1>2. Send(c, us, k) = [c EXCEPT !.out = o]
  BY DEF Send, CPState
<1>3. \A u \in Units : o[u] = IF u \in us THEN Append(c.out[u], k) ELSE c.out[u]
  OBVIOUS
<1> HIDE DEF o
<1> QED BY <1>1, <1>2, <1>3 DEF CPState, But, Fields

\* The first command of a cycle.
LEMMA SendFirst ==
  ASSUME NEW c \in CPState, Silent(c), NEW us, NEW k \in Commands
  PROVE  Send(c, us, k) \in CPState /\ But(c, Send(c, us, k), {"out"}) /\ Sends(Send(c, us, k), us, k)
<1>1. Append(<<>>, k) = <<k>>
  OBVIOUS
<1>2. /\ Send(c, us, k) \in CPState /\ But(c, Send(c, us, k), {"out"})
      /\ \A u \in Units : Send(c, us, k).out[u] = IF u \in us THEN Append(c.out[u], k) ELSE c.out[u]
  BY SendIs
<1>3. Sends(Send(c, us, k), us, k)
  BY <1>1, <1>2 DEF Silent, Sends
<1> QED BY <1>2, <1>3

LEMMA PhaseIs ==
  ASSUME NEW k \in Registers
  PROVE  Phase(k) \in Phases /\ (Phase(k) = "geom" <=> k \in GeomRegisters)
BY DEF Registers, Phase, Phases, GeomRegisters, FragRegisters

LEMMA ApplyIs ==
  ASSUME NEW c \in CPState, Silent(c), NEW t \in Transaction, t.kind \in Registers
  PROVE  /\ Apply(c, t) \in CPState /\ But(c, Apply(c, t), {"hw", "out"})
         /\ Apply(c, t).hw = [c.hw EXCEPT ![Phase(t.kind)] = t.value]
         /\ Sends(Apply(c, t), Targets(t.kind), "reg")
<1> DEFINE h == [c.hw EXCEPT ![Phase(t.kind)] = t.value]
           d == [c EXCEPT !.hw = h]
<1>1. h \in RegisterFile
  BY DEF CPState, RegisterFile, Phase, Transaction
<1> HIDE DEF h
<1>2. d \in CPState /\ But(c, d, {"hw"}) /\ d.hw = h
  BY <1>1 DEF CPState, But, Fields
<1>3. Silent(d)
  BY <1>2 DEF Silent, But, Fields
<1>4. Apply(c, t) = Send(d, Targets(t.kind), "reg")
  BY DEF Apply, h, CPState
<1> HIDE DEF d
<1>5. "reg" \in Commands
  BY DEF Commands
<1>6. /\ Apply(c, t) \in CPState /\ But(d, Apply(c, t), {"out"})
      /\ Sends(Apply(c, t), Targets(t.kind), "reg")
  BY <1>2, <1>3, <1>4, <1>5, SendFirst
<1>7. But(c, Apply(c, t), {"hw", "out"}) /\ Apply(c, t).hw = h
  BY <1>2, <1>6 DEF But, Fields
<1> QED BY <1>6, <1>7 DEF h

LEMMA TakenIs ==
  ASSUME NEW c \in CPState
  PROVE  /\ Taken(c) \in CPState /\ But(c, Taken(c), {"fetch"}) /\ Taken(c).fetch
         /\ Hold(c) \in CPState /\ But(c, Hold(c), {"fetch"}) /\ ~Hold(c).fetch
BY DEF CPState, Taken, Hold, But, Fields

LEMMA EnterIs ==
  ASSUME NEW c \in CPState, NEW s \in Statuses
  PROVE  /\ Enter(c, s) \in CPState /\ But(c, Enter(c, s), {"status"}) /\ Enter(c, s).status = s
         /\ EnterFor(c, s) \in CPState /\ But(c, EnterFor(c, s), {"status", "stack"})
         /\ EnterFor(c, s).status = s /\ EnterFor(c, s).stack = c.status
BY DEF CPState, Enter, EnterFor, But, Fields

-----------------------------------------------------------------------------
(* A transaction is processed.                                             *)

LEMMA TransfersIs ==
  ASSUME NEW c \in CPState, NEW s \in Memories,
         s = "memoryRead" <=> c.last.kind \in LoadKinds,
         c.last.kind = "loadVertex" => c.status = "ready" \/ BetweenGeometry(c),
         c.last.kind \in {"lockedWrite", "lockedPreload"} => c.status = "ready",
         c.last.kind \in MemoryKinds \cup LoadKinds
  PROVE  EnterFor(Taken(c), s) \in CPState /\ Transfers(c, EnterFor(Taken(c), s))
<1>1. s \in Statuses
  BY DEF Memories, Statuses
<1> DEFINE t == Taken(c)
           d == EnterFor(t, s)
<1>2. t \in CPState /\ But(c, t, {"fetch"}) /\ t.fetch
  BY TakenIs
<1> HIDE DEF t
<1>3. d \in CPState /\ But(t, d, {"status", "stack"}) /\ d.status = s /\ d.stack = t.status
  BY <1>1, <1>2, EnterIs
<1> HIDE DEF d
<1>4. But(c, d, {"fetch", "status", "stack"}) /\ d.fetch /\ d.stack = c.status
  BY <1>2, <1>3 DEF But, Fields
<1>5. Transfers(c, d)
  BY <1>3, <1>4, Zenon DEF Transfers
<1> QED BY <1>3, <1>5 DEF d, t

LEMMA MemoryIs ==
  ASSUME NEW c \in CPState, c.last.kind \in MemoryKinds
  PROVE  Memory(c) \in CPState /\ Processes(c, Memory(c))
<1>1. CASE ~MemoryAllowed(c)
  <2>1. Holds(c, Hold(c)) /\ Hold(c) \in CPState
    BY TakenIs DEF Holds, MemoryKinds
  <2> QED BY <1>1, <2>1 DEF Memory, Processes
<1>2. CASE MemoryAllowed(c)
  <2> DEFINE s == IF c.last.kind \in {"write", "lockedWrite"} THEN "memoryWrite" ELSE "memoryPreload"
  <2>1. s \in Memories /\ s # "memoryRead" /\ c.last.kind \notin LoadKinds
    BY DEF Memories, MemoryKinds, LoadKinds
  <2>2. c.last.kind \in {"lockedWrite", "lockedPreload"} => c.status = "ready"
    BY <1>2 DEF MemoryAllowed
  <2>3. c.last.kind # "loadVertex"
    BY DEF MemoryKinds
  <2>4. Memory(c) = EnterFor(Taken(c), s)
    BY <1>2 DEF Memory
  <2> HIDE DEF s
  <2> QED BY <2>1, <2>2, <2>3, <2>4, TransfersIs DEF Processes
<1> QED BY <1>1, <1>2

LEMMA LoadsAre ==
  ASSUME NEW c \in CPState
  PROVE  /\ c.last.kind = "loadVertex" => LoadVertex(c) \in CPState /\ Processes(c, LoadVertex(c))
         /\ c.last.kind = "loadFragment" => LoadFragment(c) \in CPState /\ Processes(c, LoadFragment(c))
         /\ c.last.kind = "loadShader" => LoadShader(c) \in CPState /\ Processes(c, LoadShader(c))
<1>1. "memoryRead" \in Memories
  BY DEF Memories
<1>2. \A k \in LoadKinds : k \notin {"reset", "none", "lockedWrite", "lockedPreload"}
  BY DEF LoadKinds
<1>3. c.last.kind \in LoadKinds => Hold(c) \in CPState /\ Processes(c, Hold(c))
  BY <1>2, TakenIs DEF Processes, Holds
<1>4. ASSUME c.last.kind \in LoadKinds, c.last.kind = "loadVertex" => c.status = "ready" \/ BetweenGeometry(c)
      PROVE  EnterFor(Taken(c), "memoryRead") \in CPState /\ Processes(c, EnterFor(Taken(c), "memoryRead"))
  BY <1>1, <1>2, <1>4, TransfersIs DEF Processes
<1>5. ASSUME c.last.kind = "loadFragment", c.status = "endGeometry"
      PROVE  [Taken(c) EXCEPT !.stored = TRUE] \in CPState /\ Processes(c, [Taken(c) EXCEPT !.stored = TRUE])
  <2> DEFINE t == Taken(c)
             d == [t EXCEPT !.stored = TRUE]
  <2>1. t \in CPState /\ But(c, t, {"fetch"}) /\ t.fetch
    BY TakenIs
  <2> HIDE DEF t
  <2>2. d \in CPState /\ But(t, d, {"stored"})
    BY <2>1 DEF CPState, But, Fields
  <2> HIDE DEF d
  <2>3. But(c, d, {"fetch", "stored"}) /\ d.fetch
    BY <2>1, <2>2 DEF But, Fields
  <2>4. Skips(c, d)
    BY <2>2, <2>3, <1>5 DEF Skips, CPState
  <2> QED BY <2>2, <2>4 DEF d, t, Processes
<1> QED BY <1>3, <1>4, <1>5 DEF LoadVertex, LoadFragment, LoadShader, LoadKinds

LEMMA RegisterWriteIs ==
  ASSUME NEW c \in CPState, Silent(c), c.last.kind \in Registers,
         \A p \in Phases : Len(c.updates[p]) <= MaxUpdates
  PROVE  RegisterWrite(c) \in CPState /\ Processes(c, RegisterWrite(c))
<1> DEFINE p == Phase(c.last.kind)
           t == Taken(c)
<1>0. p \in Phases /\ c.last \in Transaction
  BY PhaseIs DEF CPState
<1>1. t \in CPState /\ But(c, t, {"fetch"}) /\ t.fetch
  BY TakenIs
<1> HIDE DEF p, t
<1>2. CASE ~Buffered(c, p)
  <2> DEFINE d == Apply(t, c.last)
  <2>1. Silent(t)
    BY <1>1 DEF Silent, But, Fields
  <2>2. /\ d \in CPState /\ But(t, d, {"hw", "out"})
        /\ d.hw = [t.hw EXCEPT ![p] = c.last.value]
        /\ Sends(d, Targets(c.last.kind), "reg")
    BY <1>0, <1>1, <2>1, ApplyIs DEF p
  <2> HIDE DEF d
  <2>3. But(c, d, {"fetch", "hw", "out"}) /\ d.fetch /\ t.hw = c.hw
    BY <1>1, <2>2 DEF But, Fields
  <2>4. Writes(c, d)
    BY <1>2, <2>2, <2>3 DEF Writes, p
  <2>5. RegisterWrite(c) = d
    BY <1>2 DEF RegisterWrite, d, t, p
  <2> QED BY <2>2, <2>4, <2>5 DEF Processes
<1>3. CASE Buffered(c, p) /\ (NotYet(c, p) \/ Full(c, p))
  <2>1. Holds(c, Hold(c)) /\ Hold(c) \in CPState
    BY TakenIs DEF Holds, Registers, GeomRegisters, FragRegisters
  <2>2. RegisterWrite(c) = Hold(c)
    BY <1>3 DEF RegisterWrite, p
  <2> QED BY <2>1, <2>2 DEF Processes
<1>4. CASE Buffered(c, p) /\ ~NotYet(c, p) /\ ~Full(c, p)
  <2> DEFINE us == [c.updates EXCEPT ![p] = Append(@, c.last)]
             d == [t EXCEPT !.updates = us]
  <2>1. us \in [Phases -> Seq(Transaction)]
    BY <1>0 DEF CPState
  <2>2. t.updates = c.updates
    BY <1>1 DEF But, Fields
  <2> HIDE DEF us
  <2>3. d \in CPState /\ But(t, d, {"updates"}) /\ d.updates = us
    BY <1>1, <2>1 DEF CPState, But, Fields
  <2>4. RegisterWrite(c) = d
    BY <1>1, <1>4, <2>2 DEF RegisterWrite, t, p, us
  <2> HIDE DEF d
  <2>5. But(c, d, {"fetch", "updates"}) /\ d.fetch
    BY <1>1, <2>3 DEF But, Fields
  <2>6. Len(c.updates[p]) < MaxUpdates
    <3>1. Len(c.updates[p]) <= MaxUpdates /\ Len(c.updates[p]) \in Nat
      BY <1>0 DEF CPState
    <3> QED BY <3>1, <1>4, BoundAssumption DEF Full
  <2>7. Keeps(c, d)
    BY <1>4, <2>3, <2>5, <2>6 DEF Keeps, us, p, Buffered, NotYet
  <2> QED BY <2>3, <2>4, <2>7 DEF Processes
<1> QED BY <1>2, <1>3, <1>4

LEMMA DrawIs ==
  ASSUME NEW c \in CPState, Silent(c), c.last.kind = "draw"
  PROVE  Draw(c) \in CPState /\ Processes(c, Draw(c))
<1>1. CASE ~DrawAllowed(c)
  BY <1>1, TakenIs DEF Draw, Processes, Holds
<1>2. CASE DrawAllowed(c)
  <2> DEFINE a == [c EXCEPT !.geometryStarted = TRUE, !.drawDelay = ConsecutiveDrawDelay,
                            !.fetch = c.pipelined]
             d == Send(a, Geometry \cup {"dac"}, "draw")
             e == Send(d, Fragment, "draw")
  <2>1. /\ a \in CPState /\ But(c, a, {"fetch", "geometryStarted", "drawDelay"})
        /\ a.fetch = c.pipelined /\ a.geometryStarted /\ a.drawDelay = ConsecutiveDrawDelay
    <3>1. ConsecutiveDrawDelay \in 0 .. ConsecutiveDrawDelay
      BY BoundAssumption
    <3> HIDE DEF d, e
    <3> QED BY <3>1 DEF CPState, But, Fields
  <2>2. "draw" \in Commands /\ "drawing" \in Statuses
    BY DEF Commands, Statuses
  <2>a. Draw(c) = IF c.status = "ready" THEN Enter(e, "drawing") ELSE d
    BY <1>2, Zenon DEF Draw
  <2> HIDE DEF a
  <2>3. Silent(a)
    BY <2>1 DEF Silent, But, Fields
  <2>4. d \in CPState /\ But(a, d, {"out"}) /\ Sends(d, Geometry \cup {"dac"}, "draw")
    BY <2>1, <2>2, <2>3, SendFirst
  <2>5. CASE c.status = "ready"
    <3> HIDE DEF d
    <3>1. e \in CPState /\ But(d, e, {"out"})
          /\ \A u \in Units : e.out[u] = IF u \in Fragment THEN Append(d.out[u], "draw") ELSE d.out[u]
      BY <2>2, <2>4, SendIs
    <3>2. Append(<<>>, "draw") = <<"draw">>
      OBVIOUS
    <3>3. Sends(e, Units, "draw")
      BY <2>4, <3>1, <3>2, UnitsAre DEF Sends
    <3> HIDE DEF e
    <3> DEFINE g == Enter(e, "drawing")
    <3>4. g \in CPState /\ But(e, g, {"status"}) /\ g.status = "drawing"
      BY <2>2, <3>1, EnterIs
    <3> HIDE DEF g
    <3>5. /\ But(c, g, {"fetch", "status", "geometryStarted", "drawDelay", "out"})
          /\ g.fetch = c.pipelined /\ g.geometryStarted /\ g.drawDelay = ConsecutiveDrawDelay
          /\ g.out = e.out
      BY <2>1, <2>4, <3>1, <3>4 DEF But, Fields
    <3>6. Draws(c, g)
      BY <1>2, <2>5, <3>3, <3>4, <3>5 DEF Draws, Sends
    <3> QED BY <2>a, <2>5, <3>4, <3>6 DEF Processes, g
  <2>6. CASE c.status # "ready"
    <3> HIDE DEF d
    <3>1. c.status = "endGeometry"
      BY <1>2, <2>6 DEF DrawAllowed
    <3>2. /\ But(c, d, {"fetch", "status", "geometryStarted", "drawDelay", "out"})
          /\ d.fetch = c.pipelined /\ d.geometryStarted /\ d.drawDelay = ConsecutiveDrawDelay
          /\ d.status = c.status
      BY <2>1, <2>4 DEF But, Fields
    <3>3. Draws(c, d)
      BY <1>2, <2>4, <2>6, <3>1, <3>2 DEF Draws
    <3> QED BY <2>a, <2>4, <2>6, <3>3 DEF Processes
  <2> QED BY <2>5, <2>6
<1> QED BY <1>1, <1>2

LEMMA ExclusiveIs ==
  ASSUME NEW c \in CPState, Silent(c), c.last.kind \in ExclusiveKinds
  PROVE  Exclusive(c) \in CPState /\ Processes(c, Exclusive(c))
<1>1. CASE ~WhenReady(c)
  BY <1>1, TakenIs DEF Exclusive, Processes, Holds, ExclusiveKinds
<1>2. CASE WhenReady(c)
  <2> DEFINE t == Taken(c)
             a == [t EXCEPT !.status = "exclusive", !.workEnd = FALSE]
             d == Send(a, Workers(c.last.kind), "work")
  <2>1. t \in CPState /\ But(c, t, {"fetch"}) /\ t.fetch
    BY TakenIs
  <2>2. Exclusive(c) = d
    BY <1>2 DEF Exclusive
  <2> HIDE DEF t
  <2>3. a \in CPState /\ But(t, a, {"status", "workEnd"}) /\ a.status = "exclusive" /\ ~a.workEnd
    BY <2>1 DEF CPState, Statuses, But, Fields
  <2> HIDE DEF a
  <2>4. Silent(a)
    BY <2>1, <2>3 DEF Silent, But, Fields
  <2>5. "work" \in Commands
    BY DEF Commands
  <2>6. d \in CPState /\ But(a, d, {"out"}) /\ Sends(d, Workers(c.last.kind), "work")
    BY <2>3, <2>4, <2>5, SendFirst
  <2> HIDE DEF d
  <2>7. /\ But(c, d, {"fetch", "status", "workEnd", "out"}) /\ d.fetch
        /\ d.status = "exclusive" /\ ~d.workEnd
    BY <2>1, <2>3, <2>6 DEF But, Fields
  <2>8. Begins(c, d)
    BY <1>2, <2>6, <2>7 DEF Begins, WhenReady
  <2> QED BY <2>2, <2>6, <2>8 DEF Processes
<1> QED BY <1>1, <1>2

LEMMA ResetIs ==
  ASSUME NEW c \in CPState, Silent(c), c.last.kind = "reset"
  PROVE  Reset(c) \in CPState /\ Processes(c, Reset(c))
<1> DEFINE t == Taken(c)
           a == Send(t, Units \ {"dac"}, "reset")
           d == Enter(a, "reset")
<1>1. t \in CPState /\ But(c, t, {"fetch"}) /\ t.fetch
  BY TakenIs
<1>2. Reset(c) = d /\ "reset" \in Commands /\ "reset" \in Statuses
  BY DEF Reset, Commands, Statuses
<1> HIDE DEF t
<1>3. Silent(t)
  BY <1>1 DEF Silent, But, Fields
<1>4. a \in CPState /\ But(t, a, {"out"}) /\ Sends(a, Units \ {"dac"}, "reset")
  BY <1>1, <1>2, <1>3, SendFirst
<1> HIDE DEF a
<1>5. d \in CPState /\ But(a, d, {"status"}) /\ d.status = "reset"
  BY <1>2, <1>4, EnterIs
<1> HIDE DEF d
<1>6. But(c, d, {"fetch", "status", "out"}) /\ d.fetch /\ d.out = a.out
  BY <1>1, <1>4, <1>5 DEF But, Fields
<1>7. Restarts(c, d)
  BY <1>4, <1>5, <1>6 DEF Restarts, Sends
<1> QED BY <1>2, <1>5, <1>7 DEF Processes

LEMMA ProcessIs ==
  ASSUME NEW c \in CPState, Silent(c), \A p \in Phases : Len(c.updates[p]) <= MaxUpdates
  PROVE  Process(c) \in CPState /\ Processes(c, Process(c))
<1> DEFINE k == c.last.kind
<1>1. k \in AllKinds \cup {"none"}
  BY DEF CPState, Transaction
<1>2. CASE k \in MemoryKinds
  <2>1. Process(c) = Memory(c)
    BY <1>2 DEF Process, MemoryKinds, Registers, GeomRegisters, FragRegisters, LoadKinds, ExclusiveKinds
  <2> QED BY <1>2, <2>1, MemoryIs
<1>3. CASE k \in Registers
  <2>1. Process(c) = RegisterWrite(c)
    BY <1>3 DEF Process, MemoryKinds, Registers, GeomRegisters, FragRegisters, LoadKinds, ExclusiveKinds
  <2> QED BY <1>3, <2>1, RegisterWriteIs
<1>4. CASE k \in LoadKinds
  <2>1. Process(c) = IF k = "loadVertex" THEN LoadVertex(c)
                     ELSE IF k = "loadFragment" THEN LoadFragment(c) ELSE LoadShader(c)
    BY <1>4 DEF Process, MemoryKinds, Registers, GeomRegisters, FragRegisters, LoadKinds, ExclusiveKinds
  <2>2. k \in {"loadVertex", "loadFragment", "loadShader"}
    BY <1>4 DEF LoadKinds
  <2> QED BY <2>1, <2>2, LoadsAre
<1>5. CASE k = "draw"
  <2>1. Process(c) = Draw(c)
    BY <1>5 DEF Process, MemoryKinds, Registers, GeomRegisters, FragRegisters, LoadKinds, ExclusiveKinds
  <2> QED BY <1>5, <2>1, DrawIs
<1>6. CASE k \in ExclusiveKinds
  <2>1. Process(c) = Exclusive(c)
    BY <1>6 DEF Process, MemoryKinds, Registers, GeomRegisters, FragRegisters, LoadKinds, ExclusiveKinds
  <2> QED BY <1>6, <2>1, ExclusiveIs
<1>7. CASE k = "reset"
  <2>1. Process(c) = Reset(c)
    BY <1>7 DEF Process, MemoryKinds, Registers, GeomRegisters, FragRegisters, LoadKinds, ExclusiveKinds
  <2> QED BY <1>7, <2>1, ResetIs
<1>8. CASE k = "event"
  <2>1. Process(c) = IF WhenReady(c) THEN Taken(c) ELSE Hold(c)
    BY <1>8 DEF Process, MemoryKinds, Registers, GeomRegisters, FragRegisters, LoadKinds, ExclusiveKinds, Event
  <2>2. Skips(c, Taken(c)) /\ Holds(c, Hold(c))
    BY <1>8, TakenIs DEF Skips, Holds, But, Fields
  <2> QED BY <2>1, <2>2, TakenIs DEF Processes
<1>9. CASE k = "initEnd"
  <2>1. Process(c) = IF WhenReady(c) THEN c ELSE Hold(c)
    BY <1>9 DEF Process, MemoryKinds, Registers, GeomRegisters, FragRegisters, LoadKinds, ExclusiveKinds, InitEnd
  <2>2. Skips(c, c) /\ Holds(c, Hold(c))
    BY <1>9, TakenIs DEF Skips, Holds, But, Fields
  <2> QED BY <2>1, <2>2, TakenIs DEF Processes
<1>10. CASE k = "none"
  <2>1. Process(c) = c
    BY <1>10 DEF Process, MemoryKinds, Registers, GeomRegisters, FragRegisters, LoadKinds, ExclusiveKinds
  <2>2. Skips(c, c)
    BY <1>10 DEF Skips, But, Fields
  <2> QED BY <2>1, <2>2 DEF Processes
<1> QED BY <1>1, <1>2, <1>3, <1>4, <1>5, <1>6, <1>7, <1>8, <1>9, <1>10
        DEF AllKinds, MemoryKinds, Registers, LoadKinds, ExclusiveKinds

-----------------------------------------------------------------------------
(* What else a cycle may do.                                               *)

Fetched(c, d, t) ==
  /\ But(c, d, {"last", "traceEnd"})
  /\ IF c.fetch /\ t # None THEN d.last = t ELSE d.last = c.last
Drained(c, d, p) ==
  /\ But(c, d, {"updates", "hw", "out"}) /\ Drains(c) = p /\ p \in Phases /\ c.updates[p] # <<>>
  /\ d.updates = [c.updates EXCEPT ![p] = Tail(@)]
  /\ d.hw = [c.hw EXCEPT ![p] = Head(c.updates[p]).value]
  /\ Sends(d, Targets(Head(c.updates[p]).kind), "reg")

\* A cycle takes a transaction and processes it, or sends an update.
Turns(c, d, t) ==
  \/ t = None /\ \E p \in Phases : Drained(c, d, p)
  \/ Fetched(c, d, t) /\ (t # None => ~c.pipelined /\ c.status # "ready")
  \/ /\ c.status = "ready" \/ c.pipelined
     /\ Drains(c) = "none" /\ (c.fetch => t # None)
     /\ \E f \in CPState : Fetched(c, f, t) /\ Silent(f) /\ Processes(f, d)

EndsGeometry(c, d) ==
  /\ But(c, d, {"status", "geometryStarted", "out"})
  /\ c.status = "drawing" /\ unit["clipper"].state = "end"
  /\ d.status = "endGeometry" /\ ~d.geometryStarted
  /\ \A u \in Units : d.out[u] = IF u \in Geometry THEN Append(c.out[u], "end") ELSE c.out[u]
EndsFragment(c, d) ==
  /\ But(c, d, {"status", "out"})
  /\ c.status = "endGeometry" /\ \A u \in ColorWrite : unit[u].state = "end"
  /\ d.status = "endFragment"
  /\ \A u \in Units : d.out[u] = IF u \in Fragment THEN Append(c.out[u], "end") ELSE c.out[u]

\* The Command Processor in a new cycle, and what the driver may give it.
Silence(c) == c.out = [u \in Units |-> <<>>]
Limits ==
  /\ cp \in CPState /\ Silence(cp)
  /\ fetched \in 0 .. MaxTransactions /\ cp.pipelined \in DOMAIN Kinds

LEMMA NowIs ==
  ASSUME Limits
  PROVE  /\ Now \in CPState /\ But(cp, Now, {"drawDelay"}) /\ Silent(Now)
         /\ Now.drawDelay = IF cp.drawDelay > 0 THEN cp.drawDelay - 1 ELSE 0
<1> DEFINE n == IF cp.drawDelay > 0 THEN cp.drawDelay - 1 ELSE 0
<1>1. cp \in CPState /\ cp.out = [u \in Units |-> <<>>]
  BY DEF Limits, Silence
<1>2. n \in 0 .. ConsecutiveDrawDelay
  <2>1. cp.drawDelay \in 0 .. ConsecutiveDrawDelay
    BY <1>1 DEF CPState
  <2> QED BY <2>1, BoundAssumption
<1>3. Now = [cp EXCEPT !.drawDelay = n]
  BY <1>1 DEF Now, CPState
<1> HIDE DEF n
<1>4. Now \in CPState /\ But(cp, Now, {"drawDelay"}) /\ Now.drawDelay = n
  BY <1>1, <1>2, <1>3 DEF CPState, But, Fields
<1>5. Silent(Now)
  BY <1>1, <1>4 DEF Silent, But, Fields
<1> QED BY <1>4, <1>5 DEF n

LEMMA TransactionsAre ==
  ASSUME Limits, NEW t \in Transactions
  PROVE  /\ t \in Transaction
         /\ t # None => /\ t.kind \in AllKinds /\ t.kind \in Kinds[cp.pipelined]
                        /\ fetched < MaxTransactions
                        /\ t.kind = "reset" => fetched = 0
<1>1. MaxTransactions \in Nat /\ fetched \in 0 .. MaxTransactions
  BY BoundAssumption DEF Limits
<1>2. None \in Transaction
  BY <1>1 DEF None, Transaction
<1>3. CASE t = None
  BY <1>2, <1>3
<1>4. CASE t # None
  <2>1. /\ fetched # MaxTransactions
        /\ \E k \in Kinds[cp.pipelined] : /\ k = "reset" => fetched = 0
                                          /\ t = [kind |-> k, value |-> fetched + 1]
    BY <1>4 DEF Transactions
  <2>2. PICK k \in Kinds[cp.pipelined] : (k = "reset" => fetched = 0)
                                         /\ t = [kind |-> k, value |-> fetched + 1]
    BY <2>1
  <2>3. fetched + 1 \in 0 .. MaxTransactions /\ fetched < MaxTransactions
    BY <1>1, <2>1
  <2>4. k \in AllKinds
    <3>1. Kinds[cp.pipelined] \subseteq AllKinds
      BY BoundAssumption DEF Limits
    <3> QED BY <3>1
  <2> QED BY <2>2, <2>3, <2>4 DEF Transaction
<1> QED BY <1>3, <1>4

LEMMA FetchIs ==
  ASSUME NEW c \in CPState, NEW t \in Transaction
  PROVE  /\ Fetch(c, t) \in CPState /\ Fetched(c, Fetch(c, t), t)
         /\ t # None => Fetch(c, t).traceEnd = c.traceEnd
         /\ c.fetch /\ t = None => Fetch(c, t).traceEnd
<1>1. CASE ~c.fetch
  BY <1>1 DEF Fetch, Fetched, But, Fields
<1>2. CASE c.fetch /\ t = None
  <2> DEFINE d == [c EXCEPT !.traceEnd = TRUE]
  <2>1. d \in CPState /\ But(c, d, {"traceEnd"}) /\ d.traceEnd
    BY DEF CPState, But, Fields
  <2>2. Fetch(c, t) = d
    BY <1>2 DEF Fetch
  <2> HIDE DEF d
  <2> QED BY <1>2, <2>1, <2>2 DEF Fetched, But, Fields
<1>3. CASE c.fetch /\ t # None
  <2> DEFINE d == [c EXCEPT !.last = t]
  <2>1. d \in CPState /\ But(c, d, {"last"}) /\ d.last = t
    BY DEF CPState, But, Fields
  <2>2. Fetch(c, t) = d
    BY <1>3 DEF Fetch
  <2> HIDE DEF d
  <2> QED BY <1>3, <2>1, <2>2 DEF Fetched, But, Fields
<1> QED BY <1>1, <1>2, <1>3

\* The updates of c are those of the Command Processor.
Updated(c) ==
  \A p \in Phases : /\ Len(c.updates[p]) <= MaxUpdates
                    /\ \A i \in DOMAIN c.updates[p] :
                         c.updates[p][i].kind \in Registers /\ Phase(c.updates[p][i].kind) = p

LEMMA DrainIs ==
  ASSUME NEW c \in CPState, Silent(c), Updated(c), NEW p \in Phases, Drains(c) = p
  PROVE  Drain(c, p) \in CPState /\ Drained(c, Drain(c, p), p)
<1> DEFINE s == c.updates[p]
           h == Head(s)
           a == Apply(c, h)
           us == [c.updates EXCEPT ![p] = Tail(@)]
           d == [a EXCEPT !.updates = us]
<1>1. s # <<>>
  BY DEF Drains, Phases
<1>2. s \in Seq(Transaction) /\ c.updates \in [Phases -> Seq(Transaction)]
  BY DEF CPState
<1>3. h \in Transaction /\ Tail(s) \in Seq(Transaction) /\ 1 \in DOMAIN s /\ h = s[1]
  BY <1>1, <1>2
<1>4. h.kind \in Registers /\ Phase(h.kind) = p
  BY <1>3 DEF Updated
<1>5. us \in [Phases -> Seq(Transaction)]
  BY <1>2, <1>3
<1> HIDE DEF s, h
<1>6. /\ a \in CPState /\ But(c, a, {"hw", "out"})
      /\ a.hw = [c.hw EXCEPT ![p] = h.value] /\ Sends(a, Targets(h.kind), "reg")
  BY <1>3, <1>4, ApplyIs
<1>7. Drain(c, p) = [a EXCEPT !.updates[p] = Tail(@)]
  BY DEF Drain, h, s
<1> HIDE DEF a
<1>8. a.updates = c.updates
  BY <1>6 DEF But, Fields
<1>9. Drain(c, p) = d
  BY <1>6, <1>7, <1>8 DEF CPState
<1> HIDE DEF us
<1>10. d \in CPState /\ But(a, d, {"updates"}) /\ d.updates = us
  BY <1>5, <1>6 DEF CPState, But, Fields
<1> HIDE DEF d
<1>11. /\ But(c, d, {"updates", "hw", "out"}) /\ d.hw = a.hw /\ d.out = a.out
  BY <1>6, <1>10 DEF But, Fields
<1>12. Sends(d, Targets(h.kind), "reg")
  BY <1>6, <1>11 DEF Sends
<1>13. Drained(c, d, p)
  BY <1>1, <1>6, <1>10, <1>11, <1>12 DEF Drained, us, h, s
<1> QED BY <1>9, <1>10, <1>13

LEMMA FetchAndProcessIs ==
  ASSUME NEW c \in CPState, Silent(c), Updated(c), NEW t \in Transaction,
         t # None => ~c.traceEnd, Drains(c) = "none"
  PROVE  FetchAndProcess(c, t) \in CPState /\ Turns(c, FetchAndProcess(c, t), t)
<1> DEFINE f == Fetch(c, t)
<1>1. /\ f \in CPState /\ Fetched(c, f, t) /\ (t # None => f.traceEnd = c.traceEnd)
      /\ (c.fetch /\ t = None => f.traceEnd)
  BY FetchIs
<1>2. FetchAndProcess(c, t) = IF f.traceEnd \/ ~(c.status = "ready" \/ c.pipelined) THEN f ELSE Process(f)
  BY DEF FetchAndProcess
<1> HIDE DEF f
<1>3. CASE f.traceEnd \/ ~(c.status = "ready" \/ c.pipelined)
  BY <1>1, <1>2, <1>3 DEF Turns
<1>4. CASE ~(f.traceEnd \/ ~(c.status = "ready" \/ c.pipelined))
  <2>1. /\ Silent(f) /\ \A p \in Phases : Len(f.updates[p]) <= MaxUpdates
    BY <1>1 DEF Fetched, But, Fields, Silent, Updated
  <2>2. Process(f) \in CPState /\ Processes(f, Process(f))
    BY <1>1, <2>1, ProcessIs
  <2>3. c.fetch => t # None
    BY <1>1, <1>4
  <2> QED BY <1>1, <1>2, <1>4, <2>1, <2>2, <2>3 DEF Turns
<1> QED BY <1>3, <1>4

LEMMA TransactIs ==
  ASSUME NEW c \in CPState, Silent(c), Updated(c), NEW t \in Transaction,
         t # None => ~c.traceEnd /\ Drains(c) = "none"
  PROVE  Transact(c, t) \in CPState /\ Turns(c, Transact(c, t), t)
<1>1. CASE Drains(c) = "none"
  BY <1>1, FetchAndProcessIs DEF Transact
<1>2. CASE Drains(c) # "none"
  <2>1. Drains(c) \in Phases
    BY <1>2 DEF Drains, Phases
  <2> QED BY <1>2, <2>1, DrainIs DEF Transact, Turns
<1> QED BY <1>1, <1>2

LEMMA EndGeometryIs ==
  ASSUME NEW c \in CPState
  PROVE  /\ EndGeometry(c) \in CPState
         /\ EndGeometry(c) = c \/ EndsGeometry(c, EndGeometry(c))
         /\ c.status = "drawing" /\ unit["clipper"].state = "end" => EndsGeometry(c, EndGeometry(c))
<1> DEFINE a == [c EXCEPT !.geometryStarted = FALSE]
           s == Send(a, Geometry, "end")
           d == Enter(s, "endGeometry")
<1>1. a \in CPState /\ But(c, a, {"geometryStarted"}) /\ ~a.geometryStarted
  BY DEF CPState, But, Fields
<1>2. "end" \in Commands /\ "endGeometry" \in Statuses
  BY DEF Commands, Statuses
<1>a. EndGeometry(c) = IF c.status = "drawing" /\ unit["clipper"].state = "end" THEN d ELSE c
  BY DEF EndGeometry, All
<1> HIDE DEF a
<1>3. /\ s \in CPState /\ But(a, s, {"out"})
      /\ \A u \in Units : s.out[u] = IF u \in Geometry THEN Append(a.out[u], "end") ELSE a.out[u]
  BY <1>1, <1>2, SendIs
<1> HIDE DEF s
<1>4. d \in CPState /\ But(s, d, {"status"}) /\ d.status = "endGeometry"
  BY <1>2, <1>3, EnterIs
<1> HIDE DEF d
<1>5. /\ But(c, d, {"status", "geometryStarted", "out"}) /\ ~d.geometryStarted
      /\ d.out = s.out /\ a.out = c.out
  BY <1>1, <1>3, <1>4 DEF But, Fields
<1> QED BY <1>a, <1>3, <1>4, <1>5 DEF EndsGeometry

LEMMA EndFragmentIs ==
  ASSUME NEW c \in CPState
  PROVE  /\ EndFragment(c) \in CPState
         /\ EndFragment(c) = c \/ EndsFragment(c, EndFragment(c))
<1> DEFINE s == Send(c, Fragment, "end")
           d == Enter(s, "endFragment")
<1>2. "end" \in Commands /\ "endFragment" \in Statuses
  BY DEF Commands, Statuses
<1>a. EndFragment(c) = IF c.status = "endGeometry" /\ \A u \in ColorWrite : unit[u].state = "end" THEN d ELSE c
  BY DEF EndFragment, All
<1>3. /\ s \in CPState /\ But(c, s, {"out"})
      /\ \A u \in Units : s.out[u] = IF u \in Fragment THEN Append(c.out[u], "end") ELSE c.out[u]
  BY <1>2, SendIs
<1> HIDE DEF s
<1>4. d \in CPState /\ But(s, d, {"status"}) /\ d.status = "endFragment"
  BY <1>2, <1>3, EnterIs
<1> HIDE DEF d
<1>5. But(c, d, {"status", "out"}) /\ d.out = s.out
  BY <1>3, <1>4 DEF But, Fields
<1> QED BY <1>a, <1>3, <1>4, <1>5 DEF EndsFragment

-----------------------------------------------------------------------------
(* After a batch, and between batches.                                     *)

GivesBack(c, d) ==
  /\ But(c, d, {"last", "fetch", "stored", "loading"}) /\ c.loading
  /\ d.last = c.backup.last /\ d.fetch = c.backup.fetch /\ ~d.stored /\ ~d.loading
PutsOff(c, f) ==
  /\ But(c, f, {"last", "loading", "backup"}) /\ c.stored /\ ~c.loading
  /\ f.last.kind = "loadFragment" /\ f.loading
  /\ f.backup = [last |-> c.last, fetch |-> c.fetch]
DrawsBatch(c, d) ==
  /\ But(c, d, {"status", "out"}) /\ c.geometryStarted
  /\ d.status = "drawing" /\ Sends(d, Fragment, "draw")
Settles(c, d) ==
  /\ But(c, d, {"status", "fetch"}) /\ ~c.geometryStarted
  /\ d.status = "ready" /\ d.fetch = IF c.pipelined THEN c.fetch ELSE TRUE
Finishes(c, d) ==
  \/ \E p \in Phases : Drained(c, d, p)
  \/ /\ Drains(c) = "none"
     /\ \/ GivesBack(c, d)
        \/ \E f \in CPState : PutsOff(c, f) /\ Silent(f) /\ Processes(f, d)
        \/ ~c.stored /\ (DrawsBatch(c, d) \/ Settles(c, d))

LEMMA StoredLoadIs ==
  ASSUME NEW c \in CPState, Silent(c), Updated(c), c.stored
  PROVE  /\ StoredLoad(c) \in CPState
         /\ \/ GivesBack(c, StoredLoad(c))
            \/ \E f \in CPState : PutsOff(c, f) /\ Silent(f) /\ Processes(f, StoredLoad(c))
<1>1. CASE c.loading
  <2> DEFINE d == [c EXCEPT !.last = c.backup.last, !.fetch = c.backup.fetch,
                            !.stored = FALSE, !.loading = FALSE]
  <2>1. d \in CPState
    BY DEF CPState
  <2>2. GivesBack(c, d)
    BY <1>1 DEF CPState, GivesBack, But, Fields
  <2>3. StoredLoad(c) = d
    BY <1>1 DEF StoredLoad
  <2> HIDE DEF d
  <2> QED BY <2>1, <2>2, <2>3
<1>2. CASE ~c.loading
  <2> DEFINE l == [kind |-> "loadFragment", value |-> 0]
             b == [last |-> c.last, fetch |-> c.fetch]
             f == [c EXCEPT !.backup = b, !.last = l, !.loading = TRUE]
  <2>1. l \in Transaction /\ l.kind = "loadFragment"
    BY BoundAssumption DEF Transaction, AllKinds, LoadKinds
  <2>2. b \in [last : Transaction, fetch : BOOLEAN]
    BY DEF CPState
  <2>3. StoredLoad(c) = Process(f)
    BY <1>2 DEF StoredLoad
  <2> HIDE DEF l, b
  <2>4. /\ f \in CPState /\ But(c, f, {"last", "loading", "backup"})
        /\ f.last = l /\ f.loading /\ f.backup = b
    BY <2>1, <2>2 DEF CPState, But, Fields
  <2> HIDE DEF f
  <2>5. PutsOff(c, f)
    BY <1>2, <2>1, <2>4 DEF PutsOff, b
  <2>6. Silent(f) /\ \A p \in Phases : Len(f.updates[p]) <= MaxUpdates
    BY <2>4 DEF Silent, Updated, But, Fields
  <2> QED BY <2>3, <2>4, <2>5, <2>6, ProcessIs
<1> QED BY <1>1, <1>2

LEMMA NextBatchIs ==
  ASSUME NEW c \in CPState, Silent(c)
  PROVE  NextBatch(c) \in CPState /\ (DrawsBatch(c, NextBatch(c)) \/ Settles(c, NextBatch(c)))
<1>1. "draw" \in Commands /\ "drawing" \in Statuses /\ "ready" \in Statuses
  BY DEF Commands, Statuses
<1>2. CASE c.geometryStarted
  <2> DEFINE s == Send(c, Fragment, "draw")
             d == Enter(s, "drawing")
  <2>1. s \in CPState /\ But(c, s, {"out"}) /\ Sends(s, Fragment, "draw")
    BY <1>1, SendFirst
  <2>2. NextBatch(c) = d
    BY <1>2 DEF NextBatch
  <2> HIDE DEF s
  <2>3. d \in CPState /\ But(s, d, {"status"}) /\ d.status = "drawing"
    BY <1>1, <2>1, EnterIs
  <2> HIDE DEF d
  <2>4. But(c, d, {"status", "out"}) /\ d.out = s.out
    BY <2>1, <2>3 DEF But, Fields
  <2>5. DrawsBatch(c, d)
    BY <1>2, <2>1, <2>3, <2>4 DEF DrawsBatch, Sends
  <2> QED BY <2>2, <2>3, <2>5
<1>3. CASE ~c.geometryStarted
  <2> DEFINE t == IF c.pipelined THEN c ELSE Taken(c)
             d == Enter(t, "ready")
  <2>1. /\ t \in CPState /\ But(c, t, {"fetch"}) /\ t.fetch = IF c.pipelined THEN c.fetch ELSE TRUE
    <3>1. c \in CPState /\ But(c, c, {"fetch"}) /\ c.fetch = c.fetch
      BY DEF But
    <3>2. Taken(c) \in CPState /\ But(c, Taken(c), {"fetch"}) /\ Taken(c).fetch = TRUE
      BY TakenIs DEF Taken, CPState
    <3> QED BY <3>1, <3>2
  <2>2. NextBatch(c) = d
    BY <1>3 DEF NextBatch
  <2> HIDE DEF t
  <2>3. d \in CPState /\ But(t, d, {"status"}) /\ d.status = "ready"
    BY <1>1, <2>1, EnterIs
  <2> HIDE DEF d
  <2>4. But(c, d, {"status", "fetch"}) /\ d.fetch = t.fetch
    BY <2>1, <2>3 DEF But, Fields
  <2>5. Settles(c, d)
    BY <1>3, <2>1, <2>3, <2>4 DEF Settles
  <2> QED BY <2>2, <2>3, <2>5
<1> QED BY <1>2, <1>3

LEMMA AfterBatchIs ==
  ASSUME NEW c \in CPState, Silent(c), Updated(c)
  PROVE  AfterBatch(c) \in CPState /\ Finishes(c, AfterBatch(c))
<1>1. CASE Drains(c) # "none"
  <2>1. Drains(c) \in Phases
    BY <1>1 DEF Drains, Phases
  <2> QED BY <1>1, <2>1, DrainIs DEF AfterBatch, Finishes
<1>2. CASE Drains(c) = "none" /\ c.stored
  BY <1>2, StoredLoadIs DEF AfterBatch, Finishes
<1>3. CASE Drains(c) = "none" /\ ~c.stored
  BY <1>3, NextBatchIs DEF AfterBatch, Finishes
<1> QED BY <1>1, <1>2, <1>3

-----------------------------------------------------------------------------
(* The other states.                                                       *)

Displays(c, d) ==
  LET w == Workers(c.last.kind)
      ended == (\A u \in w : unit[u].state = "end") /\ ~c.workEnd
  IN  /\ But(c, d, {"status", "workEnd", "out"})
      /\ d.workEnd <=> c.workEnd \/ ended
      /\ IF unit["dac"].state = "end"
         THEN d.status = "ready" /\ (~ended => Sends(d, {"dac"}, "end"))
         ELSE /\ d.status = c.status
              /\ IF ended THEN \A u \in Units : d.out[u] = IF u = "dac" THEN <<"work">>
                                                           ELSE IF u \in w THEN <<"end">> ELSE <<>>
                 ELSE Silent(d)
Flushes(c, d) ==
  /\ But(c, d, {"status", "flushDelay", "out"})
  /\ \/ c.flushDelay = 0 /\ d.flushDelay = 0 /\ Silent(d) /\ d.status = c.status
     \/ /\ c.flushDelay = 0 /\ \A u \in ZStencil : unit[u].state = "end"
        /\ Sends(d, ZStencil, "end") /\ d.flushDelay = FlushDelay - 1
        /\ d.status = IF FlushDelay = 1 THEN "ready" ELSE c.status
     \/ /\ c.flushDelay # 0 /\ Silent(d) /\ d.flushDelay = c.flushDelay - 1
        /\ d.status = IF c.flushDelay = 1 THEN "ready" ELSE c.status
Ends(c, d) ==
  /\ But(c, d, {"status", "out"}) /\ d.status = "ready"
  /\ \A u \in Workers(c.last.kind) : unit[u].state = "end"
  /\ Sends(d, Workers(c.last.kind), "end")
Exclusively(c, d) ==
  \/ Displayed(c.last.kind) /\ Displays(c, d)
  \/ ~Displayed(c.last.kind) /\ c.last.kind = "flushZ" /\ Flushes(c, d)
  \/ ~Displayed(c.last.kind) /\ c.last.kind # "flushZ" /\ (Ends(c, d) \/ d = c)

LEMMA DisplayCycleIs ==
  ASSUME NEW c \in CPState, Silent(c), c.last.kind \in ExclusiveKinds
  PROVE  DisplayCycle(c) \in CPState /\ Displays(c, DisplayCycle(c))
<1> DEFINE w == Workers(c.last.kind)
           ended == (\A u \in w : unit[u].state = "end") /\ ~c.workEnd
           a == [c EXCEPT !.workEnd = TRUE]
           b == Send(a, w, "end")
           e == Send(b, {"dac"}, "work")
           d == IF ended THEN e ELSE c
           s == Send(d, {"dac"}, "end")
<1>1. DisplayCycle(c) = IF unit["dac"].state = "end" THEN Enter(s, "ready") ELSE d
  BY DEF DisplayCycle, All
<1>2. "end" \in Commands /\ "work" \in Commands /\ "ready" \in Statuses
  BY DEF Commands, Statuses
<1>3. w \subseteq Fragment /\ "dac" \notin w /\ "dac" \in Units
  BY UnitsAre
<1>4. a \in CPState /\ But(c, a, {"workEnd"}) /\ a.workEnd
  BY DEF CPState, But, Fields
<1> HIDE DEF a, w
<1>5. Silent(a)
  BY <1>4 DEF Silent, But, Fields
<1>6. b \in CPState /\ But(a, b, {"out"}) /\ Sends(b, w, "end")
  BY <1>2, <1>4, <1>5, SendFirst
<1> HIDE DEF b
<1>7. /\ e \in CPState /\ But(b, e, {"out"})
      /\ \A u \in Units : e.out[u] = IF u \in {"dac"} THEN Append(b.out[u], "work") ELSE b.out[u]
  BY <1>2, <1>6, SendIs
<1>8. Append(<<>>, "work") = <<"work">>
  OBVIOUS
<1>9. \A u \in Units : e.out[u] = IF u = "dac" THEN <<"work">> ELSE IF u \in w THEN <<"end">> ELSE <<>>
  BY <1>3, <1>6, <1>7, <1>8 DEF Sends
<1>10. But(c, e, {"workEnd", "out"}) /\ e.workEnd
  BY <1>4, <1>6, <1>7 DEF But, Fields
<1> HIDE DEF e
<1>11. d \in CPState /\ But(c, d, {"workEnd", "out"}) /\ (d.workEnd <=> c.workEnd \/ ended)
  <2>1. But(c, c, {"workEnd", "out"})
    BY DEF But
  <2> QED BY <1>7, <1>10, <2>1
<1>12. ~ended => Silent(d)
  OBVIOUS
<1>13. ended => \A u \in Units : d.out[u] = IF u = "dac" THEN <<"work">>
                                            ELSE IF u \in w THEN <<"end">> ELSE <<>>
  BY <1>9
<1> HIDE DEF d, ended
<1>14. CASE unit["dac"].state # "end"
  <2>1. But(c, d, {"status", "workEnd", "out"}) /\ d.status = c.status
    BY <1>11 DEF But, Fields
  <2> QED BY <1>1, <1>11, <1>12, <1>13, <1>14, <2>1 DEF Displays, ended, w
<1>15. CASE unit["dac"].state = "end"
  <2> DEFINE g == Enter(s, "ready")
  <2>1. s \in CPState /\ But(d, s, {"out"})
    BY <1>2, <1>11, SendIs
  <2>2. ~ended => Sends(s, {"dac"}, "end")
    BY <1>2, <1>11, <1>12, SendFirst
  <2> HIDE DEF s
  <2>3. g \in CPState /\ But(s, g, {"status"}) /\ g.status = "ready"
    BY <1>2, <2>1, EnterIs
  <2> HIDE DEF g
  <2>4. But(c, g, {"status", "workEnd", "out"}) /\ g.workEnd = d.workEnd /\ g.out = s.out
    BY <1>11, <2>1, <2>3 DEF But, Fields
  <2>5. ~ended => Sends(g, {"dac"}, "end")
    BY <2>2, <2>4 DEF Sends
  <2>6. Displays(c, g)
    BY <1>11, <1>15, <2>3, <2>4, <2>5 DEF Displays, ended, w
  <2> QED BY <1>1, <1>15, <2>3, <2>6 DEF g
<1> QED BY <1>14, <1>15

LEMMA FlushZCycleIs ==
  ASSUME NEW c \in CPState, Silent(c)
  PROVE  FlushZCycle(c) \in CPState /\ Flushes(c, FlushZCycle(c))
<1> DEFINE ended == (\A u \in ZStencil : unit[u].state = "end") /\ c.flushDelay = 0
           a == [c EXCEPT !.flushDelay = FlushDelay]
           e == Send(a, ZStencil, "end")
           d == IF ended THEN e ELSE c
           r == IF d.flushDelay = 1 THEN "ready" ELSE d.status
           g == [d EXCEPT !.flushDelay = d.flushDelay - 1, !.status = r]
<1>0. FlushDelay \in Nat \ {0} /\ FlushDelay \in 0 .. FlushDelay
  BY BoundAssumption
<1>1. a \in CPState /\ But(c, a, {"flushDelay"}) /\ a.flushDelay = FlushDelay
  BY <1>0 DEF CPState, But, Fields
<1> HIDE DEF a
<1>2. Silent(a) /\ "end" \in Commands
  BY <1>1 DEF Silent, But, Fields, Commands
<1>3. e \in CPState /\ But(a, e, {"out"}) /\ Sends(e, ZStencil, "end")
  BY <1>1, <1>2, SendFirst
<1>4. FlushZCycle(c) = IF d.flushDelay = 0 THEN d
                       ELSE [d EXCEPT !.flushDelay = @ - 1,
                                      !.status = IF d.flushDelay = 1 THEN "ready" ELSE @]
  BY Zenon DEF FlushZCycle, All, a
<1> HIDE DEF e
<1>5. d \in CPState /\ But(c, d, {"flushDelay", "out"})
  BY <1>1, <1>3 DEF But, Fields
<1>6. d.flushDelay \in 0 .. FlushDelay
  BY <1>5 DEF CPState
<1>7. IF ended THEN d.flushDelay = FlushDelay /\ Sends(d, ZStencil, "end")
      ELSE d.flushDelay = c.flushDelay /\ Silent(d)
  BY <1>1, <1>3 DEF But, Fields
<1> HIDE DEF d
<1>8. CASE d.flushDelay = 0
  <2>1. ~ended /\ c.flushDelay = 0 /\ Silent(d)
    BY <1>0, <1>7, <1>8
  <2>2. But(c, d, {"status", "flushDelay", "out"}) /\ d.status = c.status
    BY <1>5 DEF But, Fields
  <2> QED BY <1>4, <1>5, <1>8, <2>1, <2>2 DEF Flushes
<1>9. CASE d.flushDelay # 0
  <2>1. d.flushDelay - 1 \in 0 .. FlushDelay /\ r \in Statuses
    BY <1>0, <1>5, <1>6, <1>9 DEF CPState, Statuses
  <2>2. FlushZCycle(c) = g
    BY <1>4, <1>5, <1>9 DEF CPState
  <2> HIDE DEF r
  <2>3. /\ g \in CPState /\ But(d, g, {"flushDelay", "status"})
        /\ g.flushDelay = d.flushDelay - 1 /\ g.status = r
    BY <1>5, <2>1 DEF CPState, But, Fields
  <2> HIDE DEF g
  <2>4. But(c, g, {"status", "flushDelay", "out"}) /\ d.status = c.status /\ g.out = d.out
    BY <1>5, <2>3 DEF But, Fields
  <2>5. CASE ended
    <3>1. Sends(g, ZStencil, "end")
      BY <1>7, <2>4, <2>5 DEF Sends
    <3> QED BY <1>7, <2>2, <2>3, <2>4, <2>5, <3>1 DEF Flushes, r
  <2>6. CASE ~ended
    <3>1. Silent(g)
      BY <1>7, <2>4, <2>6 DEF Silent
    <3> QED BY <1>7, <1>9, <2>2, <2>3, <2>4, <2>6, <3>1 DEF Flushes, r
  <2> QED BY <2>5, <2>6
<1> QED BY <1>8, <1>9

LEMMA ExclusiveCycleIs ==
  ASSUME NEW c \in CPState, Silent(c), c.last.kind \in ExclusiveKinds
  PROVE  ExclusiveCycle(c) \in CPState /\ Exclusively(c, ExclusiveCycle(c))
<1>1. CASE Displayed(c.last.kind)
  BY <1>1, DisplayCycleIs DEF ExclusiveCycle, Exclusively
<1>2. CASE ~Displayed(c.last.kind) /\ c.last.kind = "flushZ"
  BY <1>2, FlushZCycleIs DEF ExclusiveCycle, Exclusively
<1>3. CASE ~Displayed(c.last.kind) /\ c.last.kind # "flushZ"
  <2> DEFINE s == Send(c, Workers(c.last.kind), "end")
             d == Enter(s, "ready")
  <2>1. \/ ExclusiveCycle(c) = d /\ \A u \in Workers(c.last.kind) : unit[u].state = "end"
        \/ ExclusiveCycle(c) = c
    BY <1>3 DEF ExclusiveCycle, WorkCycle, All
  <2>2. "end" \in Commands /\ "ready" \in Statuses
    BY DEF Commands, Statuses
  <2>3. s \in CPState /\ But(c, s, {"out"}) /\ Sends(s, Workers(c.last.kind), "end")
    BY <2>2, SendFirst
  <2> HIDE DEF s
  <2>4. d \in CPState /\ But(s, d, {"status"}) /\ d.status = "ready"
    BY <2>2, <2>3, EnterIs
  <2> HIDE DEF d
  <2>5. But(c, d, {"status", "out"}) /\ d.out = s.out
    BY <2>3, <2>4 DEF But, Fields
  <2>6. (\A u \in Workers(c.last.kind) : unit[u].state = "end") => Ends(c, d)
    BY <2>3, <2>4, <2>5 DEF Ends, Sends
  <2> QED BY <1>3, <2>1, <2>4, <2>6 DEF Exclusively
<1> QED BY <1>1, <1>2, <1>3

LEMMA LoadedIs ==
  ASSUME NEW c \in CPState
  PROVE  /\ Loaded(c) \in CPState /\ But(c, Loaded(c), {"status", "hw"}) /\ Loaded(c).status = c.stack
         /\ \A p \in Phases : Loaded(c).hw[p] = c.hw[p]
         /\ Loaded(c).hw.vertex = IF c.last.kind = "loadVertex" THEN c.hw.geom ELSE c.hw.vertex
<1> DEFINE d == Enter(c, c.stack)
           v == [c.hw EXCEPT !.vertex = c.hw.geom]
           f == [c.hw EXCEPT !.fragment = c.hw.frag]
           h == IF c.last.kind = "loadVertex" THEN v ELSE IF c.last.kind = "loadFragment" THEN f ELSE c.hw
           g == [d EXCEPT !.hw = h]
<1>1. d \in CPState /\ But(c, d, {"status"}) /\ d.status = c.stack /\ d.hw = c.hw
  BY EnterIs DEF CPState, But, Fields
<1>2. h \in RegisterFile
  BY DEF CPState, RegisterFile
<1>3. (\A p \in Phases : h[p] = c.hw[p]) /\ h.vertex = IF c.last.kind = "loadVertex" THEN c.hw.geom ELSE c.hw.vertex
  BY DEF CPState, RegisterFile, Phases
<1>4. Loaded(c) = g
  BY <1>1 DEF Loaded, CPState
<1> HIDE DEF d, h
<1>5. g \in CPState /\ But(d, g, {"hw"}) /\ g.hw = h
  BY <1>1, <1>2 DEF CPState, But, Fields
<1> HIDE DEF g
<1>6. But(c, g, {"status", "hw"}) /\ g.status = c.stack
  BY <1>1, <1>5 DEF But, Fields
<1> QED BY <1>3, <1>4, <1>5, <1>6

Restarted(c, d) ==
  /\ But(c, d, {"status", "fetch", "geometryStarted", "drawDelay", "updates", "stored", "hw"})
  /\ d.status = "ready" /\ d.fetch /\ ~d.geometryStarted /\ d.drawDelay = 0
  /\ d.updates = [p \in Phases |-> <<>>] /\ ~d.stored /\ d.hw = NoRegisters

LEMMA RestartIs ==
  ASSUME NEW c \in CPState
  PROVE  Restart(c) \in CPState /\ Restarted(c, Restart(c))
<1> DEFINE us == [p \in Phases |-> <<>>]
           d == [c EXCEPT !.status = "ready", !.fetch = TRUE, !.geometryStarted = FALSE,
                          !.drawDelay = 0, !.updates = us, !.stored = FALSE, !.hw = NoRegisters]
<1>1. us \in [Phases -> Seq(Transaction)]
  OBVIOUS
<1>2. NoRegisters \in RegisterFile /\ "ready" \in Statuses /\ 0 \in 0 .. ConsecutiveDrawDelay
  BY BoundAssumption DEF NoRegisters, RegisterFile, Statuses
<1>3. Restart(c) = d
  BY DEF Restart
<1> HIDE DEF us
<1>4. /\ d \in CPState
      /\ But(c, d, {"status", "fetch", "geometryStarted", "drawDelay", "updates", "stored", "hw"})
      /\ d.status = "ready" /\ d.fetch /\ ~d.geometryStarted /\ d.drawDelay = 0
      /\ d.updates = us /\ ~d.stored /\ d.hw = NoRegisters
  BY <1>2, <1>1 DEF CPState, But, Fields
<1> HIDE DEF d
<1> QED BY <1>3, <1>4 DEF Restarted, us

-----------------------------------------------------------------------------
(***************************************************************************)
(* The flow of the batches.  s and n are the states and the batches of the *)
(* units once they have obeyed what they were sent.  While a geometry      *)
(* phase is ahead of the fragment phase before it, and only then, the      *)
(* geometry units have one batch more; each half of the pipeline is busy   *)
(* in its phase and ready outside of it.                                   *)
(***************************************************************************)

\* The state a unit in state s is in once it has obeyed q.
Will(q, s, u) ==
  IF q = <<>> THEN s
  ELSE CASE Head(q) = "draw" -> IF u = "dac" THEN "ready" ELSE "drawing"
         [] Head(q) = "work" -> "working"
         [] Head(q) = "reg" -> s
         [] OTHER -> "ready"
Plus(q, n) == IF q # <<>> /\ Head(q) = "draw" THEN n + 1 ELSE n

After(d, s) == [u \in Units |-> Will(d.out[u], s[u], u)]
Counted(d, n) == [u \in Units |-> Plus(d.out[u], n[u])]

Busy == {"drawing", "end"}
\* u executes the command between batches.
Works(c, u) ==
  IF Displayed(c.last.kind) /\ c.workEnd THEN u = "dac"
  ELSE u \in Workers(c.last.kind) /\ c.flushDelay = 0

InStep(c, n) ==
  /\ \A u \in Geometry \cup {"dac"} : n[u] = n["streamer"]
  /\ \A u \in Fragment : n[u] = n["rasterizer"]
  /\ n["streamer"] = n["rasterizer"] + IF c.geometryStarted /\ Home(c) # "drawing" THEN 1 ELSE 0
  /\ Home(c) = "drawing" => c.geometryStarted
  /\ Home(c) \in {"reset", "ready", "exclusive"} => ~c.geometryStarted
InPhase(c, s) ==
  /\ \A u \in Geometry : s[u] \in IF c.geometryStarted THEN Busy ELSE {"ready"}
  /\ \A u \in Fragment : s[u] \in IF Home(c) \in {"drawing", "endGeometry"} THEN Busy ELSE {"ready"}
  /\ s["dac"] = "ready" /\ c.flushDelay = 0
AtWork(c, s) ==
  /\ c.last.kind \in ExclusiveKinds
  /\ \A u \in Units : s[u] \in IF Works(c, u) THEN {"working", "end"} ELSE {"ready"}
  /\ c.flushDelay # 0 => c.last.kind = "flushZ"
FlowOf(c, s, n) ==
  /\ InStep(c, n)
  /\ Home(c) # "exclusive" => InPhase(c, s)
  /\ Home(c) = "exclusive" => AtWork(c, s)

LEMMA SilentAfter ==
  ASSUME NEW d \in CPState, Silent(d), NEW s, NEW n
  PROVE  \A u \in Units : After(d, s)[u] = s[u] /\ Counted(d, n)[u] = n[u]
BY DEF Silent, After, Counted, Will, Plus

LEMMA Wills ==
  ASSUME NEW m, NEW u
  PROVE  /\ Will(<<>>, m, u) = m /\ Plus(<<>>, m) = m
         /\ Will(<<"reg">>, m, u) = m /\ Plus(<<"reg">>, m) = m
         /\ Will(<<"draw">>, m, u) = (IF u = "dac" THEN "ready" ELSE "drawing")
         /\ Plus(<<"draw">>, m) = m + 1
         /\ Will(<<"work">>, m, u) = "working" /\ Plus(<<"work">>, m) = m
         /\ Will(<<"end">>, m, u) = "ready" /\ Plus(<<"end">>, m) = m
         /\ Will(<<"reset">>, m, u) = "ready" /\ Plus(<<"reset">>, m) = m
<1>1. \A k : <<k>> # <<>> /\ Head(<<k>>) = k
  OBVIOUS
<1> QED BY <1>1 DEF Will, Plus

LEMMA SendsReg ==
  ASSUME NEW d, NEW us, Sends(d, us, "reg"), NEW s, NEW n, NEW u \in Units
  PROVE  After(d, s)[u] = s[u] /\ Counted(d, n)[u] = n[u]
BY Wills DEF Sends, After, Counted

LEMMA SendsDraw ==
  ASSUME NEW d, NEW us, Sends(d, us, "draw"), NEW s, NEW n, NEW u \in Units
  PROVE  /\ u \in us => /\ After(d, s)[u] = IF u = "dac" THEN "ready" ELSE "drawing"
                        /\ Counted(d, n)[u] = n[u] + 1
         /\ u \notin us => After(d, s)[u] = s[u] /\ Counted(d, n)[u] = n[u]
BY Wills DEF Sends, After, Counted

LEMMA SendsWork ==
  ASSUME NEW d, NEW us, Sends(d, us, "work"), NEW s, NEW n, NEW u \in Units
  PROVE  After(d, s)[u] = (IF u \in us THEN "working" ELSE s[u]) /\ Counted(d, n)[u] = n[u]
BY Wills DEF Sends, After, Counted

LEMMA SendsEnd ==
  ASSUME NEW d, NEW us, Sends(d, us, "end"), NEW s, NEW n, NEW u \in Units
  PROVE  After(d, s)[u] = (IF u \in us THEN "ready" ELSE s[u]) /\ Counted(d, n)[u] = n[u]
BY Wills DEF Sends, After, Counted

LEMMA SendsReset ==
  ASSUME NEW d, NEW us, Sends(d, us, "reset"), NEW s, NEW n, NEW u \in Units
  PROVE  After(d, s)[u] = (IF u \in us THEN "ready" ELSE s[u]) /\ Counted(d, n)[u] = n[u]
BY Wills DEF Sends, After, Counted

LEMMA FlowSame ==
  ASSUME NEW c \in CPState, NEW d \in CPState, NEW s, NEW n, NEW r, NEW m, FlowOf(c, s, n),
         Home(d) = Home(c), d.geometryStarted = c.geometryStarted, d.flushDelay = c.flushDelay,
         Home(c) = "exclusive" => d.last = c.last /\ d.workEnd = c.workEnd,
         \A u \in Units : r[u] = s[u] /\ m[u] = n[u]
  PROVE  FlowOf(d, r, m)
<1>1. InStep(c, n) => InStep(d, m)
  BY UnitsAre DEF InStep
<1>2. InPhase(c, s) => InPhase(d, r)
  BY UnitsAre DEF InPhase
<1>3. Home(c) = "exclusive" /\ AtWork(c, s) => AtWork(d, r)
  BY DEF AtWork, Works
<1> QED BY <1>1, <1>2, <1>3 DEF FlowOf

\* Nothing is sent, or registers are.
LEMMA QuietFlow ==
  ASSUME NEW c \in CPState, NEW d \in CPState, NEW s, NEW n, FlowOf(c, s, n),
         Silent(d) \/ \E us : Sends(d, us, "reg"),
         Home(d) = Home(c), d.geometryStarted = c.geometryStarted, d.flushDelay = c.flushDelay,
         Home(c) = "exclusive" => d.last = c.last /\ d.workEnd = c.workEnd
  PROVE  FlowOf(d, After(d, s), Counted(d, n))
<1>2. \A u \in Units : After(d, s)[u] = s[u] /\ Counted(d, n)[u] = n[u]
  <2>1. CASE Silent(d)
    BY <2>1, SilentAfter
  <2>2. CASE \E us : Sends(d, us, "reg")
    <3>1. PICK us : Sends(d, us, "reg")
      BY <2>2
    <3> QED BY <3>1, SendsReg
  <2> QED BY <2>1, <2>2
<1> QED BY <1>2, FlowSame

LEMMA ProcessFlow ==
  ASSUME NEW c \in CPState, NEW d \in CPState, Silent(c), Processes(c, d), NEW s, NEW n, FlowOf(c, s, n),
         \A u \in Units : n[u] \in Nat,
         c.status \notin Memories \cup {"exclusive"},
         c.last.kind = "reset" => c.status \in {"reset", "ready"},
         c.status = "endGeometry" /\ DrawAllowed(c) => ~c.geometryStarted
  PROVE  FlowOf(d, After(d, s), Counted(d, n))
<1>0. Home(c) = c.status
  BY DEF Home
<1>1. CASE Holds(c, d) \/ Skips(c, d) \/ Keeps(c, d)
  <2>1. But(c, d, {"fetch", "stored", "updates"})
    BY <1>1 DEF Holds, Skips, Keeps, But, Fields
  <2>2. /\ Silent(d) /\ Home(d) = Home(c) /\ d.geometryStarted = c.geometryStarted
        /\ d.flushDelay = c.flushDelay /\ d.last = c.last /\ d.workEnd = c.workEnd
    BY <2>1 DEF But, Fields, Silent, Home
  <2> QED BY <2>2, QuietFlow
<1>2. CASE Transfers(c, d)
  <2>1. But(c, d, {"fetch", "status", "stack"}) /\ d.stack = c.status /\ d.status \in Memories
    BY <1>2 DEF Transfers
  <2>2. /\ Silent(d) /\ Home(d) = Home(c) /\ d.geometryStarted = c.geometryStarted
        /\ d.flushDelay = c.flushDelay /\ d.last = c.last /\ d.workEnd = c.workEnd
    BY <1>0, <2>1 DEF But, Fields, Silent, Home
  <2> QED BY <2>2, QuietFlow
<1>3. CASE Writes(c, d)
  <2>1. But(c, d, {"fetch", "hw", "out"}) /\ Sends(d, Targets(c.last.kind), "reg")
    BY <1>3 DEF Writes
  <2>2. /\ Home(d) = Home(c) /\ d.geometryStarted = c.geometryStarted
        /\ d.flushDelay = c.flushDelay /\ d.last = c.last /\ d.workEnd = c.workEnd
    BY <2>1 DEF But, Fields, Home
  <2> QED BY <2>1, <2>2, QuietFlow
<1>4. CASE Draws(c, d)
  <2>1. /\ But(c, d, {"fetch", "status", "geometryStarted", "drawDelay", "out"}) /\ DrawAllowed(c)
        /\ d.geometryStarted
        /\ IF c.status = "ready" THEN d.status = "drawing" /\ Sends(d, Units, "draw")
           ELSE d.status = "endGeometry" /\ Sends(d, Geometry \cup {"dac"}, "draw")
    BY <1>4 DEF Draws
  <2>2. d.flushDelay = c.flushDelay /\ d.status \notin Memories
    BY <2>1 DEF But, Fields, Commands, Memories
  <2>3. c.status \in {"ready", "endGeometry"} /\ ~c.geometryStarted /\ Home(d) = d.status
    BY <1>0, <2>1, <2>2 DEF DrawAllowed, FlowOf, InStep, Home
  <2>4. \A u \in Units :
          /\ After(d, s)[u] = IF c.status = "ready" \/ u \in Geometry \cup {"dac"}
                              THEN IF u = "dac" THEN "ready" ELSE "drawing" ELSE s[u]
          /\ Counted(d, n)[u] = IF c.status = "ready" \/ u \in Geometry \cup {"dac"} THEN n[u] + 1 ELSE n[u]
    <3>1. CASE c.status = "ready"
      <4>1. Sends(d, Units, "draw")
        BY <2>1, <3>1
      <4>2. ASSUME NEW u \in Units
            PROVE  /\ After(d, s)[u] = IF u = "dac" THEN "ready" ELSE "drawing"
                   /\ Counted(d, n)[u] = n[u] + 1
        BY <4>1, SendsDraw
      <4> QED BY <3>1, <4>2
    <3>2. CASE c.status # "ready"
      <4>1. Sends(d, Geometry \cup {"dac"}, "draw")
        BY <2>1, <3>2
      <4> QED BY <2>2, <3>2, <4>1, SendsDraw
    <3> QED BY <3>1, <3>2
  <2>5. InPhase(c, s) /\ InStep(c, n)
    BY <1>0 DEF FlowOf
  <2>6. InPhase(d, After(d, s))
    BY <1>0, <2>1, <2>2, <2>3, <2>4, <2>5, UnitsAre DEF InPhase, Busy
  <2>7. InStep(d, Counted(d, n))
    <3>1. CASE c.status = "ready"
      BY <1>0, <2>1, <2>3, <2>4, <2>5, <3>1, UnitsAre DEF InStep
    <3>2. CASE c.status = "endGeometry"
      BY <1>0, <2>1, <2>3, <2>4, <2>5, <3>2, UnitsAre DEF InStep
    <3> QED BY <2>3, <3>1, <3>2
  <2> QED BY <2>1, <2>3, <2>6, <2>7 DEF FlowOf
<1>5. CASE Begins(c, d)
  <2>1. /\ But(c, d, {"fetch", "status", "workEnd", "out"}) /\ c.last.kind \in ExclusiveKinds
        /\ c.status = "ready" /\ d.status = "exclusive" /\ ~d.workEnd
        /\ Sends(d, Workers(c.last.kind), "work")
    BY <1>5 DEF Begins
  <2>2. /\ d.flushDelay = c.flushDelay /\ d.geometryStarted = c.geometryStarted /\ d.last = c.last
        /\ Home(d) = "exclusive"
    BY <2>1 DEF But, Fields, Commands, Home, Memories
  <2>3. \A u \in Units :
          /\ After(d, s)[u] = IF u \in Workers(c.last.kind) THEN "working" ELSE s[u]
          /\ Counted(d, n)[u] = n[u]
    BY <2>1, <2>2, SendsWork
  <2>4. InPhase(c, s) /\ InStep(c, n) /\ ~c.geometryStarted /\ c.flushDelay = 0
    BY <1>0, <2>1 DEF FlowOf, InStep, InPhase
  <2>5. \A u \in Units : s[u] = "ready"
    BY <1>0, <2>1, <2>4, UnitsAre DEF InPhase
  <2>6. AtWork(d, After(d, s))
    BY <2>1, <2>2, <2>3, <2>4, <2>5 DEF AtWork, Works
  <2>7. InStep(d, Counted(d, n))
    BY <1>0, <2>1, <2>2, <2>3, <2>4, UnitsAre DEF InStep
  <2> QED BY <2>2, <2>6, <2>7 DEF FlowOf
<1>6. CASE Restarts(c, d)
  <2>1. /\ But(c, d, {"fetch", "status", "out"}) /\ c.status \in {"reset", "ready"}
        /\ d.status = "reset" /\ Sends(d, Units \ {"dac"}, "reset")
    BY <1>6 DEF Restarts
  <2>2. /\ d.flushDelay = c.flushDelay /\ d.geometryStarted = c.geometryStarted
        /\ Home(d) = "reset"
    BY <2>1 DEF But, Fields, Commands, Home, Memories
  <2>3. \A u \in Units :
          /\ After(d, s)[u] = IF u # "dac" THEN "ready" ELSE s[u]
          /\ Counted(d, n)[u] = n[u]
    <3> DEFINE us == Units \ {"dac"}
    <3>1. Sends(d, us, "reset")
      BY <2>1
    <3>2. \A u \in Units : u \in us <=> u # "dac"
      OBVIOUS
    <3> HIDE DEF us
    <3> QED BY <3>1, <3>2, SendsReset
  <2>4. InPhase(c, s) /\ InStep(c, n) /\ ~c.geometryStarted
    BY <1>0, <2>1 DEF FlowOf, InStep
  <2>5. InPhase(d, After(d, s))
    BY <2>2, <2>3, <2>4, UnitsAre DEF InPhase
  <2>6. InStep(d, Counted(d, n))
    BY <1>0, <2>1, <2>2, <2>3, <2>4, UnitsAre DEF InStep
  <2> QED BY <2>2, <2>5, <2>6 DEF FlowOf
<1> QED BY <1>1, <1>2, <1>3, <1>4, <1>5, <1>6 DEF Processes

\* Transactions are taken and updates are sent.
LEMMA TakingFlow ==
  ASSUME NEW c \in CPState, NEW d \in CPState, Silent(c), NEW s, NEW n, FlowOf(c, s, n),
         Home(c) # "exclusive",
         \/ \E t : Fetched(c, d, t)
         \/ \E p \in Phases : Drained(c, d, p)
         \/ GivesBack(c, d) \/ PutsOff(c, d)
  PROVE  FlowOf(d, After(d, s), Counted(d, n))
<1>1. CASE (\E t : Fetched(c, d, t)) \/ GivesBack(c, d) \/ PutsOff(c, d)
  <2>1. But(c, d, {"last", "traceEnd", "fetch", "stored", "loading", "backup"})
    BY <1>1 DEF Fetched, GivesBack, PutsOff, But, Fields
  <2>2. /\ Silent(d) /\ Home(d) = Home(c) /\ d.geometryStarted = c.geometryStarted
        /\ d.flushDelay = c.flushDelay
    BY <2>1 DEF But, Fields, Silent, Home
  <2> QED BY <2>2, QuietFlow
<1>2. CASE \E p \in Phases : Drained(c, d, p)
  <2>1. PICK p \in Phases : Drained(c, d, p)
    BY <1>2
  <2>2. But(c, d, {"updates", "hw", "out"}) /\ \E us : Sends(d, us, "reg")
    BY <2>1 DEF Drained
  <2>3. /\ Home(d) = Home(c) /\ d.geometryStarted = c.geometryStarted /\ d.flushDelay = c.flushDelay
    BY <2>2 DEF But, Fields, Home
  <2> QED BY <2>2, <2>3, QuietFlow
<1> QED BY <1>1, <1>2

LEMMA EndsGeometryFlow ==
  ASSUME NEW c \in CPState, NEW d \in CPState, Silent(c), EndsGeometry(c, d), NEW s, NEW n, FlowOf(c, s, n)
  PROVE  FlowOf(d, After(d, s), Counted(d, n))
<1>1. Append(<<>>, "end") = <<"end">>
  OBVIOUS
<1>2. /\ But(c, d, {"status", "geometryStarted", "out"}) /\ c.status = "drawing"
      /\ d.status = "endGeometry" /\ ~d.geometryStarted /\ Sends(d, Geometry, "end")
  BY <1>1 DEF EndsGeometry, Silent, Sends
<1>3. d.flushDelay = c.flushDelay /\ Home(c) = "drawing" /\ Home(d) = "endGeometry"
  BY <1>2 DEF But, Fields, Home, Memories
<1>4. \A u \in Units : /\ After(d, s)[u] = IF u \in Geometry THEN "ready" ELSE s[u]
                       /\ Counted(d, n)[u] = n[u]
  BY <1>2, SendsEnd
<1>5. InPhase(c, s) /\ InStep(c, n)
  BY <1>3 DEF FlowOf
<1>6. InPhase(d, After(d, s))
  BY <1>2, <1>3, <1>4, <1>5, UnitsAre DEF InPhase
<1>7. InStep(d, Counted(d, n))
  BY <1>2, <1>3, <1>4, <1>5, UnitsAre DEF InStep
<1> QED BY <1>3, <1>6, <1>7 DEF FlowOf

LEMMA EndsFragmentFlow ==
  ASSUME NEW c \in CPState, NEW d \in CPState, EndsFragment(c, d), NEW s, NEW n,
         FlowOf(c, After(c, s), Counted(c, n)), \A u \in Units : Len(d.out[u]) <= 1
  PROVE  FlowOf(d, After(d, s), Counted(d, n))
<1> DEFINE r == After(c, s)
           m == Counted(c, n)
<1>1. \A u \in Fragment : c.out[u] = <<>> /\ d.out[u] = <<"end">>
  <2> SUFFICES ASSUME NEW u \in Fragment PROVE c.out[u] = <<>> /\ d.out[u] = <<"end">>
    OBVIOUS
  <2>1. /\ u \in Units /\ c.out[u] \in Seq(Commands) /\ d.out[u] = Append(c.out[u], "end")
    BY UnitsAre DEF EndsFragment, CPState
  <2>2. Len(d.out[u]) = Len(c.out[u]) + 1 /\ Len(c.out[u]) \in Nat /\ Len(d.out[u]) <= 1
    BY <2>1
  <2>3. c.out[u] = <<>>
    BY <2>1, <2>2
  <2> QED BY <2>1, <2>3
<1>2. /\ But(c, d, {"status", "out"}) /\ c.status = "endGeometry" /\ d.status = "endFragment"
      /\ \A u \in Units : d.out[u] = IF u \in Fragment THEN <<"end">> ELSE c.out[u]
  BY <1>1 DEF EndsFragment
<1>3. /\ d.flushDelay = c.flushDelay /\ d.geometryStarted = c.geometryStarted
      /\ Home(c) = "endGeometry" /\ Home(d) = "endFragment"
  BY <1>2 DEF But, Fields, Home, Memories
<1>4. \A u \in Units : /\ After(d, s)[u] = IF u \in Fragment THEN "ready" ELSE r[u]
                       /\ Counted(d, n)[u] = m[u]
  <2> SUFFICES ASSUME NEW u \in Units
               PROVE  /\ Will(d.out[u], s[u], u) = IF u \in Fragment THEN "ready" ELSE Will(c.out[u], s[u], u)
                      /\ Plus(d.out[u], n[u]) = Plus(c.out[u], n[u])
    BY DEF After, Counted
  <2>1. CASE u \in Fragment
    <3>1. c.out[u] = <<>> /\ d.out[u] = <<"end">>
      BY <1>1, <2>1
    <3> QED BY <2>1, <3>1, Wills
  <2>2. CASE u \notin Fragment
    BY <1>2, <2>2
  <2> QED BY <2>1, <2>2
<1> HIDE DEF r, m
<1>5. InPhase(c, r) /\ InStep(c, m)
  BY <1>3 DEF FlowOf, r, m
<1>6. InPhase(d, After(d, s))
  BY <1>2, <1>3, <1>4, <1>5, UnitsAre DEF InPhase
<1>7. InStep(d, Counted(d, n))
  BY <1>2, <1>3, <1>4, <1>5, UnitsAre DEF InStep
<1> QED BY <1>3, <1>6, <1>7 DEF FlowOf

LEMMA NextBatchFlow ==
  ASSUME NEW c \in CPState, NEW d \in CPState, Silent(c), DrawsBatch(c, d) \/ Settles(c, d),
         c.status = "endFragment", NEW s, NEW n, FlowOf(c, s, n), \A u \in Units : n[u] \in Nat
  PROVE  FlowOf(d, After(d, s), Counted(d, n))
<1>0. Home(c) = "endFragment" /\ InPhase(c, s) /\ InStep(c, n)
  BY DEF Home, Memories, FlowOf
<1>1. CASE DrawsBatch(c, d)
  <2>1. /\ But(c, d, {"status", "out"}) /\ c.geometryStarted
        /\ d.status = "drawing" /\ Sends(d, Fragment, "draw")
    BY <1>1 DEF DrawsBatch
  <2>2. /\ d.flushDelay = c.flushDelay /\ d.geometryStarted = c.geometryStarted /\ Home(d) = "drawing"
    BY <2>1 DEF But, Fields, Home, Memories
  <2>3. \A u \in Units :
          /\ u \in Fragment => /\ After(d, s)[u] = IF u = "dac" THEN "ready" ELSE "drawing"
                               /\ Counted(d, n)[u] = n[u] + 1
          /\ u \notin Fragment => After(d, s)[u] = s[u] /\ Counted(d, n)[u] = n[u]
    BY <2>1, SendsDraw
  <2>4. InPhase(d, After(d, s))
    BY <1>0, <2>1, <2>2, <2>3, UnitsAre DEF InPhase, Busy
  <2>5. InStep(d, Counted(d, n))
    BY <1>0, <2>1, <2>2, <2>3, UnitsAre DEF InStep
  <2> QED BY <2>2, <2>4, <2>5 DEF FlowOf
<1>2. CASE Settles(c, d)
  <2>1. But(c, d, {"status", "fetch"}) /\ ~c.geometryStarted /\ d.status = "ready"
    BY <1>2 DEF Settles
  <2>2. /\ d.flushDelay = c.flushDelay /\ d.geometryStarted = c.geometryStarted /\ Home(d) = "ready"
        /\ Silent(d)
    BY <2>1 DEF But, Fields, Home, Memories, Silent
  <2>3. \A u \in Units : After(d, s)[u] = s[u] /\ Counted(d, n)[u] = n[u]
    BY <2>2, SilentAfter
  <2>4. InPhase(d, After(d, s))
    BY <1>0, <2>1, <2>2, <2>3, UnitsAre DEF InPhase
  <2>5. InStep(d, Counted(d, n))
    BY <1>0, <2>1, <2>2, <2>3, UnitsAre DEF InStep
  <2> QED BY <2>2, <2>4, <2>5 DEF FlowOf
<1> QED BY <1>1, <1>2

LEMMA ReturnsFlow ==
  ASSUME NEW c \in CPState, NEW d \in CPState, Silent(c), But(c, d, {"status", "hw"}),
         c.status \in Memories, d.status = c.stack, c.stack \notin Memories,
         NEW s, NEW n, FlowOf(c, s, n)
  PROVE  FlowOf(d, After(d, s), Counted(d, n))
<1>1. /\ Silent(d) /\ Home(d) = Home(c) /\ d.geometryStarted = c.geometryStarted
      /\ d.flushDelay = c.flushDelay /\ d.last = c.last /\ d.workEnd = c.workEnd
  BY DEF But, Fields, Silent, Home
<1> QED BY <1>1, QuietFlow

LEMMA RestartedFlow ==
  ASSUME NEW c \in CPState, NEW d \in CPState, Silent(c), Restarted(c, d), c.status = "reset",
         NEW s, NEW n, FlowOf(c, s, n)
  PROVE  FlowOf(d, After(d, s), Counted(d, n))
<1>1. /\ Silent(d) /\ Home(d) = "ready" /\ Home(c) = "reset" /\ ~d.geometryStarted /\ d.flushDelay = c.flushDelay
  BY DEF Restarted, But, Fields, Silent, Home, Memories
<1>2. \A u \in Units : After(d, s)[u] = s[u] /\ Counted(d, n)[u] = n[u]
  BY <1>1, SilentAfter
<1>3. InPhase(c, s) /\ InStep(c, n) /\ ~c.geometryStarted
  BY <1>1 DEF FlowOf, InStep
<1>4. InPhase(d, After(d, s))
  BY <1>1, <1>2, <1>3, UnitsAre DEF InPhase
<1>5. InStep(d, Counted(d, n))
  BY <1>1, <1>2, <1>3, UnitsAre DEF InStep
<1> QED BY <1>1, <1>4, <1>5 DEF FlowOf

\* Between batches every unit that does not work is ready, and so are all at
\* the end of the command.
LEMMA WorkedFlow ==
  ASSUME NEW c \in CPState, NEW d \in CPState, NEW s, NEW n, FlowOf(c, s, n),
         NEW r, NEW m, \A u \in Units : m[u] = n[u], d.geometryStarted = c.geometryStarted,
         Home(c) = "exclusive", Home(d) = "ready", \A u \in Units : r[u] = "ready", d.flushDelay = 0
  PROVE  FlowOf(d, r, m)
<1>1. InStep(c, n) /\ ~c.geometryStarted
  BY DEF FlowOf, InStep
<1>2. InStep(d, m)
  BY <1>1, UnitsAre DEF InStep
<1>3. InPhase(d, r)
  BY <1>1, UnitsAre DEF InPhase
<1> QED BY <1>2, <1>3 DEF FlowOf

LEMMA ExclusivelyFlow ==
  ASSUME NEW c \in CPState, NEW d \in CPState, Silent(c), c.status = "exclusive", Exclusively(c, d),
         NEW s, NEW n, FlowOf(c, s, n),
         Displayed(c.last.kind) /\ ~c.workEnd => unit["dac"].state # "end"
  PROVE  FlowOf(d, After(d, s), Counted(d, n))
<1> DEFINE w == Workers(c.last.kind)
<1>0. /\ Home(c) = "exclusive" /\ AtWork(c, s) /\ InStep(c, n) /\ ~c.geometryStarted
      /\ c.last.kind \in ExclusiveKinds /\ w \subseteq Fragment
  BY UnitsAre DEF Home, Memories, FlowOf, InStep, AtWork
<1>a. FlushDelay \in Nat \ {0} /\ c.flushDelay \in Nat
  BY BoundAssumption DEF CPState
<1>1. CASE Displayed(c.last.kind) /\ Displays(c, d)
  <2> DEFINE ended == (\A u \in w : unit[u].state = "end") /\ ~c.workEnd
  <2>1. /\ But(c, d, {"status", "workEnd", "out"})
        /\ d.workEnd <=> c.workEnd \/ ended
        /\ IF unit["dac"].state = "end"
           THEN d.status = "ready" /\ (~ended => Sends(d, {"dac"}, "end"))
           ELSE /\ d.status = c.status
                /\ IF ended THEN \A u \in Units : d.out[u] = IF u = "dac" THEN <<"work">>
                                                             ELSE IF u \in w THEN <<"end">> ELSE <<>>
                   ELSE Silent(d)
    BY <1>1 DEF Displays
  <2>2. d.flushDelay = c.flushDelay /\ d.geometryStarted = c.geometryStarted /\ d.last = c.last
    BY <2>1 DEF But, Fields
  <2>3. c.flushDelay = 0
    BY <1>0, <1>1 DEF AtWork, Displayed
  <2>4. CASE unit["dac"].state = "end"
    <3>1. c.workEnd /\ d.status = "ready" /\ Sends(d, {"dac"}, "end")
      BY <1>1, <2>1, <2>4
    <3>2. \A u \in Units : Works(c, u) <=> u = "dac"
      BY <1>1, <3>1 DEF Works
    <3>3. \A u \in Units : After(d, s)[u] = (IF u \in {"dac"} THEN "ready" ELSE s[u]) /\ Counted(d, n)[u] = n[u]
      BY <3>1, SendsEnd
    <3>4. \A u \in Units : After(d, s)[u] = "ready" /\ Counted(d, n)[u] = n[u]
      BY <1>0, <3>2, <3>3 DEF AtWork
    <3>5. Home(d) = "ready"
      BY <3>1 DEF Home, Memories
    <3> QED BY <1>0, <2>2, <2>3, <3>4, <3>5, WorkedFlow
  <2>5. CASE unit["dac"].state # "end" /\ ~ended
    <3>1. Silent(d) /\ d.status = c.status /\ d.workEnd = c.workEnd
      BY <2>1, <2>5 DEF CPState
    <3>2. Home(d) = Home(c)
      BY <1>0, <3>1 DEF Home, Memories
    <3> QED BY <2>2, <3>1, <3>2, QuietFlow
  <2>6. CASE unit["dac"].state # "end" /\ ended
    <3>1. /\ d.status = "exclusive" /\ d.workEnd /\ ~c.workEnd
          /\ \A u \in Units : d.out[u] = IF u = "dac" THEN <<"work">>
                                         ELSE IF u \in w THEN <<"end">> ELSE <<>>
      BY <2>1, <2>6
    <3>2. Home(d) = "exclusive"
      BY <3>1 DEF Home, Memories
    <3>3. \A u \in Units : u \notin w => s[u] = "ready"
      BY <1>0, <3>1 DEF AtWork, Works
    <3>4. ASSUME NEW u \in Units
          PROVE  /\ After(d, s)[u] = IF u = "dac" THEN "working" ELSE "ready"
                 /\ Counted(d, n)[u] = n[u]
      <4>1. After(d, s)[u] = Will(d.out[u], s[u], u) /\ Counted(d, n)[u] = Plus(d.out[u], n[u])
        BY DEF After, Counted
      <4>2. CASE u = "dac"
        BY <3>1, <4>1, <4>2, Wills
      <4>3. CASE u # "dac" /\ u \in w
        <5>1. d.out[u] = <<"end">>
          BY <3>1, <4>3
        <5> QED BY <4>1, <4>3, <5>1, Wills
      <4>4. CASE u # "dac" /\ u \notin w
        <5>1. d.out[u] = <<>>
          BY <3>1, <4>4
        <5> QED BY <3>3, <4>1, <4>4, <5>1, Wills
      <4> QED BY <4>2, <4>3, <4>4
    <3>5. \A u \in Units : Works(d, u) <=> u = "dac"
      BY <1>1, <2>2, <3>1 DEF Works
    <3>6. AtWork(d, After(d, s))
      BY <1>0, <2>2, <2>3, <3>4, <3>5 DEF AtWork
    <3>7. InStep(d, Counted(d, n))
      BY <1>0, <2>2, <3>2, <3>4, UnitsAre DEF InStep
    <3> QED BY <3>2, <3>6, <3>7 DEF FlowOf
  <2> QED BY <2>4, <2>5, <2>6
<1>2. CASE ~Displayed(c.last.kind) /\ c.last.kind = "flushZ" /\ Flushes(c, d)
  <2>1. But(c, d, {"status", "flushDelay", "out"})
    BY <1>2 DEF Flushes
  <2>2. d.geometryStarted = c.geometryStarted /\ d.last = c.last /\ d.workEnd = c.workEnd /\ w = ZStencil
    BY <1>2, <2>1 DEF But, Fields, Workers
  <2>3. CASE c.flushDelay = 0 /\ d.flushDelay = 0 /\ Silent(d) /\ d.status = c.status
    <3>1. Home(d) = Home(c)
      BY <1>0, <2>3 DEF Home, Memories
    <3> QED BY <2>2, <2>3, <3>1, QuietFlow
  <2>4. CASE /\ \A u \in Units : After(d, s)[u] = "ready" /\ Counted(d, n)[u] = n[u]
             /\ d.flushDelay \in Nat /\ d.status = IF d.flushDelay = 0 THEN "ready" ELSE c.status
    <3>1. CASE d.flushDelay = 0
      <4>1. Home(d) = "ready"
        BY <2>4, <3>1 DEF Home, Memories
      <4> QED BY <1>0, <2>2, <2>4, <3>1, <4>1, WorkedFlow
    <3>2. CASE d.flushDelay # 0
      <4>1. Home(d) = "exclusive"
        BY <2>4, <3>2 DEF Home, Memories
      <4>2. \A u \in Units : ~Works(d, u)
        BY <1>2, <2>2, <3>2 DEF Works
      <4>3. AtWork(d, After(d, s))
        BY <1>0, <1>2, <2>2, <2>4, <4>2 DEF AtWork
      <4>4. InStep(d, Counted(d, n))
        BY <1>0, <2>2, <2>4, <4>1, UnitsAre DEF InStep
      <4> QED BY <4>1, <4>3, <4>4 DEF FlowOf
    <3> QED BY <3>1, <3>2
  <2>5. CASE /\ c.flushDelay = 0 /\ Sends(d, ZStencil, "end") /\ d.flushDelay = FlushDelay - 1
             /\ d.status = IF FlushDelay = 1 THEN "ready" ELSE c.status
    <3>1. \A u \in Units : u \notin w => s[u] = "ready"
      BY <1>0, <1>2 DEF AtWork, Works
    <3>2. \A u \in Units : After(d, s)[u] = (IF u \in ZStencil THEN "ready" ELSE s[u]) /\ Counted(d, n)[u] = n[u]
      BY <2>5, SendsEnd
    <3>3. \A u \in Units : After(d, s)[u] = "ready" /\ Counted(d, n)[u] = n[u]
      BY <2>2, <3>1, <3>2
    <3>4. d.flushDelay \in Nat /\ d.status = IF d.flushDelay = 0 THEN "ready" ELSE c.status
      BY <1>a, <2>5
    <3> QED BY <2>4, <3>3, <3>4
  <2>6. CASE /\ c.flushDelay # 0 /\ Silent(d) /\ d.flushDelay = c.flushDelay - 1
             /\ d.status = IF c.flushDelay = 1 THEN "ready" ELSE c.status
    <3>1. \A u \in Units : s[u] = "ready"
      BY <1>0, <1>2, <2>6 DEF AtWork, Works
    <3>2. \A u \in Units : After(d, s)[u] = s[u] /\ Counted(d, n)[u] = n[u]
      BY <2>6, SilentAfter
    <3>3. d.flushDelay \in Nat /\ d.status = IF d.flushDelay = 0 THEN "ready" ELSE c.status
      BY <1>a, <2>6
    <3> QED BY <2>4, <3>1, <3>2, <3>3
  <2> QED BY <1>2, <2>3, <2>5, <2>6 DEF Flushes
<1>3. CASE ~Displayed(c.last.kind) /\ c.last.kind # "flushZ" /\ Ends(c, d)
  <2>1. But(c, d, {"status", "out"}) /\ d.status = "ready" /\ Sends(d, w, "end")
    BY <1>3 DEF Ends
  <2>2. /\ d.geometryStarted = c.geometryStarted /\ d.flushDelay = c.flushDelay /\ Home(d) = "ready"
    BY <2>1 DEF But, Fields, Home, Memories
  <2>3. c.flushDelay = 0 /\ \A u \in Units : u \notin w => s[u] = "ready"
    BY <1>0, <1>3 DEF AtWork, Works
  <2> HIDE DEF w
  <2>4. \A u \in Units : After(d, s)[u] = (IF u \in w THEN "ready" ELSE s[u]) /\ Counted(d, n)[u] = n[u]
    BY <2>1, SendsEnd
  <2>5. \A u \in Units : After(d, s)[u] = "ready" /\ Counted(d, n)[u] = n[u]
    BY <2>3, <2>4
  <2> QED BY <1>0, <2>2, <2>3, <2>5, WorkedFlow
<1>4. CASE d = c
  BY <1>4, QuietFlow
<1> QED BY <1>1, <1>2, <1>3, <1>4 DEF Exclusively

-----------------------------------------------------------------------------
(***************************************************************************)
(* The course of the trace.  n transactions were taken.  A held            *)
(* transaction is no reset; a stored load is executed in END_FRAGMENT; a   *)
(* batch that is not overlapped with others holds its DRAW to its end, and *)
(* nothing is buffered.                                                    *)
(***************************************************************************)

Stacked == {"ready", "drawing", "endGeometry", "endFragment"}
Course(c, n) ==
  /\ n = 0 => c.status \in {"reset", "ready"} /\ c.last = None /\ c.fetch
  /\ ~c.fetch => c.last.kind \notin {"reset", "none"}
  /\ c.loading => /\ Home(c) = "endFragment" /\ c.stored
                  /\ ~c.backup.fetch => c.backup.last.kind \notin {"reset", "none"}
  /\ c.status \in Memories => c.fetch /\ c.stack \in Stacked
  /\ c.status \in Memories /\ c.last.kind \in {"lockedWrite", "lockedPreload"} => c.stack = "ready"
  /\ c.status = "memoryRead" => c.last.kind \in LoadKinds
  /\ Updated(c)
  /\ ~c.pipelined =>
       /\ \A p \in Phases : c.updates[p] = <<>>
       /\ ~c.stored /\ ~c.loading
       /\ Home(c) \in {"drawing", "endGeometry", "endFragment"} =>
            c.status \notin Memories /\ ~c.fetch /\ c.last.kind = "draw"

LEMMA CourseSame ==
  ASSUME NEW c \in CPState, NEW d \in CPState, NEW n, Course(c, n),
         \A f \in {"status", "stack", "last", "fetch", "loading", "stored", "backup", "pipelined", "updates"} :
           d[f] = c[f]
  PROVE  Course(d, n)
<1>1. /\ d.status = c.status /\ d.stack = c.stack /\ d.last = c.last /\ d.fetch = c.fetch
      /\ d.loading = c.loading /\ d.stored = c.stored /\ d.backup = c.backup
      /\ d.pipelined = c.pipelined /\ d.updates = c.updates /\ Home(d) = Home(c)
  BY DEF Home
<1>2. Updated(c) => Updated(d)
  BY <1>1 DEF Updated
<1> QED BY <1>1, <1>2 DEF Course

LEMMA FetchedCourse ==
  ASSUME NEW c \in CPState, NEW d \in CPState, NEW n \in Nat, Course(c, n), NEW t \in Transaction,
         Fetched(c, d, t), c.status \in Stacked, t # None => c.fetch
  PROVE  Course(d, IF t = None THEN n ELSE n + 1)
<1>1. But(c, d, {"last", "traceEnd"}) /\ (IF c.fetch /\ t # None THEN d.last = t ELSE d.last = c.last)
  BY DEF Fetched
<1>2. /\ d.status = c.status /\ d.stack = c.stack /\ d.fetch = c.fetch
      /\ d.loading = c.loading /\ d.stored = c.stored /\ d.backup = c.backup
      /\ d.pipelined = c.pipelined /\ d.updates = c.updates /\ Home(d) = Home(c)
  BY <1>1 DEF Home, But, Fields
<1>3. Updated(c) => Updated(d)
  BY <1>2 DEF Updated
<1>4. c.status \notin Memories
  BY DEF Stacked, Memories
<1>5. CASE t = None
  <2>1. d.last = c.last
    BY <1>1, <1>5
  <2> QED BY <1>2, <1>3, <1>5, <2>1 DEF Course
<1>6. CASE t # None
  <2>1. n + 1 # 0 /\ c.fetch /\ d.last = t
    BY <1>1, <1>6
  <2> QED BY <1>2, <1>3, <1>4, <1>6, <2>1 DEF Course, Memories
<1> QED BY <1>5, <1>6

LEMMA KeptUpdates ==
  ASSUME NEW c \in CPState, NEW d \in CPState, Updated(c), Keeps(c, d)
  PROVE  Updated(d)
<1> DEFINE q == Phase(c.last.kind)
<1>0. q \in Phases /\ c.last \in Transaction /\ c.last.kind \in Registers
  BY PhaseIs DEF Keeps, CPState
<1>1. Len(c.updates[q]) < MaxUpdates /\ d.updates = [c.updates EXCEPT ![q] = Append(@, c.last)]
  BY DEF Keeps
<1> HIDE DEF q
<1>2. c.updates \in [Phases -> Seq(Transaction)]
  BY DEF CPState
<1> SUFFICES ASSUME NEW p \in Phases
             PROVE  /\ Len(d.updates[p]) <= MaxUpdates
                    /\ \A i \in DOMAIN d.updates[p] :
                         d.updates[p][i].kind \in Registers /\ Phase(d.updates[p][i].kind) = p
  BY DEF Updated
<1>3. CASE p # q
  BY <1>1, <1>2, <1>3 DEF Updated
<1>4. CASE p = q
  <2> DEFINE z == c.updates[q]
  <2>1. z \in Seq(Transaction) /\ d.updates[p] = Append(z, c.last) /\ Len(z) < MaxUpdates
    BY <1>0, <1>1, <1>2, <1>4
  <2>2. \A i \in DOMAIN z : z[i].kind \in Registers /\ Phase(z[i].kind) = q
    BY <1>0 DEF Updated
  <2> HIDE DEF z
  <2>3. Len(Append(z, c.last)) = Len(z) + 1 /\ Len(z) \in Nat /\ MaxUpdates \in Nat
    BY <2>1, BoundAssumption
  <2>4. \A i \in DOMAIN Append(z, c.last) : i \in DOMAIN z \/ i = Len(z) + 1
    BY <1>0, <2>1
  <2>5. /\ \A i \in DOMAIN z : Append(z, c.last)[i] = z[i]
        /\ Append(z, c.last)[Len(z) + 1] = c.last
    BY <1>0, <2>1
  <2> QED BY <1>0, <1>4, <2>1, <2>2, <2>3, <2>4, <2>5 DEF q
<1> QED BY <1>3, <1>4

LEMMA DrainedUpdates ==
  ASSUME NEW c \in CPState, NEW d \in CPState, Updated(c), NEW q \in Phases, Drained(c, d, q)
  PROVE  Updated(d)
<1>1. c.updates[q] # <<>> /\ d.updates = [c.updates EXCEPT ![q] = Tail(@)]
  BY DEF Drained
<1>2. c.updates \in [Phases -> Seq(Transaction)]
  BY DEF CPState
<1> SUFFICES ASSUME NEW p \in Phases
             PROVE  /\ Len(d.updates[p]) <= MaxUpdates
                    /\ \A i \in DOMAIN d.updates[p] :
                         d.updates[p][i].kind \in Registers /\ Phase(d.updates[p][i].kind) = p
  BY DEF Updated
<1>3. CASE p # q
  BY <1>1, <1>2, <1>3 DEF Updated
<1>4. CASE p = q
  <2> DEFINE z == c.updates[q]
  <2>1. z \in Seq(Transaction) /\ d.updates[p] = Tail(z) /\ z # <<>> /\ Len(z) <= MaxUpdates
    BY <1>1, <1>2, <1>4 DEF Updated
  <2>2. \A i \in DOMAIN z : z[i].kind \in Registers /\ Phase(z[i].kind) = q
    BY DEF Updated
  <2> HIDE DEF z
  <2>3. Len(Tail(z)) = Len(z) - 1 /\ Len(z) \in Nat /\ MaxUpdates \in Nat
    BY <2>1, BoundAssumption
  <2>4. \A i \in DOMAIN Tail(z) : i + 1 \in DOMAIN z /\ Tail(z)[i] = z[i + 1]
    BY <2>1
  <2> QED BY <1>4, <2>1, <2>2, <2>3, <2>4
<1> QED BY <1>3, <1>4

LEMMA ProcessCourse ==
  ASSUME NEW c \in CPState, NEW d \in CPState, NEW n \in Nat, Course(c, n), n # 0, Processes(c, d),
         c.status \in Stacked, c.status = "ready" \/ c.pipelined, c.last.kind = "reset" => c.status = "ready"
  PROVE  Course(d, n) /\ d.pipelined = c.pipelined
<1>0. Home(c) = c.status /\ c.status \notin Memories
  BY DEF Home, Stacked, Memories
<1>1. CASE Holds(c, d)
  <2>1. /\ d.status = c.status /\ d.stack = c.stack /\ d.last = c.last /\ ~d.fetch
        /\ d.loading = c.loading /\ d.stored = c.stored /\ d.backup = c.backup
        /\ d.pipelined = c.pipelined /\ d.updates = c.updates /\ Home(d) = Home(c)
        /\ c.last.kind \notin {"reset", "none"}
    BY <1>1 DEF Home, Holds, But, Fields
  <2>2. Updated(c) => Updated(d)
    BY <2>1 DEF Updated
  <2> QED BY <1>0, <2>1, <2>2 DEF Course, Memories
<1>2. CASE Skips(c, d)
  <2>1. /\ d.status = c.status /\ d.stack = c.stack /\ d.last = c.last /\ d.fetch \in {TRUE, c.fetch}
        /\ d.loading = c.loading /\ (d.stored # c.stored => c.status = "endGeometry")
        /\ d.backup = c.backup /\ d.pipelined = c.pipelined /\ d.updates = c.updates /\ Home(d) = Home(c)
    BY <1>2 DEF Home, Skips, But, Fields
  <2>2. Updated(c) => Updated(d)
    BY <2>1 DEF Updated
  <2> QED BY <1>0, <2>1, <2>2 DEF Course, Memories
<1>3. CASE Keeps(c, d)
  <2>1. /\ d.status = c.status /\ d.stack = c.stack /\ d.last = c.last /\ d.fetch
        /\ d.loading = c.loading /\ d.stored = c.stored /\ d.backup = c.backup
        /\ d.pipelined = c.pipelined /\ Home(d) = Home(c) /\ c.status # "ready"
    BY <1>3 DEF Home, Keeps, But, Fields
  <2>2. Updated(c) => Updated(d)
    BY <1>3, KeptUpdates
  <2> QED BY <1>0, <2>1, <2>2 DEF Course, Memories
<1>4. CASE Transfers(c, d)
  <2>1. /\ d.stack = c.status /\ d.status \in Memories /\ d.last = c.last /\ d.fetch
        /\ d.status = "memoryRead" => c.last.kind \in LoadKinds
        /\ c.last.kind \in {"lockedWrite", "lockedPreload"} => c.status = "ready"
        /\ d.loading = c.loading /\ d.stored = c.stored /\ d.backup = c.backup
        /\ d.pipelined = c.pipelined /\ d.updates = c.updates
    BY <1>4 DEF Transfers, But, Fields
  <2>2. Home(d) = Home(c)
    BY <1>0, <2>1 DEF Home
  <2>3. Updated(c) => Updated(d)
    BY <2>1 DEF Updated
  <2> QED BY <1>0, <2>1, <2>2, <2>3 DEF Course
<1>5. CASE Writes(c, d)
  <2>1. /\ d.status = c.status /\ d.stack = c.stack /\ d.last = c.last /\ d.fetch
        /\ d.loading = c.loading /\ d.stored = c.stored /\ d.backup = c.backup
        /\ d.pipelined = c.pipelined /\ d.updates = c.updates /\ Home(d) = Home(c)
        /\ c.last.kind \in Registers
    BY <1>5 DEF Home, Writes, But, Fields
  <2>2. Updated(c) => Updated(d)
    BY <2>1 DEF Updated
  <2>3. c.last.kind # "draw"
    BY <2>1 DEF Registers, GeomRegisters, FragRegisters
  <2> QED BY <1>0, <2>1, <2>2, <2>3 DEF Course, Memories
<1>6. CASE Draws(c, d)
  <2>1. /\ c.status \in {"ready", "endGeometry"} /\ d.status \in {"drawing", "endGeometry"}
        /\ d.stack = c.stack /\ d.last = c.last /\ c.last.kind = "draw" /\ d.fetch = c.pipelined
        /\ d.loading = c.loading /\ d.stored = c.stored /\ d.backup = c.backup
        /\ d.pipelined = c.pipelined /\ d.updates = c.updates
    BY <1>6 DEF Draws, DrawAllowed, But, Fields
  <2>2. Home(d) = d.status /\ d.status \notin Memories
    BY <2>1 DEF Home, Memories
  <2>3. Updated(c) => Updated(d)
    BY <2>1 DEF Updated
  <2> QED BY <1>0, <2>1, <2>2, <2>3 DEF Course, Memories
<1>7. CASE Begins(c, d) \/ Restarts(c, d)
  <2>1. /\ c.status = "ready" /\ d.status \in {"exclusive", "reset"}
        /\ d.stack = c.stack /\ d.last = c.last /\ d.fetch
        /\ d.loading = c.loading /\ d.stored = c.stored /\ d.backup = c.backup
        /\ d.pipelined = c.pipelined /\ d.updates = c.updates
    BY <1>7 DEF Begins, Restarts, But, Fields
  <2>2. Home(d) = d.status /\ d.status \notin Memories
    BY <2>1 DEF Home, Memories
  <2>3. Updated(c) => Updated(d)
    BY <2>1 DEF Updated
  <2> QED BY <1>0, <2>1, <2>2, <2>3 DEF Course, Memories
<1> QED BY <1>1, <1>2, <1>3, <1>4, <1>5, <1>6, <1>7 DEF Processes

LEMMA DrainedCourse ==
  ASSUME NEW c \in CPState, NEW d \in CPState, NEW n \in Nat, Course(c, n), NEW p \in Phases, Drained(c, d, p)
  PROVE  Course(d, n) /\ d.pipelined = c.pipelined
<1>1. /\ d.status = c.status /\ d.stack = c.stack /\ d.last = c.last /\ d.fetch = c.fetch
      /\ d.loading = c.loading /\ d.stored = c.stored /\ d.backup = c.backup
      /\ d.pipelined = c.pipelined /\ Home(d) = Home(c) /\ c.updates[p] # <<>>
  BY DEF Home, Drained, But, Fields
<1>2. Updated(c) => Updated(d)
  BY DrainedUpdates
<1> QED BY <1>1, <1>2 DEF Course

\* Phases and batches end; the stored load gives the last transaction back.
LEMMA EndsCourse ==
  ASSUME NEW c \in CPState, NEW d \in CPState, NEW n \in Nat, Course(c, n),
         \/ EndsGeometry(c, d) \/ EndsFragment(c, d)
         \/ c.status = "endFragment" /\ (DrawsBatch(c, d) \/ Settles(c, d)) /\ ~c.stored
         \/ c.status = "endFragment" /\ GivesBack(c, d)
  PROVE  Course(d, n) /\ d.pipelined = c.pipelined
<1>1. CASE EndsGeometry(c, d) \/ EndsFragment(c, d)
  <2>1. /\ d.stack = c.stack /\ d.last = c.last /\ d.fetch = c.fetch
        /\ d.loading = c.loading /\ d.stored = c.stored /\ d.backup = c.backup
        /\ d.pipelined = c.pipelined /\ d.updates = c.updates
        /\ \/ c.status = "drawing" /\ d.status = "endGeometry"
           \/ c.status = "endGeometry" /\ d.status = "endFragment"
    BY <1>1 DEF EndsGeometry, EndsFragment, But, Fields
  <2>2. Home(c) = c.status /\ Home(d) = d.status /\ c.status \notin Memories /\ d.status \notin Memories
    BY <2>1 DEF Home, Memories
  <2>3. Updated(c) => Updated(d)
    BY <2>1 DEF Updated
  <2> QED BY <2>1, <2>2, <2>3 DEF Course, Memories
<1>2. CASE c.status = "endFragment" /\ (DrawsBatch(c, d) \/ Settles(c, d)) /\ ~c.stored
  <2>1. /\ d.stack = c.stack /\ d.last = c.last
        /\ d.loading = c.loading /\ d.stored = c.stored /\ d.backup = c.backup
        /\ d.pipelined = c.pipelined /\ d.updates = c.updates
        /\ \/ d.status = "drawing" /\ d.fetch = c.fetch
           \/ d.status = "ready" /\ d.fetch = IF c.pipelined THEN c.fetch ELSE TRUE
    BY <1>2 DEF DrawsBatch, Settles, But, Fields
  <2>2. Home(c) = c.status /\ Home(d) = d.status /\ c.status \notin Memories /\ d.status \notin Memories
    BY <1>2, <2>1 DEF Home, Memories
  <2>3. Updated(c) => Updated(d)
    BY <2>1 DEF Updated
  <2> QED BY <1>2, <2>1, <2>2, <2>3 DEF Course, Memories
<1>3. CASE c.status = "endFragment" /\ GivesBack(c, d)
  <2>1. /\ d.status = c.status /\ d.stack = c.stack /\ d.last = c.backup.last /\ d.fetch = c.backup.fetch
        /\ c.loading /\ ~d.loading /\ ~d.stored /\ d.backup = c.backup
        /\ d.pipelined = c.pipelined /\ d.updates = c.updates /\ Home(d) = Home(c)
    BY <1>3 DEF Home, GivesBack, But, Fields
  <2>2. Updated(c) => Updated(d)
    BY <2>1 DEF Updated
  <2> QED BY <1>3, <2>1, <2>2 DEF Course, Memories
<1> QED BY <1>1, <1>2, <1>3

LEMMA PutsOffCourse ==
  ASSUME NEW c \in CPState, NEW d \in CPState, NEW n \in Nat, Course(c, n),
         c.status = "endFragment", PutsOff(c, d)
  PROVE  Course(d, n) /\ d.pipelined /\ d.pipelined = c.pipelined /\ d.status = c.status
<1>1. /\ d.status = c.status /\ d.stack = c.stack /\ d.last.kind = "loadFragment" /\ d.fetch = c.fetch
      /\ d.loading /\ c.stored /\ d.stored = c.stored /\ d.backup = [last |-> c.last, fetch |-> c.fetch]
      /\ d.pipelined = c.pipelined /\ d.updates = c.updates /\ Home(d) = Home(c)
  BY DEF Home, PutsOff, But, Fields
<1>2. Updated(c) => Updated(d)
  BY <1>1 DEF Updated
<1>3. Home(c) = "endFragment" /\ c.status \notin Memories
  BY DEF Home, Memories
<1>4. c.pipelined
  BY <1>1 DEF Course
<1> QED BY <1>1, <1>2, <1>3, <1>4 DEF Course, Memories

LEMMA ReturnsCourse ==
  ASSUME NEW c \in CPState, NEW d \in CPState, NEW n \in Nat, Course(c, n),
         \/ But(c, d, {"status", "hw"}) /\ c.status \in Memories /\ d.status = c.stack
         \/ Restarted(c, d) /\ c.status = "reset"
         \/ Exclusively(c, d) /\ c.status = "exclusive"
  PROVE  Course(d, n) /\ d.pipelined = c.pipelined
<1>1. CASE But(c, d, {"status", "hw"}) /\ c.status \in Memories /\ d.status = c.stack
  <2>1. /\ d.stack = c.stack /\ d.last = c.last /\ d.fetch = c.fetch
        /\ d.loading = c.loading /\ d.stored = c.stored /\ d.backup = c.backup
        /\ d.pipelined = c.pipelined /\ d.updates = c.updates
    BY <1>1 DEF But, Fields
  <2>2. c.stack \notin Memories /\ Home(d) = Home(c)
    BY <1>1, <2>1 DEF Course, Home, Memories, Stacked
  <2>3. Updated(c) => Updated(d)
    BY <2>1 DEF Updated
  <2> QED BY <1>1, <2>1, <2>2, <2>3 DEF Course, Memories, Stacked
<1>2. CASE Restarted(c, d) /\ c.status = "reset"
  <2>1. /\ d.status = "ready" /\ d.stack = c.stack /\ d.last = c.last /\ d.fetch
        /\ d.loading = c.loading /\ ~d.stored /\ d.backup = c.backup
        /\ d.pipelined = c.pipelined /\ d.updates = [p \in Phases |-> <<>>]
    BY <1>2 DEF Restarted, But, Fields
  <2>2. Home(d) = "ready" /\ Home(c) = "reset" /\ d.status \notin Memories
    BY <1>2, <2>1 DEF Home, Memories
  <2>3. Updated(d)
    <3>1. \A p \in Phases : d.updates[p] = <<>>
      BY <2>1
    <3> QED BY <3>1, BoundAssumption DEF Updated
  <2> QED BY <1>2, <2>1, <2>2, <2>3 DEF Course, Memories
<1>3. CASE Exclusively(c, d) /\ c.status = "exclusive"
  <2>1. But(c, d, {"status", "workEnd", "flushDelay", "out"}) /\ d.status \in {"exclusive", "ready"}
    <3>1. CASE d = c
      BY <1>3, <3>1 DEF But
    <3>2. CASE Displays(c, d)
      BY <1>3, <3>2 DEF Displays, But, Fields
    <3>3. CASE Flushes(c, d)
      BY <1>3, <3>3 DEF Flushes, But, Fields
    <3>4. CASE Ends(c, d)
      BY <1>3, <3>4 DEF Ends, But, Fields
    <3> QED BY <1>3, <3>1, <3>2, <3>3, <3>4 DEF Exclusively
  <2>2. /\ d.stack = c.stack /\ d.last = c.last /\ d.fetch = c.fetch
        /\ d.loading = c.loading /\ d.stored = c.stored /\ d.backup = c.backup
        /\ d.pipelined = c.pipelined /\ d.updates = c.updates
    BY <2>1 DEF But, Fields
  <2>3. Home(c) = "exclusive" /\ Home(d) = d.status /\ d.status \notin Memories
    BY <1>3, <2>1 DEF Home, Memories
  <2>4. Updated(c) => Updated(d)
    BY <2>2 DEF Updated
  <2> QED BY <1>3, <2>1, <2>2, <2>3, <2>4 DEF Course, Memories
<1> QED BY <1>1, <1>2, <1>3

-----------------------------------------------------------------------------
(* The units.                                                              *)

UnitStates == {"reset", "ready", "drawing", "working", "end"}
UnitsTyped ==
  /\ unit \in [Units -> [state : UnitStates, batch : Nat]]
  /\ comm \in [Units -> Seq(Commands)]

\* A unit that was reset is ready for what it is sent next.
Were(u) == IF unit[u].state = "reset" THEN "ready" ELSE unit[u].state
\* The states and the batches of the units when they have obeyed comm.
Willed == [u \in Units |-> Will(comm[u], Were(u), u)]
Batched == [u \in Units |-> Plus(comm[u], unit[u].batch)]
Resetting(u) == comm[u] # <<>> /\ Head(comm[u]) = "reset"

LEMMA ClockIs ==
  ASSUME UnitsTyped, UnitsAccept, NEW done \in SUBSET { u \in Units : MayFinish(u) }, UnitsClock(done)
  PROVE  /\ unit' \in [Units -> [state : UnitStates, batch : Nat]]
         /\ \A u \in Units :
              /\ unit'[u].batch = Batched[u]
              /\ \/ unit'[u].state = Willed[u] /\ Willed[u] # "reset" /\ ~Resetting(u)
                 \/ unit'[u].state = "end" /\ Willed[u] \in {"drawing", "working"} /\ u \in done
                 \/ unit'[u].state = "reset" /\ Willed[u] = "ready" /\ Resetting(u)
<1> DEFINE next(u) == IF unit[u].state = "reset" THEN [unit[u] EXCEPT !.state = "ready"]
                      ELSE IF comm[u] # <<>> THEN Obey(u, Head(comm[u]))
                      ELSE IF u \in done THEN [unit[u] EXCEPT !.state = "end"]
                      ELSE unit[u]
<1>1. unit' = [u \in Units |-> next(u)]
  BY DEF UnitsClock
<1>2. ASSUME NEW u \in Units
      PROVE  /\ next(u) \in [state : UnitStates, batch : Nat]
             /\ next(u).batch = Plus(comm[u], unit[u].batch)
             /\ LET w == Will(comm[u], Were(u), u) IN
                \/ next(u).state = w /\ w # "reset" /\ ~Resetting(u)
                \/ next(u).state = "end" /\ w \in {"drawing", "working"} /\ u \in done
                \/ next(u).state = "reset" /\ w = "ready" /\ Resetting(u)
  <2>1. unit[u] \in [state : UnitStates, batch : Nat] /\ comm[u] \in Seq(Commands)
    BY DEF UnitsTyped
  <2>2. comm[u] # <<>> => Head(comm[u]) \in Commands /\ Accepts(u, Head(comm[u]))
    BY <2>1 DEF UnitsAccept
  <2>3. CASE comm[u] = <<>>
    <3>1. u \in done => unit[u].state \in {"drawing", "working"}
      BY DEF MayFinish
    <3> QED BY <2>1, <2>3, <3>1 DEF Will, Plus, Were, UnitStates, Resetting
  <2>4. CASE comm[u] # <<>>
    <3> DEFINE h == Head(comm[u])
    <3>1. unit[u].state # "reset" /\ h \in {"reset", "reg", "draw", "end", "work"}
      BY <2>2, <2>4 DEF Accepts, Reads, Commands
    <3>2. next(u) = Obey(u, h)
      BY <2>4, <3>1
    <3>3. Were(u) = unit[u].state
      BY <3>1 DEF Were
    <3> HIDE DEF next
    <3>4. CASE h = "draw"
      BY <2>1, <2>4, <3>1, <3>2, <3>3, <3>4 DEF Obey, Will, Plus, Resetting, UnitStates
    <3>5. CASE h = "work"
      BY <2>1, <2>4, <3>1, <3>2, <3>3, <3>5 DEF Obey, Will, Plus, Resetting, UnitStates
    <3>6. CASE h = "end"
      BY <2>1, <2>4, <3>1, <3>2, <3>3, <3>6 DEF Obey, Will, Plus, Resetting, UnitStates
    <3>7. CASE h = "reg"
      BY <2>1, <2>4, <3>1, <3>2, <3>3, <3>7 DEF Obey, Will, Plus, Resetting, UnitStates
    <3>8. CASE h = "reset"
      BY <2>1, <2>4, <3>1, <3>2, <3>3, <3>8 DEF Obey, Will, Plus, Resetting, UnitStates
    <3> QED BY <3>1, <3>4, <3>5, <3>6, <3>7, <3>8
  <2> QED BY <2>3, <2>4
<1> HIDE DEF next
<1> QED BY <1>1, <1>2 DEF Willed, Batched

-----------------------------------------------------------------------------
(***************************************************************************)
(* The moves of the Command Processor: its next state is d, without what   *)
(* it sends, and it took t.                                                *)
(***************************************************************************)

Takes(t) ==
  /\ t \in Transaction
  /\ t # None => /\ Drains(Now) = "none" /\ Now.fetch /\ ~Now.traceEnd
                 /\ t.kind \in AllKinds /\ t.kind \in Kinds[cp.pipelined]
                 /\ fetched < MaxTransactions /\ (t.kind = "reset" => fetched = 0)

Phased(c, d) ==
  \/ d = c
  \/ Now.status = "drawing" /\ EndsGeometry(c, d)
  \/ Now.status = "endGeometry" /\ EndsFragment(c, d)
Move(d, t) ==
  \/ Now.status \in {"ready", "drawing", "endGeometry"} /\ \E e \in CPState : Turns(Now, e, t) /\ Phased(e, d)
  \/ t = None /\ Now.status = "endFragment" /\ Finishes(Now, d)
  \/ t = None /\ Now.status = "reset" /\ Restarted(Now, d)
  \/ t = None /\ Now.status \in Memories /\ (d = Now \/ (But(Now, d, {"status", "hw"}) /\ d.status = Now.stack))
  \/ t = None /\ Now.status = "exclusive" /\ Exclusively(Now, d)
Loads(d) ==
  Now.status \in Memories /\ d.status = Now.stack /\ d # Now =>
    /\ \A p \in Phases : d.hw[p] = Now.hw[p]
    /\ d.hw.vertex = IF Now.status = "memoryRead" /\ Now.last.kind = "loadVertex"
                     THEN Now.hw.geom ELSE Now.hw.vertex

LEMMA GivenIs ==
  ASSUME Limits, NEW t \in Given
  PROVE  Takes(t)
<1>1. CASE Fetches(cp) /\ ~cp.traceEnd
  <2>1. t \in Transactions
    BY <1>1 DEF Given
  <2>2. But(cp, Now, {"drawDelay"})
    BY NowIs
  <2>3. Drains(Now) = "none" /\ Now.fetch /\ ~Now.traceEnd
    BY <1>1, <2>2 DEF Fetches, Drains, BetweenGeometry, But, Fields
  <2> QED BY <2>1, <2>3, TransactionsAre DEF Takes
<1>2. CASE ~(Fetches(cp) /\ ~cp.traceEnd)
  <2>1. t = None
    BY <1>2 DEF Given
  <2>2. None \in Transaction
    BY BoundAssumption DEF None, Transaction
  <2> QED BY <2>1, <2>2 DEF Takes
<1> QED BY <1>1, <1>2

LEMMA NextIs ==
  ASSUME Limits, Updated(cp), Course(cp, fetched), UnitsAccept => FlowOf(cp, Willed, Batched), Next
  PROVE  \E d \in CPState, t \in Transaction : Takes(t) /\ Move(d, t) /\ Loads(d) /\ Becomes(d, t)
<1>0. /\ Now \in CPState /\ But(cp, Now, {"drawDelay"}) /\ Silent(Now)
      /\ cp \in CPState
  BY NowIs DEF Limits
<1>1. /\ Updated(Now) /\ Now.status = cp.status /\ Now.stack = cp.stack /\ Now.last = cp.last
      /\ Now.hw = cp.hw
  BY <1>0 DEF Updated, But, Fields
<1>2. None \in Transaction /\ Takes(None)
  BY BoundAssumption DEF None, Transaction, Takes
<1>3. CASE Ready
  <2>1. PICK t \in Given : Becomes(Transact(Now, t), t)
    BY <1>3 DEF Ready
  <2>2. Takes(t)
    BY <2>1, GivenIs
  <2>3. Transact(Now, t) \in CPState /\ Turns(Now, Transact(Now, t), t) /\ t \in Transaction
    BY <1>0, <1>1, <2>2, TransactIs DEF Takes
  <2>4. Move(Transact(Now, t), t) /\ Loads(Transact(Now, t))
    BY <1>1, <1>3, <2>3 DEF Ready, Move, Phased, Loads, Memories
  <2> QED BY <2>1, <2>2, <2>3, <2>4
<1>4. CASE Drawing
  <2>1. PICK t \in Given : Becomes(EndGeometry(FetchAndProcess(Now, t)), t)
    BY <1>4 DEF Drawing
  <2> DEFINE e == FetchAndProcess(Now, t)
             d == EndGeometry(e)
  <2>2. Takes(t)
    BY <2>1, GivenIs
  <2>3. Drains(Now) = "none" /\ Now.status = "drawing"
    BY <1>1, <1>4 DEF Drawing, Drains, BetweenGeometry
  <2>4. e \in CPState /\ Turns(Now, e, t) /\ t \in Transaction
    BY <1>0, <1>1, <2>2, <2>3, FetchAndProcessIs DEF Takes
  <2> HIDE DEF e
  <2>5. d \in CPState /\ Phased(e, d)
    BY <2>3, <2>4, EndGeometryIs DEF Phased
  <2>6. Move(d, t) /\ Loads(d)
    BY <2>3, <2>4, <2>5 DEF Move, Loads, Memories
  <2> QED BY <2>1, <2>2, <2>4, <2>5, <2>6 DEF e
<1>5. CASE EndGeometryState
  <2>1. PICK t \in Given : Becomes(EndFragment(Transact(Now, t)), t)
    BY <1>5 DEF EndGeometryState
  <2> DEFINE e == Transact(Now, t)
             d == EndFragment(e)
  <2>2. Takes(t)
    BY <2>1, GivenIs
  <2>3. Now.status = "endGeometry"
    BY <1>1, <1>5 DEF EndGeometryState
  <2>4. e \in CPState /\ Turns(Now, e, t) /\ t \in Transaction
    BY <1>0, <1>1, <2>2, TransactIs DEF Takes
  <2> HIDE DEF e
  <2>5. d \in CPState /\ Phased(e, d)
    BY <2>3, <2>4, EndFragmentIs DEF Phased
  <2>6. Move(d, t) /\ Loads(d)
    BY <2>3, <2>4, <2>5 DEF Move, Loads, Memories
  <2> QED BY <2>1, <2>2, <2>4, <2>5, <2>6 DEF e
<1>6. CASE EndFragmentState
  <2>1. Now.status = "endFragment" /\ Becomes(AfterBatch(Now), None)
    BY <1>1, <1>6 DEF EndFragmentState
  <2>2. AfterBatch(Now) \in CPState /\ Finishes(Now, AfterBatch(Now))
    BY <1>0, <1>1, AfterBatchIs
  <2>3. Move(AfterBatch(Now), None) /\ Loads(AfterBatch(Now))
    BY <2>1, <2>2 DEF Move, Loads, Memories
  <2> QED BY <1>2, <2>1, <2>2, <2>3
<1>7. CASE ResetState
  <2>1. Now.status = "reset" /\ Becomes(Restart(Now), None)
    BY <1>1, <1>7 DEF ResetState
  <2>2. Restart(Now) \in CPState /\ Restarted(Now, Restart(Now))
    BY <1>0, RestartIs
  <2>3. Move(Restart(Now), None) /\ Loads(Restart(Now))
    BY <2>1, <2>2 DEF Move, Loads, Memories
  <2> QED BY <1>2, <2>1, <2>2, <2>3
<1>8. CASE MemoryPreload \/ MemoryWritten
  <2> DEFINE d == Enter(Now, Now.stack)
  <2>1. /\ Now.status \in {"memoryPreload", "memoryWrite"} /\ Becomes(d, None)
    BY <1>1, <1>8 DEF MemoryPreload, MemoryWritten
  <2>a. Now.stack \in Statuses
    BY <1>0 DEF CPState
  <2>2. d \in CPState /\ But(Now, d, {"status"}) /\ d.status = Now.stack
    BY <1>0, <2>a, EnterIs
  <2> HIDE DEF d
  <2>3. But(Now, d, {"status", "hw"}) /\ d.hw = Now.hw
    BY <2>2 DEF But, Fields
  <2>4. Move(d, None) /\ Loads(d)
    BY <2>1, <2>2, <2>3 DEF Move, Loads, Memories
  <2> QED BY <1>2, <2>1, <2>2, <2>4
<1>9. CASE MemoryBusy
  <2>1. Now.status \in Memories /\ Becomes(Now, None)
    BY <1>1, <1>9 DEF MemoryBusy, Memories
  <2>2. Move(Now, None) /\ Loads(Now)
    BY <2>1 DEF Move, Loads
  <2> QED BY <1>0, <1>2, <2>1, <2>2
<1>10. CASE MemoryRead
  <2>1. Now.status = "memoryRead" /\ Becomes(Loaded(Now), None)
    BY <1>1, <1>10 DEF MemoryRead
  <2>2. /\ Loaded(Now) \in CPState /\ But(Now, Loaded(Now), {"status", "hw"}) /\ Loaded(Now).status = Now.stack
        /\ \A p \in Phases : Loaded(Now).hw[p] = Now.hw[p]
        /\ Loaded(Now).hw.vertex = IF Now.last.kind = "loadVertex" THEN Now.hw.geom ELSE Now.hw.vertex
    BY <1>0, LoadedIs
  <2>3. Move(Loaded(Now), None) /\ Loads(Loaded(Now))
    BY <2>1, <2>2 DEF Move, Loads, Memories
  <2> QED BY <1>2, <2>1, <2>2, <2>3
<1>11. CASE ExclusiveState
  <2>1. Now.status = "exclusive" /\ Becomes(ExclusiveCycle(Now), None) /\ UnitsAccept
    BY <1>1, <1>11 DEF ExclusiveState, Becomes
  <2>2. Now.last.kind \in ExclusiveKinds
    BY <1>1, <2>1 DEF FlowOf, AtWork, Home, Memories
  <2>3. ExclusiveCycle(Now) \in CPState /\ Exclusively(Now, ExclusiveCycle(Now))
    BY <1>0, <2>2, ExclusiveCycleIs
  <2>4. Move(ExclusiveCycle(Now), None) /\ Loads(ExclusiveCycle(Now))
    BY <2>1, <2>3 DEF Move, Loads, Memories
  <2> QED BY <1>2, <2>1, <2>3, <2>4
<1> QED BY <1>3, <1>4, <1>5, <1>6, <1>7, <1>8, <1>9, <1>10, <1>11 DEF Next

-----------------------------------------------------------------------------
(* Each move keeps the flow and the course.                                *)

Taking(t) == IF t = None THEN fetched ELSE fetched + 1

\* f processes in this cycle what was taken, or what was held.
Tries(f, t) ==
  /\ Fetched(Now, f, t) /\ Silent(f) /\ Course(f, Taking(t)) /\ Taking(t) \in Nat \ {0}
  /\ f.status = Now.status /\ f.pipelined = Now.pipelined /\ f.geometryStarted = Now.geometryStarted
  /\ f.drawDelay = Now.drawDelay /\ Drains(f) = "none"
  /\ f.status \in Stacked /\ ~f.loading /\ (f.status = "ready" \/ f.pipelined)
  /\ f.last = (IF t = None THEN Now.last ELSE t) /\ (t = None => ~Now.fetch)
  /\ f.last.kind = "reset" => f.status = "ready"

LEMMA TurnIs ==
  ASSUME Limits, Course(Now, fetched), NEW t, Takes(t), NEW e \in CPState, Turns(Now, e, t),
         Now.status \in {"ready", "drawing", "endGeometry"}
  PROVE  \/ t = None /\ \E p \in Phases : Drained(Now, e, p)
         \/ t = None /\ Fetched(Now, e, t) /\ e.last = Now.last
         \/ \E f \in CPState : Tries(f, t) /\ Processes(f, e)
<1>0. /\ Now \in CPState /\ But(cp, Now, {"drawDelay"}) /\ fetched \in Nat /\ t \in Transaction
      /\ t # None => Now.fetch /\ (t.kind = "reset" => fetched = 0)
  BY NowIs DEF Limits, Takes
<1>1. Home(Now) = Now.status /\ Now.status \in Stacked
  BY DEF Home, Memories, Stacked
<1>2. CASE t = None /\ \E p \in Phases : Drained(Now, e, p)
  BY <1>2
<1>3. CASE Fetched(Now, e, t) /\ (t # None => ~Now.pipelined /\ Now.status # "ready")
  <2>1. t = None
    BY <1>0, <1>1, <1>3 DEF Course
  <2> QED BY <1>3, <2>1 DEF Fetched
<1>4. CASE /\ Now.status = "ready" \/ Now.pipelined
           /\ Drains(Now) = "none" /\ (Now.fetch => t # None)
           /\ \E f \in CPState : Fetched(Now, f, t) /\ Silent(f) /\ Processes(f, e)
  <2>1. PICK f \in CPState : Fetched(Now, f, t) /\ Silent(f) /\ Processes(f, e)
    BY <1>4
  <2>2. Course(f, Taking(t))
    BY <1>0, <1>1, <2>1, FetchedCourse DEF Taking
  <2>3. /\ f.status = Now.status /\ f.pipelined = Now.pipelined /\ f.geometryStarted = Now.geometryStarted
        /\ f.drawDelay = Now.drawDelay /\ f.loading = Now.loading
        /\ f.last = (IF t = None THEN Now.last ELSE t)
    BY <1>0, <2>1 DEF Fetched, But, Fields
  <2>4. ~f.loading
    BY <1>1, <2>3 DEF Course
  <2>5. Taking(t) \in Nat \ {0}
    <3>1. CASE t = None
      <4>1. fetched # 0
        BY <1>4, <3>1 DEF Course
      <4> QED BY <1>0, <3>1, <4>1 DEF Taking
    <3>2. CASE t # None
      BY <1>0, <3>2 DEF Taking
    <3> QED BY <3>1, <3>2
  <2>6. f.last.kind = "reset" => f.status = "ready"
    <3>1. CASE t = None
      BY <1>4, <2>3, <3>1 DEF Course
    <3>2. CASE t # None
      BY <1>0, <2>3, <3>2 DEF Course
    <3> QED BY <3>1, <3>2
  <2>7. Drains(f) = "none"
    <3>1. f.updates = Now.updates
      BY <2>1 DEF Fetched, But, Fields
    <3> QED BY <1>4, <2>3, <3>1 DEF Drains, BetweenGeometry
  <2>8. Tries(f, t)
    BY <1>1, <1>4, <2>1, <2>2, <2>3, <2>4, <2>5, <2>6, <2>7 DEF Tries
  <2> QED BY <2>1, <2>8
<1> QED BY <1>2, <1>3, <1>4 DEF Turns

LEMMA TurnFlow ==
  ASSUME Limits, Course(Now, fetched), NEW t, Takes(t), NEW e \in CPState, Turns(Now, e, t),
         Now.status \in {"ready", "drawing", "endGeometry"}, FlowOf(Now, Willed, Batched),
         Now.status = "endGeometry" /\ DrawAllowed(Now) => ~Now.geometryStarted,
         \A u \in Units : Batched[u] \in Nat
  PROVE  FlowOf(e, After(e, Willed), Counted(e, Batched))
<1>0. Now \in CPState /\ Silent(Now) /\ Home(Now) # "exclusive"
  BY NowIs DEF Home, Memories
<1>1. CASE (\E p \in Phases : Drained(Now, e, p)) \/ Fetched(Now, e, t)
  BY <1>0, <1>1, TakingFlow
<1>2. CASE \E f \in CPState : Tries(f, t) /\ Processes(f, e)
  <2>1. PICK f \in CPState : Tries(f, t) /\ Processes(f, e)
    BY <1>2
  <2>2. /\ Silent(f) /\ Fetched(Now, f, t) /\ f.status \notin Memories \cup {"exclusive"}
        /\ f.last.kind = "reset" => f.status \in {"reset", "ready"}
        /\ f.status = "endGeometry" /\ DrawAllowed(f) => ~f.geometryStarted
    BY <2>1 DEF Tries, Stacked, Memories, DrawAllowed
  <2>3. FlowOf(f, After(f, Willed), Counted(f, Batched))
    BY <1>0, <2>2, TakingFlow
  <2>4. \A u \in Units : After(f, Willed)[u] = Willed[u] /\ Counted(f, Batched)[u] = Batched[u]
    BY <2>2, SilentAfter
  <2>5. FlowOf(f, Willed, Batched)
    <3>1. Home(f) = Home(f)
      OBVIOUS
    <3> QED BY <2>3, <2>4, FlowSame
  <2> QED BY <2>1, <2>2, <2>5, ProcessFlow
<1> QED BY <1>1, <1>2, TurnIs

LEMMA TurnCourse ==
  ASSUME Limits, Course(Now, fetched), NEW t, Takes(t), NEW e \in CPState, Turns(Now, e, t),
         Now.status \in {"ready", "drawing", "endGeometry"}
  PROVE  Course(e, Taking(t)) /\ e.pipelined = Now.pipelined
<1>0. Now \in CPState /\ fetched \in Nat /\ t \in Transaction /\ Now.status \in Stacked
  BY NowIs DEF Limits, Takes, Stacked
<1>1. CASE t = None /\ \E p \in Phases : Drained(Now, e, p)
  BY <1>0, <1>1, DrainedCourse DEF Taking
<1>2. CASE t = None /\ Fetched(Now, e, t)
  <2>1. Course(e, Taking(t))
    BY <1>0, <1>2, FetchedCourse DEF Taking
  <2>2. e.pipelined = Now.pipelined
    BY <1>2 DEF Fetched, But, Fields
  <2> QED BY <2>1, <2>2
<1>3. CASE \E f \in CPState : Tries(f, t) /\ Processes(f, e)
  <2>1. PICK f \in CPState : Tries(f, t) /\ Processes(f, e)
    BY <1>3
  <2>2. /\ Course(f, Taking(t)) /\ Taking(t) \in Nat /\ Taking(t) # 0 /\ f.status \in Stacked
        /\ f.status = "ready" \/ f.pipelined
        /\ f.last.kind = "reset" => f.status = "ready"
        /\ f.pipelined = Now.pipelined
    BY <2>1 DEF Tries
  <2> QED BY <2>1, <2>2, ProcessCourse
<1> QED BY <1>1, <1>2, <1>3, TurnIs

LEMMA MoveCourse ==
  ASSUME Limits, Course(Now, fetched), NEW t, Takes(t), NEW d \in CPState, Move(d, t)
  PROVE  Course(d, Taking(t)) /\ d.pipelined = Now.pipelined
<1>0. Now \in CPState /\ fetched \in Nat /\ t \in Transaction
  BY NowIs DEF Limits, Takes
<1>t. Taking(t) \in Nat /\ (t = None => Taking(t) = fetched)
  BY <1>0 DEF Taking
<1>1. CASE /\ Now.status \in {"ready", "drawing", "endGeometry"}
           /\ \E e \in CPState : Turns(Now, e, t) /\ Phased(e, d)
  <2>1. PICK e \in CPState : Turns(Now, e, t) /\ Phased(e, d)
    BY <1>1
  <2>2. Course(e, Taking(t)) /\ e.pipelined = Now.pipelined
    BY <1>1, <2>1, TurnCourse
  <2>3. CASE d = e
    BY <2>2, <2>3
  <2>4. CASE EndsGeometry(e, d) \/ EndsFragment(e, d)
    BY <1>t, <2>2, <2>4, EndsCourse
  <2> QED BY <2>1, <2>3, <2>4 DEF Phased
<1>2. CASE t = None /\ Now.status = "endFragment" /\ Finishes(Now, d)
  <2>1. CASE \E p \in Phases : Drained(Now, d, p)
    BY <1>0, <1>t, <1>2, <2>1, DrainedCourse
  <2>2. CASE GivesBack(Now, d) \/ (~Now.stored /\ (DrawsBatch(Now, d) \/ Settles(Now, d)))
    BY <1>0, <1>t, <1>2, <2>2, EndsCourse
  <2>3. CASE \E f \in CPState : PutsOff(Now, f) /\ Silent(f) /\ Processes(f, d)
    <3>1. PICK f \in CPState : PutsOff(Now, f) /\ Silent(f) /\ Processes(f, d)
      BY <2>3
    <3>2. Course(f, fetched) /\ f.pipelined /\ f.pipelined = Now.pipelined /\ f.status = Now.status
      BY <1>0, <1>2, <3>1, PutsOffCourse
    <3>3. fetched # 0 /\ f.status \in Stacked /\ f.last.kind = "loadFragment"
      BY <1>2, <3>1, <3>2 DEF Course, Stacked, PutsOff
    <3> QED BY <1>0, <1>t, <1>2, <3>1, <3>2, <3>3, ProcessCourse
  <2> QED BY <1>2, <2>1, <2>2, <2>3 DEF Finishes
<1>3. CASE t = None /\ Now.status = "reset" /\ Restarted(Now, d)
  BY <1>0, <1>t, <1>3, ReturnsCourse
<1>4. CASE t = None /\ Now.status \in Memories /\ (d = Now \/ (But(Now, d, {"status", "hw"}) /\ d.status = Now.stack))
  BY <1>0, <1>t, <1>4, ReturnsCourse
<1>5. CASE t = None /\ Now.status = "exclusive" /\ Exclusively(Now, d)
  BY <1>0, <1>t, <1>5, ReturnsCourse
<1> QED BY <1>1, <1>2, <1>3, <1>4, <1>5 DEF Move

\* A phase ends in a cycle that has sent nothing to its units.
LEMMA DrawingSilent ==
  ASSUME Limits, Course(Now, fetched), NEW t, Takes(t), NEW e \in CPState, Turns(Now, e, t),
         Now.status = "drawing", e.status = "drawing"
  PROVE  Silent(e)
<1>0. Now \in CPState /\ Silent(Now)
  BY NowIs
<1>1. CASE \E p \in Phases : Drained(Now, e, p)
  BY <1>1 DEF Drained, Drains, BetweenGeometry, Phases
<1>2. CASE Fetched(Now, e, t)
  BY <1>0, <1>2 DEF Fetched, But, Fields, Silent
<1>3. CASE \E f \in CPState : Tries(f, t) /\ Processes(f, e)
  <2>1. PICK f \in CPState : Tries(f, t) /\ Processes(f, e)
    BY <1>3
  <2>2. Silent(f) /\ f.status = "drawing"
    BY <2>1 DEF Tries
  <2>3. ~Transfers(f, e) /\ ~Writes(f, e) /\ ~Draws(f, e) /\ ~Begins(f, e) /\ ~Restarts(f, e)
    BY <2>2 DEF Transfers, Memories, Writes, Buffered, Draws, DrawAllowed, Begins, Restarts
  <2>4. Holds(f, e) \/ Skips(f, e) \/ Keeps(f, e)
    BY <2>1, <2>3 DEF Processes
  <2>5. e.out = f.out
    BY <2>4 DEF Holds, Skips, Keeps, But, Fields
  <2> QED BY <2>2, <2>5 DEF Silent
<1> QED BY <1>1, <1>2, <1>3, TurnIs

LEMMA MoveFlow ==
  ASSUME Limits, Course(Now, fetched), NEW t, Takes(t), NEW d \in CPState, Move(d, t),
         FlowOf(Now, Willed, Batched), \A u \in Units : Batched[u] \in Nat,
         Now.status = "endGeometry" /\ DrawAllowed(Now) => ~Now.geometryStarted,
         Now.status = "exclusive" /\ Displayed(Now.last.kind) /\ ~Now.workEnd => unit["dac"].state # "end",
         d.status = "endFragment" => \A u \in Units : Len(d.out[u]) <= 1
  PROVE  FlowOf(d, After(d, Willed), Counted(d, Batched))
<1>0. Now \in CPState /\ Silent(Now)
  BY NowIs
<1>1. CASE /\ Now.status \in {"ready", "drawing", "endGeometry"}
           /\ \E e \in CPState : Turns(Now, e, t) /\ Phased(e, d)
  <2>1. PICK e \in CPState : Turns(Now, e, t) /\ Phased(e, d)
    BY <1>1
  <2>2. FlowOf(e, After(e, Willed), Counted(e, Batched))
    BY <1>1, <2>1, TurnFlow
  <2>3. CASE d = e
    BY <2>2, <2>3
  <2>4. CASE Now.status = "drawing" /\ EndsGeometry(e, d)
    <3>1. e.status = "drawing"
      BY <2>4 DEF EndsGeometry
    <3>2. Silent(e)
      BY <2>1, <2>4, <3>1, DrawingSilent
    <3>3. \A u \in Units : After(e, Willed)[u] = Willed[u] /\ Counted(e, Batched)[u] = Batched[u]
      BY <3>2, SilentAfter
    <3>4. FlowOf(e, Willed, Batched)
      <4>1. Home(e) = Home(e)
        OBVIOUS
      <4> QED BY <2>2, <3>3, FlowSame
    <3> QED BY <2>4, <3>2, <3>4, EndsGeometryFlow
  <2>5. CASE Now.status = "endGeometry" /\ EndsFragment(e, d)
    <3>1. d.status = "endFragment"
      BY <2>5 DEF EndsFragment
    <3> QED BY <2>2, <2>5, <3>1, EndsFragmentFlow
  <2> QED BY <2>1, <2>3, <2>4, <2>5 DEF Phased
<1>2. CASE t = None /\ Now.status = "endFragment" /\ Finishes(Now, d)
  <2>0. Home(Now) # "exclusive"
    BY <1>2 DEF Home, Memories
  <2>1. CASE (\E p \in Phases : Drained(Now, d, p)) \/ GivesBack(Now, d)
    BY <1>0, <2>0, <2>1, TakingFlow
  <2>2. CASE DrawsBatch(Now, d) \/ Settles(Now, d)
    BY <1>0, <1>2, <2>2, NextBatchFlow
  <2>3. CASE \E f \in CPState : PutsOff(Now, f) /\ Silent(f) /\ Processes(f, d)
    <3>1. PICK f \in CPState : PutsOff(Now, f) /\ Silent(f) /\ Processes(f, d)
      BY <2>3
    <3>2. FlowOf(f, After(f, Willed), Counted(f, Batched))
      BY <1>0, <2>0, <3>1, TakingFlow
    <3>3. \A u \in Units : After(f, Willed)[u] = Willed[u] /\ Counted(f, Batched)[u] = Batched[u]
      BY <3>1, SilentAfter
    <3>4. FlowOf(f, Willed, Batched)
      <4>1. Home(f) = Home(f)
        OBVIOUS
      <4> QED BY <3>2, <3>3, FlowSame
    <3>5. f.status = "endFragment" /\ f.last.kind = "loadFragment"
      BY <1>2, <3>1 DEF PutsOff, But, Fields
    <3>6. f.status \notin Memories \cup {"exclusive"}
      BY <3>5 DEF Memories
    <3> QED BY <3>1, <3>4, <3>5, <3>6, ProcessFlow
  <2> QED BY <1>2, <2>1, <2>2, <2>3 DEF Finishes
<1>3. CASE t = None /\ Now.status = "reset" /\ Restarted(Now, d)
  BY <1>0, <1>3, RestartedFlow
<1>4. CASE t = None /\ Now.status \in Memories /\ (d = Now \/ (But(Now, d, {"status", "hw"}) /\ d.status = Now.stack))
  <2>1. CASE d = Now
    BY <1>0, <2>1, QuietFlow
  <2>2. CASE But(Now, d, {"status", "hw"}) /\ d.status = Now.stack
    <3>1. Now.stack \notin Memories
      BY <1>4 DEF Course, Stacked, Memories
    <3> QED BY <1>0, <1>4, <2>2, <3>1, ReturnsFlow
  <2> QED BY <1>4, <2>1, <2>2
<1>5. CASE t = None /\ Now.status = "exclusive" /\ Exclusively(Now, d)
  BY <1>0, <1>5, ExclusivelyFlow
<1> QED BY <1>1, <1>2, <1>3, <1>4, <1>5 DEF Move

-----------------------------------------------------------------------------
(* What is sent, and how many batches are drawn.                           *)

\* Only a reset sends "reset", and only a new batch sends "draw" to the
\* streamer; q is what c sends.
Sound(c, q) ==
  \A u \in Units :
    q[u] # <<>> => /\ Head(q[u]) = "reset" => c.status = "reset"
                   /\ u = "streamer" /\ Head(q[u]) = "draw" => c.drawDelay = ConsecutiveDrawDelay

LEMMA SendsSound ==
  ASSUME NEW d, Silent(d) \/ \E us, k : Sends(d, us, k) /\ k \notin {"draw", "reset"}
  PROVE  Sound(d, d.out)
<1>1. \A k : <<k>> # <<>> /\ Head(<<k>>) = k
  OBVIOUS
<1>2. CASE Silent(d)
  BY <1>2 DEF Silent, Sound
<1>3. CASE \E us, k : Sends(d, us, k) /\ k \notin {"draw", "reset"}
  <2>1. PICK us, k : Sends(d, us, k) /\ k \notin {"draw", "reset"}
    BY <1>3
  <2>2. \A u \in Units : d.out[u] # <<>> => Head(d.out[u]) = k
    BY <1>1, <2>1 DEF Sends
  <2> QED BY <2>1, <2>2 DEF Sound
<1> QED BY <1>2, <1>3

LEMMA ProcessSound ==
  ASSUME NEW c \in CPState, NEW d \in CPState, Silent(c), Processes(c, d)
  PROVE  Sound(d, d.out)
<1>0. \A k : <<k>> # <<>> /\ Head(<<k>>) = k
  OBVIOUS
<1>1. CASE Holds(c, d) \/ Skips(c, d) \/ Keeps(c, d) \/ Transfers(c, d)
  <2>1. Silent(d)
    BY <1>1 DEF Holds, Skips, Keeps, Transfers, But, Fields, Silent
  <2> QED BY <2>1, SendsSound
<1>2. CASE Writes(c, d)
  <2>1. \E us, k : Sends(d, us, k) /\ k \notin {"draw", "reset"}
    BY <1>2 DEF Writes
  <2> QED BY <2>1, SendsSound
<1>3. CASE Begins(c, d)
  <2>1. \E us, k : Sends(d, us, k) /\ k \notin {"draw", "reset"}
    BY <1>3 DEF Begins
  <2> QED BY <2>1, SendsSound
<1>4. CASE Draws(c, d)
  <2>1. d.drawDelay = ConsecutiveDrawDelay /\ \E us : Sends(d, us, "draw")
    BY <1>4 DEF Draws
  <2>2. \A u \in Units : d.out[u] # <<>> => Head(d.out[u]) = "draw"
    BY <1>0, <2>1 DEF Sends
  <2> QED BY <2>1, <2>2 DEF Sound
<1>5. CASE Restarts(c, d)
  <2>1. d.status = "reset" /\ \E us : Sends(d, us, "reset")
    BY <1>5 DEF Restarts
  <2>2. \A u \in Units : d.out[u] # <<>> => Head(d.out[u]) = "reset"
    BY <1>0, <2>1 DEF Sends
  <2> QED BY <2>1, <2>2 DEF Sound
<1> QED BY <1>1, <1>2, <1>3, <1>4, <1>5 DEF Processes

LEMMA MoveSound ==
  ASSUME Limits, Course(Now, fetched), NEW t, Takes(t), NEW d \in CPState, Move(d, t),
         Now.status = "exclusive" /\ Displayed(Now.last.kind) /\ ~Now.workEnd => unit["dac"].state # "end"
  PROVE  Sound(d, d.out)
<1>0. Now \in CPState /\ Silent(Now)
  BY NowIs
<1>a. \A k : <<k>> # <<>> /\ Head(<<k>>) = k /\ Append(<<>>, k) = <<k>>
  OBVIOUS
<1>1. CASE /\ Now.status \in {"ready", "drawing", "endGeometry"}
           /\ \E e \in CPState : Turns(Now, e, t) /\ Phased(e, d)
  <2>1. PICK e \in CPState : Turns(Now, e, t) /\ Phased(e, d)
    BY <1>1
  <2>2. Sound(e, e.out)
    <3>1. CASE \E p \in Phases : Drained(Now, e, p)
      <4>1. \E us, k : Sends(e, us, k) /\ k \notin {"draw", "reset"}
        BY <3>1 DEF Drained
      <4> QED BY <4>1, SendsSound
    <3>2. CASE Fetched(Now, e, t)
      <4>1. Silent(e)
        BY <1>0, <3>2 DEF Fetched, But, Fields, Silent
      <4> QED BY <4>1, SendsSound
    <3>3. CASE \E f \in CPState : Tries(f, t) /\ Processes(f, e)
      BY <3>3, ProcessSound DEF Tries
    <3> QED BY <1>1, <2>1, <3>1, <3>2, <3>3, TurnIs
  <2>3. CASE d = e
    BY <2>2, <2>3
  <2>4. CASE Now.status = "drawing" /\ EndsGeometry(e, d)
    <3>1. Silent(e)
      BY <2>1, <2>4, DrawingSilent DEF EndsGeometry
    <3>2. Sends(d, Geometry, "end")
      BY <1>a, <2>4, <3>1 DEF EndsGeometry, Silent, Sends
    <3>3. \E us, k : Sends(d, us, k) /\ k \notin {"draw", "reset"}
      BY <3>2
    <3> QED BY <3>3, SendsSound
  <2>5. CASE Now.status = "endGeometry" /\ EndsFragment(e, d)
    <3>1. /\ e.status = "endGeometry" /\ But(e, d, {"status", "out"})
          /\ \A u \in Units : d.out[u] = IF u \in Fragment THEN Append(e.out[u], "end") ELSE e.out[u]
      BY <2>5 DEF EndsFragment
    <3>2. d.drawDelay = e.drawDelay /\ "streamer" \notin Fragment
      BY <3>1, UnitsAre DEF But, Fields
    <3> SUFFICES ASSUME NEW u \in Units, d.out[u] # <<>>
                 PROVE  /\ Head(d.out[u]) # "reset"
                        /\ u = "streamer" /\ Head(d.out[u]) = "draw" => d.drawDelay = ConsecutiveDrawDelay
      BY DEF Sound
    <3>3. CASE u \notin Fragment
      BY <2>2, <3>1, <3>2, <3>3 DEF Sound
    <3>4. CASE u \in Fragment
      <4>1. e.out[u] \in Seq(Commands) /\ d.out[u] = Append(e.out[u], "end")
        BY <3>1, <3>4 DEF CPState
      <4>2. Head(d.out[u]) = IF e.out[u] = <<>> THEN "end" ELSE Head(e.out[u])
        BY <4>1
      <4> QED BY <2>2, <3>1, <3>2, <3>4, <4>2 DEF Sound
    <3> QED BY <3>3, <3>4
  <2> QED BY <2>1, <2>3, <2>4, <2>5 DEF Phased
<1>2. CASE t = None /\ Now.status = "endFragment" /\ Finishes(Now, d)
  <2>1. CASE \E p \in Phases : Drained(Now, d, p)
    <3>1. \E us, k : Sends(d, us, k) /\ k \notin {"draw", "reset"}
      BY <2>1 DEF Drained
    <3> QED BY <3>1, SendsSound
  <2>2. CASE GivesBack(Now, d) \/ Settles(Now, d)
    <3>1. Silent(d)
      BY <1>0, <2>2 DEF GivesBack, Settles, But, Fields, Silent
    <3> QED BY <3>1, SendsSound
  <2>3. CASE DrawsBatch(Now, d)
    <3>1. Sends(d, Fragment, "draw")
      BY <2>3 DEF DrawsBatch
    <3>2. \A u \in Units : d.out[u] # <<>> => u # "streamer" /\ Head(d.out[u]) = "draw"
      BY <1>a, <3>1, UnitsAre DEF Sends
    <3> QED BY <3>2 DEF Sound
  <2>4. CASE \E f \in CPState : PutsOff(Now, f) /\ Silent(f) /\ Processes(f, d)
    BY <2>4, ProcessSound
  <2> QED BY <1>2, <2>1, <2>2, <2>3, <2>4 DEF Finishes
<1>3. CASE t = None /\ Now.status = "reset" /\ Restarted(Now, d)
  <2>1. Silent(d)
    BY <1>0, <1>3 DEF Restarted, But, Fields, Silent
  <2> QED BY <2>1, SendsSound
<1>4. CASE t = None /\ Now.status \in Memories /\ (d = Now \/ (But(Now, d, {"status", "hw"}) /\ d.status = Now.stack))
  <2>1. Silent(d)
    BY <1>0, <1>4 DEF But, Fields, Silent
  <2> QED BY <2>1, SendsSound
<1>5. CASE t = None /\ Now.status = "exclusive" /\ Exclusively(Now, d)
  <2>1. CASE d = Now
    BY <1>0, <2>1, SendsSound
  <2>2. CASE Ends(Now, d) \/ Flushes(Now, d)
    <3>1. Silent(d) \/ \E us, k : Sends(d, us, k) /\ k \notin {"draw", "reset"}
      BY <2>2 DEF Ends, Flushes
    <3> QED BY <3>1, SendsSound
  <2>3. CASE Displayed(Now.last.kind) /\ Displays(Now, d)
    <3> DEFINE w == Workers(Now.last.kind)
               ended == (\A u \in w : unit[u].state = "end") /\ ~Now.workEnd
    <3>1. CASE ~ended
      <4>1. Silent(d) \/ Sends(d, {"dac"}, "end")
        BY <2>3, <3>1 DEF Displays
      <4>2. Silent(d) \/ \E us, k : Sends(d, us, k) /\ k \notin {"draw", "reset"}
        BY <4>1
      <4> QED BY <4>2, SendsSound
    <3>2. CASE ended
      <4>1. \A u \in Units : d.out[u] = IF u = "dac" THEN <<"work">> ELSE IF u \in w THEN <<"end">> ELSE <<>>
        BY <1>5, <2>3, <3>2 DEF Displays
      <4> QED BY <1>a, <4>1 DEF Sound
    <3> QED BY <3>1, <3>2
  <2> QED BY <1>5, <2>1, <2>2, <2>3 DEF Exclusively
<1> QED BY <1>1, <1>2, <1>3, <1>4, <1>5 DEF Move

\* The transaction that is held, if any: a batch that is not overlapped holds
\* its DRAW when it has been executed.
Waiting(c) ==
  IF c.loading THEN IF c.backup.fetch THEN None ELSE c.backup.last
  ELSE IF c.fetch \/ (~c.pipelined /\ c.status # "ready") THEN None ELSE c.last
\* The transaction c is going to process, if it is not a stored load.
Pending(c) == IF c.loading THEN Waiting(c) ELSE c.last

CountOf(n, x, k) == n["streamer"] + (IF x.kind = "draw" THEN 1 ELSE 0) <= k

LEMMA WaitingSame ==
  ASSUME NEW c \in CPState, NEW d \in CPState, d.loading = c.loading, d.backup = c.backup, d.last = c.last,
         d.fetch = c.fetch, d.pipelined = c.pipelined,
         c.pipelined \/ (c.status = "ready" <=> d.status = "ready")
  PROVE  Waiting(d) = Waiting(c)
BY DEF Waiting

LEMMA ProcessWaits ==
  ASSUME NEW c \in CPState, NEW d \in CPState, Processes(c, d), c.status \in Stacked,
         c.status = "ready" \/ c.pipelined, c.loading => c.last.kind = "loadFragment"
  PROVE  /\ Waiting(d) \in {None, Pending(c)}
         /\ Holds(c, d) => Waiting(d) = Pending(c)
         /\ ~Holds(c, d) /\ c.loading => Waiting(d) = Pending(c)
         /\ ~Holds(c, d) /\ ~c.loading /\ (d.fetch \/ Draws(c, d)) => Waiting(d) = None
         /\ Draws(c, d) => ~c.loading /\ Waiting(d) = None
<1>1. d.loading = c.loading /\ d.backup = c.backup /\ d.last = c.last /\ d.pipelined = c.pipelined
  <2>1. CASE Holds(c, d) \/ Skips(c, d) \/ Keeps(c, d) \/ Transfers(c, d)
    BY <2>1 DEF Holds, Skips, Keeps, Transfers, But, Fields
  <2>2. CASE Writes(c, d) \/ Draws(c, d) \/ Begins(c, d) \/ Restarts(c, d)
    BY <2>2 DEF Writes, Draws, Begins, Restarts, But, Fields
  <2> QED BY <2>1, <2>2 DEF Processes
<1>2. Holds(c, d) => ~d.fetch /\ d.status = c.status
  BY DEF Holds, But, Fields
<1>3. Draws(c, d) => c.last.kind = "draw" /\ d.fetch = c.pipelined /\ d.status # "ready"
  BY DEF Draws
<1> QED BY <1>1, <1>2, <1>3 DEF Waiting, Pending

LEMMA ProcessCount ==
  ASSUME NEW c \in CPState, NEW d \in CPState, Silent(c), Processes(c, d), c.status \in Stacked,
         c.status = "ready" \/ c.pipelined, c.loading => c.last.kind = "loadFragment",
         NEW n, \A u \in Units : n[u] \in Nat, NEW k \in Nat, CountOf(n, Pending(c), k)
  PROVE  CountOf(Counted(d, n), Waiting(d), k)
<1>0. "streamer" \in Units /\ "streamer" \in Geometry
  BY UnitsAre
<1>1. CASE Draws(c, d)
  <2>1. Pending(c).kind = "draw" /\ Waiting(d) = None
    BY <1>1, ProcessWaits DEF Pending, Draws
  <2>2. \E us : Sends(d, us, "draw") /\ "streamer" \in us
    BY <1>0, <1>1 DEF Draws
  <2>3. Counted(d, n)["streamer"] = n["streamer"] + 1
    BY <1>0, <2>2, SendsDraw
  <2> QED BY <1>0, <2>1, <2>3 DEF CountOf, None
<1>2. CASE ~Draws(c, d)
  <2>1. Counted(d, n)["streamer"] = n["streamer"]
    <3>1. CASE Holds(c, d) \/ Skips(c, d) \/ Keeps(c, d) \/ Transfers(c, d)
      <4>1. Silent(d)
        BY <3>1 DEF Holds, Skips, Keeps, Transfers, But, Fields, Silent
      <4> QED BY <1>0, <4>1, SilentAfter
    <3>2. CASE Writes(c, d)
      BY <1>0, <3>2, SendsReg DEF Writes
    <3>3. CASE Begins(c, d)
      BY <1>0, <3>3, SendsWork DEF Begins
    <3>4. CASE Restarts(c, d)
      BY <1>0, <3>4, SendsReset DEF Restarts
    <3> QED BY <1>2, <3>1, <3>2, <3>3, <3>4 DEF Processes
  <2>2. Waiting(d) \in {None, Pending(c)}
    BY ProcessWaits
  <2> QED BY <1>0, <2>1, <2>2 DEF CountOf, None
<1> QED BY <1>1, <1>2

LEMMA MoveCount ==
  ASSUME Limits, Course(Now, fetched), NEW t, Takes(t), NEW d \in CPState, Move(d, t),
         FlowOf(Now, Willed, Batched), \A u \in Units : Batched[u] \in Nat,
         Now.status = "exclusive" /\ Displayed(Now.last.kind) /\ ~Now.workEnd => unit["dac"].state # "end",
         CountOf(Batched, Waiting(Now), fetched)
  PROVE  CountOf(Counted(d, Batched), Waiting(d), Taking(t))
<1>0. /\ Now \in CPState /\ Silent(Now) /\ fetched \in Nat /\ t \in Transaction
      /\ "streamer" \in Units /\ "streamer" \in Geometry /\ "streamer" \notin Fragment
      /\ "streamer" # "dac" /\ Batched["streamer"] \in Nat
  BY NowIs, UnitsAre DEF Limits, Takes
<1>a. Taking(t) \in Nat /\ (t = None => Taking(t) = fetched)
  BY <1>0 DEF Taking
<1>b. \A u, k : <<k>> # <<>> /\ Head(<<k>>) = k /\ Append(<<>>, k) = <<k>>
  OBVIOUS
<1>1. CASE /\ Now.status \in {"ready", "drawing", "endGeometry"}
           /\ \E e \in CPState : Turns(Now, e, t) /\ Phased(e, d)
  <2>1. PICK e \in CPState : Turns(Now, e, t) /\ Phased(e, d)
    BY <1>1
  <2>2. CountOf(Counted(e, Batched), Waiting(e), Taking(t))
    <3>1. CASE t = None /\ \E p \in Phases : Drained(Now, e, p)
      <4>1. \E us : Sends(e, us, "reg")
        BY <3>1 DEF Drained
      <4>2. Counted(e, Batched)["streamer"] = Batched["streamer"]
        BY <1>0, <4>1, SendsReg
      <4>3. Waiting(e) = Waiting(Now)
        BY <1>0, <3>1, WaitingSame DEF Drained, But, Fields
      <4> QED BY <1>a, <3>1, <4>2, <4>3
             DEF CountOf
    <3>2. CASE t = None /\ Fetched(Now, e, t) /\ e.last = Now.last
      <4>1. Silent(e)
        BY <1>0, <3>2 DEF Fetched, But, Fields, Silent
      <4>2. Counted(e, Batched)["streamer"] = Batched["streamer"]
        BY <1>0, <4>1, SilentAfter
      <4>3. Waiting(e) = Waiting(Now)
        BY <1>0, <3>2, WaitingSame DEF Fetched, But, Fields
      <4> QED BY <1>a, <3>2, <4>2, <4>3 DEF CountOf
    <3>3. CASE \E f \in CPState : Tries(f, t) /\ Processes(f, e)
      <4>1. PICK f \in CPState : Tries(f, t) /\ Processes(f, e)
        BY <3>3
      <4>2. CountOf(Batched, Pending(f), Taking(t))
        <5>0. /\ ~f.loading /\ f.last = (IF t = None THEN Now.last ELSE t) /\ (t = None => ~Now.fetch)
              /\ (f.status = "ready" \/ f.pipelined) /\ f.status = Now.status /\ f.pipelined = Now.pipelined
              /\ f.loading = Now.loading
          BY <4>1 DEF Tries, Fetched, But, Fields
        <5>1. CASE t = None
          <6>1. Pending(f) = Waiting(Now)
            BY <5>0, <5>1 DEF Pending, Waiting
          <6> QED BY <1>a, <5>1, <6>1
        <5>2. CASE t # None
          <6>1. Batched["streamer"] <= fetched
            BY <1>0 DEF CountOf
          <6>2. Taking(t) = fetched + 1
            BY <5>2 DEF Taking
          <6> QED BY <1>0, <6>1, <6>2 DEF CountOf
        <5> QED BY <5>1, <5>2
      <4> QED BY <1>a, <4>1, <4>2, ProcessCount DEF Tries
    <3> QED BY <1>1, <2>1, <3>1, <3>2, <3>3, TurnIs
  <2>3. CASE d = e
    BY <2>2, <2>3
  <2>4. CASE Now.status = "drawing" /\ EndsGeometry(e, d)
    <3>1. Silent(e)
      BY <2>1, <2>4, DrawingSilent DEF EndsGeometry
    <3>2. Sends(d, Geometry, "end")
      BY <1>b, <2>4, <3>1 DEF EndsGeometry, Silent, Sends
    <3>3. Counted(d, Batched)["streamer"] = Counted(e, Batched)["streamer"]
      BY <1>0, <3>1, <3>2, SendsEnd, SilentAfter
    <3>4. Waiting(d) = Waiting(e)
      BY <2>4, WaitingSame DEF EndsGeometry, But, Fields
    <3> QED BY <2>2, <3>3, <3>4 DEF CountOf
  <2>5. CASE Now.status = "endGeometry" /\ EndsFragment(e, d)
    <3>1. d.out["streamer"] = e.out["streamer"]
      BY <1>0, <2>5 DEF EndsFragment
    <3>2. Counted(d, Batched)["streamer"] = Counted(e, Batched)["streamer"]
      BY <1>0, <3>1 DEF Counted
    <3>3. Waiting(d) = Waiting(e)
      BY <2>5, WaitingSame DEF EndsFragment, But, Fields
    <3> QED BY <2>2, <3>2, <3>3 DEF CountOf
  <2> QED BY <2>1, <2>3, <2>4, <2>5 DEF Phased
<1>2. CASE t = None /\ Now.status = "endFragment" /\ Finishes(Now, d)
  <2>1. CASE \E p \in Phases : Drained(Now, d, p)
    <3>1. \E us : Sends(d, us, "reg")
      BY <2>1 DEF Drained
    <3>2. Counted(d, Batched)["streamer"] = Batched["streamer"]
      BY <1>0, <3>1, SendsReg
    <3>3. Waiting(d) = Waiting(Now)
      BY <1>0, <2>1, WaitingSame DEF Drained, But, Fields
    <3> QED BY <1>a, <1>2, <3>2, <3>3 DEF CountOf
  <2>2. CASE GivesBack(Now, d)
    <3>1. Silent(d)
      BY <1>0, <2>2 DEF GivesBack, But, Fields, Silent
    <3>2. Counted(d, Batched)["streamer"] = Batched["streamer"]
      BY <1>0, <3>1, SilentAfter
    <3>3. /\ d.last = Now.backup.last /\ d.fetch = Now.backup.fetch /\ ~d.loading /\ Now.loading
          /\ d.pipelined = Now.pipelined /\ Now.pipelined
      BY <2>2 DEF GivesBack, But, Fields, Course
    <3>4. Waiting(d) = Waiting(Now)
      BY <3>3 DEF Waiting
    <3> QED BY <1>a, <1>2, <3>2, <3>4 DEF CountOf
  <2>3. CASE Settles(Now, d)
    <3>1. Silent(d)
      BY <1>0, <2>3 DEF Settles, But, Fields, Silent
    <3>2. Counted(d, Batched)["streamer"] = Batched["streamer"]
      BY <1>0, <3>1, SilentAfter
    <3>3. /\ d.last = Now.last /\ d.fetch = (IF Now.pipelined THEN Now.fetch ELSE TRUE)
          /\ d.loading = Now.loading /\ d.backup = Now.backup /\ d.pipelined = Now.pipelined
      BY <2>3 DEF Settles, But, Fields
    <3>4. Waiting(d) \in {None, Waiting(Now)}
      BY <3>3 DEF Waiting
    <3> QED BY <1>0, <1>a, <1>2, <3>2, <3>4 DEF CountOf, None
  <2>4. CASE DrawsBatch(Now, d)
    <3>1. Sends(d, Fragment, "draw")
      BY <2>4 DEF DrawsBatch
    <3>2. Counted(d, Batched)["streamer"] = Batched["streamer"]
      BY <1>0, <3>1, SendsDraw
    <3>3. Waiting(d) = Waiting(Now)
      BY <1>0, <1>2, <2>4, WaitingSame DEF DrawsBatch, But, Fields
    <3> QED BY <1>a, <1>2, <3>2, <3>3 DEF CountOf
  <2>5. CASE \E f \in CPState : PutsOff(Now, f) /\ Silent(f) /\ Processes(f, d)
    <3>1. PICK f \in CPState : PutsOff(Now, f) /\ Silent(f) /\ Processes(f, d)
      BY <2>5
    <3>2. f.pipelined /\ f.pipelined = Now.pipelined /\ f.status = Now.status
      BY <1>0, <1>2, <3>1, PutsOffCourse
    <3>3. /\ f.loading /\ ~Now.loading /\ f.last.kind = "loadFragment"
          /\ f.backup = [last |-> Now.last, fetch |-> Now.fetch] /\ f.status \in Stacked
      BY <1>2, <3>1, <3>2 DEF PutsOff, Stacked
    <3>4. Pending(f) = Waiting(Now)
      BY <3>2, <3>3 DEF Pending, Waiting
    <3> QED BY <1>0, <1>a, <1>2, <3>1, <3>2, <3>3, <3>4, ProcessCount
  <2> QED BY <1>2, <2>1, <2>2, <2>3, <2>4, <2>5 DEF Finishes
<1>3. CASE t = None /\ Now.status = "reset" /\ Restarted(Now, d)
  <2>1. Silent(d) /\ d.loading = Now.loading /\ d.fetch
    BY <1>0, <1>3 DEF Restarted, But, Fields, Silent
  <2>2. Counted(d, Batched)["streamer"] = Batched["streamer"]
    BY <1>0, <2>1, SilentAfter
  <2>3. ~Now.loading
    BY <1>3 DEF Course, Home, Memories
  <2>4. Waiting(d) = None
    BY <2>1, <2>3 DEF Waiting
  <2> QED BY <1>0, <1>a, <1>3, <2>2, <2>4 DEF CountOf, None
<1>4. CASE t = None /\ Now.status \in Memories /\ (d = Now \/ (But(Now, d, {"status", "hw"}) /\ d.status = Now.stack))
  <2>1. /\ Silent(d) /\ d.loading = Now.loading /\ d.fetch = Now.fetch /\ d.backup = Now.backup
        /\ Now.fetch
    BY <1>0, <1>4 DEF But, Fields, Silent, Course
  <2>2. Counted(d, Batched)["streamer"] = Batched["streamer"]
    BY <1>0, <2>1, SilentAfter
  <2>3. Waiting(d) = Waiting(Now)
    BY <2>1 DEF Waiting
  <2> QED BY <1>a, <1>4, <2>2, <2>3 DEF CountOf
<1>5. CASE t = None /\ Now.status = "exclusive" /\ Exclusively(Now, d)
  <2>1. /\ But(Now, d, {"status", "workEnd", "flushDelay", "out"})
        /\ Counted(d, Batched)["streamer"] = Batched["streamer"]
    <3>1. CASE d = Now
      BY <1>0, <3>1, SilentAfter DEF But
    <3>2. CASE Ends(Now, d)
      <4>1. Sends(d, Workers(Now.last.kind), "end") /\ But(Now, d, {"status", "out"})
        BY <3>2 DEF Ends
      <4>2. But(Now, d, {"status", "workEnd", "flushDelay", "out"})
        BY <4>1 DEF But, Fields
      <4> QED BY <1>0, <4>1, <4>2, SendsEnd
    <3>3. CASE Flushes(Now, d)
      <4>1. But(Now, d, {"status", "flushDelay", "out"}) /\ (Silent(d) \/ Sends(d, ZStencil, "end"))
        BY <3>3 DEF Flushes
      <4>2. But(Now, d, {"status", "workEnd", "flushDelay", "out"})
        BY <4>1 DEF But, Fields
      <4>3. CASE Silent(d)
        BY <1>0, <4>2, <4>3, SilentAfter
      <4>4. CASE Sends(d, ZStencil, "end")
        BY <1>0, <4>2, <4>4, SendsEnd
      <4> QED BY <4>1, <4>3, <4>4
    <3>4. CASE Displayed(Now.last.kind) /\ Displays(Now, d)
      <4>1. But(Now, d, {"status", "workEnd", "out"})
        BY <3>4 DEF Displays
      <4>2. But(Now, d, {"status", "workEnd", "flushDelay", "out"})
        BY <4>1 DEF But, Fields
      <4> DEFINE ended == (\A u \in Workers(Now.last.kind) : unit[u].state = "end") /\ ~Now.workEnd
      <4>3. CASE ~ended
        <5>1. Silent(d) \/ Sends(d, {"dac"}, "end")
          BY <3>4, <4>3 DEF Displays
        <5> QED BY <1>0, <4>2, <5>1, SendsEnd, SilentAfter
      <4>4. CASE ended
        <5>1. /\ Now.last.kind \in ExclusiveKinds
              /\ \A u \in Units : d.out[u] = IF u = "dac" THEN <<"work">>
                                             ELSE IF u \in Workers(Now.last.kind) THEN <<"end">> ELSE <<>>
          BY <1>5, <3>4, <4>4 DEF Displays, FlowOf, AtWork, Home, Memories
        <5>2. "streamer" \notin Workers(Now.last.kind)
          BY <1>0, <5>1, UnitsAre
        <5>3. d.out["streamer"] = <<>>
          BY <1>0, <5>1, <5>2
        <5> QED BY <1>0, <4>2, <5>3 DEF Counted, Plus
      <4> QED BY <4>3, <4>4
    <3> QED BY <1>5, <3>1, <3>2, <3>3, <3>4 DEF Exclusively
  <2>2. d.loading = Now.loading /\ d.last = Now.last
    BY <2>1 DEF But, Fields
  <2>3. ~Now.loading /\ Now.last.kind \in ExclusiveKinds
    BY <1>5 DEF Course, FlowOf, AtWork, Home, Memories
  <2>4. Waiting(d).kind # "draw"
    BY <2>2, <2>3 DEF Waiting, None, ExclusiveKinds
  <2>5. Batched["streamer"] <= fetched
    BY <1>0 DEF CountOf
  <2> QED BY <1>0, <1>a, <1>5, <2>1, <2>4, <2>5 DEF CountOf
<1> QED BY <1>1, <1>2, <1>3, <1>4, <1>5 DEF Move

\* A memory access begins and ends with nothing sent.
LEMMA MemorySilent ==
  ASSUME Limits, Course(Now, fetched), NEW t, Takes(t), NEW d \in CPState, Move(d, t), d.status \in Memories
  PROVE  Silent(d)
<1>0. Now \in CPState /\ Silent(Now)
  BY NowIs
<1>a. ASSUME NEW f \in CPState, NEW e \in CPState, Silent(f), Processes(f, e), e.status \in Memories,
             f.status \notin Memories
      PROVE  Silent(e)
  <2>1. Transfers(f, e)
    <3>1. ~Holds(f, e) /\ ~Skips(f, e) /\ ~Keeps(f, e) /\ ~Writes(f, e)
      BY <1>a DEF Holds, Skips, Keeps, Writes, But, Fields
    <3>2. ~Draws(f, e) /\ ~Begins(f, e) /\ ~Restarts(f, e)
      BY <1>a DEF Draws, Begins, Restarts, Memories
    <3> QED BY <1>a, <3>1, <3>2 DEF Processes
  <2>2. e.out = f.out
    BY <2>1 DEF Transfers, But, Fields
  <2> QED BY <1>a, <2>2 DEF Silent
<1>1. CASE /\ Now.status \in {"ready", "drawing", "endGeometry"}
           /\ \E e \in CPState : Turns(Now, e, t) /\ Phased(e, d)
  <2>1. PICK e \in CPState : Turns(Now, e, t) /\ Phased(e, d)
    BY <1>1
  <2>2. d = e
    BY <2>1 DEF Phased, EndsGeometry, EndsFragment, Memories
  <2>3. CASE (\E p \in Phases : Drained(Now, e, p)) \/ Fetched(Now, e, t)
    BY <1>1, <2>2, <2>3 DEF Drained, Fetched, But, Fields, Memories
  <2>4. CASE \E f \in CPState : Tries(f, t) /\ Processes(f, e)
    BY <1>a, <2>2, <2>4 DEF Tries, Stacked, Memories
  <2> QED BY <1>1, <2>1, <2>3, <2>4, TurnIs
<1>2. CASE t = None /\ Now.status = "endFragment" /\ Finishes(Now, d)
  <2>1. CASE \E f \in CPState : PutsOff(Now, f) /\ Silent(f) /\ Processes(f, d)
    <3>1. PICK f \in CPState : PutsOff(Now, f) /\ Silent(f) /\ Processes(f, d)
      BY <2>1
    <3>2. f.status = "endFragment"
      BY <1>2, <3>1 DEF PutsOff, But, Fields
    <3> QED BY <1>a, <3>1, <3>2 DEF Memories
  <2>2. CASE (\E p \in Phases : Drained(Now, d, p)) \/ GivesBack(Now, d)
    BY <1>2, <2>2 DEF Drained, GivesBack, But, Fields, Memories
  <2>3. CASE DrawsBatch(Now, d) \/ Settles(Now, d)
    BY <2>3 DEF DrawsBatch, Settles, Memories
  <2> QED BY <1>2, <2>1, <2>2, <2>3 DEF Finishes
<1>3. CASE t = None /\ Now.status = "reset" /\ Restarted(Now, d)
  BY <1>3 DEF Restarted, Memories
<1>4. CASE t = None /\ Now.status \in Memories /\ (d = Now \/ (But(Now, d, {"status", "hw"}) /\ d.status = Now.stack))
  BY <1>0, <1>4 DEF But, Fields, Silent
<1>5. CASE t = None /\ Now.status = "exclusive" /\ Exclusively(Now, d)
  <2>1. d.status \in {"exclusive", "ready"}
    BY <1>5 DEF Exclusively, Displays, Flushes, Ends
  <2> QED BY <2>1 DEF Memories
<1> QED BY <1>1, <1>2, <1>3, <1>4, <1>5 DEF Move

\* Between batches only the units of the command are sent anything, and no
\* batch is drawn.
LEMMA ExclusiveQuiet ==
  ASSUME Limits, Course(Now, fetched), NEW t, Takes(t), NEW d \in CPState, Move(d, t), d.status = "exclusive",
         Now.status = "exclusive" => Now.last.kind \in ExclusiveKinds
  PROVE  \A u \in Units :
           /\ Counted(d, Batched)[u] = Batched[u]
           /\ u \notin Workers(d.last.kind) \cup {"dac"} => d.out[u] = <<>>
           /\ u = "dac" /\ ~(Displayed(d.last.kind) /\ d.workEnd) => d.out[u] = <<>>
<1>0. Now \in CPState /\ Silent(Now)
  BY NowIs
<1>a. ASSUME NEW us, NEW k, Sends(d, us, k), k \in {"work", "end"}, us \subseteq Workers(d.last.kind),
             "dac" \notin us
      PROVE  \A u \in Units :
               /\ Counted(d, Batched)[u] = Batched[u]
               /\ u \notin Workers(d.last.kind) \cup {"dac"} => d.out[u] = <<>>
               /\ u = "dac" /\ ~(Displayed(d.last.kind) /\ d.workEnd) => d.out[u] = <<>>
  <2>1. \A u \in Units : Counted(d, Batched)[u] = Batched[u]
    <3>1. CASE k = "work"
      BY <1>a, <3>1, SendsWork
    <3>2. CASE k = "end"
      BY <1>a, <3>2, SendsEnd
    <3> QED BY <1>a, <3>1, <3>2
  <2>2. \A u \in Units : u \notin us => d.out[u] = <<>>
    BY <1>a DEF Sends
  <2> QED BY <1>a, <2>1, <2>2
<1>b. ASSUME Silent(d)
      PROVE  \A u \in Units : Counted(d, Batched)[u] = Batched[u] /\ d.out[u] = <<>>
  BY <1>b, SilentAfter DEF Silent
<1>c. ASSUME NEW f \in CPState, Processes(f, d), f.status # "exclusive"
      PROVE  /\ d.last = f.last /\ f.last.kind \in ExclusiveKinds /\ Sends(d, Workers(f.last.kind), "work")
             /\ f.status = "ready"
  <2>1. ~Holds(f, d) /\ ~Skips(f, d) /\ ~Keeps(f, d) /\ ~Writes(f, d)
    BY <1>c DEF Holds, Skips, Keeps, Writes, But, Fields
  <2>2. ~Draws(f, d) /\ ~Transfers(f, d) /\ ~Restarts(f, d)
    BY <1>c DEF Draws, Transfers, Restarts, Memories
  <2>3. Begins(f, d)
    BY <1>c, <2>1, <2>2 DEF Processes
  <2> QED BY <2>3 DEF Begins, But, Fields
<1>1. CASE /\ Now.status \in {"ready", "drawing", "endGeometry"}
           /\ \E e \in CPState : Turns(Now, e, t) /\ Phased(e, d)
  <2>1. PICK e \in CPState : Turns(Now, e, t) /\ Phased(e, d)
    BY <1>1
  <2>2. d = e
    BY <2>1 DEF Phased, EndsGeometry, EndsFragment
  <2>3. CASE (\E p \in Phases : Drained(Now, e, p)) \/ Fetched(Now, e, t)
    BY <1>1, <2>2, <2>3 DEF Drained, Fetched, But, Fields
  <2>4. CASE \E f \in CPState : Tries(f, t) /\ Processes(f, e)
    <3>1. PICK f \in CPState : Tries(f, t) /\ Processes(f, d)
      BY <2>2, <2>4
    <3>2. f.status # "exclusive"
      BY <3>1 DEF Tries, Stacked
    <3>3. /\ d.last = f.last /\ f.last.kind \in ExclusiveKinds /\ Sends(d, Workers(f.last.kind), "work")
      BY <1>c, <3>1, <3>2
    <3>4. "dac" \notin Workers(f.last.kind)
      BY <3>3, UnitsAre
    <3> QED BY <1>a, <3>3, <3>4
  <2> QED BY <1>1, <2>1, <2>3, <2>4, TurnIs
<1>2. CASE t = None /\ Now.status = "endFragment" /\ Finishes(Now, d)
  <2>1. CASE \E f \in CPState : PutsOff(Now, f) /\ Silent(f) /\ Processes(f, d)
    <3>1. PICK f \in CPState : PutsOff(Now, f) /\ Silent(f) /\ Processes(f, d)
      BY <2>1
    <3>2. f.status = "endFragment"
      BY <1>2, <3>1 DEF PutsOff, But, Fields
    <3> QED BY <1>c, <3>1, <3>2
  <2>2. CASE (\E p \in Phases : Drained(Now, d, p)) \/ GivesBack(Now, d)
    BY <1>2, <2>2 DEF Drained, GivesBack, But, Fields
  <2>3. CASE DrawsBatch(Now, d) \/ Settles(Now, d)
    BY <2>3 DEF DrawsBatch, Settles
  <2> QED BY <1>2, <2>1, <2>2, <2>3 DEF Finishes
<1>3. CASE t = None /\ Now.status = "reset" /\ Restarted(Now, d)
  BY <1>3 DEF Restarted
<1>4. CASE t = None /\ Now.status \in Memories /\ (d = Now \/ (But(Now, d, {"status", "hw"}) /\ d.status = Now.stack))
  BY <1>4 DEF Course, Memories, Stacked
<1>5. CASE t = None /\ Now.status = "exclusive" /\ Exclusively(Now, d)
  <2>0. Now.last.kind \in ExclusiveKinds /\ "dac" \notin Workers(Now.last.kind)
    BY <1>5, UnitsAre
  <2>1. CASE d = Now
    BY <1>0, <1>b, <2>1
  <2>2. CASE Flushes(Now, d) /\ Now.last.kind = "flushZ"
    <3>1. d.last = Now.last /\ (Silent(d) \/ Sends(d, ZStencil, "end"))
      BY <2>2 DEF Flushes, But, Fields
    <3>2. ZStencil \subseteq Workers(d.last.kind) /\ "dac" \notin ZStencil
      BY <2>2, <3>1, UnitsAre DEF Workers
    <3> QED BY <1>a, <1>b, <3>1, <3>2
  <2>3. CASE Displayed(Now.last.kind) /\ Displays(Now, d)
    <3> DEFINE ended == (\A u \in Workers(Now.last.kind) : unit[u].state = "end") /\ ~Now.workEnd
    <3>1. d.last = Now.last /\ unit["dac"].state # "end" /\ (d.workEnd <=> Now.workEnd \/ ended)
      BY <2>3 DEF Displays, But, Fields
    <3>2. CASE ~ended
      BY <1>b, <2>3, <3>1, <3>2 DEF Displays
    <3>3. CASE ended
      <4>1. \A u \in Units : d.out[u] = IF u = "dac" THEN <<"work">>
                                        ELSE IF u \in Workers(Now.last.kind) THEN <<"end">> ELSE <<>>
        BY <1>5, <2>3, <3>1, <3>3 DEF Displays
      <4>2. \A u \in Units : Counted(d, Batched)[u] = Plus(d.out[u], Batched[u])
        BY DEF Counted
      <4>3. \A m : Plus(<<"work">>, m) = m /\ Plus(<<"end">>, m) = m /\ Plus(<<>>, m) = m
        BY Wills
      <4>4. \A u \in Units : Counted(d, Batched)[u] = Batched[u]
        BY <4>1, <4>2, <4>3
      <4> QED BY <2>3, <3>1, <3>3, <4>1, <4>4
    <3> QED BY <3>2, <3>3
  <2>4. CASE Ends(Now, d)
    BY <2>4 DEF Ends
  <2> QED BY <1>5, <2>1, <2>2, <2>3, <2>4 DEF Exclusively
<1> QED BY <1>1, <1>2, <1>3, <1>4, <1>5 DEF Move

-----------------------------------------------------------------------------
(* The invariant.                                                          *)

\* A unit is reset in the first cycles only.
ResetsKnown == \A u \in Units : unit[u].state = "reset" => cp.status \in {"reset", "ready"}
\* The display controller does not work before the workers have ended.
DisplayWaits ==
  cp.status = "exclusive" /\ ~(Displayed(cp.last.kind) /\ cp.workEnd) => unit["dac"].state = "ready"

IInv ==
  /\ Limits /\ order \in RegisterFile /\ UnitsTyped
  /\ \A u \in Units : unit[u].batch <= MaxTransactions
  /\ Course(cp, fetched) /\ Sound(cp, comm)
  /\ UnitsAccept => FlowOf(cp, Willed, Batched)
  /\ CountOf(Batched, Waiting(cp), fetched)
  /\ ResetsKnown /\ DisplayWaits
  /\ OneBatchAhead /\ LockedAlone /\ ExclusiveAlone

\* A step begins with the Command Processor as it is Now.
LEMMA NowInvariant ==
  ASSUME IInv, UnitsAccept
  PROVE  /\ Course(Now, fetched) /\ FlowOf(Now, Willed, Batched)
         /\ CountOf(Batched, Waiting(Now), fetched)
         /\ \A u \in Units : Batched[u] \in Nat
         /\ Now.status = "exclusive" => Now.last.kind \in ExclusiveKinds
         /\ Now.status = "exclusive" /\ Displayed(Now.last.kind) /\ ~Now.workEnd => unit["dac"].state # "end"
<1>1. Limits /\ cp \in CPState
  BY DEF IInv, Limits
<1>2. Now \in CPState /\ But(cp, Now, {"drawDelay"})
  BY <1>1, NowIs
<1>3. \A f \in Fields \ {"drawDelay"} : Now[f] = cp[f]
  BY <1>2 DEF But
<1>4. Course(Now, fetched)
  <2>1. \A f \in {"status", "stack", "last", "fetch", "loading", "stored", "backup", "pipelined", "updates"} :
          Now[f] = cp[f]
    BY <1>3 DEF Fields
  <2> QED BY <1>1, <1>2, <2>1, CourseSame DEF IInv
<1>5. FlowOf(Now, Willed, Batched)
  <2>1. /\ Home(Now) = Home(cp) /\ Now.geometryStarted = cp.geometryStarted
        /\ Now.flushDelay = cp.flushDelay /\ Now.last = cp.last /\ Now.workEnd = cp.workEnd
    BY <1>3 DEF Fields, Home
  <2>2. FlowOf(cp, Willed, Batched)
    BY DEF IInv
  <2> QED BY <1>1, <1>2, <2>1, <2>2, FlowSame
<1>6. Waiting(Now) = Waiting(cp)
  BY <1>1, <1>2, <1>3, WaitingSame DEF Fields
<1>7. \A u \in Units : Batched[u] \in Nat
  BY DEF IInv, UnitsTyped, Batched, Plus
<1>8. /\ Now.status = cp.status /\ Now.last = cp.last /\ Now.workEnd = cp.workEnd
  BY <1>3 DEF Fields
<1>9. cp.status = "exclusive" => cp.last.kind \in ExclusiveKinds
  BY DEF IInv, FlowOf, AtWork, Home, Memories
<1>10. cp.status = "exclusive" /\ Displayed(cp.last.kind) /\ ~cp.workEnd => unit["dac"].state # "end"
  BY DEF IInv, DisplayWaits
<1> QED BY <1>4, <1>5, <1>6, <1>7, <1>8, <1>9, <1>10 DEF IInv

\* No batch is drawn before the one before it has left the geometry phase: the
\* Streamer reads a DRAW in the cycle after it was sent, and the delay covers it.
LEMMA NotTwice ==
  ASSUME IInv, UnitsAccept, ConsecutiveDrawDelay >= 2, Now.status = "endGeometry", DrawAllowed(Now)
  PROVE  ~Now.geometryStarted
<1> SUFFICES ASSUME Now.geometryStarted PROVE FALSE
  OBVIOUS
<1>1. unit["streamer"].state = "ready" /\ Now.drawDelay = 0
  BY DEF DrawAllowed
<1>2. Willed["streamer"] \in Busy /\ "streamer" \in Units
  <2>1. FlowOf(Now, Willed, Batched) /\ Home(Now) = "endGeometry"
    BY NowInvariant DEF Home, Memories
  <2> QED BY <2>1 DEF FlowOf, InPhase, Geometry, Units
<1>3. Willed["streamer"] = Will(comm["streamer"], "ready", "streamer")
  BY <1>1, <1>2 DEF Willed, Were
<1>4. comm["streamer"] # <<>> /\ Head(comm["streamer"]) = "draw"
  BY <1>2, <1>3 DEF Will, Busy
<1>5. cp.drawDelay = ConsecutiveDrawDelay
  BY <1>2, <1>4 DEF IInv, Sound
<1>6. Now.drawDelay = cp.drawDelay - 1
  <2>1. Limits
    BY DEF IInv
  <2> QED BY <1>5, <2>1, NowIs, BoundAssumption
<1> QED BY <1>1, <1>5, <1>6, BoundAssumption

-----------------------------------------------------------------------------
(* A step: the Command Processor moves, and then the units.                *)

\* The units that finish do so in the middle of what they do.
LEMMA FinishFlow ==
  ASSUME NEW c \in CPState, NEW s, NEW r, NEW n, FlowOf(c, s, n),
         \A u \in Units : r[u] = s[u] \/ (s[u] \in {"working", "drawing"} /\ r[u] = "end")
  PROVE  FlowOf(c, r, n)
<1>1. ASSUME InPhase(c, s) PROVE InPhase(c, r)
  <2>1. Geometry \subseteq Units /\ Fragment \subseteq Units /\ "dac" \in Units
    BY DEF Units
  <2> QED BY <1>1, <2>1 DEF InPhase, Busy
<1>2. ASSUME AtWork(c, s) PROVE AtWork(c, r)
  BY <1>2 DEF AtWork
<1> QED BY <1>1, <1>2 DEF FlowOf

\* The Command Processor and the units after the step.
LEMMA StepIs ==
  ASSUME IInv, NEW t \in Transaction, NEW d \in CPState, Takes(t), Move(d, t), Becomes(d, t)
  PROVE  /\ UnitsAccept /\ Limits' /\ order' \in RegisterFile /\ UnitsTyped'
         /\ cp' \in CPState /\ But(d, cp', {"out"}) /\ comm' = d.out /\ fetched' = Taking(t)
         /\ Home(cp') = Home(d)
         /\ \A u \in Units :
              /\ unit'[u].batch = Batched[u]
              /\ Batched'[u] = Counted(d, Batched)[u]
              /\ \/ Willed'[u] = After(d, Willed)[u]
                 \/ After(d, Willed)[u] \in {"working", "drawing"} /\ Willed'[u] = "end"
              /\ unit'[u].state = "reset" => Resetting(u)
<1>1. UnitsAccept /\ Limits /\ UnitsTyped /\ Course(Now, fetched) /\ Course(cp, fetched)
  BY NowInvariant DEF Becomes, IInv
<1>2. /\ cp' = [d EXCEPT !.out = [u \in Units |-> <<>>]] /\ comm' = d.out
      /\ fetched' = Taking(t) /\ order' = InOrder(t)
  BY DEF Becomes, Taking
<1>3. cp' \in CPState /\ But(d, cp', {"out"}) /\ Silence(cp')
  <2>1. \A w \in [Units -> Seq(Commands)] : [d EXCEPT !.out = w] \in CPState /\ But(d, [d EXCEPT !.out = w], {"out"})
        /\ [d EXCEPT !.out = w].out = w
    BY DEF CPState, But, Fields
  <2>2. [u \in Units |-> <<>>] \in [Units -> Seq(Commands)]
    OBVIOUS
  <2> QED BY <1>2, <2>1, <2>2 DEF Silence
<1>4. Limits'
  <2>1. fetched' \in 0 .. MaxTransactions
    BY <1>1, <1>2, BoundAssumption DEF Taking, Takes, Limits
  <2>2. d.pipelined = Now.pipelined
    BY <1>1, MoveCourse
  <2>3. Now.pipelined = cp.pipelined
    BY <1>1, NowIs DEF But, Fields
  <2>4. cp'.pipelined = d.pipelined
    BY <1>3 DEF But, Fields
  <2> QED BY <1>1, <1>3, <2>1, <2>2, <2>3, <2>4 DEF Limits, Silence
<1>5. order' \in RegisterFile
  <2>1. order \in RegisterFile /\ t.value \in 0 .. MaxTransactions
    BY DEF IInv, Transaction
  <2>2. \A k \in Registers : Phase(k) \in {"geom", "frag"}
    BY PhaseIs DEF Phases
  <2>3. CASE t.kind \in Registers
    <3>1. order' = [order EXCEPT ![Phase(t.kind)] = t.value]
      BY <1>2, <2>3 DEF InOrder, Registers, GeomRegisters, FragRegisters
    <3> QED BY <2>1, <2>2, <2>3, <3>1 DEF RegisterFile
  <2>4. CASE t.kind \notin Registers
    <3>1. order' \in {order, [order EXCEPT !.vertex = order.geom], [order EXCEPT !.fragment = order.frag]}
      BY <1>2, <2>4 DEF InOrder
    <3> QED BY <2>1, <3>1 DEF RegisterFile
  <2> QED BY <2>3, <2>4
<1>6. PICK done \in SUBSET { u \in Units : MayFinish(u) } : UnitsClock(done)
  BY DEF Becomes
<1>7. /\ unit' \in [Units -> [state : UnitStates, batch : Nat]]
      /\ \A u \in Units :
           /\ unit'[u].batch = Batched[u]
           /\ \/ unit'[u].state = Willed[u] /\ Willed[u] # "reset" /\ ~Resetting(u)
              \/ unit'[u].state = "end" /\ Willed[u] \in {"drawing", "working"} /\ u \in done
              \/ unit'[u].state = "reset" /\ Willed[u] = "ready" /\ Resetting(u)
  BY <1>1, <1>6, ClockIs
<1>8. UnitsTyped'
  BY <1>2, <1>7 DEF UnitsTyped, CPState
<1>9. Home(cp') = Home(d)
  BY <1>3 DEF But, Fields, Home
<1>10. ASSUME NEW u \in Units
       PROVE  /\ Batched'[u] = Counted(d, Batched)[u]
              /\ \/ Willed'[u] = After(d, Willed)[u]
                 \/ After(d, Willed)[u] \in {"working", "drawing"} /\ Willed'[u] = "end"
              /\ unit'[u].state = "reset" => Resetting(u)
  <2>1. Batched'[u] = Plus(d.out[u], unit'[u].batch) /\ Counted(d, Batched)[u] = Plus(d.out[u], Batched[u])
    BY <1>2 DEF Batched, Counted
  <2> DEFINE w == IF unit'[u].state = "reset" THEN "ready" ELSE unit'[u].state
  <2>2. Willed'[u] = Will(d.out[u], w, u) /\ After(d, Willed)[u] = Will(d.out[u], Willed[u], u)
    BY <1>2 DEF Willed, After, Were
  <2>3. w = Willed[u] \/ (w = "end" /\ Willed[u] \in {"drawing", "working"})
    BY <1>7
  <2> HIDE DEF w
  <2>4. \A a, b, q : Will(q, a, u) = Will(q, b, u) \/ (Will(q, a, u) = a /\ Will(q, b, u) = b)
    <3> TAKE a, b, q
    <3>1. CASE q = <<>>
      BY <3>1 DEF Will
    <3>2. CASE q # <<>> /\ Head(q) = "reg"
      BY <3>2 DEF Will
    <3>3. CASE q # <<>> /\ Head(q) # "reg"
      BY <3>3 DEF Will
    <3> QED BY <3>1, <3>2, <3>3
  <2>5. \/ Willed'[u] = After(d, Willed)[u]
        \/ Willed'[u] = w /\ After(d, Willed)[u] = Willed[u]
    BY <2>2, <2>4
  <2>6. unit'[u].state = "reset" => Resetting(u)
    BY <1>7
  <2> QED BY <1>7, <2>1, <2>3, <2>5, <2>6
<1> QED BY <1>1, <1>2, <1>3, <1>4, <1>5, <1>7, <1>8, <1>9, <1>10

LEMMA StepFlow ==
  ASSUME IInv, ConsecutiveDrawDelay >= 2,
         NEW t \in Transaction, NEW d \in CPState, Takes(t), Move(d, t), Becomes(d, t),
         d.status = "endFragment" => UnitsAccept'
  PROVE  FlowOf(cp', Willed', Batched')
<1>1. /\ UnitsAccept /\ cp' \in CPState /\ But(d, cp', {"out"}) /\ comm' = d.out /\ Home(cp') = Home(d)
      /\ \A u \in Units :
           /\ Batched'[u] = Counted(d, Batched)[u]
           /\ \/ Willed'[u] = After(d, Willed)[u]
              \/ After(d, Willed)[u] \in {"working", "drawing"} /\ Willed'[u] = "end"
  BY StepIs
<1>2. d.status = "endFragment" => \A u \in Units : Len(d.out[u]) <= 1
  <2> SUFFICES ASSUME d.status = "endFragment", NEW u \in Units PROVE Len(d.out[u]) <= 1
    OBVIOUS
  <2>1. comm'[u] # <<>> => Len(comm'[u]) = 1
    BY DEF UnitsAccept
  <2>2. comm'[u] = d.out[u] /\ Len(<<>>) = 0
    BY <1>1
  <2>3. CASE d.out[u] = <<>>
    BY <2>2, <2>3
  <2>4. CASE d.out[u] # <<>>
    <3>1. Len(d.out[u]) = 1
      BY <2>1, <2>2, <2>4
    <3> QED BY <3>1
  <2> QED BY <2>3, <2>4
<1>3. FlowOf(d, After(d, Willed), Counted(d, Batched))
  <2>1. Limits
    BY DEF IInv
  <2> QED BY <1>1, <1>2, <2>1, NowInvariant, NotTwice, MoveFlow
<1>4. FlowOf(d, Willed', Counted(d, Batched))
  BY <1>1, <1>3, FinishFlow
<1>5. /\ cp'.geometryStarted = d.geometryStarted /\ cp'.flushDelay = d.flushDelay
      /\ cp'.last = d.last /\ cp'.workEnd = d.workEnd
  BY <1>1 DEF But, Fields
<1> QED BY <1>1, <1>4, <1>5, FlowSame

\* What comes of the invariant in the step: d is the Command Processor before
\* its commands are delivered.
LEMMA BatchesNext ==
  ASSUME IInv, NEW t \in Transaction, NEW d \in CPState, Takes(t), Move(d, t), Becomes(d, t)
  PROVE  (\A u \in Units : unit'[u].batch <= MaxTransactions) /\ OneBatchAhead'
<1>1. \A u \in Units : unit'[u].batch = Batched[u] /\ Batched[u] \in Nat
  BY StepIs, NowInvariant
<1>2. InStep(cp, Batched)
  BY DEF IInv, FlowOf, Becomes
<1>3. Units = Geometry \cup Fragment \cup {"dac"} /\ "streamer" \in Geometry /\ "rasterizer" \in Fragment
  BY DEF Units, Geometry, Fragment
<1>4. \A u \in Geometry \cup {"dac"} : Batched[u] = Batched["streamer"]
  BY <1>2 DEF InStep
<1>5. \A u \in Fragment : Batched[u] = Batched["rasterizer"]
  BY <1>2 DEF InStep
<1>6. Batched["streamer"] \in Nat /\ Batched["rasterizer"] \in Nat
  BY <1>1, <1>3
<1>7. Batched["streamer"] = Batched["rasterizer"] \/ Batched["streamer"] = Batched["rasterizer"] + 1
  BY <1>2, <1>6 DEF InStep
<1>8. Batched["streamer"] <= MaxTransactions
  <2>1. Batched["streamer"] + (IF Waiting(cp).kind = "draw" THEN 1 ELSE 0) <= fetched
    BY DEF IInv, CountOf
  <2>2. fetched \in 0 .. MaxTransactions
    BY DEF IInv, Limits
  <2> QED BY <1>6, <2>1, <2>2, BoundAssumption
<1>9. \A u \in Units : unit'[u].batch <= MaxTransactions
  <2> TAKE u \in Units
  <2>1. Batched[u] = Batched["streamer"] \/ Batched[u] = Batched["rasterizer"]
    BY <1>3, <1>4, <1>5
  <2> QED BY <1>1, <1>6, <1>7, <1>8, <2>1, BoundAssumption
<1>10. OneBatchAhead'
  <2> SUFFICES ASSUME NEW u \in Geometry, NEW v \in Fragment
               PROVE  unit'[v].batch <= unit'[u].batch /\ unit'[u].batch <= unit'[v].batch + 1
    BY DEF OneBatchAhead
  <2>1. /\ unit'[u].batch = Batched["streamer"] /\ unit'[v].batch = Batched["rasterizer"]
    BY <1>1, <1>3, <1>4, <1>5
  <2> QED BY <1>6, <1>7, <2>1
<1> QED BY <1>9, <1>10

LEMMA ResetsNext ==
  ASSUME IInv, NEW t \in Transaction, NEW d \in CPState, Takes(t), Move(d, t), Becomes(d, t)
  PROVE  \A u \in Units : unit'[u].state = "reset" => cp'.status = "ready"
<1> SUFFICES ASSUME NEW u \in Units, unit'[u].state = "reset" PROVE cp'.status = "ready"
  OBVIOUS
<1>1. Resetting(u)
  BY StepIs
<1>2. cp.status = "reset"
  BY <1>1 DEF IInv, Sound, Resetting
<1>3. Now.status = "reset"
  <2>1. Limits
    BY DEF IInv
  <2> QED BY <1>2, <2>1, NowIs DEF But, Fields
<1>4. Restarted(Now, d)
  BY <1>3 DEF Move, Memories
<1>5. d.status = "ready"
  BY <1>4 DEF Restarted
<1> QED BY <1>5, StepIs DEF But, Fields

\* Where the batches are in step and the geometry units have no batch of their
\* own, all units were given the same batches.
LEMMA LevelBatches ==
  ASSUME NEW c \in CPState, NEW n, InStep(c, n), ~c.geometryStarted, n["rasterizer"] \in Nat
  PROVE  \A u, v \in Units : n[u] = n[v]
<1>1. n["streamer"] = n["rasterizer"]
  BY DEF InStep
<1>2. \A u \in Units : n[u] = n["streamer"]
  BY <1>1 DEF InStep, Units
<1> QED BY <1>2

LEMMA LockedNext ==
  ASSUME IInv, ConsecutiveDrawDelay >= 2,
         NEW t \in Transaction, NEW d \in CPState, Takes(t), Move(d, t), Becomes(d, t)
  PROVE  LockedAlone'
<1> SUFFICES ASSUME cp'.status \in {"memoryWrite", "memoryPreload"}, cp'.last.kind \in {"lockedWrite", "lockedPreload"}
             PROVE  /\ \A u \in Units : unit'[u].state = "ready"
                    /\ \A u, v \in Units : unit'[u].batch = unit'[v].batch
  BY DEF LockedAlone, Idle
<1>1. /\ cp' \in CPState /\ But(d, cp', {"out"}) /\ comm' = d.out /\ Limits /\ UnitsAccept /\ UnitsTyped'
      /\ Course(Now, fetched)
  BY StepIs, NowInvariant DEF IInv
<1>2. d.status = cp'.status /\ d.last = cp'.last /\ d.stack = cp'.stack
  BY <1>1 DEF But, Fields
<1>3. d.stack = "ready"
  <2>1. Course(d, Taking(t))
    BY <1>1, MoveCourse
  <2> QED BY <1>2, <2>1 DEF Course, Memories
<1>4. \A u \in Units : comm'[u] = <<>>
  <2>1. Silent(d)
    BY <1>1, <1>2, MemorySilent DEF Memories
  <2> QED BY <1>1, <2>1 DEF Silent
<1>5. FlowOf(cp', Willed', Batched') /\ Home(cp') = "ready"
  BY <1>2, <1>3, StepFlow DEF Home, Memories
<1>6. ~cp'.geometryStarted /\ InPhase(cp', Willed') /\ InStep(cp', Batched')
  BY <1>5 DEF FlowOf, InStep
<1>7. \A u \in Units : Willed'[u] = "ready"
  BY <1>5, <1>6 DEF InPhase, Units
<1>8. \A u \in Units : unit'[u].state = "ready"
  <2> TAKE u \in Units
  <2>1. Willed'[u] = IF unit'[u].state = "reset" THEN "ready" ELSE unit'[u].state
    BY <1>4 DEF Willed, Were, Will
  <2>2. unit'[u].state # "reset"
    BY ResetsNext
  <2> QED BY <1>7, <2>1, <2>2
<1>9. \A u \in Units : Batched'[u] = unit'[u].batch
  BY <1>4 DEF Batched, Plus
<1>10. Batched'["rasterizer"] \in Nat
  <2>1. "rasterizer" \in Units
    BY DEF Units, Fragment
  <2> QED BY <1>1, <1>9, <2>1 DEF UnitsTyped
<1>11. \A u, v \in Units : Batched'[u] = Batched'[v]
  BY <1>1, <1>6, <1>10, LevelBatches
<1> QED BY <1>8, <1>9, <1>11

LEMMA ExclusiveNext ==
  ASSUME IInv, ConsecutiveDrawDelay >= 2,
         NEW t \in Transaction, NEW d \in CPState, Takes(t), Move(d, t), Becomes(d, t)
  PROVE  ExclusiveAlone' /\ DisplayWaits'
<1> SUFFICES ASSUME cp'.status = "exclusive"
             PROVE  /\ \A u \in Units \ (Workers(cp'.last.kind) \cup {"dac"}) : unit'[u].state = "ready"
                    /\ \A u, v \in Units : unit'[u].batch = unit'[v].batch
                    /\ ~(Displayed(cp'.last.kind) /\ cp'.workEnd) => unit'["dac"].state = "ready"
  BY DEF ExclusiveAlone, DisplayWaits, Idle
<1>1. /\ cp' \in CPState /\ But(d, cp', {"out"}) /\ comm' = d.out /\ Limits /\ UnitsAccept /\ UnitsTyped'
      /\ Course(Now, fetched)
  BY StepIs, NowInvariant DEF IInv
<1>2. d.status = cp'.status /\ d.last = cp'.last /\ d.workEnd = cp'.workEnd
  BY <1>1 DEF But, Fields
<1>3. \A u \in Units :
        /\ Counted(d, Batched)[u] = Batched[u]
        /\ u \notin Workers(d.last.kind) \cup {"dac"} => d.out[u] = <<>>
        /\ u = "dac" /\ ~(Displayed(d.last.kind) /\ d.workEnd) => d.out[u] = <<>>
  <2>1. Now.status = "exclusive" => Now.last.kind \in ExclusiveKinds
    BY <1>1, NowInvariant
  <2> QED BY <1>1, <1>2, <2>1, ExclusiveQuiet
<1>4. FlowOf(cp', Willed', Batched') /\ Home(cp') = "exclusive"
  BY <1>2, StepFlow DEF Home, Memories
<1>5. ~cp'.geometryStarted /\ AtWork(cp', Willed') /\ InStep(cp', Batched')
  BY <1>4 DEF FlowOf, InStep
<1>6. \A u \in Units : unit'[u].batch = Batched[u] /\ Batched'[u] = Batched[u] /\ Batched[u] \in Nat
  BY <1>1, <1>3, StepIs, NowInvariant
<1>7. \A u, v \in Units : unit'[u].batch = unit'[v].batch
  <2>1. "rasterizer" \in Units
    BY DEF Units, Fragment
  <2>2. \A u, v \in Units : Batched'[u] = Batched'[v]
    BY <1>1, <1>5, <1>6, <2>1, LevelBatches
  <2> QED BY <1>6, <2>2
<1>8. ASSUME NEW u \in Units, d.out[u] = <<>>, ~Works(cp', u) PROVE unit'[u].state = "ready"
  <2>1. Willed'[u] = "ready"
    BY <1>5, <1>8 DEF AtWork
  <2>2. Willed'[u] = IF unit'[u].state = "reset" THEN "ready" ELSE unit'[u].state
    BY <1>1, <1>8 DEF Willed, Were, Will
  <2>3. unit'[u].state # "reset"
    BY ResetsNext
  <2> QED BY <2>1, <2>2, <2>3
<1>9. \A u \in Units \ (Workers(cp'.last.kind) \cup {"dac"}) : unit'[u].state = "ready"
  BY <1>2, <1>3, <1>8 DEF Works
<1>10. ~(Displayed(cp'.last.kind) /\ cp'.workEnd) => unit'["dac"].state = "ready"
  <2> SUFFICES ASSUME ~(Displayed(cp'.last.kind) /\ cp'.workEnd) PROVE unit'["dac"].state = "ready"
    OBVIOUS
  <2>1. cp'.last.kind \in ExclusiveKinds
    BY <1>5 DEF AtWork
  <2>2. "dac" \notin Workers(cp'.last.kind) /\ "dac" \in Units
    BY <2>1, UnitsAre DEF Units
  <2>3. ~Works(cp', "dac")
    BY <2>2 DEF Works
  <2> QED BY <1>2, <1>3, <1>8, <2>2, <2>3
<1> QED BY <1>7, <1>9, <1>10

-----------------------------------------------------------------------------
(* The invariant holds in every state.                                     *)

LEMMA Beginning == Init => IInv
<1> SUFFICES ASSUME Init PROVE IInv
  OBVIOUS
<1>1. /\ MaxTransactions \in Nat /\ MaxUpdates \in Nat \ {0} /\ ConsecutiveDrawDelay \in Nat
      /\ FlushDelay \in Nat \ {0} /\ DOMAIN Kinds \subseteq BOOLEAN
  BY BoundAssumption
<1>2. None \in Transaction /\ NoRegisters \in RegisterFile
  BY <1>1 DEF None, Transaction, NoRegisters, RegisterFile
<1> DEFINE start(p) ==
      [status |-> "reset", pipelined |-> p, stack |-> "ready", fetch |-> TRUE, last |-> None,
       geometryStarted |-> FALSE, drawDelay |-> 0, updates |-> [q \in Phases |-> <<>>],
       stored |-> FALSE, loading |-> FALSE, backup |-> [last |-> None, fetch |-> FALSE],
       workEnd |-> FALSE, flushDelay |-> 0, traceEnd |-> FALSE,
       hw |-> NoRegisters, out |-> [u \in Units |-> <<>>]]
<1>3. PICK pipelined \in DOMAIN Kinds : cp = start(pipelined)
  BY DEF Init
<1>4. /\ comm = [u \in Units |-> <<>>] /\ unit = [u \in Units |-> [state |-> "reset", batch |-> 0]]
      /\ fetched = 0 /\ order = NoRegisters
  BY DEF Init
<1>5. /\ cp.status = "reset" /\ cp.fetch = TRUE /\ cp.last = None /\ cp.geometryStarted = FALSE
      /\ cp.stored = FALSE /\ cp.loading = FALSE /\ cp.flushDelay = 0 /\ cp.backup.last = None
      /\ cp.updates = [q \in Phases |-> <<>>] /\ cp.out = [u \in Units |-> <<>>]
      /\ cp.pipelined \in DOMAIN Kinds /\ None.kind = "none"
  BY <1>3 DEF None
<1>6. cp \in CPState
  <2>1. [q \in Phases |-> <<>>] \in [Phases -> Seq(Transaction)]
    OBVIOUS
  <2>2. [u \in Units |-> <<>>] \in [Units -> Seq(Commands)]
    OBVIOUS
  <2>3. pipelined \in BOOLEAN
    BY <1>1
  <2> QED BY <1>1, <1>2, <1>3, <2>1, <2>2, <2>3 DEF CPState, Statuses
<1>7. Limits
  BY <1>1, <1>4, <1>5, <1>6 DEF Limits, Silence
<1>8. UnitsTyped
  BY <1>4 DEF UnitsTyped, UnitStates
<1>9. \A u \in Units : unit[u].batch <= MaxTransactions
  BY <1>1, <1>4
<1>10. Course(cp, fetched)
  <2>1. Updated(cp)
    <3>1. \A q \in Phases : cp.updates[q] = <<>> /\ Len(cp.updates[q]) = 0
      BY <1>5
    <3>2. \A q \in Phases : DOMAIN cp.updates[q] = {}
      BY <3>1
    <3> QED BY <1>1, <3>1, <3>2 DEF Updated
  <2> QED BY <1>5, <2>1 DEF Course, Home, Memories
<1>11. Sound(cp, comm)
  BY <1>4 DEF Sound
<1>12. \A u \in Units : Willed[u] = "ready" /\ Batched[u] = 0
  BY <1>4 DEF Willed, Batched, Will, Plus, Were
<1>13. FlowOf(cp, Willed, Batched)
  <2>1. Home(cp) = "reset"
    BY <1>5 DEF Home, Memories
  <2>2. "rasterizer" \in Units /\ "streamer" \in Units /\ "dac" \in Units /\ Geometry \subseteq Units
        /\ Fragment \subseteq Units
    BY DEF Units, Geometry, Fragment
  <2>3. InStep(cp, Batched)
    BY <1>5, <1>12, <2>1, <2>2 DEF InStep
  <2>4. InPhase(cp, Willed)
    BY <1>5, <1>12, <2>1, <2>2 DEF InPhase
  <2> QED BY <2>1, <2>3, <2>4 DEF FlowOf
<1>14. CountOf(Batched, Waiting(cp), fetched)
  <2>1. Waiting(cp) = None /\ Batched["streamer"] = 0
    BY <1>5, <1>12 DEF Waiting, Units, Geometry
  <2> QED BY <1>4, <1>5, <2>1 DEF CountOf
<1>15. ResetsKnown /\ DisplayWaits /\ LockedAlone /\ ExclusiveAlone
  BY <1>5 DEF ResetsKnown, DisplayWaits, LockedAlone, ExclusiveAlone
<1>16. OneBatchAhead
  BY <1>4 DEF OneBatchAhead, Units
<1> QED BY <1>2, <1>4, <1>7, <1>8, <1>9, <1>10, <1>11, <1>13, <1>14, <1>15, <1>16 DEF IInv

LEMMA Inductive ==
  ASSUME ConsecutiveDrawDelay >= 2, IInv, [Next]_vars
  PROVE  IInv'
<1>1. CASE UNCHANGED vars
  BY <1>1 DEF vars, IInv, Limits, UnitsTyped, UnitsAccept, Accepts, Reads, Willed, Were, Batched, ResetsKnown,
     DisplayWaits, OneBatchAhead, LockedAlone, ExclusiveAlone, Idle
<1>2. CASE Next
  <2>1. PICK d \in CPState, t \in Transaction : Takes(t) /\ Move(d, t) /\ Loads(d) /\ Becomes(d, t)
    BY <1>2, NextIs DEF IInv, Course
  <2>2. /\ UnitsAccept /\ Limits' /\ order' \in RegisterFile /\ UnitsTyped'
        /\ cp' \in CPState /\ But(d, cp', {"out"}) /\ comm' = d.out /\ fetched' = Taking(t)
        /\ \A u \in Units : Batched'[u] = Counted(d, Batched)[u]
    BY <2>1, StepIs
  <2>3. \A f \in Fields \ {"out"} : cp'[f] = d[f]
    BY <2>2 DEF But
  <2>4. /\ Course(Now, fetched) /\ FlowOf(Now, Willed, Batched) /\ CountOf(Batched, Waiting(Now), fetched)
        /\ \A u \in Units : Batched[u] \in Nat
        /\ Now.status = "exclusive" /\ Displayed(Now.last.kind) /\ ~Now.workEnd => unit["dac"].state # "end"
        /\ Limits
    BY <2>2, NowInvariant DEF IInv
  <2>5. Course(cp', fetched')
    <3>1. Course(d, Taking(t))
      BY <2>1, <2>4, MoveCourse
    <3> QED BY <2>2, <2>3, <3>1, CourseSame DEF Fields
  <2>6. Sound(cp', comm')
    <3>1. Sound(d, d.out)
      BY <2>1, <2>4, MoveSound
    <3> QED BY <2>2, <2>3, <3>1 DEF Sound, Fields
  <2>7. UnitsAccept' => FlowOf(cp', Willed', Batched')
    BY <2>1, StepFlow
  <2>8. CountOf(Batched', Waiting(cp'), fetched')
    <3>1. CountOf(Counted(d, Batched), Waiting(d), Taking(t))
      BY <2>1, <2>4, MoveCount
    <3>2. Waiting(cp') = Waiting(d)
      BY <2>2, <2>3, WaitingSame DEF Fields
    <3>3. Batched'["streamer"] = Counted(d, Batched)["streamer"]
      BY <2>2 DEF Units, Geometry
    <3> QED BY <2>2, <3>1, <3>2, <3>3 DEF CountOf
  <2>9. (\A u \in Units : unit'[u].batch <= MaxTransactions) /\ OneBatchAhead'
    BY <2>1, BatchesNext
  <2>10. ResetsKnown'
    BY <2>1, ResetsNext DEF ResetsKnown
  <2>11. LockedAlone'
    BY <2>1, LockedNext
  <2>12. ExclusiveAlone' /\ DisplayWaits'
    BY <2>1, ExclusiveNext
  <2> QED BY <2>2, <2>5, <2>6, <2>7, <2>8, <2>9, <2>10, <2>11, <2>12 DEF IInv
<1> QED BY <1>1, <1>2

\* CONSECUTIVE_DRAW_DELAY is 2: with less, a second batch is drawn before the
\* Streamer has read the first.
LEMMA IInvAlways ==
  ASSUME ConsecutiveDrawDelay >= 2
  PROVE  Spec => []IInv
<1>1. IInv /\ [Next]_vars => IInv'
  BY Inductive
<1> QED BY <1>1, Beginning, PTL DEF Spec

\* The state of the Command Processor and of the units is of its type: no
\* buffer of updates is overfull, no unit is given more batches than there are
\* transactions.
THEOREM CommandProcessorType ==
  ASSUME ConsecutiveDrawDelay >= 2
  PROVE  Spec => []TypeOK
<1>1. IInv => TypeOK
  <2> SUFFICES ASSUME IInv PROVE TypeOK
    OBVIOUS
  <2>1. cp \in CPState /\ cp.out = [u \in Units |-> <<>>] /\ fetched \in 0 .. MaxTransactions
    BY DEF IInv, Limits, Silence
  <2>2. /\ cp.status \in Statuses /\ cp.stack \in Statuses
        /\ {cp.pipelined, cp.fetch, cp.geometryStarted, cp.stored, cp.loading,
            cp.workEnd, cp.traceEnd, cp.backup.fetch} \subseteq BOOLEAN
        /\ cp.last \in Transaction /\ cp.backup.last \in Transaction
        /\ cp.drawDelay \in 0 .. ConsecutiveDrawDelay /\ cp.flushDelay \in 0 .. FlushDelay
        /\ \A p \in Phases : cp.updates[p] \in Seq(Transaction)
        /\ cp.hw \in RegisterFile
    BY <2>1 DEF CPState
  <2>3. \A p \in Phases : Len(cp.updates[p]) <= MaxUpdates
    BY DEF IInv, Course, Updated
  <2>4. comm \in [Units -> Seq(Commands)] /\ order \in RegisterFile
    BY DEF IInv, UnitsTyped
  <2>5. unit \in [Units -> [state : {"reset", "ready", "drawing", "working", "end"}, batch : 0 .. MaxTransactions]]
    <3>1. unit \in [Units -> [state : UnitStates, batch : Nat]]
      BY DEF IInv, UnitsTyped
    <3>2. \A u \in Units : unit[u].batch \in 0 .. MaxTransactions
      BY <3>1, BoundAssumption DEF IInv
    <3>3. \A u \in Units : unit[u] \in [state : UnitStates, batch : 0 .. MaxTransactions]
      BY <3>1, <3>2
    <3> QED BY <3>1, <3>3 DEF UnitStates
  <2> QED BY <2>1, <2>2, <2>3, <2>4, <2>5 DEF TypeOK
<1> QED BY <1>1, IInvAlways, PTL

\* The geometry units are never more than one batch ahead of the fragment
\* units, and never behind them.
THEOREM BatchesOverlapOnce ==
  ASSUME ConsecutiveDrawDelay >= 2
  PROVE  Spec => []OneBatchAhead
<1>1. IInv => OneBatchAhead
  BY DEF IInv
<1> QED BY <1>1, IInvAlways, PTL

\* While a locked transfer writes or preloads memory, no unit works and no
\* batch is half way through the pipeline.
THEOREM LockedTransfersAlone ==
  ASSUME ConsecutiveDrawDelay >= 2
  PROVE  Spec => []LockedAlone
<1>1. IInv => LockedAlone
  BY DEF IInv
<1> QED BY <1>1, IInvAlways, PTL

\* While a swap, a dump, a clear or a flush is executed, only the units that
\* execute it work, and every unit was given the same batches.
THEOREM ExclusiveCommandsAlone ==
  ASSUME ConsecutiveDrawDelay >= 2
  PROVE  Spec => []ExclusiveAlone
<1>1. IInv => ExclusiveAlone
  BY DEF IInv
<1> QED BY <1>1, IInvAlways, PTL

-----------------------------------------------------------------------------
(* The registers: order is what the last write of each phase, buffered or  *)
(* waiting, and the last load of a vertex program leave behind.            *)

LastWrite(c, p) ==
  IF c.updates[p] = <<>> THEN c.hw[p] ELSE c.updates[p][Len(c.updates[p])].value
ReadsVertex(c) == c.status = "memoryRead" /\ c.last.kind = "loadVertex"
\* The next batch was drawn and its fragment phase has not started.
Ahead(c) == c.geometryStarted /\ Home(c) \in {"endGeometry", "endFragment"}

OrdersAt(c, x, o, q) ==
  /\ \A p \in Phases :
       o[p] = IF x.kind \in Registers /\ Phase(x.kind) = p THEN x.value ELSE LastWrite(c, p)
  /\ IF x.kind = "loadVertex" \/ ReadsVertex(c) THEN o.vertex = o.geom ELSE c.hw.vertex = o.vertex
  /\ ReadsVertex(c) => c.updates["geom"] = <<>> /\ x = None
  /\ Ahead(c) => q.frag = LastWrite(c, "frag")

\* due after a cycle that ends in d, and the batches it starts.
DueAt(d, o, q) ==
  IF d.out["streamer"] = <<"draw">> THEN [frag |-> o.frag, fragment |-> o.fragment] ELSE q
StartsAt(d, o, q) ==
  /\ d.out["streamer"] = <<"draw">> => d.hw.geom = o.geom /\ d.hw.vertex = o.vertex
  /\ d.out["rasterizer"] = <<"draw">> => d.hw.frag = q.frag

\* A transaction that is neither a register write nor a vertex program.
Plain(x) == x.kind \notin Registers /\ x.kind # "loadVertex"

LEMMA OrdersSame ==
  ASSUME NEW c \in CPState, NEW d \in CPState, NEW x, NEW y, NEW o, NEW q, OrdersAt(c, x, o, q),
         d.hw = c.hw, d.updates = c.updates, Ahead(d) => Ahead(c), ReadsVertex(d) <=> ReadsVertex(c),
         y = x \/ (~ReadsVertex(c) /\ Plain(x) /\ Plain(y))
  PROVE  OrdersAt(d, y, o, q)
<1>1. \A p : LastWrite(d, p) = LastWrite(c, p)
  BY DEF LastWrite
<1>2. CASE y = x
  BY <1>1, <1>2 DEF OrdersAt
<1>3. CASE ~ReadsVertex(c) /\ Plain(x) /\ Plain(y)
  BY <1>1, <1>3 DEF OrdersAt, Plain
<1> QED BY <1>2, <1>3

LEMMA QuietOut ==
  ASSUME NEW d, Silent(d) \/ \E us, k : Sends(d, us, k) /\ k # "draw"
  PROVE  d.out["streamer"] # <<"draw">> /\ d.out["rasterizer"] # <<"draw">>
<1>1. "streamer" \in Units /\ "rasterizer" \in Units
  BY DEF Units, Geometry, Fragment
<1>2. \A k : <<k>> # <<>> /\ <<k>>[1] = k
  OBVIOUS
<1>3. ASSUME NEW u \in Units PROVE d.out[u] # <<"draw">>
  <2>1. CASE Silent(d)
    BY <1>2, <2>1 DEF Silent
  <2>2. CASE \E us, k : Sends(d, us, k) /\ k # "draw"
    <3>1. PICK us, k : Sends(d, us, k) /\ k # "draw"
      BY <2>2
    <3>2. d.out[u] = <<>> \/ d.out[u] = <<k>>
      BY <3>1 DEF Sends
    <3>3. <<k>>[1] = k /\ <<"draw">>[1] = "draw" /\ <<>> # <<"draw">>
      OBVIOUS
    <3>4. <<k>> # <<"draw">>
      BY <3>1, <3>3
    <3> QED BY <3>2, <3>3, <3>4
  <2> QED BY <2>1, <2>2
<1> QED BY <1>1, <1>3

LEMMA NoneStarts ==
  ASSUME NEW d, NEW o, NEW q, Silent(d) \/ \E us, k : Sends(d, us, k) /\ k # "draw"
  PROVE  DueAt(d, o, q) = q /\ StartsAt(d, o, q)
BY QuietOut DEF DueAt, StartsAt

\* A buffered write is the last one.
LEMMA KeptOrders ==
  ASSUME NEW c \in CPState, NEW d \in CPState, Keeps(c, d), NEW p \in Phases
  PROVE  LastWrite(d, p) = IF p = Phase(c.last.kind) THEN c.last.value ELSE LastWrite(c, p)
<1> DEFINE r == Phase(c.last.kind)
<1>1. r \in Phases /\ c.last.kind \in Registers
  BY PhaseIs DEF Keeps
<1>2. d.updates = [c.updates EXCEPT ![r] = Append(@, c.last)] /\ d.hw = c.hw
  BY DEF Keeps, But, Fields
<1>3. c.updates \in [Phases -> Seq(Transaction)] /\ c.last \in Transaction
  BY DEF CPState
<1>4. CASE p = r
  <2>1. d.updates[p] = Append(c.updates[p], c.last) /\ c.updates[p] \in Seq(Transaction)
    BY <1>1, <1>2, <1>3, <1>4
  <2>2. \A s \in Seq(Transaction) : Append(s, c.last) # <<>> /\ Append(s, c.last)[Len(Append(s, c.last))] = c.last
    BY <1>3
  <2> QED BY <1>4, <2>1, <2>2 DEF LastWrite
<1>5. CASE p # r
  BY <1>1, <1>2, <1>3, <1>5 DEF LastWrite
<1> QED BY <1>4, <1>5

\* The oldest write is sent: the last one remains.
LEMMA DrainedOrders ==
  ASSUME NEW c \in CPState, NEW d \in CPState, NEW r \in Phases, Drained(c, d, r), NEW p \in Phases
  PROVE  LastWrite(d, p) = LastWrite(c, p)
<1>1. /\ d.updates = [c.updates EXCEPT ![r] = Tail(@)] /\ c.updates[r] # <<>>
      /\ d.hw = [c.hw EXCEPT ![r] = Head(c.updates[r]).value]
  BY DEF Drained
<1>2. c.updates \in [Phases -> Seq(Transaction)] /\ c.hw \in RegisterFile
  BY DEF CPState
<1>3. CASE p = r
  <2>1. d.updates[p] = Tail(c.updates[p]) /\ c.updates[p] \in Seq(Transaction) /\ c.updates[p] # <<>>
    BY <1>1, <1>2, <1>3
  <2>2. d.hw[p] = Head(c.updates[p]).value
    BY <1>1, <1>2, <1>3 DEF RegisterFile, Phases
  <2>3. \A s \in Seq(Transaction) : s # <<>> =>
          /\ Tail(s) = <<>> => Head(s) = s[Len(s)]
          /\ Tail(s) # <<>> => Tail(s)[Len(Tail(s))] = s[Len(s)]
    <3> SUFFICES ASSUME NEW s \in Seq(Transaction), s # <<>>
                 PROVE  /\ Tail(s) = <<>> => Head(s) = s[Len(s)]
                        /\ Tail(s) # <<>> => Tail(s)[Len(Tail(s))] = s[Len(s)]
      OBVIOUS
    <3>1. Len(s) \in Nat \ {0} /\ Len(Tail(s)) = Len(s) - 1 /\ Head(s) = s[1]
      OBVIOUS
    <3>2. Tail(s) = <<>> => Len(s) = 1
      <4>1. Len(<<>>) = 0
        OBVIOUS
      <4>2. Tail(s) = <<>> => Len(Tail(s)) = Len(<<>>)
        OBVIOUS
      <4> QED BY <3>1, <4>1, <4>2
    <3>3. Tail(s) # <<>> => Len(Tail(s)) >= 1
      <4>1. Tail(s) \in Seq(Transaction)
        OBVIOUS
      <4> QED BY <4>1
    <3>4. \A i \in 1 .. Len(Tail(s)) : Tail(s)[i] = s[i + 1]
      OBVIOUS
    <3> QED BY <3>1, <3>2, <3>3, <3>4
  <2> QED BY <2>1, <2>2, <2>3 DEF LastWrite
<1>4. CASE p # r
  BY <1>1, <1>2, <1>4 DEF LastWrite, RegisterFile, Phases
<1> QED BY <1>3, <1>4

LEMMA NothingToDrain ==
  ASSUME NEW c, Drains(c) = "none"
  PROVE  /\ c.status = "ready" \/ BetweenGeometry(c) => c.updates.geom = <<>>
         /\ c.status \in {"ready", "endFragment"} => c.updates.frag = <<>>
BY DEF Drains

LEMMA ProcessOrders ==
  ASSUME NEW c \in CPState, NEW d \in CPState, Silent(c), Processes(c, d), c.status \in Stacked,
         c.status = "ready" \/ c.pipelined,
         c.loading => c.last.kind = "loadFragment",
         ~c.loading => Drains(c) = "none" /\ c.status # "endFragment",
         c.status = "endGeometry" /\ DrawAllowed(c) => ~c.geometryStarted,
         NEW o, NEW q, OrdersAt(c, Pending(c), o, q)
  PROVE  OrdersAt(d, Waiting(d), o, DueAt(d, o, q)) /\ StartsAt(d, o, DueAt(d, o, q))
<1> DEFINE x == Pending(c)
<1>0. /\ Waiting(d) \in {None, x} /\ (Holds(c, d) => Waiting(d) = x)
      /\ ~Holds(c, d) /\ c.loading => Waiting(d) = x
      /\ ~Holds(c, d) /\ ~c.loading /\ (d.fetch \/ Draws(c, d)) => Waiting(d) = None
      /\ Draws(c, d) => ~c.loading /\ Waiting(d) = None
  BY ProcessWaits
<1>a. ~ReadsVertex(c) /\ Home(c) = c.status
  BY DEF ReadsVertex, Stacked, Home, Memories
<1>b. ~c.loading => x = c.last
  BY DEF Pending
<1>c. Plain(None)
  BY DEF Plain, None, Registers, GeomRegisters, FragRegisters
<1> HIDE DEF x
<1>d. OrdersAt(c, x, o, q)
  BY DEF x
\* Nothing changes but what waits.
<1>e. ASSUME d.hw = c.hw, d.updates = c.updates, Ahead(d) => Ahead(c), ~ReadsVertex(d),
             Silent(d) \/ \E us, k : Sends(d, us, k) /\ k # "draw",
             Waiting(d) = x \/ (Plain(x) /\ Plain(Waiting(d)))
      PROVE  OrdersAt(d, Waiting(d), o, DueAt(d, o, q)) /\ StartsAt(d, o, DueAt(d, o, q))
  <2>1. OrdersAt(d, Waiting(d), o, q)
    BY <1>a, <1>d, <1>e, OrdersSame
  <2>2. DueAt(d, o, q) = q /\ StartsAt(d, o, q)
    BY <1>e, NoneStarts
  <2> QED BY <2>1, <2>2
<1>1. CASE Holds(c, d)
  <2>1. But(c, d, {"fetch"})
    BY <1>1 DEF Holds
  <2>2. d.hw = c.hw /\ d.updates = c.updates /\ Silent(d) /\ (Ahead(d) => Ahead(c)) /\ ~ReadsVertex(d)
    BY <1>a, <2>1 DEF But, Fields, Silent, Ahead, Home, ReadsVertex
  <2> QED BY <1>0, <1>1, <1>e, <2>2
<1>2. CASE Skips(c, d)
  <2>1. But(c, d, {"fetch", "stored"}) /\ c.last.kind \in {"event", "initEnd", "loadFragment", "none"}
    BY <1>2 DEF Skips
  <2>2. d.hw = c.hw /\ d.updates = c.updates /\ Silent(d) /\ (Ahead(d) => Ahead(c)) /\ ~ReadsVertex(d)
    BY <1>a, <2>1 DEF But, Fields, Silent, Ahead, Home, ReadsVertex
  <2>3. Plain(c.last)
    BY <2>1 DEF Plain, Registers, GeomRegisters, FragRegisters
  <2>4. CASE c.loading
    BY <1>0, <1>e, <2>2, <2>4
  <2>5. CASE ~c.loading
    BY <1>0, <1>b, <1>c, <1>e, <2>2, <2>3, <2>5
  <2> QED BY <2>4, <2>5
<1>3. CASE Keeps(c, d)
  <2>1. /\ c.last.kind \in Registers /\ d.fetch /\ But(c, d, {"fetch", "updates"})
        /\ ~(c.status = "endGeometry" /\ Phase(c.last.kind) = "frag" /\ c.geometryStarted)
        /\ c.status \in {"drawing", "endGeometry"}
    BY <1>3 DEF Keeps
  <2>2. ~c.loading /\ x = c.last /\ c.last.kind # "loadVertex"
    BY <1>b, <2>1 DEF Registers, GeomRegisters, FragRegisters
  <2>3. Waiting(d) = None
    BY <1>0, <2>1, <2>2 DEF Holds
  <2>4. /\ \A p \in Phases : LastWrite(d, p) = IF p = Phase(c.last.kind) THEN c.last.value ELSE LastWrite(c, p)
        /\ Phase(c.last.kind) \in Phases
    BY <1>3, <2>1, KeptOrders, PhaseIs
  <2>5. Silent(d) /\ d.hw = c.hw /\ Home(d) = Home(c) /\ d.geometryStarted = c.geometryStarted /\ ~ReadsVertex(d)
    BY <1>a, <2>1 DEF But, Fields, Silent, Home, ReadsVertex
  <2>6. \A p \in Phases : o[p] = LastWrite(d, p)
    BY <1>d, <2>1, <2>2, <2>4 DEF OrdersAt
  <2>7. d.hw.vertex = o.vertex
    BY <1>a, <1>d, <2>2, <2>5 DEF OrdersAt
  <2>8. Ahead(d) => q.frag = LastWrite(d, "frag")
    <3> SUFFICES ASSUME Ahead(d) PROVE q.frag = LastWrite(d, "frag")
      OBVIOUS
    <3>1. Ahead(c)
      BY <2>5 DEF Ahead
    <3>2. q.frag = LastWrite(c, "frag")
      BY <1>d, <3>1 DEF OrdersAt
    <3>3. Phase(c.last.kind) # "frag"
      BY <1>a, <2>1, <3>1 DEF Ahead
    <3> QED BY <2>4, <3>2, <3>3 DEF Phases
  <2>9. DueAt(d, o, q) = q /\ StartsAt(d, o, q)
    BY <2>5, NoneStarts
  <2> QED BY <1>c, <2>3, <2>5, <2>6, <2>7, <2>8, <2>9 DEF OrdersAt, Plain
<1>4. CASE Transfers(c, d)
  <2>1. /\ But(c, d, {"fetch", "status", "stack"}) /\ d.fetch /\ d.stack = c.status /\ d.status \in Memories
        /\ c.last.kind = "loadVertex" => c.status = "ready" \/ BetweenGeometry(c)
        /\ c.last.kind \in MemoryKinds \cup LoadKinds
        /\ d.status = "memoryRead" <=> c.last.kind \in LoadKinds
    BY <1>4 DEF Transfers
  <2>2. /\ Silent(d) /\ d.hw = c.hw /\ d.updates = c.updates /\ Home(d) = Home(c) /\ d.last = c.last
        /\ (Ahead(d) <=> Ahead(c))
    BY <1>a, <2>1 DEF But, Fields, Silent, Home, Ahead
  <2>3. CASE c.last.kind # "loadVertex"
    <3>1. ~ReadsVertex(d)
      BY <2>2, <2>3 DEF ReadsVertex
    <3>2. CASE c.loading
      <4>1. Waiting(d) = x
        BY <1>0, <3>2
      <4> QED BY <1>e, <2>2, <3>1, <4>1
    <3>3. CASE ~c.loading
      <4>1. Plain(c.last)
        BY <2>1, <2>3 DEF Plain, Registers, GeomRegisters, FragRegisters, MemoryKinds, LoadKinds
      <4>2. (x = c.last /\ Waiting(d) = None) \/ Waiting(d) = x
        BY <1>0, <1>b, <2>1, <3>3
      <4> QED BY <1>c, <1>e, <2>2, <3>1, <4>1, <4>2
    <3> QED BY <3>2, <3>3
  <2>4. CASE c.last.kind = "loadVertex"
    <3>1. ~c.loading /\ x = c.last /\ ReadsVertex(d)
      BY <1>b, <2>1, <2>2, <2>4 DEF ReadsVertex, LoadKinds
    <3>2. c.updates.geom = <<>>
      BY <2>1, <2>4, <3>1, NothingToDrain
    <3>3. Waiting(d) = None
      <4>1. ~Holds(c, d)
        BY <2>1, <1>a DEF Holds, But, Fields, Stacked, Memories
      <4> QED BY <1>0, <2>1, <3>1, <4>1
    <3>4. c.last.kind \notin Registers
      BY <2>4 DEF Registers, GeomRegisters, FragRegisters
    <3>5. \A p : LastWrite(d, p) = LastWrite(c, p)
      BY <2>2 DEF LastWrite
    <3>6. \A p \in Phases : o[p] = LastWrite(d, p)
      BY <1>d, <3>1, <3>4, <3>5 DEF OrdersAt
    <3>7. o.vertex = o.geom /\ (Ahead(d) => q.frag = LastWrite(d, "frag"))
      BY <1>d, <2>2, <2>4, <3>1, <3>5 DEF OrdersAt
    <3>8. DueAt(d, o, q) = q /\ StartsAt(d, o, q)
      BY <2>2, NoneStarts
    <3> QED BY <1>c, <2>2, <3>1, <3>2, <3>3, <3>6, <3>7, <3>8 DEF OrdersAt, Plain
  <2> QED BY <2>3, <2>4
<1>5. CASE Writes(c, d)
  <2>1. /\ But(c, d, {"fetch", "hw", "out"}) /\ d.fetch /\ c.last.kind \in Registers
        /\ ~Buffered(c, Phase(c.last.kind)) /\ d.hw = [c.hw EXCEPT ![Phase(c.last.kind)] = c.last.value]
        /\ Sends(d, Targets(c.last.kind), "reg")
    BY <1>5 DEF Writes
  <2>2. ~c.loading /\ x = c.last /\ c.last.kind # "loadVertex"
    BY <1>b, <2>1 DEF Registers, GeomRegisters, FragRegisters
  <2>3. Waiting(d) = None
    BY <1>0, <2>1, <2>2 DEF Holds
  <2>4. Phase(c.last.kind) \in Phases
    BY <2>1, PhaseIs
  <2>5. /\ Home(d) = Home(c) /\ d.geometryStarted = c.geometryStarted /\ ~ReadsVertex(d) /\ d.updates = c.updates
    BY <1>a, <2>1 DEF But, Fields, Home, ReadsVertex
  <2>6. /\ c.status = "ready" \/ (c.status = "endGeometry" /\ Phase(c.last.kind) = "geom" /\ ~c.geometryStarted)
    BY <2>1, <2>2, <2>4 DEF Buffered, Stacked, Phases
  <2>7. c.updates[Phase(c.last.kind)] = <<>>
    <3>1. Phase(c.last.kind) = "geom" \/ Phase(c.last.kind) = "frag"
      BY <2>4 DEF Phases
    <3> QED BY <2>2, <2>6, <3>1, NothingToDrain DEF BetweenGeometry
  <2>8. c.hw \in RegisterFile
    BY DEF CPState
  <2>9. \A p \in Phases : LastWrite(d, p) = IF p = Phase(c.last.kind) THEN c.last.value ELSE LastWrite(c, p)
    BY <2>1, <2>4, <2>5, <2>7, <2>8 DEF LastWrite, RegisterFile, Phases
  <2>10. \A p \in Phases : o[p] = LastWrite(d, p)
    BY <1>d, <2>1, <2>2, <2>4, <2>9 DEF OrdersAt
  <2>11. d.hw.vertex = o.vertex
    <3>1. d.hw.vertex = c.hw.vertex
      BY <2>1, <2>4, <2>8 DEF RegisterFile, Phases
    <3> QED BY <1>a, <1>d, <2>2, <3>1 DEF OrdersAt
  <2>12. Ahead(d) => q.frag = LastWrite(d, "frag")
    <3>1. ~Ahead(d) \/ (c.status = "ready" /\ Home(d) = "ready")
      BY <1>a, <2>5, <2>6 DEF Ahead
    <3> QED BY <3>1 DEF Ahead
  <2>13. DueAt(d, o, q) = q /\ StartsAt(d, o, q)
    BY <2>1, NoneStarts
  <2> QED BY <1>c, <2>3, <2>5, <2>10, <2>11, <2>12, <2>13 DEF OrdersAt, Plain
<1>6. CASE Draws(c, d)
  <2>1. /\ But(c, d, {"fetch", "status", "geometryStarted", "drawDelay", "out"}) /\ DrawAllowed(c)
        /\ c.last.kind = "draw" /\ d.geometryStarted
        /\ IF c.status = "ready" THEN d.status = "drawing" /\ Sends(d, Units, "draw")
           ELSE d.status = "endGeometry" /\ Sends(d, Geometry \cup {"dac"}, "draw")
    BY <1>6 DEF Draws
  <2>2. ~c.loading /\ x = c.last /\ Plain(c.last) /\ Waiting(d) = None
    BY <1>0, <1>6, <1>b, <2>1 DEF Plain, Registers, GeomRegisters, FragRegisters
  <2>3. d.hw = c.hw /\ d.updates = c.updates /\ ~ReadsVertex(d)
    BY <2>1 DEF But, Fields, ReadsVertex
  <2>4. \A p : LastWrite(d, p) = LastWrite(c, p)
    BY <2>3 DEF LastWrite
  <2>5. \A p \in Phases : o[p] = LastWrite(c, p)
    BY <1>d, <2>2 DEF OrdersAt, Plain
  <2>6. c.hw.vertex = o.vertex
    BY <1>a, <1>d, <2>2 DEF OrdersAt, Plain
  <2>7. d.out["streamer"] = <<"draw">>
    BY <2>1 DEF Sends, Units, Geometry
  <2>8. DueAt(d, o, q).frag = o.frag
    BY <2>7 DEF DueAt
  <2>9. /\ OrdersAt(d, Waiting(d), o, DueAt(d, o, q))
    BY <1>c, <2>2, <2>3, <2>4, <2>5, <2>6, <2>8 DEF OrdersAt, Plain, Phases
  <2>10. c.updates.geom = <<>>
    <3>1. c.status = "ready" \/ BetweenGeometry(c)
      BY <2>1 DEF DrawAllowed, BetweenGeometry
    <3> QED BY <2>2, <3>1, NothingToDrain
  <2>11. d.hw.geom = o.geom /\ d.hw.vertex = o.vertex
    BY <2>3, <2>5, <2>6, <2>10 DEF LastWrite, Phases
  <2>12. d.out["rasterizer"] = <<"draw">> => d.hw.frag = DueAt(d, o, q).frag
    <3>1. CASE c.status = "ready"
      <4>1. c.updates.frag = <<>>
        BY <2>2, <3>1, NothingToDrain
      <4> QED BY <2>3, <2>5, <2>8, <4>1 DEF LastWrite, Phases
    <3>2. CASE c.status # "ready"
      <4>1. "rasterizer" \in Units /\ "rasterizer" \notin Geometry \cup {"dac"}
        BY DEF Units, Geometry, Fragment
      <4>2. d.out["rasterizer"] = <<>> /\ <<>> # <<"draw">>
        BY <2>1, <3>2, <4>1 DEF Sends
      <4> QED BY <4>2
    <3> QED BY <3>1, <3>2
  <2> QED BY <2>9, <2>11, <2>12 DEF StartsAt
<1>7. CASE Begins(c, d)
  <2>1. /\ But(c, d, {"fetch", "status", "workEnd", "out"}) /\ d.fetch /\ c.last.kind \in ExclusiveKinds
        /\ d.status = "exclusive" /\ Sends(d, Workers(c.last.kind), "work")
    BY <1>7 DEF Begins
  <2>2. d.hw = c.hw /\ d.updates = c.updates /\ ~Ahead(d) /\ ~ReadsVertex(d)
    BY <2>1 DEF But, Fields, Ahead, Home, Memories, ReadsVertex
  <2>3. ~c.loading /\ x = c.last /\ Plain(x)
    BY <1>b, <2>1 DEF Plain, Registers, GeomRegisters, FragRegisters, ExclusiveKinds
  <2>4. Plain(Waiting(d))
    BY <1>0, <1>c, <2>3
  <2> QED BY <1>e, <2>1, <2>2, <2>3, <2>4
<1>8. CASE Restarts(c, d)
  <2>1. /\ But(c, d, {"fetch", "status", "out"}) /\ d.fetch /\ c.last.kind = "reset"
        /\ d.status = "reset" /\ Sends(d, Units \ {"dac"}, "reset")
    BY <1>8 DEF Restarts
  <2>2. d.hw = c.hw /\ d.updates = c.updates /\ ~Ahead(d) /\ ~ReadsVertex(d)
    BY <2>1 DEF But, Fields, Ahead, Home, Memories, ReadsVertex
  <2>3. ~c.loading /\ x = c.last /\ Plain(x)
    BY <1>b, <2>1 DEF Plain, Registers, GeomRegisters, FragRegisters
  <2>4. Plain(Waiting(d))
    BY <1>0, <1>c, <2>3
  <2> QED BY <1>e, <2>1, <2>2, <2>3, <2>4
<1> QED BY <1>1, <1>2, <1>3, <1>4, <1>5, <1>6, <1>7, <1>8 DEF Processes

\* The order after a transaction was taken.
LEMMA TakenOrders ==
  ASSUME Limits, order \in RegisterFile, NEW t, Takes(t), NEW f \in CPState, Tries(f, t), NEW q,
         OrdersAt(Now, Waiting(Now), order, q)
  PROVE  OrdersAt(f, Pending(f), InOrder(t), q)
<1>0. /\ f.hw = Now.hw /\ f.updates = Now.updates /\ f.status = Now.status /\ f.stack = Now.stack
      /\ f.geometryStarted = Now.geometryStarted /\ f.pipelined = Now.pipelined /\ f.loading = Now.loading
      /\ ~f.loading /\ f.last = (IF t = None THEN Now.last ELSE t) /\ (t = None => ~Now.fetch)
      /\ f.status \in Stacked /\ (f.status = "ready" \/ f.pipelined)
  BY DEF Tries, Fetched, But, Fields
<1>1. /\ ~ReadsVertex(f) /\ ~ReadsVertex(Now) /\ (Ahead(f) <=> Ahead(Now)) /\ Pending(f) = f.last
      /\ \A p : LastWrite(f, p) = LastWrite(Now, p)
  BY <1>0 DEF ReadsVertex, Stacked, Ahead, Home, Pending, LastWrite
<1>2. CASE t = None
  <2>1. InOrder(t) = order
    BY <1>2 DEF InOrder, None, Registers, GeomRegisters, FragRegisters
  <2>2. Waiting(Now) = f.last
    BY <1>0, <1>2 DEF Waiting
  <2> QED BY <1>0, <1>1, <2>1, <2>2 DEF OrdersAt
<1>3. CASE t # None
  <2>1. Waiting(Now) = None /\ Plain(None)
    <3>1. Now.fetch
      BY <1>3 DEF Takes
    <3> QED BY <1>0, <3>1 DEF Waiting, Plain, None, Registers, GeomRegisters, FragRegisters
  <2>2. /\ \A p \in Phases : order[p] = LastWrite(Now, p)
        /\ Now.hw.vertex = order.vertex
        /\ Ahead(Now) => q.frag = LastWrite(Now, "frag")
    BY <1>1, <2>1 DEF OrdersAt, Plain
  <2>3. CASE t.kind \in Registers
    <3>1. InOrder(t) = [order EXCEPT ![Phase(t.kind)] = t.value] /\ t.kind # "loadVertex"
          /\ Phase(t.kind) \in Phases
      BY <2>3, PhaseIs DEF InOrder, Registers, GeomRegisters, FragRegisters
    <3>2. /\ \A p \in Phases : InOrder(t)[p] = IF Phase(t.kind) = p THEN t.value ELSE order[p]
          /\ InOrder(t).vertex = order.vertex
      BY <3>1 DEF RegisterFile, Phases
    <3> QED BY <1>0, <1>1, <1>3, <2>2, <2>3, <3>1, <3>2 DEF OrdersAt
  <2>4. CASE t.kind = "loadVertex"
    <3>1. InOrder(t) = [order EXCEPT !.vertex = order.geom] /\ t.kind \notin Registers
      BY <2>4 DEF InOrder, Registers, GeomRegisters, FragRegisters
    <3>2. /\ \A p \in Phases : InOrder(t)[p] = order[p]
          /\ InOrder(t).vertex = InOrder(t).geom
      BY <3>1 DEF RegisterFile, Phases
    <3> QED BY <1>0, <1>1, <1>3, <2>2, <2>4, <3>1, <3>2 DEF OrdersAt
  <2>5. CASE Plain(t)
    <3>1. InOrder(t) = order \/ InOrder(t) = [order EXCEPT !.fragment = order.frag]
      BY <2>5 DEF InOrder, Plain
    <3>2. /\ \A p \in Phases : InOrder(t)[p] = order[p]
          /\ InOrder(t).vertex = order.vertex
      BY <3>1 DEF RegisterFile, Phases
    <3> QED BY <1>0, <1>1, <1>3, <2>2, <2>5, <3>2 DEF OrdersAt, Plain
  <2> QED BY <2>3, <2>4, <2>5 DEF Plain
<1> QED BY <1>2, <1>3

LEMMA TurnOrders ==
  ASSUME Limits, order \in RegisterFile, Course(Now, fetched), NEW t, Takes(t), NEW e \in CPState,
         Turns(Now, e, t), Now.status \in {"ready", "drawing", "endGeometry"},
         Now.status = "endGeometry" /\ DrawAllowed(Now) => ~Now.geometryStarted,
         NEW q, OrdersAt(Now, Waiting(Now), order, q)
  PROVE  LET o == InOrder(t)
         IN  OrdersAt(e, Waiting(e), o, DueAt(e, o, q)) /\ StartsAt(e, o, DueAt(e, o, q))
<1>0. Now \in CPState /\ Silent(Now)
  BY NowIs
<1>1. InOrder(None) = order
  BY DEF InOrder, None, Registers, GeomRegisters, FragRegisters
<1>2. CASE t = None /\ \E p \in Phases : Drained(Now, e, p)
  <2>1. PICK r \in Phases : Drained(Now, e, r)
    BY <1>2
  <2>2. /\ But(Now, e, {"updates", "hw", "out"}) /\ e.hw = [Now.hw EXCEPT ![r] = Head(Now.updates[r]).value]
        /\ Sends(e, Targets(Head(Now.updates[r]).kind), "reg")
    BY <2>1 DEF Drained
  <2>3. Waiting(e) = Waiting(Now) /\ (Ahead(e) <=> Ahead(Now)) /\ ~ReadsVertex(e) /\ ~ReadsVertex(Now)
    <3>1. \A g \in Fields \ {"updates", "hw", "out"} : e[g] = Now[g]
      BY <2>2 DEF But
    <3> QED BY <3>1 DEF Fields, Waiting, Ahead, Home, ReadsVertex
  <2>4. e.hw.vertex = Now.hw.vertex
    <3>1. Now.hw \in RegisterFile
      BY <1>0 DEF CPState
    <3> QED BY <2>1, <2>2, <3>1 DEF RegisterFile, Phases
  <2>5. \A p \in Phases : LastWrite(e, p) = LastWrite(Now, p)
    BY <1>0, <2>1, DrainedOrders
  <2>6. OrdersAt(e, Waiting(e), order, q)
    BY <2>3, <2>4, <2>5 DEF OrdersAt, Phases
  <2>7. DueAt(e, order, q) = q /\ StartsAt(e, order, q)
    BY <2>2, NoneStarts
  <2> QED BY <1>1, <1>2, <2>6, <2>7
<1>3. CASE t = None /\ Fetched(Now, e, t) /\ e.last = Now.last
  <2>1. \A g \in Fields \ {"last", "traceEnd"} : e[g] = Now[g]
    BY <1>3 DEF Fetched, But
  <2>2. /\ Waiting(e) = Waiting(Now) /\ (Ahead(e) <=> Ahead(Now)) /\ (ReadsVertex(e) <=> ReadsVertex(Now))
        /\ e.hw = Now.hw /\ e.updates = Now.updates /\ Silent(e)
    BY <1>0, <1>3, <2>1 DEF Fields, Waiting, Ahead, Home, ReadsVertex, Silent
  <2>3. OrdersAt(e, Waiting(e), order, q)
    BY <1>0, <2>2, OrdersSame
  <2>4. DueAt(e, order, q) = q /\ StartsAt(e, order, q)
    BY <2>2, NoneStarts
  <2> QED BY <1>1, <1>3, <2>3, <2>4
<1>4. CASE \E f \in CPState : Tries(f, t) /\ Processes(f, e)
  <2>1. PICK f \in CPState : Tries(f, t) /\ Processes(f, e)
    BY <1>4
  <2>2. OrdersAt(f, Pending(f), InOrder(t), q)
    BY <2>1, TakenOrders
  <2>3. /\ Silent(f) /\ f.status \in Stacked /\ (f.status = "ready" \/ f.pipelined) /\ ~f.loading
        /\ Drains(f) = "none" /\ f.status # "endFragment"
        /\ f.status = "endGeometry" /\ DrawAllowed(f) => ~f.geometryStarted
    BY <2>1 DEF Tries, DrawAllowed
  <2> QED BY <2>1, <2>2, <2>3, ProcessOrders
<1> QED BY <1>2, <1>3, <1>4, TurnIs

LEMMA FinishOrders ==
  ASSUME Limits, Course(Now, fetched), NEW d \in CPState, Now.status = "endFragment", Finishes(Now, d),
         NEW o, NEW q, OrdersAt(Now, Waiting(Now), o, q)
  PROVE  OrdersAt(d, Waiting(d), o, DueAt(d, o, q)) /\ StartsAt(d, o, DueAt(d, o, q))
<1>0. Now \in CPState /\ Silent(Now) /\ ~ReadsVertex(Now) /\ Home(Now) = "endFragment"
  BY NowIs DEF ReadsVertex, Home, Memories
<1>1. CASE \E p \in Phases : Drained(Now, d, p)
  <2>1. PICK r \in Phases : Drained(Now, d, r)
    BY <1>1
  <2>2. /\ But(Now, d, {"updates", "hw", "out"}) /\ d.hw = [Now.hw EXCEPT ![r] = Head(Now.updates[r]).value]
        /\ Sends(d, Targets(Head(Now.updates[r]).kind), "reg")
    BY <2>1 DEF Drained
  <2>3. Waiting(d) = Waiting(Now) /\ (Ahead(d) <=> Ahead(Now)) /\ ~ReadsVertex(d)
    <3>1. \A g \in Fields \ {"updates", "hw", "out"} : d[g] = Now[g]
      BY <2>2 DEF But
    <3> QED BY <1>0, <3>1 DEF Fields, Waiting, Ahead, Home, ReadsVertex
  <2>4. d.hw.vertex = Now.hw.vertex
    <3>1. Now.hw \in RegisterFile
      BY <1>0 DEF CPState
    <3> QED BY <2>1, <2>2, <3>1 DEF RegisterFile, Phases
  <2>5. \A p \in Phases : LastWrite(d, p) = LastWrite(Now, p)
    BY <1>0, <2>1, DrainedOrders
  <2>6. OrdersAt(d, Waiting(d), o, q)
    BY <1>0, <2>3, <2>4, <2>5 DEF OrdersAt, Phases
  <2>7. DueAt(d, o, q) = q /\ StartsAt(d, o, q)
    BY <2>2, NoneStarts
  <2> QED BY <2>6, <2>7
<1>2. CASE GivesBack(Now, d)
  <2>1. /\ d.last = Now.backup.last /\ d.fetch = Now.backup.fetch /\ ~d.loading /\ Now.loading
        /\ d.pipelined = Now.pipelined /\ Now.pipelined
        /\ d.hw = Now.hw /\ d.updates = Now.updates /\ d.geometryStarted = Now.geometryStarted
        /\ d.status = Now.status /\ Silent(d)
    BY <1>0, <1>2 DEF GivesBack, But, Fields, Course, Silent
  <2>2. Waiting(d) = Waiting(Now)
    BY <2>1 DEF Waiting
  <2>3. (Ahead(d) <=> Ahead(Now)) /\ ~ReadsVertex(d)
    BY <1>0, <1>2, <2>1 DEF Ahead, Home, ReadsVertex, Memories
  <2>4. OrdersAt(d, Waiting(d), o, q)
    BY <1>0, <2>1, <2>2, <2>3, OrdersSame
  <2>5. DueAt(d, o, q) = q /\ StartsAt(d, o, q)
    BY <2>1, NoneStarts
  <2> QED BY <2>4, <2>5
<1>3. CASE \E f \in CPState : PutsOff(Now, f) /\ Silent(f) /\ Processes(f, d)
  <2>1. PICK f \in CPState : PutsOff(Now, f) /\ Silent(f) /\ Processes(f, d)
    BY <1>3
  <2>2. f.pipelined /\ f.pipelined = Now.pipelined /\ f.status = Now.status
    BY <1>0, <2>1, PutsOffCourse DEF Limits
  <2>3. /\ f.loading /\ ~Now.loading /\ f.last.kind = "loadFragment"
        /\ f.backup = [last |-> Now.last, fetch |-> Now.fetch]
        /\ f.hw = Now.hw /\ f.updates = Now.updates /\ f.geometryStarted = Now.geometryStarted
    BY <2>1 DEF PutsOff, But, Fields
  <2>4. Pending(f) = Waiting(Now)
    BY <2>2, <2>3 DEF Pending, Waiting
  <2>5. ~ReadsVertex(f) /\ (Ahead(f) <=> Ahead(Now))
    BY <1>0, <2>2, <2>3 DEF ReadsVertex, Ahead, Home, Memories
  <2>6. OrdersAt(f, Pending(f), o, q)
    BY <1>0, <2>3, <2>4, <2>5, OrdersSame
  <2>7. f.status \in Stacked /\ f.status # "endGeometry"
    BY <2>2 DEF Stacked
  <2> QED BY <2>1, <2>2, <2>3, <2>6, <2>7, ProcessOrders
<1>4. CASE Drains(Now) = "none" /\ (DrawsBatch(Now, d) \/ Settles(Now, d))
  <2>1. /\ d.hw = Now.hw /\ d.updates = Now.updates /\ d.loading = Now.loading /\ d.backup = Now.backup
        /\ d.last = Now.last /\ d.pipelined = Now.pipelined /\ d.status \in {"ready", "drawing"}
        /\ Now.updates.frag = <<>>
    BY <1>4, NothingToDrain DEF DrawsBatch, Settles, But, Fields
  <2>2. ~Ahead(d) /\ ~ReadsVertex(d) /\ Home(d) = d.status
    BY <2>1 DEF Ahead, Home, Memories, ReadsVertex
  <2>3. Waiting(d) = Waiting(Now)
    <3>1. CASE DrawsBatch(Now, d)
      BY <2>1, <3>1 DEF DrawsBatch, But, Fields, Waiting
    <3>2. CASE Settles(Now, d)
      <4>1. d.fetch = IF Now.pipelined THEN Now.fetch ELSE TRUE
        BY <3>2 DEF Settles
      <4> QED BY <2>1, <4>1 DEF Waiting
    <3> QED BY <1>4, <3>1, <3>2
  <2>4. OrdersAt(d, Waiting(d), o, q)
    BY <1>0, <2>1, <2>2, <2>3, OrdersSame
  <2>5. CASE Settles(Now, d)
    <3>1. Silent(d)
      BY <1>0, <2>5 DEF Settles, But, Fields, Silent
    <3>2. DueAt(d, o, q) = q /\ StartsAt(d, o, q)
      BY <3>1, NoneStarts
    <3> QED BY <2>4, <3>2
  <2>6. CASE DrawsBatch(Now, d)
    <3>1. Sends(d, Fragment, "draw") /\ Now.geometryStarted
      BY <2>6 DEF DrawsBatch
    <3>2. "streamer" \in Units /\ "streamer" \notin Fragment /\ <<>> # <<"draw">>
      BY UnitsAre DEF Units, Geometry
    <3>3. d.out["streamer"] # <<"draw">>
      BY <3>1, <3>2 DEF Sends
    <3>4. q.frag = LastWrite(Now, "frag")
      BY <1>0, <3>1 DEF OrdersAt, Ahead
    <3>5. d.hw.frag = q.frag
      BY <2>1, <3>4 DEF LastWrite
    <3> QED BY <2>4, <3>3, <3>5 DEF DueAt, StartsAt
  <2> QED BY <1>4, <2>5, <2>6
<1> QED BY <1>1, <1>2, <1>3, <1>4 DEF Finishes

\* The order holds in whatever state the Command Processor moves to, and the
\* batches it starts there find the registers of their place in the trace.
LEMMA MoveOrders ==
  ASSUME Limits, order \in RegisterFile, Course(Now, fetched), NEW t, Takes(t), NEW d \in CPState,
         Move(d, t), Loads(d), Now.status = "endGeometry" /\ DrawAllowed(Now) => ~Now.geometryStarted,
         Now.status = "reset" => order = NoRegisters,
         Now.status = "exclusive" => Now.last.kind \in ExclusiveKinds,
         Now.status = "exclusive" /\ Displayed(Now.last.kind) /\ ~Now.workEnd => unit["dac"].state # "end",
         NEW q, OrdersAt(Now, Waiting(Now), order, q)
  PROVE  LET o == InOrder(t)
         IN  OrdersAt(d, Waiting(d), o, DueAt(d, o, q)) /\ StartsAt(d, o, DueAt(d, o, q))
<1>0. Now \in CPState /\ Silent(Now)
  BY NowIs
<1>a. InOrder(None) = order
  BY DEF InOrder, None, Registers, GeomRegisters, FragRegisters
<1>b. Plain(None)
  BY DEF Plain, None, Registers, GeomRegisters, FragRegisters
<1>1. CASE /\ Now.status \in {"ready", "drawing", "endGeometry"}
           /\ \E e \in CPState : Turns(Now, e, t) /\ Phased(e, d)
  <2> DEFINE o == InOrder(t)
  <2>1. PICK e \in CPState : Turns(Now, e, t) /\ Phased(e, d)
    BY <1>1
  <2>2. OrdersAt(e, Waiting(e), o, DueAt(e, o, q)) /\ StartsAt(e, o, DueAt(e, o, q))
    BY <1>1, <2>1, TurnOrders
  <2> HIDE DEF o
  <2>3. CASE d = e
    BY <2>2, <2>3 DEF o
  <2>4. CASE Now.status = "drawing" /\ EndsGeometry(e, d)
    <3>0. e.status = "drawing" /\ But(e, d, {"status", "geometryStarted", "out"}) /\ d.status = "endGeometry"
          /\ ~d.geometryStarted
          /\ \A u \in Units : d.out[u] = IF u \in Geometry THEN Append(e.out[u], "end") ELSE e.out[u]
      BY <2>4 DEF EndsGeometry
    <3>1. Silent(e)
      BY <2>1, <2>4, <3>0, DrawingSilent
    <3>2. Sends(d, Geometry, "end")
      <4>1. Append(<<>>, "end") = <<"end">>
        OBVIOUS
      <4> QED BY <3>0, <3>1, <4>1 DEF Silent, Sends
    <3>3. /\ Waiting(d) = Waiting(e)
          /\ d.hw = e.hw /\ d.updates = e.updates /\ ~Ahead(d) /\ ~ReadsVertex(e) /\ ~ReadsVertex(d)
      BY <3>0 DEF But, Fields, Waiting, Ahead, ReadsVertex
    <3>4. OrdersAt(d, Waiting(d), o, DueAt(e, o, q))
      BY <2>2, <3>3, OrdersSame
    <3>5. DueAt(e, o, q) = q /\ DueAt(d, o, q) = q /\ StartsAt(d, o, q)
      BY <3>1, <3>2, NoneStarts
    <3> QED BY <3>4, <3>5 DEF o
  <2>5. CASE Now.status = "endGeometry" /\ EndsFragment(e, d)
    <3>0. e.status = "endGeometry" /\ But(e, d, {"status", "out"}) /\ d.status = "endFragment"
          /\ \A u \in Units : d.out[u] = IF u \in Fragment THEN Append(e.out[u], "end") ELSE e.out[u]
      BY <2>5 DEF EndsFragment
    <3>1. /\ Waiting(d) = Waiting(e) /\ (Ahead(d) => Ahead(e))
          /\ d.hw = e.hw /\ d.updates = e.updates /\ ~ReadsVertex(e) /\ ~ReadsVertex(d)
      BY <3>0 DEF But, Fields, Waiting, Ahead, ReadsVertex, Home, Memories
    <3>2. /\ "streamer" \in Units /\ "streamer" \notin Fragment /\ "rasterizer" \in Units /\ "rasterizer" \in Fragment
      BY UnitsAre DEF Units, Geometry, Fragment
    <3>3. d.out["streamer"] = e.out["streamer"] /\ d.out["rasterizer"] = Append(e.out["rasterizer"], "end")
      BY <3>0, <3>2
    <3>4. d.out["rasterizer"] # <<"draw">>
      <4>1. \A s \in Seq(Commands) : Append(s, "end") # <<"draw">>
        <5> TAKE s \in Seq(Commands)
        <5>1. Append(s, "end")[Len(s) + 1] = "end" /\ Len(Append(s, "end")) = Len(s) + 1
          OBVIOUS
        <5>2. Len(<<"draw">>) = 1 /\ <<"draw">>[1] = "draw"
          OBVIOUS
        <5> QED BY <5>1, <5>2
      <4>2. e.out["rasterizer"] \in Seq(Commands)
        BY <3>2 DEF CPState
      <4> QED BY <3>3, <4>1, <4>2
    <3>5. OrdersAt(d, Waiting(d), o, DueAt(e, o, q))
      BY <2>2, <3>1, OrdersSame
    <3>6. DueAt(d, o, q) = DueAt(e, o, q)
      BY <3>3 DEF DueAt
    <3>7. StartsAt(d, o, DueAt(d, o, q))
      BY <2>2, <3>1, <3>3, <3>4, <3>6 DEF StartsAt
    <3> QED BY <3>5, <3>6, <3>7 DEF o
  <2> QED BY <2>1, <2>3, <2>4, <2>5 DEF Phased
<1>2. CASE t = None /\ Now.status = "endFragment" /\ Finishes(Now, d)
  BY <1>2, <1>a, FinishOrders
<1>3. CASE t = None /\ Now.status = "reset" /\ Restarted(Now, d)
  <2>1. /\ d.hw = NoRegisters /\ d.updates = [p \in Phases |-> <<>>] /\ ~d.geometryStarted /\ d.fetch
        /\ d.loading = Now.loading /\ d.status = "ready" /\ Silent(d)
    BY <1>0, <1>3 DEF Restarted, But, Fields, Silent
  <2>2. ~Now.loading
    BY <1>3 DEF Course, Home, Memories
  <2>3. Waiting(d) = None /\ ~Ahead(d) /\ ~ReadsVertex(d)
    BY <2>1, <2>2 DEF Waiting, Ahead, ReadsVertex
  <2>4. \A p \in Phases : LastWrite(d, p) = order[p]
    BY <1>3, <2>1 DEF LastWrite
  <2>5. OrdersAt(d, Waiting(d), order, q)
    BY <1>3, <1>b, <2>1, <2>3, <2>4 DEF OrdersAt, Plain
  <2>6. DueAt(d, order, q) = q /\ StartsAt(d, order, q)
    BY <2>1, NoneStarts
  <2> QED BY <1>3, <1>a, <2>5, <2>6
<1>4. CASE t = None /\ Now.status \in Memories /\ (d = Now \/ (But(Now, d, {"status", "hw"}) /\ d.status = Now.stack))
  <2>1. CASE d = Now
    <3>1. DueAt(d, order, q) = q /\ StartsAt(d, order, q)
      BY <1>0, <2>1, NoneStarts
    <3> QED BY <1>4, <1>a, <2>1, <3>1
  <2>2. CASE But(Now, d, {"status", "hw"}) /\ d.status = Now.stack
    <3>1. Now.fetch /\ Now.stack \in Stacked /\ Now.stack \notin Memories /\ d # Now
      BY <1>4, <2>2 DEF Course, Stacked, Memories
    <3>2. /\ d.updates = Now.updates /\ d.loading = Now.loading /\ d.fetch = Now.fetch
          /\ d.backup = Now.backup /\ d.geometryStarted = Now.geometryStarted /\ Silent(d)
      BY <1>0, <2>2 DEF But, Fields, Silent
    <3>3. /\ \A p \in Phases : d.hw[p] = Now.hw[p]
          /\ d.hw.vertex = IF ReadsVertex(Now) THEN Now.hw.geom ELSE Now.hw.vertex
      BY <1>4, <2>2, <3>1 DEF Loads, ReadsVertex
    <3>4. Waiting(d) = Waiting(Now)
      BY <3>1, <3>2 DEF Waiting
    <3>5. /\ Home(d) = Home(Now) /\ (Ahead(d) <=> Ahead(Now)) /\ ~ReadsVertex(d)
      BY <1>4, <2>2, <3>1, <3>2 DEF Home, Ahead, ReadsVertex, Memories
    <3>6. \A p \in Phases : LastWrite(d, p) = LastWrite(Now, p)
      BY <3>2, <3>3 DEF LastWrite
    <3>7. CASE ReadsVertex(Now)
      <4>1. /\ Now.updates.geom = <<>> /\ Waiting(Now) = None /\ order.vertex = order.geom
        BY <3>7 DEF OrdersAt
      <4>2. order.geom = Now.hw.geom
        BY <1>b, <4>1 DEF OrdersAt, LastWrite, Phases, Plain
      <4>3. d.hw.vertex = order.vertex
        BY <3>3, <3>7, <4>1, <4>2
      <4> QED BY <1>4, <1>a, <1>b, <3>2, <3>4, <3>5, <3>6, <4>1, <4>3, NoneStarts DEF OrdersAt, Plain, Phases
    <3>8. CASE ~ReadsVertex(Now)
      BY <1>4, <1>a, <3>2, <3>3, <3>4, <3>5, <3>6, <3>8, NoneStarts DEF OrdersAt, Phases
    <3> QED BY <3>7, <3>8
  <2> QED BY <1>4, <2>1, <2>2
<1>5. CASE t = None /\ Now.status = "exclusive" /\ Exclusively(Now, d)
  <2>1. /\ d.updates = Now.updates /\ d.hw = Now.hw /\ d.loading = Now.loading /\ d.last = Now.last
        /\ d.status \in {"exclusive", "ready"}
    BY <1>5 DEF Exclusively, Displays, Flushes, Ends, But, Fields
  <2>2. ~Now.loading /\ Plain(Now.last)
    BY <1>5 DEF Course, Home, Memories, Plain, ExclusiveKinds, Registers, GeomRegisters, FragRegisters
  <2>3. Plain(Waiting(d)) /\ Plain(Waiting(Now)) /\ ~Ahead(d) /\ ~ReadsVertex(d) /\ ~ReadsVertex(Now)
    BY <1>5, <1>b, <2>1, <2>2 DEF Waiting, Ahead, Home, Memories, ReadsVertex
  <2>4. OrdersAt(d, Waiting(d), order, q)
    BY <1>0, <2>1, <2>3, OrdersSame
  <2>5. d.out["streamer"] # <<"draw">> /\ d.out["rasterizer"] # <<"draw">>
    <3>1. CASE Silent(d) \/ \E us, k : Sends(d, us, k) /\ k # "draw"
      BY <3>1, QuietOut
    <3>2. CASE d = Now
      BY <1>0, <3>2, QuietOut
    <3>3. CASE Flushes(Now, d) \/ Ends(Now, d)
      BY <3>3, QuietOut DEF Flushes, Ends
    <3>4. CASE Displayed(Now.last.kind) /\ Displays(Now, d)
      <4> DEFINE ended == (\A u \in Workers(Now.last.kind) : unit[u].state = "end") /\ ~Now.workEnd
      <4>1. CASE ~ended
        BY <3>4, <4>1, QuietOut DEF Displays
      <4>2. CASE ended
        <5>1. \A u \in Units : d.out[u] = IF u = "dac" THEN <<"work">>
                                          ELSE IF u \in Workers(Now.last.kind) THEN <<"end">> ELSE <<>>
          BY <1>5, <3>4, <4>2 DEF Displays
        <5>2. <<"work">> # <<"draw">> /\ <<"end">> # <<"draw">> /\ <<>> # <<"draw">>
          OBVIOUS
        <5>3. "streamer" \in Units /\ "rasterizer" \in Units
          BY DEF Units, Geometry, Fragment
        <5> QED BY <5>1, <5>2, <5>3
      <4> QED BY <4>1, <4>2
    <3> QED BY <1>5, <3>2, <3>3, <3>4 DEF Exclusively
  <2> QED BY <1>5, <1>a, <2>4, <2>5 DEF DueAt, StartsAt
<1> QED BY <1>1, <1>2, <1>3, <1>4, <1>5 DEF Move

\* Only a transaction that was just taken resets: RESET is never held.
LEMMA ResetIsTaken ==
  ASSUME Limits, Course(Now, fetched), NEW t, Takes(t), NEW d \in CPState, Move(d, t), d.status = "reset"
  PROVE  t # None /\ t.kind = "reset" /\ fetched = 0
<1>0. Now \in CPState
  BY NowIs
<1>1. CASE /\ Now.status \in {"ready", "drawing", "endGeometry"}
           /\ \E e \in CPState : Turns(Now, e, t) /\ Phased(e, d)
  <2>1. PICK e \in CPState : Turns(Now, e, t) /\ Phased(e, d)
    BY <1>1
  <2>2. d = e
    BY <2>1 DEF Phased, EndsGeometry, EndsFragment
  <2>3. ~(\E p \in Phases : Drained(Now, e, p)) /\ ~Fetched(Now, e, t)
    BY <1>1, <2>2 DEF Drained, Fetched, But, Fields
  <2>4. PICK f \in CPState : Tries(f, t) /\ Processes(f, d)
    BY <1>1, <2>1, <2>2, <2>3, TurnIs
  <2>5. f.status # "reset"
    BY <2>4 DEF Tries, Stacked
  <2>6. ~Holds(f, d) /\ ~Skips(f, d) /\ ~Keeps(f, d) /\ ~Writes(f, d)
    BY <2>5 DEF Holds, Skips, Keeps, Writes, But, Fields
  <2>7. ~Draws(f, d) /\ ~Transfers(f, d) /\ ~Begins(f, d)
    BY DEF Draws, Transfers, Begins, Memories
  <2>8. f.last.kind = "reset"
    BY <2>4, <2>6, <2>7 DEF Processes, Restarts
  <2>9. CASE t = None
    <3>1. Now.last.kind = "reset" /\ ~Now.fetch
      BY <2>4, <2>8, <2>9 DEF Tries
    <3> QED BY <3>1 DEF Course
  <2>10. CASE t # None
    <3>1. t.kind = "reset"
      BY <2>4, <2>8, <2>10 DEF Tries
    <3> QED BY <2>10, <3>1 DEF Takes
  <2> QED BY <2>9, <2>10
<1>2. CASE t = None /\ Now.status = "endFragment" /\ Finishes(Now, d)
  <2>1. CASE \E f \in CPState : PutsOff(Now, f) /\ Silent(f) /\ Processes(f, d)
    <3>1. PICK f \in CPState : PutsOff(Now, f) /\ Silent(f) /\ Processes(f, d)
      BY <2>1
    <3>2. f.status = "endFragment" /\ f.last.kind = "loadFragment"
      BY <1>2, <3>1 DEF PutsOff, But, Fields
    <3>3. ~Holds(f, d) /\ ~Skips(f, d) /\ ~Keeps(f, d) /\ ~Writes(f, d)
      BY <3>2 DEF Holds, Skips, Keeps, Writes, But, Fields
    <3>4. ~Draws(f, d) /\ ~Transfers(f, d) /\ ~Begins(f, d) /\ ~Restarts(f, d)
      BY <3>2 DEF Draws, Transfers, Begins, Restarts, Memories
    <3> QED BY <3>1, <3>3, <3>4 DEF Processes
  <2>2. CASE (\E p \in Phases : Drained(Now, d, p)) \/ GivesBack(Now, d)
    BY <1>2, <2>2 DEF Drained, GivesBack, But, Fields
  <2>3. CASE DrawsBatch(Now, d) \/ Settles(Now, d)
    BY <2>3 DEF DrawsBatch, Settles
  <2> QED BY <1>2, <2>1, <2>2, <2>3 DEF Finishes
<1>3. CASE t = None /\ Now.status = "reset" /\ Restarted(Now, d)
  BY <1>3 DEF Restarted
<1>4. CASE t = None /\ Now.status \in Memories /\ (d = Now \/ (But(Now, d, {"status", "hw"}) /\ d.status = Now.stack))
  BY <1>4 DEF Course, Memories, Stacked
<1>5. CASE t = None /\ Now.status = "exclusive" /\ Exclusively(Now, d)
  BY <1>5 DEF Exclusively, Displays, Flushes, Ends
<1> QED BY <1>1, <1>2, <1>3, <1>4, <1>5 DEF Move

\* The registers are where the order says, and nothing was ordered before the
\* first transaction.
OInv ==
  /\ IInv /\ OrdersAt(cp, Waiting(cp), order, due)
  /\ fetched = 0 \/ cp.status = "reset" => order = NoRegisters
  /\ RegistersInOrder

LEMMA OrderBegins == Init => OInv
<1> SUFFICES ASSUME Init PROVE OInv
  OBVIOUS
<1>1. IInv
  BY Beginning
<1>2. PICK pipelined \in DOMAIN Kinds :
        cp = [status |-> "reset", pipelined |-> pipelined, stack |-> "ready",
              fetch |-> TRUE, last |-> None, geometryStarted |-> FALSE, drawDelay |-> 0,
              updates |-> [p \in Phases |-> <<>>], stored |-> FALSE, loading |-> FALSE,
              backup |-> [last |-> None, fetch |-> FALSE], workEnd |-> FALSE, flushDelay |-> 0,
              traceEnd |-> FALSE, hw |-> NoRegisters, out |-> [u \in Units |-> <<>>]]
  BY DEF Init
<1>3. /\ cp.status = "reset" /\ cp.fetch = TRUE /\ cp.loading = FALSE /\ cp.hw = NoRegisters
      /\ cp.updates = [p \in Phases |-> <<>>] /\ cp.geometryStarted = FALSE
  BY <1>2
<1>4. comm = [u \in Units |-> <<>>] /\ order = NoRegisters
  BY DEF Init
<1>5. Waiting(cp) = None /\ ~ReadsVertex(cp) /\ ~Ahead(cp) /\ Plain(None)
  BY <1>3 DEF Waiting, ReadsVertex, Ahead, Plain, None, Registers, GeomRegisters, FragRegisters
<1>6. OrdersAt(cp, Waiting(cp), order, due)
  BY <1>3, <1>4, <1>5 DEF OrdersAt, LastWrite, Plain
<1>7. RegistersInOrder
  <2>1. "streamer" \in Units /\ "rasterizer" \in Units /\ <<>> # <<"draw">>
    BY DEF Units, Geometry, Fragment
  <2> QED BY <1>4, <2>1 DEF RegistersInOrder
<1> QED BY <1>1, <1>4, <1>6, <1>7 DEF OInv

LEMMA OrderInductive ==
  ASSUME ConsecutiveDrawDelay >= 2, OInv, [Next]_vars
  PROVE  OInv'
<1>0. IInv /\ IInv'
  BY Inductive DEF OInv
<1>1. CASE UNCHANGED vars
  BY <1>0, <1>1 DEF vars, OInv, RegistersInOrder
<1>2. CASE Next
  <2>1. PICK d \in CPState, t \in Transaction : Takes(t) /\ Move(d, t) /\ Loads(d) /\ Becomes(d, t)
    BY <1>0, <1>2, NextIs DEF IInv, Course
  <2>2. /\ UnitsAccept /\ cp' \in CPState /\ But(d, cp', {"out"}) /\ comm' = d.out /\ fetched' = Taking(t)
    BY <1>0, <2>1, StepIs
  <2>3. \A f \in Fields \ {"out"} : cp'[f] = d[f]
    BY <2>2 DEF But
  <2>4. /\ Course(Now, fetched) /\ Limits /\ order \in RegisterFile
        /\ Now.status = "exclusive" => Now.last.kind \in ExclusiveKinds
        /\ Now.status = "exclusive" /\ Displayed(Now.last.kind) /\ ~Now.workEnd => unit["dac"].state # "end"
    BY <1>0, <2>2, NowInvariant DEF IInv
  <2>5. Now.status = "endGeometry" /\ DrawAllowed(Now) => ~Now.geometryStarted
    BY <1>0, <2>2, NotTwice
  <2>6. Now \in CPState /\ cp \in CPState /\ But(cp, Now, {"drawDelay"})
    BY <2>4, NowIs DEF Limits
  <2>7. \A f \in Fields \ {"drawDelay"} : Now[f] = cp[f]
    BY <2>6 DEF But
  <2>8. OrdersAt(Now, Waiting(Now), order, due)
    <3>1. /\ Now.hw = cp.hw /\ Now.updates = cp.updates /\ (Ahead(Now) <=> Ahead(cp))
          /\ (ReadsVertex(Now) <=> ReadsVertex(cp)) /\ Waiting(Now) = Waiting(cp)
      BY <2>7 DEF Fields, Ahead, Home, ReadsVertex, Waiting
    <3>2. OrdersAt(cp, Waiting(cp), order, due)
      BY DEF OInv
    <3> QED BY <2>6, <3>1, <3>2, OrdersSame
  <2>9. Now.status = "reset" => order = NoRegisters
    BY <2>7 DEF Fields, OInv
  <2> DEFINE o == InOrder(t)
             q == DueAt(d, o, due)
  <2>10. OrdersAt(d, Waiting(d), o, q) /\ StartsAt(d, o, q)
    BY <2>1, <2>4, <2>5, <2>8, <2>9, MoveOrders
  <2>11. order' = o /\ due' = q
    BY <2>1 DEF Becomes, DueAt
  <2>12. OrdersAt(cp', Waiting(cp'), order', due')
    <3>1. /\ cp'.hw = d.hw /\ cp'.updates = d.updates /\ (Ahead(cp') <=> Ahead(d))
          /\ (ReadsVertex(cp') <=> ReadsVertex(d)) /\ Waiting(cp') = Waiting(d)
      BY <2>3 DEF Fields, Ahead, Home, ReadsVertex, Waiting
    <3> HIDE DEF o, q
    <3> QED BY <2>2, <2>10, <2>11, <3>1, OrdersSame
  <2>13. fetched' = 0 \/ cp'.status = "reset" => order' = NoRegisters
    <3>1. ASSUME fetched' = 0 PROVE order' = NoRegisters
      <4>1. t = None /\ fetched = 0
        BY <2>2, <2>4, <3>1, BoundAssumption DEF Taking, Limits
      <4>2. o = order
        BY <4>1 DEF InOrder, None, Registers, GeomRegisters, FragRegisters
      <4> QED BY <2>11, <4>1, <4>2 DEF OInv
    <3>2. ASSUME cp'.status = "reset" PROVE order' = NoRegisters
      <4>1. d.status = "reset"
        BY <2>3, <3>2 DEF Fields
      <4>2. t.kind = "reset" /\ fetched = 0
        BY <2>1, <2>4, <4>1, ResetIsTaken
      <4>3. o = order
        BY <4>2 DEF InOrder, Registers, GeomRegisters, FragRegisters
      <4> QED BY <2>11, <4>2, <4>3 DEF OInv
    <3> QED BY <3>1, <3>2
  <2>14. RegistersInOrder'
    <3>1. cp'.hw = d.hw
      BY <2>3 DEF Fields
    <3> HIDE DEF o, q
    <3> QED BY <2>2, <2>10, <2>11, <3>1 DEF RegistersInOrder, StartsAt
  <2> QED BY <1>0, <2>12, <2>13, <2>14 DEF OInv
<1> QED BY <1>1, <1>2

\* Every geometry phase starts with the geometry registers and the vertex
\* program of its place in the trace, and every fragment phase with the
\* fragment registers of its batch: no write overtakes a batch or is left
\* behind in a buffer, however many are held or buffered while batches overlap.
THEOREM RegistersAlwaysInOrder ==
  ASSUME ConsecutiveDrawDelay >= 2
  PROVE  Spec => []RegistersInOrder
<1>1. OInv /\ [Next]_vars => OInv'
  BY OrderInductive
<1>2. OInv => RegistersInOrder
  BY DEF OInv
<1> QED BY <1>1, <1>2, OrderBegins, PTL DEF Spec

-----------------------------------------------------------------------------
(* What the units are sent they accept.                                    *)

\* The registers whose writes go to the Clipper and the Rasterizer at once.
Straddling == {"clipReg", "depthRangeReg"}
Proper(c) ==
  c.pipelined => /\ c.last.kind \notin Straddling /\ c.backup.last.kind \notin Straddling
                 /\ \A p \in Phases : \A i \in DOMAIN c.updates[p] : c.updates[p][i].kind \notin Straddling

LEMMA ProperSame ==
  ASSUME NEW c \in CPState, NEW d \in CPState, Proper(c), d.pipelined = c.pipelined,
         d.last = c.last, d.backup = c.backup, d.updates = c.updates
  PROVE  Proper(d)
BY DEF Proper

LEMMA ProcessProper ==
  ASSUME NEW c \in CPState, NEW d \in CPState, Proper(c), Processes(c, d)
  PROVE  Proper(d)
<1>1. CASE Keeps(c, d)
  <2> DEFINE r == Phase(c.last.kind)
  <2>1. r \in Phases /\ But(c, d, {"fetch", "updates"}) /\ d.updates = [c.updates EXCEPT ![r] = Append(@, c.last)]
    BY <1>1, PhaseIs DEF Keeps
  <2>2. d.last = c.last /\ d.backup = c.backup /\ d.pipelined = c.pipelined
    BY <2>1 DEF But, Fields
  <2>3. ASSUME c.pipelined, NEW p \in Phases, NEW i \in DOMAIN d.updates[p]
        PROVE  d.updates[p][i].kind \notin Straddling
    <3>1. c.updates[p] \in Seq(Transaction) /\ c.last \in Transaction /\ c.updates \in [Phases -> Seq(Transaction)]
      BY DEF CPState
    <3>2. CASE p # r
      BY <2>1, <2>3, <3>1, <3>2 DEF Proper
    <3>3. CASE p = r
      <4>1. d.updates[p] = Append(c.updates[p], c.last)
        BY <2>1, <3>1, <3>3
      <4>2. DOMAIN c.updates[p] = 1 .. Len(c.updates[p]) /\ i \in 1 .. Len(c.updates[p]) + 1
        BY <2>3, <3>1, <4>1
      <4>3. d.updates[p][i] = IF i = Len(c.updates[p]) + 1 THEN c.last ELSE c.updates[p][i]
        BY <3>1, <4>1, <4>2
      <4> QED BY <2>3, <3>1, <4>2, <4>3 DEF Proper
    <3> QED BY <3>2, <3>3
  <2> QED BY <2>2, <2>3 DEF Proper
<1>2. CASE ~Keeps(c, d)
  <2>1. d.pipelined = c.pipelined /\ d.last = c.last /\ d.backup = c.backup /\ d.updates = c.updates
    BY <1>2 DEF Processes, Holds, Skips, Transfers, Writes, Draws, Begins, Restarts, But, Fields
  <2> QED BY <2>1, ProperSame
<1> QED BY <1>1, <1>2

LEMMA DrainedProper ==
  ASSUME NEW c \in CPState, NEW d \in CPState, Proper(c), NEW r \in Phases, Drained(c, d, r)
  PROVE  Proper(d)
<1>1. But(c, d, {"updates", "hw", "out"}) /\ d.updates = [c.updates EXCEPT ![r] = Tail(@)] /\ c.updates[r] # <<>>
  BY DEF Drained
<1>2. d.last = c.last /\ d.backup = c.backup /\ d.pipelined = c.pipelined
  BY <1>1 DEF But, Fields
<1>3. ASSUME c.pipelined, NEW p \in Phases, NEW i \in DOMAIN d.updates[p]
      PROVE  d.updates[p][i].kind \notin Straddling
  <2>1. c.updates[p] \in Seq(Transaction) /\ c.updates \in [Phases -> Seq(Transaction)]
    BY DEF CPState
  <2>2. CASE p # r
    BY <1>1, <1>3, <2>1, <2>2 DEF Proper
  <2>3. CASE p = r
    <3>1. d.updates[p] = Tail(c.updates[p])
      BY <1>1, <2>1, <2>3
    <3>2. /\ i \in 1 .. Len(c.updates[p]) - 1 /\ d.updates[p][i] = c.updates[p][i + 1]
          /\ i + 1 \in DOMAIN c.updates[p]
      BY <1>1, <1>3, <2>1, <2>3, <3>1
    <3> QED BY <1>3, <3>2 DEF Proper
  <2> QED BY <2>2, <2>3
<1> QED BY <1>2, <1>3 DEF Proper

LEMMA MoveProper ==
  ASSUME Limits, Course(Now, fetched), NEW t, Takes(t), NEW d \in CPState, Move(d, t), Proper(Now),
         TRUE \in DOMAIN Kinds => Kinds[TRUE] \cap Straddling = {}
  PROVE  Proper(d)
<1>0. Now \in CPState /\ Now.pipelined = cp.pipelined /\ (cp.pipelined => cp.pipelined = TRUE /\ TRUE \in DOMAIN Kinds)
  <2>1. Now.pipelined = cp.pipelined /\ Now \in CPState
    BY NowIs DEF But, Fields
  <2>2. cp.pipelined \in BOOLEAN /\ cp.pipelined \in DOMAIN Kinds
    BY BoundAssumption DEF Limits
  <2> QED BY <2>1, <2>2
<1>a. Now.pipelined /\ t # None => t.kind \notin Straddling
  BY <1>0 DEF Takes
<1>1. CASE /\ Now.status \in {"ready", "drawing", "endGeometry"}
           /\ \E e \in CPState : Turns(Now, e, t) /\ Phased(e, d)
  <2>1. PICK e \in CPState : Turns(Now, e, t) /\ Phased(e, d)
    BY <1>1
  <2>2. ASSUME NEW f \in CPState, Fetched(Now, f, t) PROVE Proper(f)
    <3>1. /\ f.pipelined = Now.pipelined /\ f.backup = Now.backup /\ f.updates = Now.updates
          /\ f.last = Now.last \/ (t # None /\ f.last = t)
      BY <2>2 DEF Fetched, But, Fields
    <3> QED BY <1>a, <3>1 DEF Proper
  <2>3. Proper(e)
    <3>1. CASE \E p \in Phases : Drained(Now, e, p)
      BY <1>0, <3>1, DrainedProper
    <3>2. CASE Fetched(Now, e, t)
      BY <2>2, <3>2
    <3>3. CASE \E f \in CPState : Fetched(Now, f, t) /\ Silent(f) /\ Processes(f, e)
      BY <2>2, <3>3, ProcessProper
    <3> QED BY <2>1, <3>1, <3>2, <3>3 DEF Turns
  <2>4. d.pipelined = e.pipelined /\ d.last = e.last /\ d.backup = e.backup /\ d.updates = e.updates
    BY <2>1 DEF Phased, EndsGeometry, EndsFragment, But, Fields
  <2> QED BY <2>3, <2>4, ProperSame
<1>2. CASE t = None /\ Now.status = "endFragment" /\ Finishes(Now, d)
  <2>1. CASE \E p \in Phases : Drained(Now, d, p)
    BY <1>0, <2>1, DrainedProper
  <2>2. CASE GivesBack(Now, d)
    <3>1. d.last = Now.backup.last /\ d.backup = Now.backup /\ d.updates = Now.updates /\ d.pipelined = Now.pipelined
      BY <2>2 DEF GivesBack, But, Fields
    <3> QED BY <3>1 DEF Proper
  <2>3. CASE \E f \in CPState : PutsOff(Now, f) /\ Silent(f) /\ Processes(f, d)
    <3>1. PICK f \in CPState : PutsOff(Now, f) /\ Silent(f) /\ Processes(f, d)
      BY <2>3
    <3>2. /\ f.last.kind = "loadFragment" /\ f.backup.last = Now.last
          /\ f.updates = Now.updates /\ f.pipelined = Now.pipelined
      BY <3>1 DEF PutsOff, But, Fields
    <3>3. Proper(f)
      BY <3>2 DEF Proper, Straddling
    <3> QED BY <3>1, <3>3, ProcessProper
  <2>4. CASE DrawsBatch(Now, d) \/ Settles(Now, d)
    <3>1. d.pipelined = Now.pipelined /\ d.last = Now.last /\ d.backup = Now.backup /\ d.updates = Now.updates
      BY <2>4 DEF DrawsBatch, Settles, But, Fields
    <3> QED BY <1>0, <3>1, ProperSame
  <2> QED BY <1>2, <2>1, <2>2, <2>3, <2>4 DEF Finishes
<1>3. CASE t = None /\ Now.status = "reset" /\ Restarted(Now, d)
  <2>1. /\ d.pipelined = Now.pipelined /\ d.last = Now.last /\ d.backup = Now.backup
        /\ d.updates = [p \in Phases |-> <<>>]
    BY <1>3 DEF Restarted, But, Fields
  <2>2. \A p \in Phases : DOMAIN d.updates[p] = {}
    BY <2>1
  <2> QED BY <2>1, <2>2 DEF Proper
<1>4. CASE t = None /\ Now.status \in Memories /\ (d = Now \/ (But(Now, d, {"status", "hw"}) /\ d.status = Now.stack))
  <2>1. d.pipelined = Now.pipelined /\ d.last = Now.last /\ d.backup = Now.backup /\ d.updates = Now.updates
    BY <1>4 DEF But, Fields
  <2> QED BY <1>0, <2>1, ProperSame
<1>5. CASE t = None /\ Now.status = "exclusive" /\ Exclusively(Now, d)
  <2>1. d.pipelined = Now.pipelined /\ d.last = Now.last /\ d.backup = Now.backup /\ d.updates = Now.updates
    BY <1>5 DEF Exclusively, Displays, Flushes, Ends, But, Fields
  <2> QED BY <1>0, <2>1, ProperSame
<1> QED BY <1>1, <1>2, <1>3, <1>4, <1>5 DEF Move

\* A unit that is through with its batches comes after the units it gets its
\* work from.
InOrderOfPipe ==
  \A u \in Units : \A v \in Upstream(u) : unit[u].state # "drawing" => Passed(v, unit[u].batch)

LEMMA UpstreamIs ==
  /\ \A u \in Units : Upstream(u) \subseteq Units
  /\ Upstream("dac") = {}
  /\ "streamer" \in Upstream("pa") /\ "pa" \in Upstream("clipper")
  /\ \A u \in ZStencil : "rasterizer" \in Upstream(u)
  /\ \A u \in ColorWrite : Upstream(u) = ZStencil
BY UnitAssumption DEF Upstream, Units, Geometry, Fragment

\* Obeying the commands they accept, the units keep the order.
LEMMA PipeNext ==
  ASSUME UnitsTyped, UnitsAccept, InOrderOfPipe,
         NEW done \in SUBSET { u \in Units : MayFinish(u) }, UnitsClock(done)
  PROVE  InOrderOfPipe'
<1>1. \A u \in Units :
        /\ unit'[u].batch = Batched[u] /\ unit[u].batch \in Nat
        /\ \/ unit'[u].state = Willed[u] /\ Willed[u] # "reset" /\ ~Resetting(u)
           \/ unit'[u].state = "end" /\ Willed[u] \in {"drawing", "working"} /\ u \in done
           \/ unit'[u].state = "reset" /\ Willed[u] = "ready" /\ Resetting(u)
  BY ClockIs DEF UnitsTyped
<1>a. \A q, s, u : Will(q, s, u) = "drawing" => s = "drawing" \/ (q # <<>> /\ Head(q) = "draw")
  BY DEF Will
\* What passed a batch has passed it.
<1>2. ASSUME NEW v \in Units, NEW b \in Nat, Passed(v, b)
      PROVE  unit'[v].batch > b \/ (unit'[v].batch = b /\ unit'[v].state # "drawing")
  <2>1. /\ Batched[v] = Plus(comm[v], unit[v].batch) /\ Willed[v] = Will(comm[v], Were(v), v)
        /\ unit'[v].batch = Batched[v] /\ unit[v].batch \in Nat
    BY <1>1 DEF Batched, Willed
  <2>2. CASE comm[v] # <<>> /\ Head(comm[v]) = "draw"
    <3>1. Batched[v] = unit[v].batch + 1
      BY <2>1, <2>2 DEF Plus
    <3> QED BY <1>2, <2>1, <3>1 DEF Passed
  <2>3. CASE ~(comm[v] # <<>> /\ Head(comm[v]) = "draw")
    <3>1. Batched[v] = unit[v].batch
      BY <2>1, <2>3 DEF Plus
    <3>2. Willed[v] = "drawing" => unit[v].state = "drawing"
      BY <1>a, <2>1, <2>3 DEF Were
    <3>3. unit'[v].state = "drawing" => Willed[v] = "drawing"
      BY <1>1
    <3> QED BY <1>2, <2>1, <3>1, <3>2, <3>3 DEF Passed
  <2> QED BY <2>2, <2>3
<1> SUFFICES ASSUME NEW u \in Units, NEW v \in Upstream(u), unit'[u].state # "drawing"
             PROVE  unit'[v].batch > unit'[u].batch
                    \/ (unit'[v].batch = unit'[u].batch /\ unit'[v].state # "drawing")
  BY DEF InOrderOfPipe, Passed
<1>3. v \in Units /\ u # "dac"
  BY UpstreamIs
<1>4. /\ Batched[u] = Plus(comm[u], unit[u].batch) /\ Willed[u] = Will(comm[u], Were(u), u)
      /\ unit'[u].batch = Batched[u] /\ unit[u].batch \in Nat
  BY <1>1 DEF Batched, Willed
<1>5. ~(comm[u] # <<>> /\ Head(comm[u]) = "draw")
  <2> SUFFICES ASSUME comm[u] # <<>>, Head(comm[u]) = "draw" PROVE FALSE
    OBVIOUS
  <2>1. Willed[u] = "drawing" /\ ~Resetting(u)
    BY <1>3, <1>4 DEF Will, Resetting
  <2>2. unit'[u].state = "end" /\ u \in done
    BY <1>1, <2>1
  <2>3. unit[u].state = "ready"
    BY DEF UnitsAccept, Accepts
  <2> QED BY <2>2, <2>3 DEF MayFinish
<1>6. unit'[u].batch = unit[u].batch
  BY <1>4, <1>5 DEF Plus
<1>7. Passed(v, unit[u].batch)
  <2>1. CASE unit[u].state # "drawing"
    BY <2>1 DEF InOrderOfPipe
  <2>2. CASE unit[u].state = "drawing"
    <3>1. comm[u] = <<>>
      <4>1. comm[u] # <<>> => Accepts(u, Head(comm[u])) /\ Head(comm[u]) \in Commands
        BY DEF UnitsAccept, UnitsTyped
      <4>2. \A k \in Commands : ~Accepts(u, k)
        BY <2>2 DEF Accepts, Reads, Commands
      <4> QED BY <4>1, <4>2
    <3>2. Willed[u] = "drawing" /\ ~Resetting(u)
      BY <1>4, <2>2, <3>1 DEF Will, Were, Resetting
    <3>3. u \in done
      BY <1>1, <3>2
    <3> QED BY <2>2, <3>3 DEF MayFinish
  <2> QED BY <2>1, <2>2
<1> QED BY <1>1, <1>2, <1>3, <1>6, <1>7

\* Units that were given the same batches have all ended when the last has.
LEMMA EndsUpstream ==
  ASSUME UnitsTyped, UnitsAccept, InOrderOfPipe, NEW u \in Units, NEW v \in Upstream(u),
         Batched[u] = Batched[v], Willed[v] \in Busy, unit[u].state = "end"
  PROVE  unit[v].state = "end"
<1>1. v \in Units /\ unit[u].batch \in Nat /\ unit[v].batch \in Nat
  BY UpstreamIs DEF UnitsTyped
<1>2. Passed(v, unit[u].batch)
  BY DEF InOrderOfPipe
<1>3. ~(comm[u] # <<>> /\ Head(comm[u]) = "draw")
  BY DEF UnitsAccept, Accepts
<1>4. Batched[u] = unit[u].batch /\ Batched[v] \in {unit[v].batch, unit[v].batch + 1}
  BY <1>1, <1>3 DEF Batched, Plus
<1>5. unit[v].batch = unit[u].batch /\ unit[v].state # "drawing"
  BY <1>1, <1>2, <1>4 DEF Passed
<1>6. ~(comm[v] # <<>> /\ Head(comm[v]) = "draw")
  BY <1>1, <1>4, <1>5 DEF Batched, Plus
<1>7. Willed[v] = Will(comm[v], Were(v), v)
  BY <1>1 DEF Willed
<1>8. Were(v) \in Busy
  BY <1>6, <1>7 DEF Will, Busy
<1> QED BY <1>5, <1>8 DEF Were, Busy

\* A command that its unit accepts in the next cycle.
Fits(d) ==
  \A u \in Units :
    \/ d.out[u] = <<>>
    \/ Willed[u] = "ready" /\ \E k \in {"draw", "work", "reg", "reset"} : d.out[u] = <<k>>
    \/ Willed[u] # "ready" /\ unit[u].state = "end" /\ d.out[u] = <<"end">>

LEMMA SendsFit ==
  ASSUME NEW d, NEW us, NEW k \in {"draw", "work", "reg", "reset"}, Sends(d, us, k),
         \A u \in us : u \in Units => Willed[u] = "ready"
  PROVE  Fits(d)
BY DEF Sends, Fits

LEMMA EndsFit ==
  ASSUME NEW d, NEW us, Sends(d, us, "end"),
         \A u \in us : u \in Units => Willed[u] # "ready" /\ unit[u].state = "end"
  PROVE  Fits(d)
BY DEF Sends, Fits

LEMMA SilentFits == ASSUME NEW d, Silent(d) PROVE Fits(d)
BY DEF Silent, Fits

LEMMA FitsAccepted ==
  ASSUME IInv, NEW t \in Transaction, NEW d \in CPState, Takes(t), Move(d, t), Becomes(d, t), Fits(d)
  PROVE  UnitsAccept'
<1>1. UnitsAccept /\ UnitsTyped /\ comm' = d.out
  BY DEF Becomes, IInv
<1>2. PICK done \in SUBSET { u \in Units : MayFinish(u) } : UnitsClock(done)
  BY DEF Becomes
<1>3. \A u \in Units :
        \/ unit'[u].state = Willed[u] /\ Willed[u] # "reset" /\ ~Resetting(u)
        \/ unit'[u].state = "end" /\ Willed[u] \in {"drawing", "working"} /\ u \in done
        \/ unit'[u].state = "reset" /\ Willed[u] = "ready" /\ Resetting(u)
  BY <1>1, <1>2, ClockIs
<1>4. CASE cp.status = "reset"
  <2>1. Now.status = "reset" /\ Silent(Now)
    <3>1. Limits
      BY DEF IInv
    <3> QED BY <1>4, <3>1, NowIs DEF But, Fields
  <2>2. Restarted(Now, d)
    BY <2>1 DEF Move, Memories
  <2>3. Silent(d)
    BY <2>1, <2>2 DEF Restarted, But, Fields, Silent
  <2> QED BY <1>1, <2>3 DEF Silent, UnitsAccept
<1>5. CASE cp.status # "reset"
  <2>1. \A u \in Units : ~Resetting(u)
    BY <1>5 DEF IInv, Sound, Resetting
  <2> SUFFICES ASSUME NEW u \in Units, d.out[u] # <<>>
               PROVE  Len(d.out[u]) = 1 /\ Accepts(u, Head(d.out[u]))'
    BY <1>1 DEF UnitsAccept
  <2>2. \A k : Len(<<k>>) = 1 /\ Head(<<k>>) = k
    OBVIOUS
  <2>3. CASE Willed[u] = "ready" /\ \E k \in {"draw", "work", "reg", "reset"} : d.out[u] = <<k>>
    <3>1. PICK k \in {"draw", "work", "reg", "reset"} : d.out[u] = <<k>>
      BY <2>3
    <3>2. unit'[u].state = "ready"
      BY <1>3, <2>1, <2>3
    <3>3. Accepts(u, k)'
      BY <3>2 DEF Accepts, Reads
    <3>4. Head(d.out[u]) = k /\ Len(d.out[u]) = 1
      BY <2>2, <3>1
    <3> QED BY <3>3, <3>4
  <2>4. CASE Willed[u] # "ready" /\ unit[u].state = "end" /\ d.out[u] = <<"end">>
    <3>1. comm[u] # <<>> => Accepts(u, Head(comm[u])) /\ Head(comm[u]) \in Commands
      BY <1>1 DEF UnitsAccept, UnitsTyped
    <3>2. Willed[u] = Will(comm[u], "end", u)
      BY <2>4 DEF Willed, Were
    <3>3. Willed[u] = "end"
      BY <2>1, <2>4, <3>1, <3>2 DEF Will, Accepts, Commands, Resetting
    <3>4. unit'[u].state = "end"
      BY <1>3, <3>3
    <3>5. Accepts(u, "end")'
      BY <3>4 DEF Accepts
    <3>6. Head(d.out[u]) = "end" /\ Len(d.out[u]) = 1
      BY <2>2, <2>4
    <3> QED BY <3>5, <3>6
  <2> QED BY <2>3, <2>4 DEF Fits
<1> QED BY <1>4, <1>5

\* What is sent for a transaction fits, and spares the fragment units while
\* they draw.
LEMMA ProcessFits ==
  ASSUME NEW c \in CPState, NEW d \in CPState, Silent(c), Processes(c, d), FlowOf(c, Willed, Batched),
         Proper(c), c.status \in Stacked, c.status = "ready" \/ c.pipelined,
         c.last.kind = "reset" => c.status = "ready",
         c.status = "endGeometry" /\ DrawAllowed(c) => ~c.geometryStarted,
         c.status = "endFragment" => c.last.kind = "loadFragment"
  PROVE  Fits(d) /\ (c.status = "endGeometry" => \A u \in Fragment : d.out[u] = <<>>)
<1>0. /\ Home(c) = c.status /\ InPhase(c, Willed) /\ InStep(c, Batched)
  BY DEF Home, Stacked, Memories, FlowOf
<1>a. c.status = "ready" => \A u \in Units : Willed[u] = "ready"
  BY <1>0, UnitsAre DEF InPhase, InStep
<1>b. ~c.geometryStarted => \A u \in Geometry \cup {"dac"} : Willed[u] = "ready"
  BY <1>0 DEF InPhase
<1>c. Fragment \subseteq Units /\ (Geometry \cup {"dac"}) \cap Fragment = {}
  BY UnitsAre
<1>1. CASE Holds(c, d) \/ Skips(c, d) \/ Keeps(c, d) \/ Transfers(c, d)
  <2>1. d.out = c.out
    BY <1>1 DEF Holds, Skips, Keeps, Transfers, But, Fields
  <2> QED BY <1>c, <2>1, SilentFits DEF Silent
<1>2. CASE Writes(c, d)
  <2> DEFINE k == c.last.kind
  <2>1. k \in Registers /\ ~Buffered(c, Phase(k)) /\ Sends(d, Targets(k), "reg")
    BY <1>2 DEF Writes
  <2>2. CASE c.status = "ready"
    <3>1. Fits(d)
      BY <1>a, <2>1, <2>2, SendsFit
    <3> QED BY <2>2, <3>1
  <2>3. CASE c.status = "endGeometry"
    <3>1. k \in GeomRegisters /\ ~c.geometryStarted
      BY <2>1, <2>3, PhaseIs DEF Buffered, Phases
    <3>2. k = "geomReg"
      BY <2>3, <3>1 DEF Proper, Straddling, GeomRegisters
    <3>3. Targets(k) \subseteq Geometry
      BY <3>2 DEF Targets, Geometry
    <3>4. Fits(d)
      BY <1>b, <2>1, <3>1, <3>3, SendsFit
    <3> QED BY <1>c, <2>1, <3>3, <3>4 DEF Sends
  <2>4. CASE c.status = "drawing"
    BY <2>1, <2>4 DEF Buffered
  <2>5. CASE c.status = "endFragment"
    BY <2>1, <2>5 DEF Registers, GeomRegisters, FragRegisters
  <2> QED BY <2>2, <2>3, <2>4, <2>5 DEF Stacked
<1>3. CASE Draws(c, d)
  <2>1. CASE c.status = "ready"
    <3>1. Sends(d, Units, "draw")
      BY <1>3, <2>1 DEF Draws
    <3>2. Fits(d)
      BY <1>a, <2>1, <3>1, SendsFit
    <3> QED BY <2>1, <3>2
  <2>2. CASE c.status = "endGeometry"
    <3>1. Sends(d, Geometry \cup {"dac"}, "draw") /\ ~c.geometryStarted
      BY <1>3, <2>2 DEF Draws
    <3>2. Fits(d)
      BY <1>b, <3>1, SendsFit
    <3> QED BY <1>c, <3>1, <3>2 DEF Sends
  <2> QED BY <1>3, <2>1, <2>2 DEF Draws, DrawAllowed
<1>4. CASE Begins(c, d)
  <2>1. c.status = "ready" /\ Sends(d, Workers(c.last.kind), "work")
    BY <1>4 DEF Begins
  <2>2. Fits(d)
    BY <1>a, <2>1, SendsFit
  <2> QED BY <2>1, <2>2
<1>5. CASE Restarts(c, d)
  <2>1. c.status = "ready" /\ Sends(d, Units \ {"dac"}, "reset")
    BY <1>5 DEF Restarts
  <2>2. Fits(d)
    BY <1>a, <2>1, SendsFit
  <2> QED BY <2>1, <2>2
<1> QED BY <1>1, <1>2, <1>3, <1>4, <1>5 DEF Processes

\* An update that is sent fits: none is sent to a unit that draws.
LEMMA DrainedFits ==
  ASSUME NEW c \in CPState, NEW d \in CPState, NEW p \in Phases, Drained(c, d, p), Updated(c),
         FlowOf(c, Willed, Batched), Proper(c), c.status \in {"ready", "endGeometry", "endFragment"},
         c.status = "ready" \/ c.pipelined
  PROVE  Fits(d) /\ (c.status = "endGeometry" => \A u \in Fragment : d.out[u] = <<>>)
<1> DEFINE x == Head(c.updates[p])
<1>0. /\ Home(c) = c.status /\ InPhase(c, Willed) /\ InStep(c, Batched)
  BY DEF Home, Memories, FlowOf
<1>1. Drains(c) = p /\ c.updates[p] # <<>> /\ Sends(d, Targets(x.kind), "reg")
  BY DEF Drained
<1>2. 1 \in DOMAIN c.updates[p] /\ x = c.updates[p][1]
  BY <1>1 DEF CPState
<1>3. x.kind \in Registers /\ Phase(x.kind) = p
  BY <1>2 DEF Updated
<1>4. c.status # "ready" => x.kind \notin Straddling
  BY <1>2 DEF Proper
<1>c. Fragment \subseteq Units /\ (Geometry \cup {"dac"}) \cap Fragment = {}
  BY UnitsAre
<1>5. CASE c.status = "ready"
  <2>1. \A u \in Units : Willed[u] = "ready"
    BY <1>0, <1>5, UnitsAre DEF InPhase, InStep
  <2>2. Fits(d)
    BY <1>1, <2>1, SendsFit
  <2> QED BY <1>5, <2>2
<1>6. CASE c.status = "endGeometry"
  <2>1. p = "geom" /\ ~c.geometryStarted
    BY <1>1, <1>6 DEF Drains, BetweenGeometry, Phases
  <2>2. x.kind = "geomReg"
    BY <1>3, <1>4, <1>6, <2>1, PhaseIs DEF Straddling, GeomRegisters
  <2>3. Targets(x.kind) \subseteq Geometry
    BY <2>2 DEF Targets, Geometry
  <2>4. \A u \in Geometry : Willed[u] = "ready"
    BY <1>0, <2>1 DEF InPhase
  <2>5. Fits(d)
    BY <1>1, <2>3, <2>4, SendsFit
  <2> QED BY <1>c, <1>1, <2>3, <2>5 DEF Sends
<1>7. CASE c.status = "endFragment"
  <2>1. p = "frag"
    BY <1>1, <1>7 DEF Drains, BetweenGeometry, Phases
  <2>2. x.kind = "fragReg"
    BY <1>3, <1>4, <1>7, <2>1, PhaseIs DEF Straddling, Registers, FragRegisters
  <2>3. Targets(x.kind) = Fragment \cup {"dac"}
    BY <2>2 DEF Targets
  <2>4. \A u \in Fragment \cup {"dac"} : Willed[u] = "ready"
    BY <1>0, <1>7 DEF InPhase
  <2>5. Fits(d)
    BY <1>1, <2>3, <2>4, SendsFit
  <2> QED BY <1>7, <2>5
<1> QED BY <1>5, <1>6, <1>7

\* A phase ends when its last unit has, and then all of its units have.
LEMMA EndsGeometryFits ==
  ASSUME UnitsTyped, UnitsAccept, InOrderOfPipe, NEW c \in CPState, NEW d \in CPState, Silent(c),
         EndsGeometry(c, d), FlowOf(c, Willed, Batched)
  PROVE  Fits(d)
<1>1. Append(<<>>, "end") = <<"end">>
  OBVIOUS
<1>2. c.status = "drawing" /\ unit["clipper"].state = "end" /\ Sends(d, Geometry, "end")
  BY <1>1 DEF EndsGeometry, Silent, Sends
<1>3. InStep(c, Batched) /\ InPhase(c, Willed) /\ Home(c) = "drawing"
  BY <1>2 DEF FlowOf, Home, Memories
<1>4. \A u \in Geometry : Willed[u] \in Busy /\ Batched[u] = Batched["streamer"]
  BY <1>3 DEF InStep, InPhase
<1>5. /\ "clipper" \in Units /\ "pa" \in Units /\ "streamer" \in Units
      /\ Geometry = {"streamer", "pa", "clipper"}
  BY DEF Units, Geometry
<1>6. unit["pa"].state = "end"
  BY <1>2, <1>4, <1>5, EndsUpstream, UpstreamIs
<1>7. unit["streamer"].state = "end"
  BY <1>4, <1>5, <1>6, EndsUpstream, UpstreamIs
<1>8. \A u \in Geometry : Willed[u] # "ready" /\ unit[u].state = "end"
  BY <1>2, <1>4, <1>5, <1>6, <1>7 DEF Busy
<1> QED BY <1>2, <1>8, EndsFit

LEMMA EndsFragmentFits ==
  ASSUME UnitsTyped, UnitsAccept, InOrderOfPipe, NEW c \in CPState, NEW d \in CPState, Fits(c),
         \A u \in Fragment : c.out[u] = <<>>, EndsFragment(c, d),
         NEW b \in CPState, FlowOf(b, Willed, Batched), b.status = "endGeometry"
  PROVE  Fits(d)
<1>1. Append(<<>>, "end") = <<"end">>
  OBVIOUS
<1>2. /\ \A u \in ColorWrite : unit[u].state = "end"
      /\ \A u \in Units : d.out[u] = IF u \in Fragment THEN <<"end">> ELSE c.out[u]
  BY <1>1 DEF EndsFragment
<1>3. InStep(b, Batched) /\ InPhase(b, Willed) /\ Home(b) = "endGeometry"
  BY DEF FlowOf, Home, Memories
<1>4. \A u \in Fragment : Willed[u] \in Busy /\ Batched[u] = Batched["rasterizer"]
  BY <1>3 DEF InStep, InPhase
<1>5. /\ Fragment = {"rasterizer"} \cup ZStencil \cup ColorWrite /\ Fragment \subseteq Units
      /\ ZStencil # {} /\ ColorWrite # {}
  BY UnitsAre DEF Fragment
<1>6. \A v \in ZStencil : unit[v].state = "end"
  <2> SUFFICES ASSUME NEW v \in ZStencil PROVE unit[v].state = "end"
    OBVIOUS
  <2>1. PICK u \in ColorWrite : TRUE
    BY <1>5
  <2>2. v \in Upstream(u) /\ unit[u].state = "end" /\ u \in Units
    BY <1>2, <1>5, <2>1, UpstreamIs
  <2>3. Batched[u] = Batched[v] /\ Willed[v] \in Busy
    BY <1>4, <1>5, <2>1
  <2> QED BY <2>2, <2>3, EndsUpstream
<1>7. unit["rasterizer"].state = "end"
  <2>1. PICK u \in ZStencil : TRUE
    BY <1>5
  <2>2. "rasterizer" \in Upstream(u) /\ unit[u].state = "end" /\ u \in Units
    BY <1>5, <1>6, <2>1, UpstreamIs
  <2>3. Batched[u] = Batched["rasterizer"] /\ Willed["rasterizer"] \in Busy
    BY <1>4, <1>5, <2>1
  <2> QED BY <2>2, <2>3, EndsUpstream
<1>8. \A u \in Fragment : Willed[u] # "ready" /\ unit[u].state = "end"
  BY <1>2, <1>4, <1>5, <1>6, <1>7 DEF Busy
<1>9. \A u \in Units : u \notin Fragment =>
        \/ c.out[u] = <<>>
        \/ Willed[u] = "ready" /\ \E k \in {"draw", "work", "reg", "reset"} : c.out[u] = <<k>>
        \/ Willed[u] # "ready" /\ unit[u].state = "end" /\ c.out[u] = <<"end">>
  BY DEF Fits
<1> QED BY <1>2, <1>8, <1>9 DEF Fits

\* Between batches the units that worked are told, and the display controller
\* works after them.
LEMMA ExclusivelyFits ==
  ASSUME NEW c \in CPState, NEW d \in CPState, Silent(c), c.status = "exclusive", Exclusively(c, d),
         FlowOf(c, Willed, Batched),
         Displayed(c.last.kind) /\ ~c.workEnd => unit["dac"].state # "end"
  PROVE  Fits(d)
<1> DEFINE w == Workers(c.last.kind)
<1>0. /\ AtWork(c, Willed) /\ c.last.kind \in ExclusiveKinds /\ w \subseteq Fragment
      /\ Fragment \subseteq Units /\ "dac" \notin Fragment /\ "dac" \in Units
  BY UnitsAre DEF Home, Memories, FlowOf, AtWork
<1>a. \A u \in Units : Works(c, u) => Willed[u] # "ready"
  BY <1>0 DEF AtWork
<1>b. \A u \in Units : ~Works(c, u) => Willed[u] = "ready"
  BY <1>0 DEF AtWork
<1>c. c.last.kind # "flushZ" => c.flushDelay = 0
  BY <1>0 DEF AtWork
<1>1. CASE Displayed(c.last.kind) /\ Displays(c, d)
  <2> DEFINE ended == (\A u \in w : unit[u].state = "end") /\ ~c.workEnd
  <2>0. c.flushDelay = 0
    BY <1>1, <1>c DEF Displayed
  <2>1. CASE unit["dac"].state = "end"
    <3>1. c.workEnd /\ Sends(d, {"dac"}, "end")
      BY <1>1, <2>1 DEF Displays
    <3>2. Willed["dac"] # "ready"
      BY <1>0, <1>1, <1>a, <3>1 DEF Works
    <3> QED BY <2>1, <3>1, <3>2, EndsFit
  <2>2. CASE unit["dac"].state # "end" /\ ended
    <3>1. \A u \in Units : d.out[u] = IF u = "dac" THEN <<"work">>
                                      ELSE IF u \in w THEN <<"end">> ELSE <<>>
      BY <1>1, <2>2 DEF Displays
    <3>2. \A u \in w : Willed[u] # "ready" /\ unit[u].state = "end"
      BY <1>0, <1>a, <2>0, <2>2 DEF Works
    <3>3. Willed["dac"] = "ready"
      <4>1. ~Works(c, "dac")
        BY <1>0, <2>2 DEF Works
      <4> QED BY <1>0, <1>b, <4>1
    <3> HIDE DEF w
    <3> QED BY <3>1, <3>2, <3>3 DEF Fits
  <2>3. CASE unit["dac"].state # "end" /\ ~ended
    <3>1. Silent(d)
      BY <1>1, <2>3 DEF Displays
    <3> QED BY <3>1, SilentFits
  <2> QED BY <2>1, <2>2, <2>3
<1>2. CASE ~Displayed(c.last.kind) /\ c.last.kind = "flushZ" /\ Flushes(c, d)
  <2>1. CASE Silent(d)
    BY <2>1, SilentFits
  <2>2. CASE c.flushDelay = 0 /\ Sends(d, ZStencil, "end") /\ \A u \in ZStencil : unit[u].state = "end"
    <3>1. \A u \in ZStencil : Works(c, u)
      BY <1>2, <2>2 DEF Works, Workers
    <3> QED BY <1>a, <2>2, <3>1, EndsFit
  <2> QED BY <1>2, <2>1, <2>2 DEF Flushes
<1>3. CASE ~Displayed(c.last.kind) /\ c.last.kind # "flushZ" /\ Ends(c, d)
  <2>1. Sends(d, w, "end") /\ \A u \in w : unit[u].state = "end"
    BY <1>3 DEF Ends
  <2>2. \A u \in w : Works(c, u)
    BY <1>3, <1>c DEF Works
  <2> QED BY <1>a, <2>1, <2>2, EndsFit
<1>4. CASE d = c
  BY <1>4, SilentFits
<1> QED BY <1>1, <1>2, <1>3, <1>4 DEF Exclusively

LEMMA TurnFits ==
  ASSUME Limits, Course(Now, fetched), NEW t, Takes(t), NEW e \in CPState, Turns(Now, e, t),
         Now.status \in {"ready", "drawing", "endGeometry"}, FlowOf(Now, Willed, Batched), Proper(Now),
         Now.status = "endGeometry" /\ DrawAllowed(Now) => ~Now.geometryStarted,
         TRUE \in DOMAIN Kinds => Kinds[TRUE] \cap Straddling = {}
  PROVE  Fits(e) /\ (Now.status = "endGeometry" => \A u \in Fragment : e.out[u] = <<>>)
<1>0. Now \in CPState /\ Silent(Now) /\ Home(Now) # "exclusive" /\ Fragment \subseteq Units
  BY NowIs, UnitsAre DEF Home, Memories
<1>1. CASE \E p \in Phases : Drained(Now, e, p)
  <2>1. PICK p \in Phases : Drained(Now, e, p)
    BY <1>1
  <2>2. Updated(Now) /\ Now.pipelined
    BY <2>1 DEF Course, Drained
  <2>3. Now.status \in {"ready", "endGeometry", "endFragment"}
    BY <2>1 DEF Drained, Drains, BetweenGeometry, Phases
  <2> QED BY <1>0, <2>1, <2>2, <2>3, DrainedFits
<1>2. CASE Fetched(Now, e, t)
  <2>1. Silent(e)
    BY <1>0, <1>2 DEF Fetched, But, Fields, Silent
  <2> QED BY <1>0, <2>1, SilentFits DEF Silent
<1>3. CASE \E f \in CPState : Tries(f, t) /\ Processes(f, e)
  <2>1. PICK f \in CPState : Tries(f, t) /\ Processes(f, e)
    BY <1>3
  <2>2. /\ Silent(f) /\ Fetched(Now, f, t) /\ f.status = Now.status /\ f.status \in Stacked
        /\ f.status = "ready" \/ f.pipelined
        /\ f.last.kind = "reset" => f.status = "ready"
        /\ f.status = "endGeometry" /\ DrawAllowed(f) => ~f.geometryStarted
        /\ f.last = IF t = None THEN Now.last ELSE t
    BY <2>1 DEF Tries, DrawAllowed
  <2>3. FlowOf(f, After(f, Willed), Counted(f, Batched))
    BY <1>0, <2>2, TakingFlow
  <2>4. \A u \in Units : After(f, Willed)[u] = Willed[u] /\ Counted(f, Batched)[u] = Batched[u]
    BY <2>2, SilentAfter
  <2>5. FlowOf(f, Willed, Batched)
    <3>1. Home(f) = Home(f)
      OBVIOUS
    <3> QED BY <2>3, <2>4, FlowSame
  <2>6. Proper(f)
    <3>1. f.pipelined = Now.pipelined /\ f.backup = Now.backup /\ f.updates = Now.updates
      BY <2>2 DEF Fetched, But, Fields
    <3>2. Now.pipelined = cp.pipelined /\ cp.pipelined \in BOOLEAN /\ cp.pipelined \in DOMAIN Kinds
      BY NowIs, BoundAssumption DEF But, Fields, Limits
    <3>3. Now.pipelined /\ t # None => t.kind \notin Straddling
      BY <3>2 DEF Takes
    <3> QED BY <2>2, <3>1, <3>3 DEF Proper
  <2>7. f.status # "endFragment"
    BY <2>2
  <2> QED BY <2>1, <2>2, <2>5, <2>6, <2>7, ProcessFits
<1> QED BY <1>1, <1>2, <1>3, TurnIs

\* Whatever the Command Processor sends in a cycle fits.
LEMMA MoveFits ==
  ASSUME Limits, UnitsTyped, UnitsAccept, InOrderOfPipe, Course(Now, fetched), NEW t, Takes(t),
         NEW d \in CPState, Move(d, t), FlowOf(Now, Willed, Batched), Proper(Now),
         Now.status = "endGeometry" /\ DrawAllowed(Now) => ~Now.geometryStarted,
         Now.status = "exclusive" /\ Displayed(Now.last.kind) /\ ~Now.workEnd => unit["dac"].state # "end",
         TRUE \in DOMAIN Kinds => Kinds[TRUE] \cap Straddling = {}
  PROVE  Fits(d)
<1>0. Now \in CPState /\ Silent(Now)
  BY NowIs
<1>a. \A u \in Units : Batched[u] \in Nat
  BY DEF UnitsTyped, Batched, Plus
<1>1. CASE /\ Now.status \in {"ready", "drawing", "endGeometry"}
           /\ \E e \in CPState : Turns(Now, e, t) /\ Phased(e, d)
  <2>1. PICK e \in CPState : Turns(Now, e, t) /\ Phased(e, d)
    BY <1>1
  <2>2. Fits(e) /\ (Now.status = "endGeometry" => \A u \in Fragment : e.out[u] = <<>>)
    BY <1>1, <2>1, TurnFits
  <2>3. CASE Now.status = "drawing" /\ EndsGeometry(e, d)
    <3>1. Silent(e)
      <4>1. e.status = "drawing"
        BY <2>3 DEF EndsGeometry
      <4> QED BY <2>1, <2>3, <4>1, DrawingSilent
    <3>2. FlowOf(e, After(e, Willed), Counted(e, Batched))
      BY <1>a, <1>1, <2>1, <2>3, TurnFlow
    <3>3. \A u \in Units : After(e, Willed)[u] = Willed[u] /\ Counted(e, Batched)[u] = Batched[u]
      BY <3>1, SilentAfter
    <3>4. FlowOf(e, Willed, Batched)
      <4>1. Home(e) = Home(e)
        OBVIOUS
      <4> QED BY <3>2, <3>3, FlowSame
    <3> QED BY <2>3, <3>1, <3>4, EndsGeometryFits
  <2>4. CASE Now.status = "endGeometry" /\ EndsFragment(e, d)
    BY <1>0, <2>2, <2>4, EndsFragmentFits
  <2> QED BY <2>1, <2>2, <2>3, <2>4 DEF Phased
<1>2. CASE t = None /\ Now.status = "endFragment" /\ Finishes(Now, d)
  <2>0. Home(Now) = "endFragment" /\ InPhase(Now, Willed)
    BY <1>2 DEF Home, Memories, FlowOf
  <2>1. CASE \E p \in Phases : Drained(Now, d, p)
    <3>1. PICK p \in Phases : Drained(Now, d, p)
      BY <2>1
    <3>2. Updated(Now) /\ Now.pipelined
      BY <3>1 DEF Course, Drained
    <3> QED BY <1>0, <1>2, <3>1, <3>2, DrainedFits
  <2>2. CASE GivesBack(Now, d) \/ Settles(Now, d)
    <3>1. Silent(d)
      BY <1>0, <2>2 DEF GivesBack, Settles, But, Fields, Silent
    <3> QED BY <3>1, SilentFits
  <2>3. CASE DrawsBatch(Now, d)
    <3>1. Sends(d, Fragment, "draw") /\ \A u \in Fragment : Willed[u] = "ready"
      BY <2>0, <2>3 DEF DrawsBatch, InPhase
    <3> QED BY <3>1, SendsFit
  <2>4. CASE \E f \in CPState : PutsOff(Now, f) /\ Silent(f) /\ Processes(f, d)
    <3>1. PICK f \in CPState : PutsOff(Now, f) /\ Silent(f) /\ Processes(f, d)
      BY <2>4
    <3>2. f.status = "endFragment" /\ f.last.kind = "loadFragment"
      BY <1>2, <3>1 DEF PutsOff, But, Fields
    <3>3. ~Writes(f, d) /\ ~Draws(f, d) /\ ~Begins(f, d) /\ ~Restarts(f, d)
      BY <3>2 DEF Writes, Draws, Begins, Restarts, Registers, GeomRegisters, FragRegisters, ExclusiveKinds
    <3>4. d.out = f.out
      BY <3>1, <3>3 DEF Processes, Holds, Skips, Keeps, Transfers, But, Fields
    <3>5. Silent(d)
      BY <3>1, <3>4 DEF Silent
    <3> QED BY <3>5, SilentFits
  <2> QED BY <1>2, <2>1, <2>2, <2>3, <2>4 DEF Finishes
<1>3. CASE t = None /\ Now.status = "reset" /\ Restarted(Now, d)
  <2>1. Silent(d)
    BY <1>0, <1>3 DEF Restarted, But, Fields, Silent
  <2> QED BY <2>1, SilentFits
<1>4. CASE t = None /\ Now.status \in Memories /\ (d = Now \/ (But(Now, d, {"status", "hw"}) /\ d.status = Now.stack))
  <2>1. Silent(d)
    BY <1>0, <1>4 DEF But, Fields, Silent
  <2> QED BY <2>1, SilentFits
<1>5. CASE t = None /\ Now.status = "exclusive" /\ Exclusively(Now, d)
  BY <1>0, <1>5, ExclusivelyFits
<1> QED BY <1>1, <1>2, <1>3, <1>4, <1>5 DEF Move

\* What keeps UnitsAccept true.
AInv == IInv /\ Proper(cp) /\ InOrderOfPipe /\ UnitsAccept

LEMMA AcceptedBegins == Init => AInv
<1> SUFFICES ASSUME Init PROVE AInv
  OBVIOUS
<1>1. IInv
  BY Beginning
<1>2. cp.last = None /\ cp.backup = [last |-> None, fetch |-> FALSE] /\ cp.updates = [p \in Phases |-> <<>>]
  BY DEF Init
<1>3. Proper(cp)
  <2>1. None.kind \notin Straddling
    BY DEF None, Straddling
  <2>2. \A p \in Phases : DOMAIN cp.updates[p] = {}
    BY <1>2
  <2> QED BY <1>2, <2>1, <2>2 DEF Proper
<1>4. unit = [u \in Units |-> [state |-> "reset", batch |-> 0]] /\ comm = [u \in Units |-> <<>>]
  BY DEF Init
<1>5. InOrderOfPipe
  BY <1>4, UpstreamIs DEF InOrderOfPipe, Passed
<1>6. UnitsAccept
  BY <1>4 DEF UnitsAccept
<1> QED BY <1>1, <1>3, <1>5, <1>6 DEF AInv

LEMMA AcceptedInductive ==
  ASSUME ConsecutiveDrawDelay >= 2, TRUE \in DOMAIN Kinds => Kinds[TRUE] \cap Straddling = {},
         AInv, [Next]_vars
  PROVE  AInv'
<1>0. IInv /\ IInv' /\ Limits /\ UnitsTyped
  BY Inductive DEF AInv, IInv
<1>1. CASE UNCHANGED vars
  BY <1>0, <1>1 DEF vars, AInv, Proper, InOrderOfPipe, Passed, UnitsAccept, Accepts, Reads
<1>2. CASE Next
  <2>1. PICK d \in CPState, t \in Transaction : Takes(t) /\ Move(d, t) /\ Loads(d) /\ Becomes(d, t)
    BY <1>0, <1>2, NextIs DEF IInv, Course
  <2>2. UnitsAccept /\ cp' \in CPState /\ But(d, cp', {"out"})
    BY <1>0, <2>1, StepIs
  <2>3. /\ Course(Now, fetched) /\ FlowOf(Now, Willed, Batched)
        /\ Now.status = "exclusive" /\ Displayed(Now.last.kind) /\ ~Now.workEnd => unit["dac"].state # "end"
    BY <1>0, <2>2, NowInvariant
  <2>4. Now.status = "endGeometry" /\ DrawAllowed(Now) => ~Now.geometryStarted
    BY <1>0, <2>2, NotTwice
  <2>5. Proper(Now)
    <3>1. /\ Now \in CPState /\ cp \in CPState /\ Now.pipelined = cp.pipelined /\ Now.last = cp.last
          /\ Now.backup = cp.backup /\ Now.updates = cp.updates
      BY <1>0, NowIs DEF Limits, But, Fields
    <3> QED BY <3>1, ProperSame DEF AInv
  <2>6. Proper(cp')
    <3>1. Proper(d)
      BY <1>0, <2>1, <2>3, <2>5, MoveProper
    <3>2. cp'.pipelined = d.pipelined /\ cp'.last = d.last /\ cp'.backup = d.backup /\ cp'.updates = d.updates
      BY <2>2 DEF But, Fields
    <3> QED BY <2>2, <3>1, <3>2, ProperSame
  <2>7. Fits(d)
    BY <1>0, <2>1, <2>2, <2>3, <2>4, <2>5, MoveFits DEF AInv
  <2>8. UnitsAccept'
    BY <1>0, <2>1, <2>7, FitsAccepted
  <2>9. InOrderOfPipe'
    <3>1. PICK done \in SUBSET { u \in Units : MayFinish(u) } : UnitsClock(done)
      BY <2>1 DEF Becomes
    <3> QED BY <1>0, <2>2, <3>1, PipeNext DEF AInv
  <2> QED BY <1>0, <2>6, <2>8, <2>9 DEF AInv
<1> QED BY <1>1, <1>2

\* Every unit is sent at most one command in a cycle, and only in a state in
\* which it accepts it, whatever the trace and however the units' work takes:
\* no assertion of a unit or of a signal fails.  Overlapped batches must not
\* come with writes of the clip registers or the depth range, which go to a
\* unit of each phase at once (processGPURegisterWrite).
THEOREM CommandsAccepted ==
  ASSUME ConsecutiveDrawDelay >= 2, TRUE \in DOMAIN Kinds => Kinds[TRUE] \cap Straddling = {}
  PROVE  Spec => []UnitsAccept
<1>1. AInv /\ [Next]_vars => AInv'
  BY AcceptedInductive
<1>2. AInv => UnitsAccept
  BY DEF AInv
<1> QED BY <1>1, <1>2, AcceptedBegins, PTL DEF Spec
=============================================================================
