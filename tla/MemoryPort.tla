----------------------------- MODULE MemoryPort -----------------------------
(***************************************************************************)
(* The port of the Command Processor to the Memory Controller: the writes  *)
(* of GPU_MEMORY_WRITE and the program loads of GPU_MEMORY_READ, cut into  *)
(* transactions, against the bus of the Command Processor in the Memory    *)
(* Controller (MemoryControllerV2).  The two sides count the cycles of a   *)
(* transmission each for itself and learn of each other a cycle late; when *)
(* they disagree one of them receives data on a busy bus, which ends the   *)
(* simulation.                                                             *)
(*                                                                         *)
(* A step is a cycle of both boxes; all links have latency 1 (DelayLine).  *)
(***************************************************************************)
EXTENDS Naturals, FiniteSets

CONSTANTS
  MaxTransaction,   \* MAX_TRANSACTION_SIZE
  BusWidth,         \* bytes the bus moves in a cycle
  Tickets,          \* MAX_MEMORY_TICKETS
  Sizes,            \* sizes of the writes and of the programs
  OtherSizes,       \* sizes of the last fragment program, for LOAD_SHADER
  Loads             \* the load commands in the trace

ASSUME PortAssumption ==
  /\ MaxTransaction \in Nat \ {0}
  /\ BusWidth \in Nat \ {0}
  /\ Tickets \in Nat \ {0}
  /\ Sizes \subseteq Nat \ {0}
  /\ OtherSizes \subseteq Nat
  /\ Loads \subseteq {"load", "loadShader"}

VARIABLES
  command,          \* what the Command Processor does: "none", "write", or a
                    \* load: LOAD_VERTEX and LOAD_FRAGMENT are "load"
  size,             \* bytes to write, or of the program buffer
  moved,            \* sent, or requested
  received,
  transCycles,      \* cycles left of a transmission, for the Command Processor
  lastSize,         \* bytes of the transmission that arrives
  freeTickets,
  request,          \* link to the Memory Controller
  state, data,      \* link back: what is accepted, and the data of a read
  atMemory,         \* reads the Memory Controller has accepted
  reserved,         \* the read that is ready and has the bus reserved
  busCycles         \* cycles left, for the Memory Controller

port == <<command, size, moved, received, transCycles, lastSize, freeTickets, request>>
controller == <<state, data, atMemory, reserved, busCycles>>
vars == <<port, controller>>

Least(m, n) == IF m < n THEN m ELSE n

\* getBusCycles of a transaction of n bytes
Bus(n) == (n + BusWidth - 1) \div BusWidth

\* A transaction: the bytes from at on.  None is no transaction.
None == [com |-> "none", at |-> 0, size |-> 0]
Read(at, n) == [com |-> "read", at |-> at, size |-> n]
Write(at, n) == [com |-> "write", at |-> at, size |-> n]

Init ==
  /\ command = "none"
  /\ size = 0 /\ moved = 0 /\ received = 0
  /\ transCycles = 0 /\ lastSize = 0
  /\ freeTickets = Tickets
  /\ request = None
  /\ state = "both" /\ data = None
  /\ atMemory = {} /\ reserved = None
  /\ busCycles = 0

-----------------------------------------------------------------------------
(***************************************************************************)
(* The Command Processor.                                                  *)
(***************************************************************************)

ReadAccept == state # "none"
WriteAccept == state = "both"

\* processMemoryTransaction: READ_DATA starts a transmission.
Incoming == IF data # None THEN Bus(data.size) ELSE transCycles
IncomingSize == IF data # None THEN data.size ELSE lastSize

\* A cycle of the transmission passes; the last one gives the ticket back.
Left == IF Incoming > 0 THEN Incoming - 1 ELSE 0
Over == Incoming = 1

\* Mutant: every cycle gives a ticket back.
ReturnedEach == IF Incoming > 0 THEN freeTickets + 1 ELSE freeTickets
Returned == IF Over THEN freeTickets + 1 ELSE freeTickets

\* Mutant: every transaction is of the largest size.
ChunkFull == MaxTransaction
Chunk == Least(size - moved, MaxTransaction)

Quiet ==
  /\ command = "none"
  /\ request' = None
  /\ transCycles' = Incoming /\ lastSize' = IncomingSize
  /\ UNCHANGED <<command, size, moved, received, freeTickets>>

\* META_STREAM_WRITE: the first transaction goes out at once if it can.
StartWrite(n) ==
  /\ command = "none"
  /\ command' = "write" /\ size' = n
  /\ lastSize' = IncomingSize
  /\ IF WriteAccept
     THEN LET first == Least(n, MaxTransaction) IN
          /\ request' = Write(0, first) /\ moved' = first
          /\ freeTickets' = freeTickets - 1
          /\ transCycles' = Bus(first)
     ELSE /\ request' = None /\ moved' = 0
          /\ transCycles' = Incoming
          /\ UNCHANGED freeTickets
  /\ UNCHANGED received

\* Mutant: the count of requested bytes is reset only by a request.
StartLoadKept(load, n, first) ==
  /\ command = "none" /\ load \in Loads
  /\ command' = load /\ size' = n /\ received' = 0
  /\ transCycles' = Incoming /\ lastSize' = IncomingSize
  /\ IF ReadAccept
     THEN /\ request' = Read(0, first) /\ moved' = first
          /\ freeTickets' = freeTickets - 1
     ELSE request' = None /\ UNCHANGED <<moved, freeTickets>>

\* LOAD_VERTEX_PROGRAM, LOAD_FRAGMENT_PROGRAM, LOAD_SHADER_PROGRAM.
StartLoad(load, n, first) ==
  /\ command = "none" /\ load \in Loads
  /\ command' = load /\ size' = n /\ received' = 0
  /\ transCycles' = Incoming /\ lastSize' = IncomingSize
  /\ IF ReadAccept
     THEN /\ request' = Read(0, first) /\ moved' = first
          /\ freeTickets' = freeTickets - 1
     ELSE request' = None /\ moved' = 0 /\ UNCHANGED freeTickets

\* The first request of LOAD_SHADER takes the size of the fragment program.
Start ==
  \/ \E n \in Sizes : StartWrite(n)
  \/ \E n \in Sizes : StartLoad("load", n, Least(n, MaxTransaction))
  \/ \E n \in Sizes, other \in OtherSizes :
       StartLoad("loadShader", n, Least(other, MaxTransaction))

\* Mutant: a write does not wait for the one before it.
MoreToWriteAtOnce == moved < size /\ WriteAccept /\ Returned > 0
MoreToWrite == moved < size /\ Left = 0 /\ WriteAccept /\ Returned > 0

\* GPU_MEMORY_WRITE
WriteCycle ==
  /\ command = "write"
  /\ IF MoreToWrite
     THEN /\ request' = Write(moved, Chunk) /\ moved' = moved + Chunk
          /\ freeTickets' = Returned - 1
          /\ transCycles' = Bus(Chunk)
     ELSE /\ request' = None /\ UNCHANGED moved
          /\ freeTickets' = Returned
          /\ transCycles' = Left
  /\ command' = IF transCycles' = 0 /\ moved' = size THEN "none" ELSE "write"
  /\ lastSize' = IncomingSize
  /\ UNCHANGED <<size, received>>

\* Mutant: a load ends with its last request.
AllReceivedEarly == moved' = size
AllReceived == received' = size

\* GPU_MEMORY_READ
LoadCycle ==
  /\ command \in {"load", "loadShader"}
  /\ IF moved < size /\ ReadAccept /\ Returned > 0
     THEN /\ request' = Read(moved, Chunk) /\ moved' = moved + Chunk
          /\ freeTickets' = Returned - 1
     ELSE /\ request' = None /\ UNCHANGED moved
          /\ freeTickets' = Returned
  /\ received' = IF Over THEN received + IncomingSize ELSE received
  /\ command' = IF AllReceived THEN "none" ELSE command
  /\ transCycles' = Left /\ lastSize' = IncomingSize
  /\ UNCHANGED size

-----------------------------------------------------------------------------
(***************************************************************************)
(* The Memory Controller: read the request, count the bus, serve the read  *)
(* that has it, reserve it for the next one, tell what is accepted.  The   *)
(* other units and the DRAM leave open when a read is ready and whether    *)
(* there are entries and write buffers left.                               *)
(***************************************************************************)

\* Mutant: a cycle is counted in each of the two stages that look at the bus.
CountedTwice ==
  LET b == IF request.com = "write" THEN Bus(request.size) ELSE busCycles
  IN  IF b > 1 THEN b - 2 ELSE 0

\* stage_readRequests, updateBusCounters
Counted ==
  LET b == IF request.com = "write" THEN Bus(request.size) ELSE busCycles
  IN  IF b > 0 THEN b - 1 ELSE 0

\* stage_serveRequest
Serves == reserved # None /\ Counted = 0

Accepted == IF request.com = "read" THEN {request} ELSE {}
Waiting == IF Serves THEN atMemory \ {reserved} ELSE atMemory

\* reserveGPUBus: the head of the service queue, when it is of this unit.
Reserve ==
  IF reserved # None /\ ~Serves THEN reserved' = reserved
  ELSE IF busCycles' <= 1 THEN reserved' \in {None} \cup Waiting
  ELSE reserved' = None

\* sendBusState, under the state of the queues of the controller
BusState(entries, writeBuffers) ==
  IF ~entries THEN "none"
  ELSE IF writeBuffers /\ busCycles' < 2 /\ reserved' = None THEN "both"
  ELSE "read"

ControllerCycle ==
  /\ data' = IF Serves THEN reserved ELSE None
  /\ busCycles' = IF Serves THEN Bus(reserved.size) ELSE Counted
  /\ atMemory' = Waiting \cup Accepted
  /\ Reserve
  /\ \E entries, writeBuffers \in BOOLEAN : state' = BusState(entries, writeBuffers)

-----------------------------------------------------------------------------
(***************************************************************************)
(* The assertions of the two boxes.                                        *)
(***************************************************************************)

\* "Write not allowed. GPU unit bus ... is busy", "Received memory transaction
\* while bus was still busy.": a write reaches a bus that is free for the
\* controller, and the data of a read one that is free for the Command
\* Processor, whatever was read and written before.
BusFree ==
  /\ request.com = "write" => busCycles = 0
  /\ data # None => transCycles = 0

\* "Memory transaction with size 0 is not allowed.", and none above the
\* maximum (the constructor of MemoryTransaction).
SizeAllowed == request # None => request.size \in 1 .. MaxTransaction

Running == BusFree /\ SizeAllowed

Next ==
  \/ Running /\ Quiet /\ ControllerCycle
  \/ Running /\ Start /\ ControllerCycle
  \/ Running /\ WriteCycle /\ ControllerCycle
  \/ Running /\ LoadCycle /\ ControllerCycle

\* The controller accepts writes and reads again and again, and what was read
\* is ready some day.  Nothing makes the trace go on.
Fairness ==
  /\ WF_vars(Next)
  /\ WF_vars(Next /\ state' # "none")
  /\ WF_vars(Next /\ state' = "both")
  /\ WF_vars(Next /\ reserved' # None /\ reserved' # reserved)

Spec == Init /\ [][Next]_vars /\ Fairness

-----------------------------------------------------------------------------
Transactions == [com : {"read", "write"}, at : Nat, size : Nat] \cup {None}

TypeOK ==
  /\ command \in {"none", "write", "load", "loadShader"}
  /\ size \in Nat /\ moved \in Nat /\ received \in Nat
  /\ transCycles \in Nat /\ lastSize \in Nat
  /\ freeTickets \in 0 .. Tickets
  /\ request \in Transactions
  /\ state \in {"none", "read", "both"}
  /\ data \in Transactions /\ reserved \in Transactions
  /\ IsFiniteSet(atMemory) /\ atMemory \subseteq Transactions \ {None}
  /\ reserved # None => reserved \in atMemory
  /\ busCycles \in Nat

\* Reads asked for and not yet arriving.
Asked == atMemory \cup Accepted \cup (IF data # None THEN {data} ELSE {})

\* No ticket is lost and none is made: what is not free belongs to a read that
\* was asked for or to the transmission going on (freeTickets, in four states
\* of the Command Processor).  A lost ticket would stop the loads in the end.
TicketsKept ==
  freeTickets + Cardinality(Asked) + (IF transCycles > 0 THEN 1 ELSE 0) = Tickets

\* Reads stay in the buffer of the program, no two of them overlap, and none is
\* on its way when the next load deletes the buffer: a load ends with the last
\* data (GPU_LOAD_..._PROGRAM: delete[] programCode).
InBuffer ==
  /\ \A t \in Asked : t.at + t.size <= size
  /\ \A s, t \in Asked : s # t => s.at + s.size <= t.at \/ t.at + t.size <= s.at
  /\ command \in {"none", "write"} => Asked = {}

\* Every transfer ends, though tickets, bus and controller are shared.
Ends == command # "none" ~> command = "none"
=============================================================================
