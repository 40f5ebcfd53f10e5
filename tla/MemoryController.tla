-------------------------- MODULE MemoryController --------------------------
(***************************************************************************)
(* The Memory Controller (MemoryControllerV2) between its clients and the  *)
(* schedulers of its channels: request entries, read and write buffers,    *)
(* channel queues, the service queue, the bus of each client, and the      *)
(* requests to system memory.                                              *)
(*                                                                         *)
(* Requests are admitted ahead of time: the state a client reads was sent  *)
(* a cycle ago and what it sends then takes another cycle, so that two     *)
(* requests per client must find an entry after the state is withdrawn.    *)
(*                                                                         *)
(* A step is a cycle of the controller and of its clients, which count the *)
(* cycles of a transmission for themselves (MemoryPort has the case of the *)
(* Command Processor in detail).  Left open are the time the schedulers    *)
(* and the system memory take, and the order in which the schedulers       *)
(* answer (ChannelScheduler).  Not modelled: counters per ROP              *)
(* (useRopCounters), queues per bank, preloads.                            *)
(***************************************************************************)
EXTENDS Integers, Sequences, FiniteSets, SequencesExt, Functions

CONSTANTS
  Clients,         \* the units, each with a link and a bus
  Writers,         \* those that write
  Channels,        \* memory channels
  RequestQueue,    \* requestQueueSize, of each of the two memories
  ReadBuffers, WriteBuffers,
  Loads,           \* what is requested, and the size of the service queue for it
  BusCycles,       \* cycles of a transmission
  Word             \* values of the counter of read buffers, an unsigned integer

\* A load: whether there are requests to system memory, the sets of channels in
\* which a request may have chunks, the size of the service queue, and the bound
\* on the requests sent.  The controller reserves no place in the service queue
\* for reads of system memory and stops when it is full ("workaround: increase
\* serviceQueue size"): with such reads it has room for all.
ASSUME LoadAssumption ==
  \A l \in Loads :
    /\ l.system \in BOOLEAN /\ l.splits \subseteq (SUBSET Channels) \ {{}}
    /\ l.serviceQueue \in Nat \ {0} /\ l.maxRequests \in Nat
    /\ l.system => l.serviceQueue >= l.maxRequests

ASSUME ControllerAssumption ==
  /\ IsFiniteSet(Clients) /\ Writers \subseteq Clients
  /\ RequestQueue \in Nat /\ WriteBuffers \in Nat
  /\ Word \in Nat \ {0} /\ ReadBuffers \in 1 .. Word - 1
  /\ BusCycles \in Nat \ {0}

VARIABLES
  load,            \* what is requested
  sent,            \* requests sent
  link,            \* requests on their way, one at most of each client
  state,           \* what the state on its way lets each client send
  data,            \* the read on its way back to its client, if any
  trans,           \* cycles left of a transmission, for the client
  busCycles,       \* and for the controller
  onBus,           \* the request that is transmitted
  entries,         \* occupied request entries (requestBuffer)
  systemEntries,   \* (systemRequestBuffer)
  queued,          \* <<request, channel>>: chunks in the channel queues
  inMemory,        \* chunks sent to the schedulers and not answered
  systemQueue,     \* requests for system memory that are not issued
  inSystem,        \* and that are issued, until the end of their transmission
  service,         \* serviceQueue: reads with their data
  reserved,        \* the bus is reserved for the head of the service queue
  freeReadBuffers, freeWriteBuffers

clientVars == <<sent, link, trans>>
busVars == <<data, busCycles, onBus, reserved>>
requestVars == <<entries, systemEntries, queued, inMemory, systemQueue, inSystem, service>>
vars == <<load, clientVars, state, busVars, requestVars, freeReadBuffers, freeWriteBuffers>>

States == {"none", "read", "both"}

Init ==
  /\ load \in Loads
  /\ sent = 0 /\ link = {} /\ data = {}
  /\ state = [c \in Clients |-> "none"]
  /\ trans = [c \in Clients |-> 0]
  /\ busCycles = [c \in Clients |-> 0] /\ onBus = [c \in Clients |-> {}]
  /\ entries = {} /\ systemEntries = {} /\ queued = {} /\ inMemory = {}
  /\ systemQueue = {} /\ inSystem = {} /\ service = <<>> /\ reserved = FALSE
  /\ freeReadBuffers = ReadBuffers /\ freeWriteBuffers = WriteBuffers

Of(c, s) == { r \in s : r.client = c }
ReadsOf(s) == { r \in s : r.read }
WritesOf(s) == { r \in s : ~r.read }
First(s) == { r \in s : \A q \in s : r.n <= q.n }

-----------------------------------------------------------------------------
(***************************************************************************)
(* The clients.                                                            *)
(***************************************************************************)

\* A cycle of the transmission to or from the client passes.
TransLeft(c) ==
  LET now == IF Of(c, data) # {} THEN BusCycles ELSE trans[c]
  IN  IF now > 0 THEN now - 1 ELSE 0

MaySend(r) ==
  IF r.read THEN state[r.client] # "none"
  ELSE r.client \in Writers /\ state[r.client] = "both" /\ TransLeft(r.client) = 0

\* A request covers one chunk or more of GPU memory, each in a channel of its
\* own, or is for system memory.
Contents ==
  [read : BOOLEAN, system : {FALSE}, chunks : load.splits]
  \cup [read : BOOLEAN, system : {TRUE} \cap {load.system}, chunks : {{}}]
Request(n, c, content) ==
  [n |-> n, client |-> c, read |-> content.read, system |-> content.system, chunks |-> content.chunks]

\* Clients send what they may, in any combination.  The controller reads the
\* signals in the order of the clients.
Number(senders) ==
  CHOOSE f \in Bijection(senders, sent + 1 .. sent + Cardinality(senders)) : TRUE
SendRequests ==
  \E senders \in SUBSET { c \in Clients : state[c] # "none" } :
  \E content \in [senders -> Contents] :
    /\ sent' = sent + Cardinality(senders) /\ sent' <= load.maxRequests
    /\ link' = { Request(Number(senders)[c], c, content[c]) : c \in senders }
    /\ \A r \in link' : MaySend(r)
    /\ trans' = [c \in Clients |->
                   IF WritesOf(Of(c, link')) # {} THEN BusCycles ELSE TransLeft(c)]

-----------------------------------------------------------------------------
(***************************************************************************)
(* The controller, in the order of MemoryController::clock.                *)
(***************************************************************************)

\* stage_readRequests
Arrived(systemMemory) == { r \in link : r.system = systemMemory }
Entered == entries \cup Arrived(FALSE)
SystemEntered == systemEntries \cup Arrived(TRUE)
Queued == queued \cup UNION { {r} \X r.chunks : r \in link }

\* updateBusCounters, after a write that arrived took the bus (Mutant: the counter
\* goes below zero.)
CountedBelow(c) == (IF WritesOf(Of(c, link)) # {} THEN BusCycles ELSE busCycles[c]) - 1
Counted(c) ==
  LET now == IF WritesOf(Of(c, link)) # {} THEN BusCycles ELSE busCycles[c]
  IN  IF now > 0 THEN now - 1 ELSE 0
StillOnBus(c) == IF Counted(c) = 0 THEN {} ELSE onBus[c] \cup WritesOf(Of(c, link))
ReadsEnded == ReadsOf(UNION { onBus[c] : c \in { d \in Clients : Counted(d) = 0 } })

\* stage_serveRequest: the head of the service queue, when its bus is reserved
Serves == service # <<>> /\ Counted(Head(service).client) = 0 /\ reserved
Unserved == IF Serves THEN Tail(service) ELSE service
ServeRequest ==
  LET returned == IF Serves THEN {Head(service)} ELSE {}
  IN  /\ data' = returned
      /\ busCycles' = [c \in Clients |->
                         IF Of(c, returned) # {} THEN BusCycles ELSE Counted(c)]
      /\ onBus' = [c \in Clients |->
                     IF Of(c, returned) # {} THEN returned ELSE StillOnBus(c)]

\* reserveGPUBus, for the read that is at the head now
ReserveBus ==
  reserved' = /\ Unserved # <<>>
              /\ \/ reserved /\ ~Serves
                 \/ busCycles'[Head(Unserved).client] <= 1

\* stage_updateCompletedRequests: all writes, and reads while there is room for
\* them in the service queue, in the order of their entries
Completed == { r \in entries : \A ch \in r.chunks : <<r, ch>> \notin queued \cup inMemory }
RoomForReads == load.serviceQueue - Len(Unserved)
CompletedReads ==
  { s \in SUBSET ReadsOf(Completed) :
      \/ Cardinality(s) = RoomForReads
      \/ Cardinality(s) < RoomForReads /\ s = ReadsOf(Completed) }

\* stage_receiveFromSchedulers: an answer from each channel at most
Replies ==
  { s \in SUBSET inMemory : \A x, y \in s : x[2] = y[2] => x = y }

\* stage_sendToSchedulers: the head of a queue whose request is not
\* transmitted, when the scheduler accepts it
Transmitting(r) == r \in StillOnBus(r.client)
Ready == { x \in Queued : ~Transmitting(x[1]) /\ \A y \in Queued : y[2] = x[2] => x[1].n <= y[1].n }
\* Reads whose first chunk is sent: they take a read buffer. (Mutant: so does
\* every chunk that is sent alone.)
StartedByAnyChunk(chunks) == ReadsOf({ x[1] : x \in chunks })
Started(chunks) == { r \in ReadsOf({ x[1] : x \in chunks }) : {r} \X r.chunks \subseteq Queued }

\* updateSystemBuses: the first read and the first write may end.
SystemEnds == SUBSET (First(ReadsOf(inSystem)) \cup First(WritesOf(inSystem)))

\* issueSystemTransaction: a read needs a read buffer, a write its data
SystemQueued == systemQueue \cup Arrived(TRUE)
Issues(buffers) ==
  { {} } \cup { {r} : r \in { q \in First(SystemQueued) :
                              IF q.read THEN buffers > 0 ELSE ~Transmitting(q) } }

\* sendBusStateToClients and sendBusState: for each client, room for the request on its
\* way and for the one that answers to this state.  (Mutants: for one of them;
\* buffers for those that only read; a reserved bus.)
RequiredEntriesOnce == Cardinality(Clients)
RequiredEntries == 2 * Cardinality(Clients)
RequiredWriteBuffersOfAll == 2 * Cardinality(Clients)
RequiredWriteBuffers == 2 * Cardinality(Writers)
EnoughEntries ==
  /\ RequestQueue - Cardinality(entries') >= RequiredEntries
  /\ RequestQueue - Cardinality(systemEntries') >= RequiredEntries
MayWriteReserved(c) == freeWriteBuffers' >= RequiredWriteBuffers /\ busCycles'[c] < 2
MayWrite(c) ==
  /\ freeWriteBuffers' >= RequiredWriteBuffers
  /\ busCycles'[c] < 2
  /\ ~(reserved' /\ Head(service').client = c)
SendBusState ==
  state' = [c \in Clients |-> IF ~EnoughEntries THEN "none" ELSE IF MayWrite(c) THEN "both" ELSE "read"]

Clock ==
  /\ ServeRequest /\ ReserveBus
  /\ \E reads \in CompletedReads, replies \in Replies, chunks \in SUBSET Ready, ended \in SystemEnds :
     \E order \in SetToSeqs(reads),
        issued \in Issues((freeReadBuffers + Cardinality(ReadsEnded) - Cardinality(Started(chunks))) % Word) :
       /\ entries' = Entered \ (WritesOf(Completed) \cup reads)
       /\ service' = Unserved \o order \o SetToSeq(ReadsOf(ended))
       /\ queued' = Queued \ chunks
       /\ inMemory' = (inMemory \ replies) \cup chunks
       /\ systemQueue' = SystemQueued \ issued
       /\ inSystem' = (inSystem \ ended) \cup issued
       /\ systemEntries' = SystemEntered \ (ReadsOf(ended) \cup WritesOf(issued))
       /\ freeReadBuffers' = (freeReadBuffers + Cardinality(ReadsEnded) - Cardinality(Started(chunks))
                               - Cardinality(ReadsOf(issued))) % Word
       /\ freeWriteBuffers' = freeWriteBuffers - Cardinality(WritesOf(link))
                               + Cardinality(WritesOf(Completed \cup ended))
  /\ SendBusState

Cycle == SendRequests /\ Clock /\ UNCHANGED load

Spec == Init /\ [][Cycle]_vars

\* The schedulers accept and answer what they hold, and transfers to and from
\* system memory end and start again.  The clients need not send anything.
CanSend(ch) == \E x \in Ready : x[2] = ch
CanIssue(r) == r \in First(SystemQueued) /\ (IF r.read THEN freeReadBuffers > 0 ELSE ~Transmitting(r))

Fairness ==
  /\ WF_vars(Cycle)
  /\ \A ch \in Channels :
       /\ WF_vars(CanSend(ch) /\ Cycle /\ \E x \in Ready : x[2] = ch /\ x \in inMemory')
       /\ WF_vars(/\ \E x \in inMemory : x[2] = ch
                  /\ Cycle /\ \E x \in inMemory : x[2] = ch /\ x \notin inMemory')
  /\ WF_vars(inSystem # {} /\ Cycle /\ ~(inSystem \subseteq inSystem'))
  /\ WF_vars((\E r \in SystemQueued : CanIssue(r)) /\ Cycle /\ ~(SystemQueued \subseteq systemQueue'))

FairSpec == Spec /\ Fairness

-----------------------------------------------------------------------------
(***************************************************************************)
(* Properties.                                                             *)
(***************************************************************************)

SomeRequests == { Request(n, c, x) : n \in 1 .. load.maxRequests, c \in Clients, x \in Contents }

\* Every variable holds a value of its type; there is a request at most on a
\* link and on a bus.
TypeOK ==
  /\ load \in Loads
  /\ sent \in 0 .. load.maxRequests
  /\ link \subseteq SomeRequests /\ \A c \in Clients : Cardinality(Of(c, link)) <= 1
  /\ state \in [Clients -> States]
  /\ trans \in [Clients -> 0 .. BusCycles] /\ busCycles \in [Clients -> 0 .. BusCycles]
  /\ onBus \in [Clients -> SUBSET SomeRequests]
  /\ \A c \in Clients : (busCycles[c] = 0) = (onBus[c] = {}) /\ Cardinality(onBus[c]) <= 1
  /\ entries \cup systemEntries \cup systemQueue \cup inSystem \cup data \subseteq SomeRequests
  /\ queued \cup inMemory \subseteq SomeRequests \X Channels
  /\ service \in Seq(SomeRequests) /\ reserved \in BOOLEAN
  /\ freeReadBuffers \in 0 .. Word - 1 /\ freeWriteBuffers \in 0 .. WriteBuffers

\* The requests that arrive find free entries: the controller never reports
\* "Request buffer is full" or "System memory request full"
\* (addRequest, addSystemMemoryRequest).
EntryForRequest ==
  /\ Cardinality(entries) + Cardinality(Arrived(FALSE)) <= RequestQueue
  /\ Cardinality(systemEntries) + Cardinality(Arrived(TRUE)) <= RequestQueue

\* A write finds a write buffer ("No free write buffer available") and its bus
\* free ("Write not allowed"), and so do data that are sent to a client.
WriteAccepted ==
  /\ freeWriteBuffers >= Cardinality(WritesOf(link))
  /\ \A r \in WritesOf(link) : busCycles[r.client] = 0
  /\ \A c \in Clients : Of(c, data) # {} => trans[c] = 0

\* Read and write buffers are neither lost nor freed twice: what is not free is
\* held by a request.  (A read that is sent to a scheduler is not asked whether
\* there is a buffer, so that the counter may wrap.)
HoldsReadBuffer ==
  { r \in ReadsOf(entries) : ~({r} \X r.chunks \subseteq queued) } \cup ReadsOf(inSystem)
  \cup { service[i] : i \in DOMAIN service } \cup ReadsOf(UNION { onBus[c] : c \in Clients })
BuffersAccounted ==
  /\ freeReadBuffers = (ReadBuffers - Cardinality(HoldsReadBuffer)) % Word
  /\ freeWriteBuffers = WriteBuffers - Cardinality(WritesOf(entries \cup systemEntries \cup inSystem))

\* The controller gets rid of all requests, and admits new ones of any kind.
Drains ==
  <>[]( /\ entries = {} /\ systemEntries = {} /\ inSystem = {} /\ service = <<>>
        /\ freeReadBuffers = ReadBuffers /\ freeWriteBuffers = WriteBuffers
        /\ \A c \in Clients : onBus[c] = {} /\ state[c] = "both" )
=============================================================================
