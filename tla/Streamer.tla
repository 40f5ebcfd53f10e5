------------------------------ MODULE Streamer ------------------------------
(***************************************************************************)
(* The Stream Controller: Fetch reads the indices of a batch and asks for  *)
(* resources, the Output Cache looks for vertices that were shaded before, *)
(* the Loader sends the others to the shaders, and Commit sends the        *)
(* vertices to Primitive Assembly in the order of the indices.             *)
(*                                                                         *)
(* A line of output memory is given back in two steps.  Commit tells Fetch *)
(* and the Output Cache that it sent the last vertex that uses the line,   *)
(* and confirms it a cycle later, when no index that the Output Cache had  *)
(* looked up in between uses the line again.                               *)
(*                                                                         *)
(* A step is a cycle of all boxes; all links have latency 1 (DelayLine).   *)
(***************************************************************************)
EXTENDS Naturals, Sequences, FiniteSets, Filter

CONSTANTS
  Index, NoIndex,   \* vertex and instance of an index; none
  IndicesCycle,     \* indices fetched in a cycle
  VerticesCycle,    \* buses to Primitive Assembly
  TransCycles,      \* cycles a vertex takes on a bus
  InputQueue,       \* entries of the Loader
  OutputFIFO,       \* entries of the output FIFO
  OutputMemory,     \* lines of output memory
  Shaders,          \* number of shaders
  Streams,          \* bound: the index streams of the batches
  MaxRequest        \* bound: vertices Primitive Assembly asks for in advance

ASSUME SizeAssumption ==
  /\ NoIndex \notin Index
  /\ {IndicesCycle, VerticesCycle, TransCycles, InputQueue, OutputFIFO,
      OutputMemory, Shaders, MaxRequest} \subseteq Nat \ {0}

ASSUME StreamAssumption == Streams \subseteq Seq(Index)

VARIABLES
  main, command,    \* state of the top box, and its order to the others
  stream,           \* the indices of the batch, instance by instance
  fetch, fetched,   \* state of Fetch, and the indices it sent
  freeLines, freeEntries, freeInputs,   \* resources, as Fetch counts them
  newIndex,         \* Fetch to Output Cache
  tag, valid,       \* the output cache: index of a line, lines with a valid one
  freeList,         \* lines the Output Cache can allocate
  update,           \* the lines allocated, on the way to the tags
  unconfirmed,      \* lines given back in the last cycle, for Fetch and OC
  answer,           \* Output Cache to Loader and Commit
  irq,              \* input request queue of the Loader
  inputFreed,       \* Loader to Fetch
  shading,          \* inputs in the shaders
  commit, sent,     \* state of Commit, and the vertices it sent
  fifo, lastUse,    \* output FIFO, and the last entry that uses a line
  memory,           \* index the attributes in a line belong to
  bus,              \* cycles left on each bus
  requests,         \* vertices Primitive Assembly can take
  freed,            \* lines given back in the last cycle, for Commit
  already, entryFreed,      \* Commit to Fetch
  dealloc, confirm,         \* Commit to Fetch and Output Cache
  request, out              \* from and to Primitive Assembly

control == <<main, command, stream>>
fetchVars == <<fetch, fetched, freeLines, freeEntries, freeInputs, newIndex>>
cacheVars == <<tag, valid, freeList, update, unconfirmed, answer>>
loaderVars == <<irq, inputFreed, shading>>
commitVars == <<commit, sent, fifo, lastUse, memory, bus, requests, freed,
                already, entryFreed, dealloc, confirm, out>>
vars == <<control, fetchVars, cacheVars, loaderVars, commitVars, request>>

Lines == 0 .. OutputMemory - 1
Entries == 0 .. OutputFIFO - 1
Buses == 1 .. VerticesCycle
NoEntry == OutputFIFO
NoOutput == [index |-> NoIndex, line |-> 0, shaded |-> FALSE]

Smallest(S) == CHOOSE x \in S : \A y \in S : x <= y
Least(m, n) == IF m < n THEN m ELSE n
Elements(s) == { s[n] : n \in DOMAIN s }

Init ==
  /\ main = "READY" /\ command = "none" /\ stream = <<>>
  /\ fetch = "READY" /\ fetched = 0
  /\ freeLines = 0 /\ freeEntries = 0 /\ freeInputs = 0
  /\ newIndex = <<>>
  /\ tag = [l \in Lines |-> NoIndex] /\ valid = {}
  /\ freeList = [n \in 1 .. OutputMemory |-> n - 1]
  /\ update = {} /\ unconfirmed = <<>> /\ answer = <<>>
  /\ irq = <<>> /\ inputFreed = 0 /\ shading = {}
  /\ commit = "READY" /\ sent = 0
  /\ fifo = [e \in Entries |-> NoOutput]
  /\ lastUse = [l \in Lines |-> NoEntry]
  /\ memory = [l \in Lines |-> NoIndex]
  /\ bus = [b \in Buses |-> 0]
  /\ requests = 0 /\ freed = <<>>
  /\ already = 0 /\ entryFreed = 0
  /\ dealloc = <<>> /\ confirm = <<>>
  /\ request = 0 /\ out = <<>>

-----------------------------------------------------------------------------
(***************************************************************************)
(* The top box, on the commands of the Command Processor.                  *)
(***************************************************************************)

Silent == command' = "none" /\ UNCHANGED stream

\* STCOM_START is forwarded to all boxes.  The Command Processor sends it with
\* the registers of the batch written.
Start ==
  /\ main = "READY"
  /\ main' = "STREAMING" /\ command' = "START" /\ stream' \in Streams

\* Mutant: the batch is over when its last index was fetched.
AllDoneFetched == fetch = "FINISHED"
AllDone == fetch = "FINISHED" /\ commit = "FINISHED"

Finish ==
  /\ main = "STREAMING" /\ AllDone
  /\ main' = "FINISHED" /\ Silent

End ==
  /\ main = "FINISHED"
  /\ main' = "READY" /\ command' = "END" /\ UNCHANGED stream

Wait ==
  /\ ~(main = "STREAMING" /\ AllDone)
  /\ Silent /\ UNCHANGED main

MainCycle == Start \/ Finish \/ End \/ Wait

-----------------------------------------------------------------------------
(***************************************************************************)
(* Fetch.                                                                  *)
(***************************************************************************)

\* A confirmation counts when the line was given back in the last cycle.
Confirmed == Elements(confirm) \cap Elements(unconfirmed)

\* Mutant: a line that was given back need not be confirmed.
LinesUnconfirmed == freeLines + already + Cardinality(Elements(unconfirmed))
LinesNow == freeLines + already + Cardinality(Confirmed)
EntriesNow == freeEntries + entryFreed
InputsNow == freeInputs + inputFreed

\* Every index takes an input, an entry and a line until it is known better.
CanFetch ==
  Least(Least(IndicesCycle, Len(stream) - fetched),
        Least(LinesNow, Least(EntriesNow, InputsNow)))

Streaming == fetch # "READY"

FetchStart ==
  /\ fetch = "READY" /\ command = "START"
  /\ fetch' = "STREAMING" /\ fetched' = 0
  /\ freeLines' = OutputMemory /\ freeEntries' = OutputFIFO
  /\ freeInputs' = InputQueue
  /\ newIndex' = <<>>

\* Mutant: the entry is the count of the indices.
EntryUnwrapped(n) == n
EntryOf(n) == n % OutputFIFO

\* The data of the index stream may be late: fewer than possible may be sent.
FetchIndices ==
  /\ fetch = "STREAMING"
  /\ \E n \in 0 .. CanFetch :
       /\ newIndex' = [i \in 1 .. n |->
                         [index |-> stream[fetched + i],
                          entry |-> EntryOf(fetched + i - 1),
                          last  |-> fetched + i = Len(stream)]]
       /\ fetched' = fetched + n
       /\ freeLines' = LinesNow - n
       /\ freeEntries' = EntriesNow - n
       /\ freeInputs' = InputsNow - n
       /\ fetch' = IF fetched' = Len(stream) THEN "FINISHED" ELSE "STREAMING"

FetchFinished ==
  /\ fetch = "FINISHED"
  /\ fetch' = IF command = "END" THEN "READY" ELSE "FINISHED"
  /\ freeLines' = LinesNow /\ freeEntries' = EntriesNow /\ freeInputs' = InputsNow
  /\ newIndex' = <<>> /\ UNCHANGED fetched

FetchIdle ==
  /\ fetch = "READY" /\ command # "START"
  /\ UNCHANGED fetchVars

FetchCycle == FetchStart \/ FetchIndices \/ FetchFinished \/ FetchIdle

-----------------------------------------------------------------------------
(***************************************************************************)
(* Output Cache: tags first, then what Commit says, then the new indices.  *)
(* It streams from START to END, like Fetch.                               *)
(***************************************************************************)

TagNow ==
  IF update = {} THEN tag ELSE
  [l \in Lines |-> IF \E u \in update : u.line = l
                   THEN (CHOOSE u \in update : u.line = l).index
                   ELSE tag[l]]

\* A line is invalid from DEALLOC_OM on; when no confirmation follows in the
\* next cycle it is valid again.
ValidNow ==
  ((valid \cup { u.line : u \in update }) \ Elements(dealloc))
    \cup (Elements(unconfirmed) \ Elements(confirm))

\* Confirmed lines join the list at its end, unless they are in it.
\* Mutant: they join it at its head.
FreeNewestFirst ==
  Only(confirm, Elements(unconfirmed) \ Elements(freeList)) \o freeList
FreeNow ==
  freeList \o Only(confirm, Elements(unconfirmed) \ Elements(freeList))

\* The loop that looks for the confirmed line among the unconfirmed ones uses
\* its counter for the search in the free list too.  It goes on after the
\* place found there, and meets the same line again when that place comes
\* before: for ever.
Loops ==
  \E n \in DOMAIN unconfirmed, m \in DOMAIN FreeNow :
    /\ m < n
    /\ unconfirmed[n] \in Elements(confirm)
    /\ FreeNow[m] = unconfirmed[n]

\* outputCacheSearch
Found(i) == { l \in ValidNow : TagNow[l] = i }
Hits == { n \in DOMAIN newIndex : Found(newIndex[n].index) # {} }
Misses == DOMAIN newIndex \ Hits

\* A line found by an index leaves the free list, if it was there.
FreeForMisses ==
  Only(FreeNow, Lines \ { Smallest(Found(newIndex[n].index)) : n \in Hits })

\* The first miss of an index allocates a line, the others of the cycle use it.
FirstMisses ==
  { n \in Misses : \A m \in Misses : m < n => newIndex[m].index # newIndex[n].index }
Solved(n) == Cardinality({ m \in FirstMisses : m < n })

LineOf(n) ==
  IF n \in Hits THEN Smallest(Found(newIndex[n].index))
  ELSE LET first == CHOOSE m \in FirstMisses : newIndex[m].index = newIndex[n].index
       IN  FreeForMisses[Solved(first) + 1]

CacheStart ==
  /\ ~Streaming /\ command = "START"
  /\ tag' = [l \in Lines |-> NoIndex] /\ valid' = {}
  /\ freeList' = [n \in 1 .. OutputMemory |-> n - 1]
  /\ update' = {} /\ answer' = <<>>
  /\ UNCHANGED unconfirmed

CacheLookup ==
  /\ Streaming
  /\ tag' = TagNow /\ valid' = ValidNow
  /\ freeList' = SubSeq(FreeForMisses, Cardinality(FirstMisses) + 1, Len(FreeForMisses))
  /\ update' = { [line |-> LineOf(n), index |-> newIndex[n].index] : n \in FirstMisses }
  /\ unconfirmed' = dealloc
  /\ answer' = [n \in DOMAIN newIndex |->
                  [index |-> newIndex[n].index,
                   entry |-> newIndex[n].entry,
                   last  |-> newIndex[n].last,
                   hit   |-> n \notin FirstMisses,
                   line  |-> LineOf(n)]]

CacheIdle ==
  /\ ~Streaming /\ command # "START"
  /\ UNCHANGED cacheVars

CacheCycle == CacheStart \/ CacheLookup \/ CacheIdle

-----------------------------------------------------------------------------
(***************************************************************************)
(* Loader and shaders.  The Loader sends its inputs in order, as soon as   *)
(* their attributes were read and a shader is ready; a shader may take any *)
(* time, and sends one output in a cycle.                                  *)
(***************************************************************************)

\* Hits need no input; but the last index goes through the shaders always.
Loaded(a) == ~a.hit \/ a.last

LoaderCycle ==
  \E n \in 0 .. Least(IndicesCycle, Len(irq)) :
  \E done \in SUBSET shading :
    /\ Cardinality(done) <= Shaders
    /\ irq' = SubSeq(irq, n + 1, Len(irq)) \o
              (LET load == Only(answer, { a \in Elements(answer) : Loaded(a) })
               IN  [m \in DOMAIN load |->
                      [index |-> load[m].index, entry |-> load[m].entry, killed |-> load[m].hit]])
    /\ inputFreed' = n + Cardinality({ m \in DOMAIN answer : ~Loaded(answer[m]) })
    /\ shading' = (shading \ done) \cup { irq[m] : m \in 1 .. n }

Done == shading \ shading'

-----------------------------------------------------------------------------
(***************************************************************************)
(* Commit.                                                                 *)
(***************************************************************************)

RequestsNow == requests + request

\* Mutant: an index that hits waits for the shaders too.
ShadedOutputNever(a) == [index |-> a.index, line |-> a.line, shaded |-> FALSE]
ShadedOutput(a) == [index |-> a.index, line |-> a.line, shaded |-> ~Loaded(a)]

FifoNow ==
  IF answer = <<>> THEN fifo ELSE
  [e \in Entries |->
     IF \E n \in DOMAIN answer : answer[n].entry = e
     THEN ShadedOutput(answer[CHOOSE n \in DOMAIN answer : answer[n].entry = e])
     ELSE fifo[e]]

\* Indices whose line was taken before: they give back what Fetch took.
SharedLines ==
  { n \in DOMAIN answer :
      \/ lastUse[answer[n].line] # NoEntry
      \/ \E m \in DOMAIN answer : m < n /\ answer[m].line = answer[n].line }

UsesOf(l) == { n \in DOMAIN answer : answer[n].line = l }
LastUseNow ==
  [l \in Lines |->
     IF UsesOf(l) = {} THEN lastUse[l]
     ELSE answer[CHOOSE n \in UsesOf(l) : \A m \in UsesOf(l) : m <= n].entry]

\* Mutant: every line that was given back is confirmed.
RevivedNever == {}
\* Lines given back in the last cycle whose index is used again.  The indices
\* are compared, not the lines.
Revived ==
  { m \in DOMAIN freed : \E n \in DOMAIN answer : answer[n].index = freed[m].index }

BusLeft == [b \in Buses |-> IF bus[b] > 0 THEN bus[b] - 1 ELSE 0]
FreeBuses == { b \in Buses : BusLeft[b] = 0 }
\* Bus b is the n-th of the free ones, counted from 0.
Rank(b) == Cardinality({ c \in FreeBuses : c < b })

NextOutputs(n) == [m \in 1 .. n |-> (sent + m - 1) % OutputFIFO]

\* As many vertices go as are next in order, shaded and asked for, and have a
\* bus.  Sent, an entry is not shaded any more, so that none is sent twice.
Sendable(n, queue) ==
  /\ n <= RequestsNow /\ n <= Cardinality(FreeBuses) /\ n <= OutputFIFO
  /\ \A e \in Elements(NextOutputs(n)) : queue[e].shaded
Sending(queue) ==
  CHOOSE n \in 0 .. VerticesCycle :
    /\ Sendable(n, queue)
    /\ \A m \in 0 .. VerticesCycle : Sendable(m, queue) => m <= n

CommitStart ==
  /\ commit = "READY" /\ command = "START"
  /\ commit' = "STREAMING" /\ sent' = 0
  /\ fifo' = [e \in Entries |-> NoOutput]
  /\ lastUse' = [l \in Lines |-> NoEntry]
  /\ memory' = [l \in Lines |-> NoIndex]    \* nothing of this batch
  /\ bus' = [b \in Buses |-> 0]
  /\ requests' = 0
  /\ already' = 0 /\ entryFreed' = 0
  /\ dealloc' = <<>> /\ confirm' = <<>> /\ out' = <<>>
  /\ UNCHANGED freed

\* Mutant: the line of every vertex sent is given back.
LastUsesAll(outputs, queue, uses) == outputs
LastUses(outputs, queue, uses) ==
  Only(outputs, { e \in Entries : uses[queue[e].line] = e })

CommitOutputs ==
  LET queue == FifoNow
      uses == LastUseNow
      outputs == NextOutputs(Sending(queue))
      last == LastUses(outputs, queue, uses)
      lines == [n \in DOMAIN last |-> queue[last[n]].line]
      safe == Only([m \in DOMAIN freed |-> m], DOMAIN freed \ Revived)
      written == { i \in Done : ~i.killed }
  IN  /\ commit = "STREAMING"
      /\ sent' = sent + Len(outputs)
      /\ commit' = IF outputs # <<>> /\ sent' = Len(stream) THEN "FINISHED" ELSE "STREAMING"
      /\ requests' = RequestsNow - Len(outputs)
      /\ out' = [n \in DOMAIN outputs |->
                   [index |-> queue[outputs[n]].index,
                    data  |-> memory[queue[outputs[n]].line]]]
      /\ fifo' = [e \in Entries |->
                    IF e \in Elements(outputs) THEN NoOutput
                    ELSE IF \E i \in Done : i.entry = e
                    THEN [queue[e] EXCEPT !.shaded = TRUE]
                    ELSE queue[e]]
      /\ memory' = [l \in Lines |->
                      IF \E i \in written : queue[i.entry].line = l
                      THEN (CHOOSE i \in written : queue[i.entry].line = l).index
                      ELSE memory[l]]
      /\ lastUse' = [l \in Lines |-> IF l \in Elements(lines) THEN NoEntry ELSE uses[l]]
      /\ bus' = [b \in Buses |->
                   IF b \in FreeBuses /\ Rank(b) < Len(outputs) THEN TransCycles ELSE BusLeft[b]]
      /\ freed' = [n \in DOMAIN last |-> [index |-> queue[last[n]].index, line |-> lines[n]]]
      /\ dealloc' = lines
      /\ confirm' = [n \in DOMAIN safe |-> freed[safe[n]].line]
      /\ already' = Cardinality(SharedLines) + Cardinality(Revived)
      /\ entryFreed' = Len(outputs)

CommitIdle ==
  /\ commit # "STREAMING" /\ (commit = "READY" => command # "START")
  /\ commit' = IF command = "END" THEN "READY" ELSE commit
  /\ requests' = RequestsNow
  /\ already' = 0 /\ entryFreed' = 0
  /\ dealloc' = <<>> /\ confirm' = <<>> /\ out' = <<>>
  /\ UNCHANGED <<sent, fifo, lastUse, memory, bus, freed>>

CommitCycle == CommitStart \/ CommitOutputs \/ CommitIdle

\* Primitive Assembly asks for vertices when it has room.
AssemblyCycle == request' \in { n \in {0, 1} : RequestsNow + n <= MaxRequest }

-----------------------------------------------------------------------------
(***************************************************************************)
(* The assertions of the boxes.                                            *)
(***************************************************************************)

\* "No free output memory lines." (Output Cache)
LinesLeft == \A n \in Misses : Solved(n) < Len(FreeForMisses)

\* "All output memory lines are already free.", "All output FIFO entries are
\* already free." (Fetch)
CountersBounded ==
  Streaming => /\ LinesNow <= OutputMemory
               /\ EntriesNow <= OutputFIFO
               /\ InputsNow <= InputQueue

\* "No empty input request queue entries." (Loader), before what the Loader
\* sends in the cycle.
InputsLeft == Len(irq) + Len(answer) <= InputQueue

\* "No free output FIFO entries." (Commit)
EntriesLeft ==
  Cardinality({ e \in Entries : fifo[e] # NoOutput }) + Len(answer) <= OutputFIFO

\* None of the assertions of the four boxes fails, though three boxes give back
\* what Fetch took without seeing it, and the Output Cache ends its cycle.  When
\* several lines are given back at once and the first is revived, the next one
\* comes behind it among the unconfirmed lines: so there must be a free line for
\* each line revived (cmoStreamController Output Cache, confirmation of lines).
AssertionsHold ==
  LinesLeft /\ CountersBounded /\ InputsLeft /\ EntriesLeft /\ ~Loops

Next ==
  /\ AssertionsHold
  /\ MainCycle /\ FetchCycle /\ CacheCycle /\ LoaderCycle /\ CommitCycle /\ AssemblyCycle

\* The boxes are clocked for ever.  Index data come from memory, loaded inputs
\* are taken by shaders and shaders end, Primitive Assembly takes vertices.
Fairness ==
  /\ WF_vars(Next)
  /\ WF_vars(Next /\ newIndex' # <<>>)
  /\ WF_vars(Next /\ shading' # shading)
  /\ WF_vars(Next /\ request' > 0)

Spec == Init /\ [][Next]_vars /\ Fairness

-----------------------------------------------------------------------------
States == {"READY", "STREAMING", "FINISHED"}
Outputs == [index : Index, line : Lines, shaded : BOOLEAN]
UsedEntries == { e \in Entries : fifo[e] # NoOutput }

TypeOK ==
  /\ main \in States /\ fetch \in States /\ commit \in States
  /\ command \in {"none", "START", "END"}
  /\ {fetched, sent, requests, request, already, entryFreed, inputFreed} \subseteq Nat
  /\ Elements(stream) \subseteq Index
  /\ freeLines \in 0 .. OutputMemory
  /\ freeEntries \in 0 .. OutputFIFO
  /\ freeInputs \in 0 .. InputQueue
  /\ Elements(newIndex) \subseteq [index : Index, entry : Entries, last : BOOLEAN]
  /\ tag \in [Lines -> Index \cup {NoIndex}] /\ valid \subseteq Lines
  /\ Elements(freeList) \subseteq Lines
  /\ Len(freeList) = Cardinality(Elements(freeList))
  /\ update \subseteq [line : Lines, index : Index]
  /\ Elements(answer) \subseteq
       [index : Index, entry : Entries, last : BOOLEAN, hit : BOOLEAN, line : Lines]
  /\ Elements(irq) \cup shading \subseteq [index : Index, entry : Entries, killed : BOOLEAN]
  /\ fifo \in [Entries -> Outputs \cup {NoOutput}]
  /\ lastUse \in [Lines -> Entries \cup {NoEntry}]
  /\ memory \in [Lines -> Index \cup {NoIndex}]
  /\ bus \in [Buses -> 0 .. TransCycles]
  /\ Elements(freed) \subseteq [index : Index, line : Lines]
  /\ Elements(dealloc) \cup Elements(confirm) \cup Elements(unconfirmed) \subseteq Lines

\* The indices on their way through the boxes, from the next one to be sent.
Waiting ==
  LET received == fetched - Len(answer) - Len(newIndex)
  IN  [n \in 1 .. received - sent |-> fifo[(sent + n - 1) % OutputFIFO].index]
        \o [n \in DOMAIN answer |-> answer[n].index]
        \o [n \in DOMAIN newIndex |-> newIndex[n].index]

VS == INSTANCE VertexStream WITH waiting <- Waiting

\* Shaders answer out of order and vertices share lines of output memory that
\* are given back and taken again: Primitive Assembly gets the vertices of the
\* batch in order, once, each with its own attributes all the same (Commit,
\* against the contract of the class).
IsVertexStream == VS!Spec

\* The Output Cache never has a line to give away that an index on its way
\* still needs, though it hears of the use of a line a cycle late.
FreeLinesUnused ==
  Elements(freeList) \cap ({ fifo[e].line : e \in UsedEntries }
                           \cup { answer[n].line : n \in DOMAIN answer }) = {}

\* Fetch does not see the resources it takes and counts on three boxes to give
\* each one back once: a line comes back as never taken, as revived or as
\* confirmed (STRC_OM_ALREADY_ALLOC, STRC_DEALLOC_OM_CONFIRM).
ResourcesAccounted ==
  Streaming =>
    /\ freeInputs + inputFreed + Len(irq) + Len(answer) + Len(newIndex) = InputQueue
    /\ freeEntries + entryFreed + fetched - sent = OutputFIFO
    /\ commit = "STREAMING" =>
         freeLines + already + Cardinality(Confirmed) + Len(dealloc)
           + Cardinality({ l \in Lines : lastUse[l] # NoEntry })
           + Len(answer) + Len(newIndex) = OutputMemory

\* A box that is ready reads nothing but its command: when a batch is over
\* nothing is on its way, the last confirmations included, which would be
\* taken for those of the next batch (cmoStreamController, Fetch).
NothingLeftBehind ==
  ~Streaming =>
    /\ Waiting = <<>> /\ irq = <<>> /\ shading = {} /\ update = {}
    /\ dealloc = <<>> /\ confirm = <<>> /\ unconfirmed = <<>>
    /\ already + entryFreed + inputFreed = 0

\* Every batch that was started is finished.
BatchFinishes == main = "STREAMING" ~> main = "FINISHED"
=============================================================================
