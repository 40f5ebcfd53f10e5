----------------------- MODULE MemoryController_proofs -----------------------
(***************************************************************************)
(* With any number of clients and channels and buffers of any size, the    *)
(* requests that the Memory Controller lets its clients send ahead of time *)
(* find a request entry, a write buffer and a free bus.                    *)
(***************************************************************************)
EXTENDS MemoryController, ModArith, FiniteSetTheorems, TLAPS

-----------------------------------------------------------------------------
(* The inductive invariant.                                                *)

OnePerClient(s, cs) ==
  /\ \A r \in s : r.client \in cs
  /\ \A q, r \in s : q.client = r.client => q = r

Finite ==
  /\ IsFiniteSet(link) /\ IsFiniteSet(entries) /\ IsFiniteSet(systemEntries)
  /\ IsFiniteSet(inSystem) /\ IsFiniteSet(systemQueue)
  /\ freeWriteBuffers \in Int

\* While some client may send, there is room for what is on the links and for
\* another request of each client; else for what is on the links.
EntryCredits ==
  LET ahead == IF \E c \in Clients : state[c] # "none" THEN Cardinality(Clients) ELSE 0
  IN  /\ Cardinality(entries) + Cardinality(link) + ahead <= RequestQueue
      /\ Cardinality(systemEntries) + Cardinality(link) + ahead <= RequestQueue
WriteCredits ==
  LET ahead == IF \E c \in Clients : state[c] = "both" THEN Cardinality(Writers) ELSE 0
  IN  Cardinality(WritesOf(link)) + ahead <= freeWriteBuffers

\* The client and the controller count the cycles of a transmission alike, the
\* receiver a cycle later.
Transmissions ==
  \A c \in Clients :
    /\ trans[c] \in Nat /\ busCycles[c] \in Nat
    /\ WritesOf(Of(c, link)) # {} => trans[c] = BusCycles /\ busCycles[c] = 0
    /\ Of(c, data) # {} => trans[c] = 0 /\ busCycles[c] = BusCycles
    /\ WritesOf(Of(c, link)) = {} /\ Of(c, data) = {} => trans[c] = busCycles[c]
    /\ state[c] = "both" => busCycles[c] < 2 /\ ~(reserved /\ Head(service).client = c)

Clientele == \A r \in link : r.client \in Clients

IInv == Finite /\ EntryCredits /\ WriteCredits /\ Transmissions /\ Clientele

-----------------------------------------------------------------------------
(* Sets of requests, one of each client.                                   *)

LEMMA OfEachClient ==
  ASSUME NEW cs, IsFiniteSet(cs), NEW s, OnePerClient(s, cs)
  PROVE  IsFiniteSet(s) /\ Cardinality(s) <= Cardinality(cs)
<1> DEFINE f == [r \in s |-> r.client]
<1>1. f \in [s -> cs]
  BY DEF OnePerClient
<1>2. \A q, r \in s : f[q] = f[r] => q = r
  BY DEF OnePerClient
<1>3. f \in Injection(s, cs)
  BY <1>1, <1>2 DEF Injection, IsInjective
<1> QED BY <1>3, FS_Injection

LEMMA WritersFinite == IsFiniteSet(Writers) /\ Cardinality(Writers) \in Nat
                       /\ Cardinality(Clients) \in Nat
BY ControllerAssumption, FS_Subset, FS_CardinalityType

LEMMA CountsTo ==
  ASSUME NEW s, IsFiniteSet(s), NEW t, t \subseteq s
  PROVE  IsFiniteSet(t) /\ Cardinality(t) \in Nat /\ Cardinality(s) \in Nat
         /\ Cardinality(t) <= Cardinality(s)
BY FS_Subset, FS_CardinalityType

LEMMA CountsUnion ==
  ASSUME NEW s, IsFiniteSet(s), NEW t, IsFiniteSet(t)
  PROVE  IsFiniteSet(s \cup t) /\ Cardinality(s \cup t) <= Cardinality(s) + Cardinality(t)
<1>1. /\ IsFiniteSet(s \cup t)
      /\ Cardinality(s \cup t) = Cardinality(s) + Cardinality(t) - Cardinality(s \cap t)
  BY FS_Union
<1>2. IsFiniteSet(s \cap t)
  BY FS_Subset, s \cap t \in SUBSET s
<1>3. Cardinality(s) \in Nat /\ Cardinality(t) \in Nat /\ Cardinality(s \cap t) \in Nat
  BY <1>2, FS_CardinalityType
<1> QED BY <1>1, <1>3

-----------------------------------------------------------------------------
(* What a cycle does.                                                      *)

\* What is sent: one request of each client whose state admits it.
LEMMA Sent ==
  ASSUME SendRequests
  PROVE  /\ OnePerClient(link', { c \in Clients : state[c] # "none" })
         /\ \A r \in link' : MaySend(r)
         /\ trans' = [c \in Clients |->
                       IF WritesOf(Of(c, link')) # {} THEN BusCycles ELSE TransLeft(c)]
<1>1. PICK senders \in SUBSET { c \in Clients : state[c] # "none" } :
        \E content \in [senders -> Contents] :
          /\ link' = { Request(Number(senders)[c], c, content[c]) : c \in senders }
          /\ \A r \in link' : MaySend(r)
          /\ trans' = [c \in Clients |->
                         IF WritesOf(Of(c, link')) # {} THEN BusCycles ELSE TransLeft(c)]
  BY Zenon DEF SendRequests
<1>2. PICK content \in [senders -> Contents] :
        /\ link' = { Request(Number(senders)[c], c, content[c]) : c \in senders }
        /\ \A r \in link' : MaySend(r)
        /\ trans' = [c \in Clients |->
                       IF WritesOf(Of(c, link')) # {} THEN BusCycles ELSE TransLeft(c)]
  BY <1>1, Zenon
<1>3. ASSUME NEW r \in link' PROVE \E c \in senders : r = Request(Number(senders)[c], c, content[c]) /\ r.client = c
  BY <1>2 DEF Request
<1>4. OnePerClient(link', { c \in Clients : state[c] # "none" })
  BY <1>1, <1>3 DEF OnePerClient
<1> QED BY <1>2, <1>4

\* What the controller does to the entries and the write buffers.
LEMMA Clocked ==
  ASSUME Finite, Clock
  PROVE  /\ entries' \subseteq entries \cup link
         /\ systemEntries' \subseteq systemEntries \cup link
         /\ IsFiniteSet(inSystem') /\ IsFiniteSet(systemQueue')
         /\ freeWriteBuffers' \in Int
         /\ freeWriteBuffers' >= freeWriteBuffers - Cardinality(WritesOf(link))
<1> DEFINE Does(reads, ended, issued) ==
        /\ entries' = Entered \ (WritesOf(Completed) \cup reads)
        /\ systemQueue' = SystemQueued \ issued
        /\ inSystem' = (inSystem \ ended) \cup issued
        /\ systemEntries' = SystemEntered \ (ReadsOf(ended) \cup WritesOf(issued))
        /\ freeWriteBuffers' = freeWriteBuffers - Cardinality(WritesOf(link))
                                + Cardinality(WritesOf(Completed \cup ended))
<1>1. PICK reads, ended, issued, buffers :
        ended \in SystemEnds /\ issued \in Issues(buffers) /\ Does(reads, ended, issued)
  BY Zenon DEF Clock
<1>2. SystemQueued \subseteq systemQueue \cup link
  BY DEF SystemQueued, Arrived
<1>3. IsFiniteSet(SystemQueued) /\ IsFiniteSet(systemQueue')
  <2>1. IsFiniteSet(systemQueue \cup link)
    BY CountsUnion DEF Finite
  <2>2. IsFiniteSet(SystemQueued)
    BY <2>1, <1>2, CountsTo
  <2> QED BY <2>2, <1>1, CountsTo
<1>4. issued \subseteq SystemQueued
  BY <1>1 DEF Issues, First
<1>5. IsFiniteSet(issued) /\ IsFiniteSet(inSystem')
  <2>1. IsFiniteSet(issued)
    BY <1>3, <1>4, CountsTo
  <2>2. IsFiniteSet(inSystem \ ended)
    BY CountsTo DEF Finite
  <2> QED BY <1>1, <2>1, <2>2, CountsUnion
<1>6. WritesOf(Completed \cup ended) \subseteq entries \cup inSystem
  BY <1>1 DEF WritesOf, ReadsOf, Completed, SystemEnds, First
<1>7. Cardinality(WritesOf(Completed \cup ended)) \in Nat
  <2>1. IsFiniteSet(entries \cup inSystem)
    BY CountsUnion DEF Finite
  <2> QED BY <1>6, <2>1, CountsTo
<1>8. Cardinality(WritesOf(link)) \in Nat
  BY CountsTo DEF Finite, WritesOf
<1>9. freeWriteBuffers' \in Int /\ freeWriteBuffers' >= freeWriteBuffers - Cardinality(WritesOf(link))
  BY <1>1, <1>7, <1>8 DEF Finite
<1>10. entries' \subseteq entries \cup link /\ systemEntries' \subseteq systemEntries \cup link
  BY <1>1 DEF Entered, SystemEntered, Arrived
<1> QED BY <1>3, <1>5, <1>9, <1>10

-----------------------------------------------------------------------------
(* Init and the cycle.                                                     *)

LEMMA InitIInv == Init => IInv
<1> SUFFICES ASSUME Init PROVE IInv
  OBVIOUS
<1>1. IsFiniteSet({}) /\ Cardinality({}) = 0
  BY FS_EmptySet
<1>2. WritesOf({}) = {} /\ \A c : Of(c, {}) = {}
  BY DEF WritesOf, Of
<1>3. \A c \in Clients : state[c] = "none"
  BY DEF Init
<1>4. Finite
  BY <1>1, ControllerAssumption DEF Init, Finite
<1>5. EntryCredits
  BY <1>1, <1>3, ControllerAssumption DEF Init, EntryCredits
<1>6. WriteCredits
  <2>1. WritesOf(link) = {} /\ freeWriteBuffers = WriteBuffers
    BY <1>2 DEF Init
  <2> QED BY <2>1, <1>1, <1>3, ControllerAssumption DEF WriteCredits
<1>7. Transmissions
  <2> SUFFICES ASSUME NEW c \in Clients
               PROVE  /\ trans[c] = 0 /\ busCycles[c] = 0 /\ state[c] = "none"
                      /\ WritesOf(Of(c, link)) = {} /\ Of(c, data) = {}
    BY DEF Transmissions
  <2> QED BY <1>2, <1>3 DEF Init
<1>8. Clientele
  BY DEF Init, Clientele
<1> QED BY <1>4, <1>5, <1>6, <1>7, <1>8 DEF IInv

LEMMA CycleFinite ==
  ASSUME IInv, Cycle
  PROVE  Finite'
<1>1. SendRequests /\ Clock /\ Finite
  BY DEF IInv, Cycle
<1>2. IsFiniteSet({ c \in Clients : state[c] # "none" })
  BY ControllerAssumption, CountsTo
<1>3. IsFiniteSet(link')
  BY <1>1, <1>2, Sent, OfEachClient
<1>4. IsFiniteSet(entries \cup link) /\ IsFiniteSet(systemEntries \cup link)
  BY <1>1, CountsUnion DEF Finite
<1>5. IsFiniteSet(entries') /\ IsFiniteSet(systemEntries')
  BY <1>1, <1>4, Clocked, CountsTo
<1> QED BY <1>1, <1>3, <1>5, Clocked DEF Finite

LEMMA CycleEntryCredits ==
  ASSUME IInv, Cycle
  PROVE  EntryCredits'
<1> DEFINE some == { c \in Clients : state[c] # "none" }
<1>1. SendRequests /\ Clock /\ SendBusState /\ Finite /\ EntryCredits
  BY DEF IInv, Cycle, Clock
<1>2. IsFiniteSet(some) /\ Cardinality(some) <= Cardinality(Clients) /\ Cardinality(some) \in Nat
  BY ControllerAssumption, CountsTo
<1>3. Cardinality(link') <= Cardinality(some) /\ Cardinality(link') \in Nat
  <2>1. OnePerClient(link', some)
    BY <1>1, Sent
  <2> QED BY <1>2, <2>1, OfEachClient, FS_CardinalityType
<1>4. some = {} => Cardinality(link') = 0
  BY <1>3, FS_EmptySet
<1>5. \A s, t : IsFiniteSet(s) /\ t \subseteq s \cup link =>
        Cardinality(t) <= Cardinality(s) + Cardinality(link) /\ Cardinality(t) \in Nat
  <2> SUFFICES ASSUME NEW s, IsFiniteSet(s), NEW t, t \subseteq s \cup link
               PROVE  Cardinality(t) <= Cardinality(s) + Cardinality(link) /\ Cardinality(t) \in Nat
    OBVIOUS
  <2>1. IsFiniteSet(s \cup link) /\ Cardinality(s \cup link) <= Cardinality(s) + Cardinality(link)
    BY <1>1, CountsUnion DEF Finite
  <2>2. Cardinality(t) <= Cardinality(s \cup link) /\ Cardinality(t) \in Nat /\ Cardinality(s \cup link) \in Nat
    BY <2>1, CountsTo
  <2>3. Cardinality(s) \in Nat /\ Cardinality(link) \in Nat
    BY <1>1, FS_CardinalityType DEF Finite
  <2> QED BY <2>1, <2>2, <2>3
<1>6. /\ Cardinality(entries') <= Cardinality(entries) + Cardinality(link)
      /\ Cardinality(systemEntries') <= Cardinality(systemEntries) + Cardinality(link)
      /\ Cardinality(entries') \in Nat /\ Cardinality(systemEntries') \in Nat
  BY <1>1, <1>5, Clocked DEF Finite
<1>7. Cardinality(entries) \in Nat /\ Cardinality(systemEntries) \in Nat /\ Cardinality(link) \in Nat
  BY <1>1, FS_CardinalityType DEF Finite
<1>8. CASE EnoughEntries
  <2>1. /\ Cardinality(entries') + Cardinality(link') + Cardinality(Clients) <= RequestQueue
        /\ Cardinality(systemEntries') + Cardinality(link') + Cardinality(Clients) <= RequestQueue
    BY <1>8, <1>2, <1>3, <1>6, WritersFinite, ControllerAssumption DEF EnoughEntries, RequiredEntries
  <2> QED BY <2>1, <1>3, <1>6, WritersFinite, ControllerAssumption DEF EntryCredits
<1>9. CASE ~EnoughEntries
  <2>1. ~ \E c \in Clients : state'[c] # "none"
    BY <1>1, <1>9 DEF SendBusState
  <2>2. CASE some = {}
    <3>1. Cardinality(entries) + Cardinality(link) <= RequestQueue
          /\ Cardinality(systemEntries) + Cardinality(link) <= RequestQueue
      BY <1>1, <1>7, <2>2 DEF EntryCredits
    <3>2. Cardinality(link') = 0
      BY <1>4, <2>2
    <3> QED BY <3>1, <3>2, <1>6, <1>7, <2>1, ControllerAssumption DEF EntryCredits
  <2>3. CASE some # {}
    <3>1. Cardinality(entries) + Cardinality(link) + Cardinality(Clients) <= RequestQueue
          /\ Cardinality(systemEntries) + Cardinality(link) + Cardinality(Clients) <= RequestQueue
      BY <1>1, <2>3 DEF EntryCredits
    <3> QED BY <3>1, <1>2, <1>3, <1>6, <1>7, <2>1, WritersFinite, ControllerAssumption DEF EntryCredits
  <2> QED BY <2>2, <2>3
<1> QED BY <1>8, <1>9

\* After a cycle client and controller have counted the same (whatever the client
\* sends now).
LEMMA SameCount ==
  ASSUME Transmissions, NEW c \in Clients
  PROVE  TransLeft(c) = Counted(c) /\ Counted(c) \in Nat
<1>1. CASE WritesOf(Of(c, link)) # {}
  <2>1. Of(c, data) = {}
    BY <1>1, ControllerAssumption DEF Transmissions
  <2> QED BY <1>1, <2>1, ControllerAssumption DEF Transmissions, TransLeft, Counted
<1>2. CASE WritesOf(Of(c, link)) = {} /\ Of(c, data) # {}
  BY <1>2, ControllerAssumption DEF Transmissions, TransLeft, Counted
<1>3. CASE WritesOf(Of(c, link)) = {} /\ Of(c, data) = {}
  BY <1>3, ControllerAssumption DEF Transmissions, TransLeft, Counted
<1> QED BY <1>1, <1>2, <1>3

LEMMA CycleTransmissions ==
  ASSUME IInv, Cycle
  PROVE  Transmissions'
<1> SUFFICES ASSUME NEW c \in Clients
             PROVE  /\ trans'[c] \in Nat /\ busCycles'[c] \in Nat
                    /\ WritesOf(Of(c, link')) # {} => trans'[c] = BusCycles /\ busCycles'[c] = 0
                    /\ Of(c, data') # {} => trans'[c] = 0 /\ busCycles'[c] = BusCycles
                    /\ WritesOf(Of(c, link')) = {} /\ Of(c, data') = {} => trans'[c] = busCycles'[c]
                    /\ state'[c] = "both" => busCycles'[c] < 2 /\ ~(reserved' /\ Head(service').client = c)
  BY DEF Transmissions
<1>1. SendRequests /\ ServeRequest /\ SendBusState /\ Transmissions
  BY DEF IInv, Cycle, Clock
<1>2. TransLeft(c) = Counted(c) /\ Counted(c) \in Nat
  BY <1>1, SameCount
<1>3. trans'[c] = IF WritesOf(Of(c, link')) # {} THEN BusCycles ELSE Counted(c)
  BY <1>1, <1>2, Sent
<1>4. busCycles'[c] = IF Of(c, data') # {} THEN BusCycles ELSE Counted(c)
  BY <1>1 DEF ServeRequest
\* A write is sent only if the bus was idle but for a transmission that ends, and
\* not reserved for the client.
<1>5. ASSUME WritesOf(Of(c, link')) # {}
      PROVE  Counted(c) = 0 /\ ~(reserved /\ Head(service).client = c)
  <2>1. PICK r \in link' : r.client = c /\ ~r.read
    BY <1>5 DEF WritesOf, Of
  <2>2. state[c] = "both" /\ TransLeft(c) = 0
    BY <2>1, <1>1, Sent DEF MaySend
  <2> QED BY <2>2, <1>1, <1>2 DEF Transmissions
<1>6. ASSUME Of(c, data') # {}
      PROVE  Counted(c) = 0 /\ reserved /\ Head(service).client = c
  BY <1>1, <1>6 DEF ServeRequest, Serves, Of
<1>7. state'[c] = "both" => busCycles'[c] < 2 /\ ~(reserved' /\ Head(service').client = c)
  BY <1>1 DEF SendBusState, MayWrite
<1>8. ~(WritesOf(Of(c, link')) # {} /\ Of(c, data') # {})
  BY <1>5, <1>6
<1> QED BY <1>2, <1>3, <1>4, <1>5, <1>6, <1>7, <1>8, ControllerAssumption

LEMMA CycleWriteCredits ==
  ASSUME IInv, Cycle
  PROVE  WriteCredits'
<1> DEFINE some == { c \in Writers : state[c] = "both" }
<1>1. SendRequests /\ Clock /\ SendBusState /\ Finite /\ WriteCredits
  BY DEF IInv, Cycle, Clock
<1>2. IsFiniteSet(some) /\ Cardinality(some) <= Cardinality(Writers) /\ Cardinality(some) \in Nat
  BY WritersFinite, CountsTo
<1>3. Cardinality(WritesOf(link')) <= Cardinality(some) /\ Cardinality(WritesOf(link')) \in Nat
  <2>1. OnePerClient(WritesOf(link'), some)
    BY <1>1, Sent DEF OnePerClient, WritesOf, MaySend
  <2> QED BY <1>2, <2>1, OfEachClient, FS_CardinalityType
<1>4. some = {} => Cardinality(WritesOf(link')) = 0
  BY <1>3, FS_EmptySet
<1>5. Cardinality(WritesOf(link)) \in Nat
  BY <1>1, CountsTo DEF Finite, WritesOf
<1>6. freeWriteBuffers \in Int /\ freeWriteBuffers' \in Int
      /\ freeWriteBuffers' >= freeWriteBuffers - Cardinality(WritesOf(link))
  BY <1>1, Clocked DEF Finite
<1>7. CASE \E c \in Clients : state'[c] = "both"
  <2>1. freeWriteBuffers' >= 2 * Cardinality(Writers)
    BY <1>1, <1>7 DEF SendBusState, MayWrite, RequiredWriteBuffers
  <2> QED BY <2>1, <1>2, <1>3, <1>6, <1>7, WritersFinite DEF WriteCredits
<1>8. CASE ~ \E c \in Clients : state'[c] = "both"
  <2>1. CASE some = {}
    <3>1. freeWriteBuffers >= Cardinality(WritesOf(link))
      BY <1>1, <1>5, <1>6, WritersFinite DEF WriteCredits
    <3> QED BY <3>1, <2>1, <1>4, <1>5, <1>6, <1>8 DEF WriteCredits
  <2>2. CASE some # {}
    <3>1. freeWriteBuffers >= Cardinality(WritesOf(link)) + Cardinality(Writers)
      BY <1>1, <2>2, ControllerAssumption DEF WriteCredits
    <3> QED BY <3>1, <1>2, <1>3, <1>5, <1>6, <1>8, WritersFinite DEF WriteCredits
  <2> QED BY <2>1, <2>2
<1> QED BY <1>7, <1>8

LEMMA CycleClientele ==
  ASSUME IInv, Cycle
  PROVE  Clientele'
BY Sent DEF Cycle, OnePerClient, Clientele

LEMMA CycleIInv ==
  ASSUME IInv, [Cycle]_vars
  PROVE  IInv'
<1>1. CASE Cycle
  BY <1>1, CycleFinite, CycleEntryCredits, CycleWriteCredits, CycleTransmissions, CycleClientele DEF IInv
<1>2. CASE UNCHANGED vars
  <2>1. /\ UNCHANGED <<link, trans, state, data, busCycles, reserved, service>>
        /\ UNCHANGED <<entries, systemEntries, inSystem, systemQueue, freeWriteBuffers>>
    BY <1>2 DEF vars, clientVars, busVars, requestVars
  <2> QED BY <2>1, Zenon DEF IInv, Finite, EntryCredits, WriteCredits, Transmissions, Clientele, WritesOf, Of
<1> QED BY <1>1, <1>2

-----------------------------------------------------------------------------
(* The theorems.                                                           *)

\* MemoryController::addRequest and addSystemMemoryRequest never report that the
\* request buffer is full, however many clients send at once.
THEOREM EntriesSuffice == Spec => []EntryForRequest
<1>1. IInv => EntryForRequest
  <2> SUFFICES ASSUME IInv PROVE EntryForRequest
    OBVIOUS
  <2>1. /\ Cardinality(Arrived(FALSE)) <= Cardinality(link) /\ Cardinality(Arrived(FALSE)) \in Nat
        /\ Cardinality(Arrived(TRUE)) <= Cardinality(link) /\ Cardinality(Arrived(TRUE)) \in Nat
    <3>1. Arrived(FALSE) \subseteq link /\ Arrived(TRUE) \subseteq link /\ IsFiniteSet(link)
      BY DEF Arrived, IInv, Finite
    <3> QED BY <3>1, CountsTo
  <2>2. /\ Cardinality(entries) \in Nat /\ Cardinality(systemEntries) \in Nat
        /\ Cardinality(link) \in Nat
    BY FS_CardinalityType DEF IInv, Finite
  <2>3. /\ Cardinality(entries) + Cardinality(link) <= RequestQueue
        /\ Cardinality(systemEntries) + Cardinality(link) <= RequestQueue
    BY <2>2, WritersFinite, ControllerAssumption DEF IInv, EntryCredits
  <2>4. RequestQueue \in Nat
    BY ControllerAssumption
  <2>5. \A a, b, c \in Nat : b <= c /\ a + c <= RequestQueue => a + b <= RequestQueue
    BY <2>4
  <2>6. Cardinality(entries) + Cardinality(Arrived(FALSE)) <= RequestQueue
    BY <2>1, <2>2, <2>3, <2>5, Zenon
  <2>7. Cardinality(systemEntries) + Cardinality(Arrived(TRUE)) <= RequestQueue
    BY <2>1, <2>2, <2>3, <2>5, Zenon
  <2> QED BY <2>6, <2>7, Zenon DEF EntryForRequest
<1> QED BY <1>1, InitIInv, CycleIInv, PTL DEF Spec

\* MemoryController::processMemoryTransaction finds a write buffer and the bus
\* free for each write, and a client that is sent data does not transmit.
THEOREM WritesAccepted == Spec => []WriteAccepted
<1>1. IInv => WriteAccepted
  <2> SUFFICES ASSUME IInv PROVE WriteAccepted
    OBVIOUS
  <2>1. Cardinality(WritesOf(link)) \in Nat
    BY CountsTo DEF IInv, Finite, WritesOf
  <2>2. freeWriteBuffers >= Cardinality(WritesOf(link))
    BY <2>1, WritersFinite DEF IInv, Finite, WriteCredits
  <2>3. ASSUME NEW r \in WritesOf(link) PROVE busCycles[r.client] = 0
    <3>1. r.client \in Clients /\ r \in WritesOf(Of(r.client, link))
      BY DEF WritesOf, Of, IInv, Clientele
    <3> QED BY <3>1 DEF IInv, Transmissions
  <2>4. ASSUME NEW c \in Clients, Of(c, data) # {} PROVE trans[c] = 0
    BY <2>4 DEF IInv, Transmissions
  <2> QED BY <2>2, <2>3, <2>4 DEF WriteAccepted
<1> QED BY <1>1, InitIInv, CycleIInv, PTL DEF Spec

-----------------------------------------------------------------------------
(***************************************************************************)
(* Buffers: where the requests are.                                        *)
(***************************************************************************)

\* No element of the sequence comes twice.
Once(s) == \A i, j \in DOMAIN s : s[i] = s[j] => i = j

Served == ToSet(service)
OnBuses == UNION { onBus[c] : c \in Clients }
Present == entries \cup systemEntries \cup inSystem \cup Served \cup OnBuses

Sorts ==
  /\ load \in Loads /\ sent \in 0 .. load.maxRequests
  /\ state \in [Clients -> States] /\ reserved \in BOOLEAN
  /\ link \subseteq SomeRequests /\ Present \subseteq SomeRequests
  /\ data \subseteq SomeRequests
  /\ queued \subseteq SomeRequests \X Channels /\ inMemory \subseteq SomeRequests \X Channels
  /\ service \in Seq(SomeRequests)
  /\ freeReadBuffers \in 0 .. Word - 1 /\ freeWriteBuffers \in Int

\* A bus holds the one request that is transmitted, while its cycles are counted.
OneOnBus ==
  /\ trans \in [Clients -> 0 .. BusCycles] /\ busCycles \in [Clients -> 0 .. BusCycles]
  /\ onBus \in [Clients -> SUBSET SomeRequests]
  /\ \A c \in Clients :
       /\ busCycles[c] = 0 <=> onBus[c] = {}
       /\ \A q, r \in onBus[c] : q = r /\ r.client = c

\* A request is new when it is sent, and is then in one place, but for those to
\* system memory (their entry is kept while they are queued, and by a read until
\* it ends) and writes on their bus.
Places ==
  /\ \A r \in Present \cup link : r.n <= sent
  /\ link \cap Present = {}
  /\ \A q, r \in link : q.client = r.client => q = r
  /\ \A r \in entries : ~r.system
  /\ \A r \in systemEntries \cup inSystem : r.system
  /\ systemQueue \subseteq systemEntries /\ systemQueue \cap inSystem = {}
  /\ ReadsOf(inSystem) \subseteq systemEntries /\ WritesOf(inSystem) \cap systemEntries = {}
  /\ \A x \in queued : x[1] \in entries /\ x[2] \in x[1].chunks
  /\ Once(service)
  /\ \A r \in Served : r.read
  /\ Served \cap (entries \cup systemEntries \cup inSystem \cup OnBuses) = {}
  /\ ReadsOf(OnBuses) \cap (entries \cup systemEntries \cup inSystem) = {}

Accounts == BuffersAccounted /\ IsFiniteSet(HoldsReadBuffer)

BInv == IInv /\ Sorts /\ OneOnBus /\ Places /\ Accounts

-----------------------------------------------------------------------------
(* Sequences without repetitions.                                          *)

LEMMA Joined ==
  ASSUME NEW X, NEW s \in Seq(X), NEW t \in Seq(X), Once(s), Once(t),
         ToSet(s) \cap ToSet(t) = {}
  PROVE  s \o t \in Seq(X) /\ Once(s \o t) /\ ToSet(s \o t) = ToSet(s) \cup ToSet(t)
<1> DEFINE m == Len(s)
           n == Len(t)
<1>1. /\ m \in Nat /\ n \in Nat /\ DOMAIN s = 1 .. m /\ DOMAIN t = 1 .. n
      /\ s \o t \in Seq(X) /\ DOMAIN (s \o t) = 1 .. m + n
  OBVIOUS
<1>2. \A i \in 1 .. m + n : (s \o t)[i] = IF i <= m THEN s[i] ELSE t[i - m]
  OBVIOUS
<1> HIDE DEF m, n
<1>3. \A i \in 1 .. m + n : IF i <= m THEN i \in 1 .. m ELSE i - m \in 1 .. n
  BY <1>1
<1>4. \A i \in 1 .. m, j \in 1 .. n : s[i] # t[j]
  BY <1>1 DEF ToSet
<1>5. Once(s \o t)
  <2> SUFFICES ASSUME NEW i \in 1 .. m + n, NEW j \in 1 .. m + n, (s \o t)[i] = (s \o t)[j]
               PROVE  i = j
    BY <1>1 DEF Once
  <2>a. i <= m /\ ~(j <= m) => FALSE
    <3> SUFFICES ASSUME i <= m, ~(j <= m) PROVE FALSE
      OBVIOUS
    <3>1. i \in 1 .. m /\ j - m \in 1 .. n
      BY <1>3
    <3>2. s[i] = t[j - m]
      BY <1>2
    <3> QED BY <1>4, <3>1, <3>2
  <2>b. ~(i <= m) /\ j <= m => FALSE
    <3> SUFFICES ASSUME ~(i <= m), j <= m PROVE FALSE
      OBVIOUS
    <3>1. j \in 1 .. m /\ i - m \in 1 .. n
      BY <1>3
    <3>2. s[j] = t[i - m]
      BY <1>2
    <3> QED BY <1>4, <3>1, <3>2
  <2>1. i <= m <=> j <= m
    BY <2>a, <2>b
  <2>2. CASE i <= m
    BY <1>1, <1>2, <1>3, <2>1, <2>2 DEF Once
  <2>3. CASE ~(i <= m)
    <3>1. i - m \in 1 .. n /\ j - m \in 1 .. n /\ t[i - m] = t[j - m]
      BY <1>2, <1>3, <2>1, <2>3
    <3>2. i - m = j - m
      BY <1>1, <3>1 DEF Once
    <3> QED BY <1>1, <3>2
  <2> QED BY <2>2, <2>3
<1>6. ToSet(s \o t) = ToSet(s) \cup ToSet(t)
  <2>1. ToSet(s \o t) \subseteq ToSet(s) \cup ToSet(t)
    BY <1>1, <1>2, <1>3 DEF ToSet
  <2>2. ToSet(s) \subseteq ToSet(s \o t)
    <3>1. \A i \in 1 .. m : i \in 1 .. m + n /\ i <= m
      BY <1>1
    <3> QED BY <1>1, <1>2, <3>1 DEF ToSet
  <2>3. ToSet(t) \subseteq ToSet(s \o t)
    <3>1. \A i \in 1 .. n : i + m \in 1 .. m + n /\ ~(i + m <= m) /\ (i + m) - m = i
      BY <1>1
    <3>2. \A i \in 1 .. n : t[i] = (s \o t)[i + m]
      BY <1>2, <3>1
    <3>3. \A i \in 1 .. n : t[i] \in ToSet(s \o t)
      BY <1>1, <3>1, <3>2 DEF ToSet
    <3> QED BY <1>1, <3>3 DEF ToSet
  <2> QED BY <2>1, <2>2, <2>3
<1> QED BY <1>1, <1>5, <1>6

LEMMA WithoutHead ==
  ASSUME NEW X, NEW s \in Seq(X), s # <<>>, Once(s)
  PROVE  /\ Head(s) \in X /\ Tail(s) \in Seq(X) /\ Once(Tail(s))
         /\ ToSet(s) = {Head(s)} \cup ToSet(Tail(s)) /\ Head(s) \notin ToSet(Tail(s))
<1> DEFINE n == Len(s)
           t == Tail(s)
<1>1. /\ n \in Nat /\ n > 0 /\ DOMAIN s = 1 .. n /\ Head(s) = s[1] /\ t \in Seq(X)
      /\ DOMAIN t = 1 .. n - 1 /\ \A i \in 1 .. n - 1 : t[i] = s[i + 1]
  OBVIOUS
<1> HIDE DEF n, t
<1>2. \A i \in 1 .. n - 1 : i + 1 \in 1 .. n /\ i + 1 # 1
  BY <1>1
<1>3. \A i \in 1 .. n : i = 1 \/ (i - 1 \in 1 .. n - 1 /\ (i - 1) + 1 = i)
  BY <1>1
<1>4. 1 \in 1 .. n
  BY <1>1
<1>5. Once(t)
  <2> SUFFICES ASSUME NEW i \in 1 .. n - 1, NEW j \in 1 .. n - 1, t[i] = t[j] PROVE i = j
    BY <1>1 DEF Once
  <2>1. i + 1 = j + 1
    BY <1>1, <1>2 DEF Once
  <2> QED BY <2>1
<1>6. Head(s) \notin ToSet(t)
  BY <1>1, <1>2, <1>4 DEF Once, ToSet
<1>7. ToSet(s) \subseteq {Head(s)} \cup ToSet(t)
  <2>1. \A i \in 1 .. n : s[i] \in {Head(s)} \cup ToSet(t)
    <3> SUFFICES ASSUME NEW i \in 1 .. n, i # 1 PROVE s[i] \in ToSet(t)
      BY <1>1
    <3>1. i - 1 \in 1 .. n - 1 /\ s[i] = t[i - 1]
      BY <1>1, <1>3
    <3> QED BY <1>1, <3>1 DEF ToSet
  <2> QED BY <1>1, <2>1 DEF ToSet
<1>8. {Head(s)} \cup ToSet(t) \subseteq ToSet(s)
  BY <1>1, <1>2, <1>4 DEF ToSet
<1>9. Head(s) \in X
  OBVIOUS
<1> QED BY <1>1, <1>5, <1>6, <1>7, <1>8, <1>9 DEF t

\* A finite set in some order.
LEMMA Listed ==
  ASSUME NEW S, IsFiniteSet(S)
  PROVE  /\ \A f \in SetToSeqs(S) : f \in Seq(S) /\ Once(f) /\ ToSet(f) = S
         /\ SetToSeq(S) \in SetToSeqs(S)
<1> DEFINE n == Cardinality(S)
<1>1. n \in Nat /\ ExistsBijection(1 .. n, S)
  BY FS_CardinalityType
<1> HIDE DEF n
<1>2. ASSUME NEW f \in [1 .. n -> S], IsInjective(f)
      PROVE  f \in Seq(S) /\ Once(f) /\ ToSet(f) = S
  <2>1. IsFiniteSet(1 .. n) /\ Cardinality(1 .. n) = n
    BY <1>1, FS_Interval
  <2>2. f \in Injection(1 .. n, S)
    BY <1>2 DEF Injection
  <2>3. f \in Surjection(1 .. n, S)
    BY <2>1, <2>2, FS_Injection DEF n
  <2>4. ToSet(f) = S
    BY <1>2, <2>3 DEF ToSet, Surjection
  <2> QED BY <1>1, <1>2, <2>4 DEF Once, IsInjective
<1>3. \A f \in SetToSeqs(S) : f \in [1 .. n -> S] /\ IsInjective(f)
  BY DEF SetToSeqs, IsInjective, n
<1>4. \E f \in [1 .. n -> S] : IsInjective(f)
  BY <1>1 DEF ExistsBijection, Bijection, Injection
<1>5. SetToSeq(S) \in [1 .. n -> S] /\ IsInjective(SetToSeq(S))
  BY <1>4 DEF SetToSeq, n
<1>6. SetToSeq(S) \in SetToSeqs(S)
  BY <1>5 DEF SetToSeqs, IsInjective, n
<1> QED BY <1>2, <1>3, <1>6

-----------------------------------------------------------------------------
(* What a cycle does to the requests.                                      *)

\* A cycle, with what it completes, sends, ends and issues.
Moves(reads, chunks, ended, issued, order) ==
  /\ reads \subseteq ReadsOf(Completed) /\ chunks \subseteq Ready
  /\ ended \subseteq inSystem /\ issued \subseteq SystemQueued
  /\ order \in SetToSeqs(reads)
  /\ entries' = Entered \ (WritesOf(Completed) \cup reads)
  /\ service' = Unserved \o order \o SetToSeq(ReadsOf(ended))
  /\ queued' = Queued \ chunks
  /\ inMemory' \subseteq inMemory \cup chunks
  /\ systemQueue' = SystemQueued \ issued
  /\ inSystem' = (inSystem \ ended) \cup issued
  /\ systemEntries' = SystemEntered \ (ReadsOf(ended) \cup WritesOf(issued))
  /\ freeReadBuffers' = (freeReadBuffers + Cardinality(ReadsEnded) - Cardinality(Started(chunks))
                           - Cardinality(ReadsOf(issued))) % Word
  /\ freeWriteBuffers' = freeWriteBuffers - Cardinality(WritesOf(link))
                           + Cardinality(WritesOf(Completed \cup ended))

LEMMA ClockMoves ==
  ASSUME Clock
  PROVE  \E reads, chunks, ended, issued, order : Moves(reads, chunks, ended, issued, order)
<1>1. PICK reads \in CompletedReads, replies \in Replies, chunks \in SUBSET Ready, ended \in SystemEnds :
      \E order \in SetToSeqs(reads),
         issued \in Issues((freeReadBuffers + Cardinality(ReadsEnded) - Cardinality(Started(chunks))) % Word) :
       /\ entries' = Entered \ (WritesOf(Completed) \cup reads)
       /\ service' = Unserved \o order \o SetToSeq(ReadsOf(ended))
       /\ queued' = Queued \ chunks
       /\ inMemory' = (inMemory \ replies) \cup chunks
       /\ systemQueue' = SystemQueued \ issued
       /\ inSystem' = (inSystem \ ended) \cup issued
       /\ systemEntries' = SystemEntered \ (ReadsOf(ended) \cup WritesOf(issued))
       /\ freeReadBuffers' = (freeReadBuffers + Cardinality(ReadsEnded) - Cardinality(Started(chunks))
                               - Cardinality(ReadsOf(issued))) % Word
       /\ freeWriteBuffers' = freeWriteBuffers - Cardinality(WritesOf(link))
                               + Cardinality(WritesOf(Completed \cup ended))
  BY Zenon DEF Clock
<1>2. PICK order \in SetToSeqs(reads),
           issued \in Issues((freeReadBuffers + Cardinality(ReadsEnded) - Cardinality(Started(chunks))) % Word) :
       /\ entries' = Entered \ (WritesOf(Completed) \cup reads)
       /\ service' = Unserved \o order \o SetToSeq(ReadsOf(ended))
       /\ queued' = Queued \ chunks
       /\ inMemory' = (inMemory \ replies) \cup chunks
       /\ systemQueue' = SystemQueued \ issued
       /\ inSystem' = (inSystem \ ended) \cup issued
       /\ systemEntries' = SystemEntered \ (ReadsOf(ended) \cup WritesOf(issued))
       /\ freeReadBuffers' = (freeReadBuffers + Cardinality(ReadsEnded) - Cardinality(Started(chunks))
                               - Cardinality(ReadsOf(issued))) % Word
       /\ freeWriteBuffers' = freeWriteBuffers - Cardinality(WritesOf(link))
                               + Cardinality(WritesOf(Completed \cup ended))
  BY <1>1, Zenon
<1>3. issued \subseteq SystemQueued
  BY Zenon DEF Issues, First
<1>4. ended \subseteq inSystem
  BY DEF SystemEnds, First, ReadsOf, WritesOf
<1>5. reads \subseteq ReadsOf(Completed)
  BY DEF CompletedReads
<1>6. inMemory' \subseteq inMemory \cup chunks /\ chunks \subseteq Ready
  BY <1>2
<1>7. Moves(reads, chunks, ended, issued, order)
  BY <1>2, <1>3, <1>4, <1>5, <1>6, Zenon DEF Moves
<1> QED BY <1>7

LEMMA RequestIs ==
  ASSUME load \in Loads, NEW r \in SomeRequests
  PROVE  /\ r.client \in Clients /\ r.read \in BOOLEAN /\ r.system \in BOOLEAN
         /\ r.n \in Nat /\ r.chunks \subseteq Channels
         /\ r.system <=> r.chunks = {}
<1>1. /\ load.splits \subseteq (SUBSET Channels) \ {{}} /\ load.maxRequests \in Nat
  BY LoadAssumption
<1>2. PICK n \in 1 .. load.maxRequests, c \in Clients, x \in Contents : r = Request(n, c, x)
  BY DEF SomeRequests
<1>3. /\ x.read \in BOOLEAN /\ x.system \in BOOLEAN /\ x.chunks \subseteq Channels
      /\ x.system <=> x.chunks = {}
  BY <1>1 DEF Contents
<1> QED BY <1>1, <1>2, <1>3 DEF Request

\* The requests that are sent are new.
LEMMA SentNew ==
  ASSUME SendRequests, load \in Loads, sent \in 0 .. load.maxRequests
  PROVE  /\ link' \subseteq SomeRequests
         /\ sent' \in 0 .. load.maxRequests /\ sent <= sent'
         /\ \A r \in link' : sent < r.n /\ r.n <= sent'
<1>1. PICK senders \in SUBSET { c \in Clients : state[c] # "none" } :
        \E content \in [senders -> Contents] :
          /\ sent' = sent + Cardinality(senders) /\ sent' <= load.maxRequests
          /\ link' = { Request(Number(senders)[c], c, content[c]) : c \in senders }
  BY Zenon DEF SendRequests
<1>2. PICK content \in [senders -> Contents] :
          /\ sent' = sent + Cardinality(senders) /\ sent' <= load.maxRequests
          /\ link' = { Request(Number(senders)[c], c, content[c]) : c \in senders }
  BY <1>1, Zenon
<1> DEFINE k == Cardinality(senders)
           numbers == sent + 1 .. sent + k
<1>3. IsFiniteSet(senders) /\ k \in Nat
  <2>1. senders \subseteq Clients
    BY <1>1
  <2> QED BY <2>1, ControllerAssumption, CountsTo
<1>4. sent \in Nat /\ load.maxRequests \in Nat
  BY LoadAssumption
<1>5. IsFiniteSet(numbers) /\ Cardinality(numbers) = k
  <2> HIDE DEF k
  <2>1. sent + 1 \in Int /\ sent + k \in Int
    BY <1>3, <1>4
  <2>2. /\ IsFiniteSet(numbers)
        /\ Cardinality(numbers) = IF sent + 1 > sent + k THEN 0 ELSE (sent + k) - (sent + 1) + 1
    BY <2>1, FS_Interval
  <2>3. (IF sent + 1 > sent + k THEN 0 ELSE (sent + k) - (sent + 1) + 1) = k
    BY <1>3, <1>4
  <2> QED BY <2>2, <2>3
<1>6. Number(senders) \in Bijection(senders, numbers)
  <2>1. Bijection(senders, numbers) # {}
    BY <1>3, <1>5, FS_SameCardinalityBij DEF ExistsBijection
  <2> QED BY <2>1 DEF Number
<1>7. \A c \in senders : Number(senders)[c] \in numbers
  BY <1>6 DEF Bijection, Injection
<1> HIDE DEF k
<1>8. sent' = sent + k /\ sent' <= load.maxRequests
  BY <1>2 DEF k
<1>9. ASSUME NEW r \in link' PROVE r \in SomeRequests /\ sent < r.n /\ r.n <= sent'
  <2>1. PICK c \in senders : r = Request(Number(senders)[c], c, content[c])
    BY <1>2
  <2>2. /\ Number(senders)[c] \in 1 .. load.maxRequests
        /\ sent < Number(senders)[c] /\ Number(senders)[c] <= sent'
    BY <1>3, <1>4, <1>7, <1>8
  <2>3. c \in Clients /\ content[c] \in Contents
    BY <1>1, <1>2
  <2>4. r.n = Number(senders)[c]
    BY <2>1 DEF Request
  <2> QED BY <2>1, <2>2, <2>3, <2>4 DEF SomeRequests
<1> QED BY <1>3, <1>4, <1>8, <1>9

\* The read that goes back in this cycle, if any.
Back == IF Serves THEN {Head(service)} ELSE {}

LEMMA HeadLeaves ==
  ASSUME BInv
  PROVE  /\ Back \subseteq Served /\ Served = ToSet(Unserved) \cup Back
         /\ Back \cap ToSet(Unserved) = {}
         /\ Once(Unserved) /\ Unserved \in Seq(SomeRequests)
<1>1. service \in Seq(SomeRequests) /\ Once(service)
  BY DEF BInv, Sorts, Places
<1>2. CASE Serves
  <2>1. service # <<>> /\ Unserved = Tail(service) /\ Back = {Head(service)}
    BY <1>2 DEF Serves, Unserved, Back
  <2> QED BY <1>1, <2>1, WithoutHead DEF Served
<1>3. CASE ~Serves
  BY <1>1, <1>3 DEF Unserved, Back, Served
<1> QED BY <1>2, <1>3

LEMMA CountedIs ==
  ASSUME BInv, NEW c \in Clients
  PROVE  /\ Counted(c) \in 0 .. BusCycles /\ TransLeft(c) \in 0 .. BusCycles
         /\ Counted(c) # 0 => onBus[c] \cup WritesOf(Of(c, link)) # {}
<1>1. /\ busCycles[c] \in 0 .. BusCycles /\ trans[c] \in 0 .. BusCycles
      /\ BusCycles \in Nat /\ BusCycles > 0
      /\ busCycles[c] = 0 <=> onBus[c] = {}
  BY ControllerAssumption DEF BInv, OneOnBus
<1> QED BY <1>1 DEF Counted, TransLeft

LEMMA BusMoves ==
  ASSUME BInv, Cycle
  PROVE  /\ data' = Back
         /\ ReadsOf(OnBuses') = (ReadsOf(OnBuses) \ ReadsEnded) \cup Back
         /\ ReadsEnded \subseteq ReadsOf(OnBuses)
         /\ OnBuses' \subseteq OnBuses \cup link \cup Back
         /\ OneOnBus'
<1>1. /\ data' = Back
      /\ busCycles' = [c \in Clients |-> IF Of(c, Back) # {} THEN BusCycles ELSE Counted(c)]
      /\ onBus' = [c \in Clients |-> IF Of(c, Back) # {} THEN Back ELSE StillOnBus(c)]
  BY DEF Cycle, Clock, ServeRequest, Back
<1>2. /\ \A c \in Clients : \A x \in onBus[c] : x.client = c
      /\ \A r \in Served : r.read /\ r.client \in Clients /\ r \in SomeRequests
  <2>1. Served \subseteq SomeRequests /\ load \in Loads
    BY DEF BInv, Sorts, Present
  <2> QED BY <2>1, RequestIs DEF BInv, OneOnBus, Places
<1>3. /\ \A r \in Back : r.read /\ r.client \in Clients /\ r \in SomeRequests /\ Counted(r.client) = 0
      /\ \A q, r \in Back : q = r
  BY <1>2, HeadLeaves DEF Back, Serves
<1>4. \A c \in Clients : onBus'[c] = StillOnBus(c) \cup Of(c, Back)
  <2> SUFFICES ASSUME NEW c \in Clients PROVE onBus'[c] = StillOnBus(c) \cup Of(c, Back)
    OBVIOUS
  <2>1. CASE Of(c, Back) # {}
    <3>1. Back = Of(c, Back) /\ Counted(c) = 0
      BY <1>3, <2>1 DEF Of
    <3> QED BY <1>1, <2>1, <3>1 DEF StillOnBus
  <2>2. CASE Of(c, Back) = {}
    BY <1>1, <2>2
  <2> QED BY <2>1, <2>2
<1>5. \A c \in Clients, x \in link : x \in WritesOf(Of(c, link)) <=> x.client = c /\ ~x.read
  BY DEF WritesOf, Of
<1>6. ReadsOf(OnBuses') = (ReadsOf(OnBuses) \ ReadsEnded) \cup Back
  <2>1. \A x : x \in ReadsOf(OnBuses') <=> x.read /\ \E c \in Clients : x \in StillOnBus(c) \/ x \in Of(c, Back)
    BY <1>4 DEF OnBuses, ReadsOf
  <2>2. \A x : x \in Back <=> x.read /\ \E c \in Clients : x \in Of(c, Back)
    BY <1>3 DEF Of
  <2>3. \A x : x \in ReadsOf(OnBuses) \ ReadsEnded <=> x.read /\ \E c \in Clients : x \in StillOnBus(c)
    <3>1. \A c \in Clients : \A x : x.read /\ x \in StillOnBus(c) <=> x.read /\ Counted(c) # 0 /\ x \in onBus[c]
      BY DEF StillOnBus, WritesOf
    <3>2. \A x : x \in ReadsOf(OnBuses) <=> x.read /\ \E c \in Clients : x \in onBus[c]
      BY DEF OnBuses, ReadsOf
    <3>3. \A x : x \in ReadsEnded <=> x.read /\ \E c \in Clients : Counted(c) = 0 /\ x \in onBus[c]
      BY DEF ReadsEnded, ReadsOf
    <3> QED BY <3>1, <3>2, <3>3, <1>2
  <2> QED BY <2>1, <2>2, <2>3
<1>7. ReadsEnded \subseteq ReadsOf(OnBuses)
  BY DEF ReadsEnded, ReadsOf, OnBuses
<1>8. OnBuses' \subseteq OnBuses \cup link \cup Back
  BY <1>4 DEF OnBuses, StillOnBus, Of, WritesOf
<1>9. OneOnBus'
  <2>1. SomeRequests' = SomeRequests
    BY DEF Cycle, SomeRequests, Contents
  <2>2. ASSUME NEW c \in Clients
        PROVE  /\ busCycles'[c] \in 0 .. BusCycles
               /\ onBus'[c] \subseteq SomeRequests
               /\ busCycles'[c] = 0 <=> onBus'[c] = {}
               /\ \A q, r \in onBus'[c] : q = r /\ r.client = c
    <3>1. BusCycles \in Nat /\ BusCycles > 0
      BY ControllerAssumption
    <3>2. CASE Of(c, Back) # {}
      <4>1. Back = Of(c, Back)
        BY <1>3, <3>2 DEF Of
      <4>2. onBus'[c] = Back /\ busCycles'[c] = BusCycles
        BY <1>1, <3>2
      <4> QED BY <1>3, <3>1, <3>2, <4>1, <4>2 DEF Of
    <3>3. CASE Of(c, Back) = {} /\ Counted(c) = 0
      BY <1>1, <3>1, <3>3 DEF StillOnBus
    <3>4. CASE Of(c, Back) = {} /\ Counted(c) # 0
      <4>1. /\ busCycles'[c] = Counted(c) /\ onBus'[c] = onBus[c] \cup WritesOf(Of(c, link))
        BY <1>1, <3>4 DEF StillOnBus
      <4>2. onBus'[c] # {} /\ busCycles'[c] \in 0 .. BusCycles
        BY <3>4, <4>1, CountedIs
      <4>3. /\ onBus[c] \subseteq SomeRequests /\ WritesOf(Of(c, link)) \subseteq SomeRequests
            /\ \A q, r \in onBus[c] : q = r /\ r.client = c
            /\ \A q, r \in WritesOf(Of(c, link)) : q = r /\ r.client = c
        BY DEF BInv, OneOnBus, Sorts, Places, WritesOf, Of
      <4>4. WritesOf(Of(c, link)) # {} => onBus[c] = {}
        BY DEF BInv, IInv, Transmissions, OneOnBus
      <4> QED BY <3>4, <4>1, <4>2, <4>3, <4>4
    <3> QED BY <3>2, <3>3, <3>4
  <2>3. trans' \in [Clients -> 0 .. BusCycles]
    <3>1. trans' = [c \in Clients |->
                     IF WritesOf(Of(c, link')) # {} THEN BusCycles ELSE TransLeft(c)]
      BY Sent DEF Cycle
    <3> QED BY <3>1, CountedIs, ControllerAssumption
  <2>4. busCycles' \in [Clients -> 0 .. BusCycles] /\ onBus' \in [Clients -> SUBSET SomeRequests]
    BY <1>1, <2>2
  <2> QED BY <2>1, <2>2, <2>3, <2>4 DEF OneOnBus
<1> QED BY <1>1, <1>6, <1>7, <1>8, <1>9

\* The requests of GPU memory and those of system memory.
LEMMA Apart ==
  ASSUME BInv
  PROVE  /\ entries \cap (systemEntries \cup inSystem) = {}
         /\ Arrived(FALSE) \cup Arrived(TRUE) = link /\ Arrived(FALSE) \cap Arrived(TRUE) = {}
         /\ \A r \in Arrived(FALSE) : ~r.system
         /\ \A r \in Arrived(TRUE) : r.system
         /\ \A r \in Present \cup link : r \in SomeRequests /\ r.read \in BOOLEAN
                                       /\ r.system \in BOOLEAN /\ r.n \in Nat
                                       /\ (r.system <=> r.chunks = {})
         /\ Completed \subseteq entries
<1>1. \A r \in Present \cup link : r \in SomeRequests /\ load \in Loads
  BY DEF BInv, Sorts
<1>2. \A r \in Present \cup link : r \in SomeRequests /\ r.read \in BOOLEAN
                                 /\ r.system \in BOOLEAN /\ r.n \in Nat
                                 /\ (r.system <=> r.chunks = {})
  BY <1>1, RequestIs
<1>3. \A r \in link : r.system \in BOOLEAN
  BY <1>2
<1> QED BY <1>2, <1>3 DEF BInv, Places, Arrived, Completed

\* The service queue: the read at its head leaves, those that completed enter.
LEMMA ServiceMoves ==
  ASSUME BInv, NEW reads, NEW chunks, NEW ended, NEW issued, NEW order,
         Moves(reads, chunks, ended, issued, order)
  PROVE  /\ Served' = ToSet(Unserved) \cup reads \cup ReadsOf(ended)
         /\ Once(service') /\ service' \in Seq(SomeRequests)
<1> DEFINE last == SetToSeq(ReadsOf(ended))
<1>1. /\ reads \subseteq entries /\ ReadsOf(ended) \subseteq inSystem
      /\ entries \subseteq SomeRequests /\ inSystem \subseteq SomeRequests
  BY DEF Moves, ReadsOf, Completed, BInv, Sorts, Present
<1>2. IsFiniteSet(reads) /\ IsFiniteSet(ReadsOf(ended))
  BY <1>1, CountsTo DEF BInv, IInv, Finite
<1>3. /\ order \in Seq(reads) /\ Once(order) /\ ToSet(order) = reads
      /\ last \in Seq(ReadsOf(ended)) /\ Once(last) /\ ToSet(last) = ReadsOf(ended)
  BY <1>2, Listed DEF Moves
<1>4. order \in Seq(SomeRequests) /\ last \in Seq(SomeRequests)
  BY <1>1, <1>3
<1>5. /\ ToSet(Unserved) \subseteq Served /\ Once(Unserved) /\ Unserved \in Seq(SomeRequests)
  BY HeadLeaves
<1>6. /\ ToSet(Unserved) \cap reads = {}
      /\ (ToSet(Unserved) \cup reads) \cap ReadsOf(ended) = {}
  BY <1>1, <1>5, Apart DEF BInv, Places
<1> HIDE DEF last
<1> DEFINE first == Unserved \o order
<1>7. /\ first \in Seq(SomeRequests) /\ Once(first)
      /\ ToSet(first) = ToSet(Unserved) \cup reads
  BY <1>3, <1>4, <1>5, <1>6, Joined
<1>8. service' = first \o last
  BY DEF Moves, last
<1> HIDE DEF first
<1>9. ToSet(first) \cap ToSet(last) = {}
  BY <1>3, <1>6, <1>7
<1>10. /\ first \o last \in Seq(SomeRequests) /\ Once(first \o last)
       /\ ToSet(first \o last) = ToSet(first) \cup ToSet(last)
  BY <1>3, <1>4, <1>7, <1>9, Joined
<1> QED BY <1>3, <1>7, <1>8, <1>10 DEF Served

LEMMA PlacesKept ==
  ASSUME BInv, Cycle, NEW reads, NEW chunks, NEW ended, NEW issued, NEW order,
         Moves(reads, chunks, ended, issued, order)
  PROVE  Places' /\ Present' \subseteq Present \cup link
<1>1. /\ reads \subseteq ReadsOf(Completed) /\ ended \subseteq inSystem /\ issued \subseteq SystemQueued
      /\ reads \subseteq entries
      /\ entries' = Entered \ (WritesOf(Completed) \cup reads)
      /\ queued' = Queued \ chunks /\ systemQueue' = SystemQueued \ issued
      /\ inSystem' = (inSystem \ ended) \cup issued
      /\ systemEntries' = SystemEntered \ (ReadsOf(ended) \cup WritesOf(issued))
  BY DEF Moves, ReadsOf, Completed
<1>2. /\ Served' = ToSet(Unserved) \cup reads \cup ReadsOf(ended) /\ Once(service')
  BY ServiceMoves
<1>3. /\ ToSet(Unserved) \subseteq Served /\ Back \subseteq Served
      /\ Back \cap ToSet(Unserved) = {} /\ Served = ToSet(Unserved) \cup Back
  BY HeadLeaves
<1>4. /\ ReadsOf(OnBuses') = (ReadsOf(OnBuses) \ ReadsEnded) \cup Back
      /\ OnBuses' \subseteq OnBuses \cup link \cup Back
  BY BusMoves
<1>5. /\ link \cap Present = {}
      /\ \A r \in entries : ~r.system
      /\ \A r \in systemEntries \cup inSystem : r.system
      /\ systemQueue \subseteq systemEntries /\ systemQueue \cap inSystem = {}
      /\ ReadsOf(inSystem) \subseteq systemEntries /\ WritesOf(inSystem) \cap systemEntries = {}
      /\ \A r \in Served : r.read
      /\ Served \cap (entries \cup systemEntries \cup inSystem \cup OnBuses) = {}
      /\ ReadsOf(OnBuses) \cap (entries \cup systemEntries \cup inSystem) = {}
  BY DEF BInv, Places
<1>6. /\ Entered = entries \cup Arrived(FALSE) /\ SystemEntered = systemEntries \cup Arrived(TRUE)
      /\ SystemQueued = systemQueue \cup Arrived(TRUE)
      /\ Arrived(FALSE) \subseteq link /\ Arrived(TRUE) \subseteq link
      /\ Arrived(FALSE) \cap Arrived(TRUE) = {}
      /\ Completed \subseteq entries
  BY Apart DEF Entered, SystemEntered, SystemQueued
<1>7. /\ entries \subseteq Present /\ systemEntries \subseteq Present /\ inSystem \subseteq Present
      /\ Served \subseteq Present /\ OnBuses \subseteq Present
  BY DEF Present
<1>8. Present' \subseteq Present \cup link
  <2>1. Present' = entries' \cup systemEntries' \cup inSystem' \cup Served' \cup OnBuses'
    BY DEF Present
  <2>2. ReadsOf(ended) \subseteq ended
    BY DEF ReadsOf
  <2> QED BY <2>1, <2>2, <1>1, <1>2, <1>3, <1>4, <1>5, <1>6, <1>7
<1>9. /\ \A r \in link' : sent < r.n /\ r.n <= sent'
      /\ \A q, r \in link' : q.client = r.client => q = r
      /\ \A r \in Present \cup link : r.n <= sent /\ r.n \in Nat
      /\ sent <= sent' /\ sent \in Nat /\ sent' \in Nat
  <2>1. SendRequests /\ load \in Loads /\ sent \in 0 .. load.maxRequests
    BY DEF Cycle, BInv, Sorts
  <2>2. load.maxRequests \in Nat
    BY <2>1, LoadAssumption
  <2>3. \A q, r \in link' : q.client = r.client => q = r
    BY <2>1, Sent DEF OnePerClient
  <2>4. \A r \in Present \cup link : r.n <= sent /\ r.n \in Nat
    <3>1. \A r \in Present \cup link : r.n <= sent
      BY DEF BInv, Places
    <3> QED BY <3>1, Apart
  <2>5. /\ sent' \in 0 .. load.maxRequests /\ sent <= sent'
        /\ \A r \in link' : sent < r.n /\ r.n <= sent'
    BY <2>1, SentNew
  <2> QED BY <2>1, <2>2, <2>3, <2>4, <2>5
<1>10. /\ \A r \in Present' \cup link' : r.n <= sent'
       /\ link' \cap Present' = {}
  BY <1>8, <1>9
<1>11. /\ \A r \in entries' : ~r.system
       /\ \A r \in systemEntries' \cup inSystem' : r.system
  BY <1>1, <1>5, <1>6, Apart
<1>12. /\ systemQueue' \subseteq systemEntries' /\ systemQueue' \cap inSystem' = {}
  BY <1>1, <1>5, <1>6, <1>7 DEF ReadsOf, WritesOf
<1>13. /\ ReadsOf(inSystem') \subseteq systemEntries' /\ WritesOf(inSystem') \cap systemEntries' = {}
  BY <1>1, <1>5, <1>6, <1>7 DEF ReadsOf, WritesOf
<1>14. \A x \in queued' : x[1] \in entries' /\ x[2] \in x[1].chunks
  <2> SUFFICES ASSUME NEW x \in Queued PROVE /\ x[1] \in Entered \ Completed /\ x[2] \in x[1].chunks
    BY <1>1 DEF ReadsOf, WritesOf
  <2>1. CASE x \in queued
    <3>1. /\ x[1] \in entries /\ x[2] \in x[1].chunks /\ x = <<x[1], x[2]>>
      BY <2>1 DEF BInv, Places, Sorts
    <3>2. x[1] \notin Completed
      BY <2>1, <3>1 DEF Completed
    <3> QED BY <3>1, <3>2, <1>6
  <2>2. CASE x \in UNION { {r} \X r.chunks : r \in link }
    <3>1. PICK r \in link : x \in {r} \X r.chunks
      BY <2>2
    <3>2. x[1] = r /\ x[2] \in r.chunks /\ ~r.system
      BY <3>1, Apart
    <3>3. r \in Arrived(FALSE)
      BY <3>2, Apart DEF Arrived
    <3> QED BY <3>2, <3>3, <1>5, <1>6, <1>7
  <2> QED BY <2>1, <2>2 DEF Queued
<1>15. /\ \A r \in Served' : r.read
  BY <1>1, <1>2, <1>3, <1>5 DEF ReadsOf
<1>16. Served' \cap (entries' \cup systemEntries' \cup inSystem') = {}
  <2>1. ToSet(Unserved) \cap (entries' \cup systemEntries' \cup inSystem') = {}
    BY <1>1, <1>3, <1>5, <1>6, <1>7
  <2>2. reads \cap (entries' \cup systemEntries' \cup inSystem') = {}
    BY <1>1, <1>5, <1>6, <1>7, Apart
  <2>3. ReadsOf(ended) \cap (entries' \cup systemEntries' \cup inSystem') = {}
    BY <1>1, <1>5, <1>6, <1>7, Apart DEF ReadsOf
  <2> QED BY <2>1, <2>2, <2>3, <1>2
<1>17. Served' \cap OnBuses' = {}
  <2>1. \A r \in Served' : r \in OnBuses' => r \in ReadsOf(OnBuses')
    BY <1>15 DEF ReadsOf
  <2>2. Served' \cap ReadsOf(OnBuses) = {}
    BY <1>1, <1>2, <1>3, <1>5 DEF ReadsOf
  <2>3. Served' \cap Back = {}
    BY <1>1, <1>2, <1>3, <1>5 DEF ReadsOf
  <2> QED BY <2>1, <2>2, <2>3, <1>4
<1>18. ReadsOf(OnBuses') \cap (entries' \cup systemEntries' \cup inSystem') = {}
  <2>1. ReadsOf(OnBuses) \subseteq OnBuses
    BY DEF ReadsOf
  <2> QED BY <2>1, <1>1, <1>3, <1>4, <1>5, <1>6, <1>7
<1>19. Places'
  BY <1>2, <1>9, <1>10, <1>11, <1>12, <1>13, <1>14, <1>15, <1>16, <1>17, <1>18 DEF Places
<1> QED BY <1>8, <1>19

-----------------------------------------------------------------------------
(* The buffers.                                                            *)

LEMMA CountsApart ==
  ASSUME NEW s, IsFiniteSet(s), NEW t, IsFiniteSet(t), s \cap t = {}
  PROVE  /\ IsFiniteSet(s \cup t)
         /\ Cardinality(s \cup t) = Cardinality(s) + Cardinality(t)
<1>1. Cardinality(s \cap t) = 0
  BY FS_EmptySet
<1>2. Cardinality(s) \in Nat /\ Cardinality(t) \in Nat
  BY FS_CardinalityType
<1>3. /\ IsFiniteSet(s \cup t)
      /\ Cardinality(s \cup t) = Cardinality(s) + Cardinality(t) - Cardinality(s \cap t)
  BY FS_Union, Zenon
<1> QED BY <1>1, <1>2, <1>3

LEMMA CountsMoved ==
  ASSUME NEW s, IsFiniteSet(s), NEW out, out \subseteq s,
         NEW in, IsFiniteSet(in), in \cap s = {}
  PROVE  /\ IsFiniteSet((s \ out) \cup in)
         /\ Cardinality((s \ out) \cup in) = Cardinality(s) - Cardinality(out) + Cardinality(in)
         /\ Cardinality(s) \in Nat /\ Cardinality(out) \in Nat /\ Cardinality(in) \in Nat
<1>1. /\ Cardinality(s) \in Nat /\ Cardinality(out) \in Nat /\ Cardinality(in) \in Nat
  BY CountsTo, FS_CardinalityType
<1>2. /\ IsFiniteSet(s \ out) /\ Cardinality(s \ out) = Cardinality(s) - Cardinality(out)
  <2>1. s \cap out = out
    OBVIOUS
  <2> QED BY <2>1, FS_Difference
<1>3. (s \ out) \cap in = {}
  OBVIOUS
<1>4. /\ IsFiniteSet((s \ out) \cup in)
      /\ Cardinality((s \ out) \cup in) = Cardinality(s \ out) + Cardinality(in)
  BY <1>2, <1>3, CountsApart
<1> QED BY <1>1, <1>2, <1>4

LEMMA QueuedIs ==
  ASSUME BInv, NEW x \in Queued
  PROVE  /\ x[1] \in Entered \ Completed /\ x[2] \in x[1].chunks /\ x = <<x[1], x[2]>>
         /\ x \in SomeRequests \X Channels
<1>1. CASE x \in queued
  <2>1. /\ x[1] \in entries /\ x[2] \in x[1].chunks /\ x = <<x[1], x[2]>>
        /\ x \in SomeRequests \X Channels
    BY <1>1 DEF BInv, Places, Sorts
  <2>2. x[1] \notin Completed
    BY <1>1, <2>1 DEF Completed
  <2> QED BY <2>1, <2>2 DEF Entered
<1>2. CASE x \in UNION { {r} \X r.chunks : r \in link }
  <2>1. PICK r \in link : x \in {r} \X r.chunks
    BY <1>2
  <2>2. x[1] = r /\ x[2] \in r.chunks /\ ~r.system /\ x = <<x[1], x[2]>>
    BY <2>1, Apart
  <2>3. r \in Arrived(FALSE) /\ r \in SomeRequests /\ r.chunks \subseteq Channels
    <3>1. r \in SomeRequests /\ load \in Loads
      BY Apart DEF BInv, Sorts
    <3>2. r.chunks \subseteq Channels
      BY <3>1, RequestIs
    <3> QED BY <2>2, <3>1, <3>2 DEF Arrived
  <2>4. r \notin entries
    BY DEF BInv, Places, Present
  <2>5. r \notin Completed
    BY <2>4, Apart
  <2> QED BY <2>2, <2>3, <2>5 DEF Entered
<1> QED BY <1>1, <1>2 DEF Queued

\* The reads of GPU memory of which a chunk was sent.
BegunReads == { r \in ReadsOf(entries) : ~({r} \X r.chunks \subseteq queued) }

LEMMA BegunMoves ==
  ASSUME BInv, NEW reads, NEW chunks, NEW ended, NEW issued, NEW order,
         Moves(reads, chunks, ended, issued, order)
  PROVE  /\ reads \subseteq BegunReads
         /\ BegunReads' = (BegunReads \ reads) \cup Started(chunks)
         /\ Started(chunks) \subseteq ReadsOf(Entered) /\ Started(chunks) \cap BegunReads = {}
<1>1. /\ reads \subseteq ReadsOf(Completed) /\ chunks \subseteq Queued
      /\ reads \subseteq entries
      /\ entries' = Entered \ (WritesOf(Completed) \cup reads)
      /\ queued' = Queued \ chunks
  BY DEF Moves, Ready, ReadsOf, Completed
<1>2. \A r \in ReadsOf(Completed) : r \in entries /\ r.read /\ r \in BegunReads
  <2> TAKE r \in ReadsOf(Completed)
  <2>1. /\ r \in entries /\ r.read /\ \A ch \in r.chunks : <<r, ch>> \notin queued \cup inMemory
    BY DEF ReadsOf, Completed
  <2>2. r.chunks # {}
    <3>1. ~r.system /\ (r.system <=> r.chunks = {})
      BY <2>1, Apart DEF BInv, Places, Present
    <3> QED BY <3>1
  <2>3. PICK ch \in r.chunks : TRUE
    BY <2>2
  <2>4. <<r, ch>> \in {r} \X r.chunks /\ <<r, ch>> \notin queued
    BY <2>1
  <2> QED BY <2>1, <2>4 DEF BegunReads, ReadsOf
<1>3. link \cap entries = {} /\ Entered \subseteq entries \cup link
  BY DEF BInv, Places, Present, Entered, Arrived
<1>4. \A r \in entries : {r} \X r.chunks \subseteq Queued <=> {r} \X r.chunks \subseteq queued
  <2> TAKE r \in entries
  <2>1. \A q \in link, x \in {r} \X r.chunks : x \notin {q} \X q.chunks
    BY <1>3
  <2> QED BY <2>1 DEF Queued
<1>5. \A r \in link : {r} \X r.chunks \subseteq Queued
  BY DEF Queued
<1>6. ASSUME NEW r \in Started(chunks)
      PROVE  /\ r.read /\ r \in Entered \ Completed /\ {r} \X r.chunks \subseteq Queued
             /\ ~({r} \X r.chunks \subseteq Queued \ chunks)
  <2>1. /\ r.read /\ {r} \X r.chunks \subseteq Queued
    BY DEF Started, ReadsOf
  <2>2. PICK x \in chunks : x[1] = r
    BY DEF Started, ReadsOf
  <2>3. /\ x[1] \in Entered \ Completed /\ x[2] \in x[1].chunks /\ x = <<x[1], x[2]>>
    BY <1>1, QueuedIs
  <2>4. x \in {r} \X r.chunks
    BY <2>2, <2>3
  <2> QED BY <2>1, <2>2, <2>3, <2>4
<1>7. ASSUME NEW r, r.read, {r} \X r.chunks \subseteq Queued, ~({r} \X r.chunks \subseteq Queued \ chunks)
      PROVE  r \in Started(chunks)
  <2>1. PICK x \in {r} \X r.chunks : x \in chunks
    BY <1>7
  <2>2. x[1] = r
    OBVIOUS
  <2> QED BY <1>7, <2>1, <2>2 DEF Started, ReadsOf
<1>8. BegunReads' = { r \in ReadsOf(entries') : ~({r} \X r.chunks \subseteq Queued \ chunks) }
  BY <1>1 DEF BegunReads, ReadsOf
<1>9. ASSUME NEW r \in BegunReads' PROVE r \in (BegunReads \ reads) \cup Started(chunks)
  <2>1. r \in entries' /\ r.read /\ ~({r} \X r.chunks \subseteq Queued \ chunks)
    BY <1>8 DEF ReadsOf
  <2>2. r \in Entered /\ r \notin reads
    BY <1>1, <2>1
  <2>3. CASE {r} \X r.chunks \subseteq Queued
    BY <1>7, <2>1, <2>3
  <2>4. CASE ~({r} \X r.chunks \subseteq Queued)
    <3>1. r \in entries
      BY <1>3, <1>5, <2>2, <2>4
    <3> QED BY <1>4, <2>1, <2>2, <2>4, <3>1 DEF BegunReads, ReadsOf
  <2> QED BY <2>3, <2>4
<1>10. ASSUME NEW r \in BegunReads \ reads PROVE r \in BegunReads'
  <2>1. r \in entries /\ r.read /\ r \notin reads /\ ~({r} \X r.chunks \subseteq queued)
    BY DEF BegunReads, ReadsOf
  <2>2. r \in entries'
    BY <1>1, <2>1 DEF Entered, WritesOf
  <2>3. ~({r} \X r.chunks \subseteq Queued \ chunks)
    BY <1>4, <2>1
  <2> QED BY <1>8, <2>1, <2>2, <2>3 DEF ReadsOf
<1>11. ASSUME NEW r \in Started(chunks) PROVE r \in BegunReads'
  <2>1. r \in entries'
    BY <1>1, <1>6 DEF WritesOf, ReadsOf
  <2> QED BY <1>6, <1>8, <2>1 DEF ReadsOf
<1>12. Started(chunks) \subseteq ReadsOf(Entered)
  BY <1>6 DEF ReadsOf
<1>13. Started(chunks) \cap BegunReads = {}
  BY <1>4, <1>6 DEF BegunReads, ReadsOf
<1> QED BY <1>1, <1>2, <1>9, <1>10, <1>11, <1>12, <1>13

LEMMA HoldersAre ==
  /\ HoldsReadBuffer = BegunReads \cup ReadsOf(inSystem) \cup Served \cup ReadsOf(OnBuses)
  /\ HoldsReadBuffer' = BegunReads' \cup ReadsOf(inSystem') \cup Served' \cup ReadsOf(OnBuses')
BY DEF HoldsReadBuffer, BegunReads, Served, OnBuses, ToSet, ReadsOf

LEMMA ReadBuffersKept ==
  ASSUME BInv, Cycle, NEW reads, NEW chunks, NEW ended, NEW issued, NEW order,
         Moves(reads, chunks, ended, issued, order)
  PROVE  /\ IsFiniteSet(HoldsReadBuffer')
         /\ freeReadBuffers' = (ReadBuffers - Cardinality(HoldsReadBuffer')) % Word
<1> DEFINE new == Started(chunks) \cup ReadsOf(issued)
<1>1. /\ inSystem' = (inSystem \ ended) \cup issued /\ ended \subseteq inSystem
      /\ issued \subseteq SystemQueued
      /\ freeReadBuffers' = (freeReadBuffers + Cardinality(ReadsEnded) - Cardinality(Started(chunks))
                               - Cardinality(ReadsOf(issued))) % Word
  BY DEF Moves
<1>2. /\ Served' = ToSet(Unserved) \cup reads \cup ReadsOf(ended)
      /\ Served = ToSet(Unserved) \cup Back /\ Back \cap ToSet(Unserved) = {}
  BY ServiceMoves, HeadLeaves
<1>3. /\ ReadsOf(OnBuses') = (ReadsOf(OnBuses) \ ReadsEnded) \cup Back
      /\ ReadsEnded \subseteq ReadsOf(OnBuses)
  BY BusMoves
<1>4. /\ reads \subseteq BegunReads
      /\ BegunReads' = (BegunReads \ reads) \cup Started(chunks)
      /\ Started(chunks) \subseteq ReadsOf(Entered) /\ Started(chunks) \cap BegunReads = {}
  BY BegunMoves
<1>5. /\ link \cap Present = {}
      /\ systemQueue \subseteq systemEntries /\ systemQueue \cap inSystem = {}
      /\ entries \cap (systemEntries \cup inSystem) = {}
      /\ Served \cap (entries \cup systemEntries \cup inSystem \cup OnBuses) = {}
      /\ ReadsOf(OnBuses) \cap (entries \cup systemEntries \cup inSystem) = {}
      /\ ReadsOf(OnBuses) \subseteq OnBuses /\ BegunReads \subseteq entries
  BY Apart DEF BInv, Places, BegunReads, ReadsOf
<1>6. /\ Entered = entries \cup Arrived(FALSE) /\ SystemQueued = systemQueue \cup Arrived(TRUE)
      /\ Arrived(FALSE) \subseteq link /\ Arrived(TRUE) \subseteq link
      /\ Arrived(FALSE) \cap Arrived(TRUE) = {}
  BY Apart DEF Entered, SystemQueued
<1>7. /\ entries \subseteq Present /\ systemEntries \subseteq Present /\ inSystem \subseteq Present
      /\ Served \subseteq Present /\ OnBuses \subseteq Present
  BY DEF Present
<1>8. /\ ReadsOf(inSystem') = (ReadsOf(inSystem) \ ReadsOf(ended)) \cup ReadsOf(issued)
      /\ ReadsOf(ended) \subseteq ReadsOf(inSystem) /\ ReadsOf(inSystem) \subseteq inSystem
      /\ ReadsOf(issued) \subseteq issued /\ ReadsOf(Entered) \subseteq Entered
  BY <1>1 DEF ReadsOf
<1>9. ReadsEnded \subseteq HoldsReadBuffer
  BY <1>3, HoldersAre
<1>10. ReadsEnded \cap (BegunReads \cup ReadsOf(inSystem) \cup Served) = {}
  BY <1>3, <1>5, <1>8
<1>11. Started(chunks) \cap HoldsReadBuffer = {}
  <2>1. Started(chunks) \subseteq entries \cup Arrived(FALSE)
    BY <1>4, <1>6, <1>8
  <2>2. Started(chunks) \cap ReadsOf(inSystem) = {}
    BY <2>1, <1>5, <1>6, <1>7, <1>8
  <2>3. Started(chunks) \cap Served = {}
    BY <2>1, <1>5, <1>6, <1>7
  <2>4. Started(chunks) \cap ReadsOf(OnBuses) = {}
    BY <2>1, <1>5, <1>6, <1>7
  <2> QED BY <2>2, <2>3, <2>4, <1>4, HoldersAre
<1>12. ReadsOf(issued) \cap HoldsReadBuffer = {}
  <2>1. ReadsOf(issued) \subseteq systemQueue \cup Arrived(TRUE)
    BY <1>1, <1>6, <1>8
  <2>2. ReadsOf(issued) \cap ReadsOf(inSystem) = {}
    BY <2>1, <1>5, <1>6, <1>7, <1>8
  <2>3. ReadsOf(issued) \cap Served = {}
    BY <2>1, <1>5, <1>6, <1>7
  <2>4. ReadsOf(issued) \cap ReadsOf(OnBuses) = {}
    BY <2>1, <1>5, <1>6, <1>7
  <2>5. ReadsOf(issued) \cap BegunReads = {}
    BY <2>1, <1>5, <1>6, <1>7
  <2> QED BY <2>2, <2>3, <2>4, <2>5, HoldersAre
<1>13. Started(chunks) \cap ReadsOf(issued) = {}
  <2>1. Started(chunks) \subseteq entries \cup Arrived(FALSE)
    BY <1>4, <1>6, <1>8
  <2>2. ReadsOf(issued) \subseteq systemQueue \cup Arrived(TRUE)
    BY <1>1, <1>6, <1>8
  <2> QED BY <2>1, <2>2, <1>5, <1>6, <1>7
<1>14. HoldsReadBuffer' = (HoldsReadBuffer \ ReadsEnded) \cup new
  <2>1. HoldsReadBuffer' = BegunReads \cup Started(chunks) \cup ReadsOf(inSystem) \cup ReadsOf(issued)
                             \cup Served \cup (ReadsOf(OnBuses) \ ReadsEnded)
    BY <1>2, <1>3, <1>4, <1>8, HoldersAre
  <2> QED BY <2>1, <1>10, HoldersAre
<1>15. /\ IsFiniteSet(Started(chunks)) /\ IsFiniteSet(ReadsOf(issued)) /\ IsFiniteSet(HoldsReadBuffer)
  <2>1. /\ IsFiniteSet(entries \cup link) /\ IsFiniteSet(systemQueue \cup link)
    BY CountsUnion DEF BInv, IInv, Finite
  <2>2. Started(chunks) \subseteq entries \cup link /\ ReadsOf(issued) \subseteq systemQueue \cup link
    BY <1>1, <1>4, <1>6, <1>8
  <2> QED BY <2>1, <2>2, CountsTo DEF BInv, Accounts
<1>16. /\ IsFiniteSet(new) /\ new \cap HoldsReadBuffer = {}
       /\ Cardinality(new) = Cardinality(Started(chunks)) + Cardinality(ReadsOf(issued))
       /\ Cardinality(Started(chunks)) \in Nat /\ Cardinality(ReadsOf(issued)) \in Nat
  <2>1. /\ Cardinality(Started(chunks)) \in Nat /\ Cardinality(ReadsOf(issued)) \in Nat
    BY <1>15, FS_CardinalityType
  <2>2. /\ IsFiniteSet(new)
        /\ Cardinality(new) = Cardinality(Started(chunks)) + Cardinality(ReadsOf(issued))
    BY <1>13, <1>15, CountsApart, Zenon
  <2>3. new \cap HoldsReadBuffer = {}
    BY <1>11, <1>12
  <2> QED BY <2>1, <2>2, <2>3, Zenon
<1> HIDE DEF new
<1>17. /\ IsFiniteSet(HoldsReadBuffer')
       /\ Cardinality(HoldsReadBuffer') = Cardinality(HoldsReadBuffer) - Cardinality(ReadsEnded)
                                            + Cardinality(new)
       /\ Cardinality(HoldsReadBuffer) \in Nat /\ Cardinality(ReadsEnded) \in Nat
  <2>1. /\ IsFiniteSet((HoldsReadBuffer \ ReadsEnded) \cup new)
        /\ Cardinality((HoldsReadBuffer \ ReadsEnded) \cup new)
             = Cardinality(HoldsReadBuffer) - Cardinality(ReadsEnded) + Cardinality(new)
        /\ Cardinality(HoldsReadBuffer) \in Nat /\ Cardinality(ReadsEnded) \in Nat
    <3> DEFINE s == HoldsReadBuffer
               out == ReadsEnded
    <3>1. IsFiniteSet(s) /\ out \subseteq s /\ IsFiniteSet(new) /\ new \cap s = {}
      BY <1>9, <1>15, <1>16
    <3> HIDE DEF s, out
    <3>2. /\ IsFiniteSet((s \ out) \cup new)
          /\ Cardinality((s \ out) \cup new) = Cardinality(s) - Cardinality(out) + Cardinality(new)
          /\ Cardinality(s) \in Nat /\ Cardinality(out) \in Nat
      BY <3>1, CountsMoved
    <3> QED BY <3>2 DEF s, out
  <2> QED BY <1>14, <2>1, Zenon
<1>18. freeReadBuffers = (ReadBuffers - Cardinality(HoldsReadBuffer)) % Word
  BY DEF BInv, Accounts, BuffersAccounted
<1> DEFINE a == ReadBuffers - Cardinality(HoldsReadBuffer)
           b == Cardinality(ReadsEnded) - Cardinality(Started(chunks)) - Cardinality(ReadsOf(issued))
<1>19. a \in Int /\ b \in Int /\ Word \in Nat /\ Word > 0 /\ ReadBuffers \in Int
  BY <1>16, <1>17, ControllerAssumption
<1>20. ReadBuffers - Cardinality(HoldsReadBuffer') = a + b
  BY <1>16, <1>17, <1>19
<1>21. freeReadBuffers' = ((a % Word) + b) % Word
  <2>1. a % Word \in Int
    BY <1>19, DivMod
  <2>2. freeReadBuffers + Cardinality(ReadsEnded) - Cardinality(Started(chunks))
          - Cardinality(ReadsOf(issued)) = (a % Word) + b
    BY <2>1, <1>16, <1>17, <1>18
  <2> QED BY <1>1, <2>2
<1> HIDE DEF a, b
<1>22. ((a % Word) + b) % Word = (a + b) % Word
  BY <1>19, ModPlus
<1> QED BY <1>17, <1>20, <1>21, <1>22

LEMMA WriteBuffersKept ==
  ASSUME BInv, NEW reads, NEW chunks, NEW ended, NEW issued, NEW order,
         Moves(reads, chunks, ended, issued, order)
  PROVE  /\ freeWriteBuffers' \in Int
         /\ freeWriteBuffers' = WriteBuffers
                                 - Cardinality(WritesOf(entries' \cup systemEntries' \cup inSystem'))
<1> DEFINE W == WritesOf(entries \cup systemEntries \cup inSystem)
           out == WritesOf(Completed \cup ended)
           in == WritesOf(link)
<1>1. /\ reads \subseteq ReadsOf(Completed) /\ ended \subseteq inSystem /\ issued \subseteq SystemQueued
      /\ entries' = Entered \ (WritesOf(Completed) \cup reads)
      /\ inSystem' = (inSystem \ ended) \cup issued
      /\ systemEntries' = SystemEntered \ (ReadsOf(ended) \cup WritesOf(issued))
      /\ freeWriteBuffers' = freeWriteBuffers - Cardinality(in) + Cardinality(out)
  BY DEF Moves
<1>2. /\ Entered = entries \cup Arrived(FALSE) /\ SystemEntered = systemEntries \cup Arrived(TRUE)
      /\ SystemQueued = systemQueue \cup Arrived(TRUE)
      /\ Arrived(FALSE) \cup Arrived(TRUE) = link
      /\ Completed \subseteq entries /\ entries \cap (systemEntries \cup inSystem) = {}
  BY Apart DEF Entered, SystemEntered, SystemQueued
<1>3. /\ link \cap (entries \cup systemEntries \cup inSystem) = {}
      /\ systemQueue \subseteq systemEntries /\ systemQueue \cap inSystem = {}
      /\ WritesOf(inSystem) \cap systemEntries = {}
  BY DEF BInv, Places, Present
<1>4. WritesOf(entries' \cup systemEntries' \cup inSystem') = (W \ out) \cup in
  <2>1. \A r : r \in WritesOf(entries') <=> ~r.read /\ r \in entries \cup Arrived(FALSE) /\ r \notin Completed
    BY <1>1, <1>2 DEF ReadsOf, WritesOf
  <2>2. \A r : r \in WritesOf(systemEntries')
                 <=> ~r.read /\ r \in systemEntries \cup Arrived(TRUE) /\ r \notin issued
    BY <1>1, <1>2 DEF ReadsOf, WritesOf
  <2>3. \A r : r \in WritesOf(inSystem') <=> ~r.read /\ ((r \in inSystem /\ r \notin ended) \/ r \in issued)
    BY <1>1 DEF WritesOf
  <2>4. \A r : r \in WritesOf(entries' \cup systemEntries' \cup inSystem')
                 <=> r \in WritesOf(entries') \/ r \in WritesOf(systemEntries') \/ r \in WritesOf(inSystem')
    BY DEF WritesOf
  <2>5. \A r : r \in W <=> ~r.read /\ (r \in entries \/ r \in systemEntries \/ r \in inSystem)
    BY DEF WritesOf
  <2>6. \A r : r \in out <=> ~r.read /\ (r \in Completed \/ r \in ended)
    BY DEF WritesOf
  <2>7. \A r : r \in in <=> ~r.read /\ r \in link
    BY DEF WritesOf
  <2>8. \A r : ~r.read /\ r \in inSystem => r \notin systemEntries
    BY <1>3 DEF WritesOf
  <2> HIDE DEF W, out, in
  <2>9. \A r : r \in issued => r \in systemEntries \/ r \in Arrived(TRUE)
    BY <1>1, <1>2, <1>3
  <2>10. \A r : r \in WritesOf(entries' \cup systemEntries' \cup inSystem') => r \in (W \ out) \cup in
    BY <2>1, <2>2, <2>3, <2>4, <2>5, <2>6, <2>7, <2>8, <2>9, <1>1, <1>2, <1>3
  <2>11. \A r : r \in (W \ out) \cup in => r \in WritesOf(entries' \cup systemEntries' \cup inSystem')
    BY <2>1, <2>2, <2>3, <2>4, <2>5, <2>6, <2>7, <2>8, <2>9, <1>1, <1>2, <1>3
  <2> QED BY <2>10, <2>11
<1>5. /\ IsFiniteSet(W) /\ IsFiniteSet(in)
  <2>1. IsFiniteSet(entries \cup systemEntries \cup inSystem) /\ IsFiniteSet(link)
    <3>1. IsFiniteSet(entries) /\ IsFiniteSet(systemEntries) /\ IsFiniteSet(inSystem) /\ IsFiniteSet(link)
      BY DEF BInv, IInv, Finite
    <3>2. IsFiniteSet(entries \cup systemEntries)
      BY <3>1, CountsUnion
    <3> QED BY <3>1, <3>2, CountsUnion
  <2>2. W \subseteq entries \cup systemEntries \cup inSystem /\ in \subseteq link
    BY DEF WritesOf
  <2> QED BY <2>1, <2>2, CountsTo
<1>6. out \subseteq W /\ in \cap W = {}
  BY <1>1, <1>2, <1>3 DEF WritesOf
<1>7. freeWriteBuffers = WriteBuffers - Cardinality(W)
  BY DEF BInv, Accounts, BuffersAccounted
<1> HIDE DEF W, out, in
<1>8. /\ Cardinality((W \ out) \cup in) = Cardinality(W) - Cardinality(out) + Cardinality(in)
      /\ Cardinality(W) \in Nat /\ Cardinality(out) \in Nat /\ Cardinality(in) \in Nat
  BY <1>5, <1>6, CountsMoved
<1>9. freeWriteBuffers' = WriteBuffers - Cardinality((W \ out) \cup in)
  BY <1>1, <1>7, <1>8, ControllerAssumption
<1>10. WriteBuffers - Cardinality((W \ out) \cup in) \in Int
  BY <1>8, ControllerAssumption
<1> QED BY <1>4, <1>9, <1>10

\* The sorts of what a cycle leaves.
LEMMA SortsKept ==
  ASSUME BInv, Cycle, NEW reads, NEW chunks, NEW ended, NEW issued, NEW order,
         Moves(reads, chunks, ended, issued, order)
  PROVE  Sorts'
<1>1. load' = load /\ SomeRequests' = SomeRequests
  BY DEF Cycle, SomeRequests, Contents
<1>2. SendRequests /\ load \in Loads /\ sent \in 0 .. load.maxRequests
  BY DEF Cycle, BInv, Sorts
<1>3. link' \subseteq SomeRequests /\ sent' \in 0 .. load.maxRequests
  BY <1>2, SentNew
<1>4. Present' \subseteq SomeRequests
  BY PlacesKept DEF BInv, Sorts
<1>5. data' \subseteq SomeRequests
  BY BusMoves, HeadLeaves DEF BInv, Sorts, Present
<1>6. Queued \subseteq SomeRequests \X Channels
  BY QueuedIs
<1>7. /\ queued' \subseteq Queued /\ inMemory' \subseteq inMemory \cup Queued
  BY DEF Moves, Ready
<1>8. /\ queued' \subseteq SomeRequests \X Channels /\ inMemory' \subseteq SomeRequests \X Channels
  BY <1>6, <1>7 DEF BInv, Sorts
<1>9. service' \in Seq(SomeRequests)
  BY ServiceMoves
<1>10. state' \in [Clients -> States]
  <2>1. state' = [c \in Clients |-> IF ~EnoughEntries THEN "none" ELSE IF MayWrite(c) THEN "both" ELSE "read"]
    BY DEF Cycle, Clock, SendBusState
  <2> QED BY <2>1 DEF States
<1>11. reserved' \in BOOLEAN
  <2>1. reserved' = /\ Unserved # <<>>
                    /\ \/ reserved /\ ~Serves
                       \/ busCycles'[Head(Unserved).client] <= 1
    BY DEF Cycle, Clock, ReserveBus
  <2> QED BY <2>1, Zenon
<1>12. freeReadBuffers' \in 0 .. Word - 1
  <2>1. freeReadBuffers' = (ReadBuffers - Cardinality(HoldsReadBuffer')) % Word
        /\ IsFiniteSet(HoldsReadBuffer')
    BY ReadBuffersKept
  <2>2. ReadBuffers - Cardinality(HoldsReadBuffer') \in Int /\ Word \in Nat /\ Word > 0
    BY <2>1, ControllerAssumption, FS_CardinalityType
  <2> QED BY <2>1, <2>2, DivMod
<1>13. freeWriteBuffers' \in Int
  BY WriteBuffersKept
<1> QED BY <1>1, <1>2, <1>3, <1>4, <1>5, <1>8, <1>9, <1>10, <1>11, <1>12, <1>13 DEF Sorts

-----------------------------------------------------------------------------
(* Init, the cycle and the theorems.                                       *)

LEMMA InitBInv == Init => BInv
<1> SUFFICES ASSUME Init PROVE BInv
  OBVIOUS
<1>1. IsFiniteSet({}) /\ Cardinality({}) = 0
  BY FS_EmptySet
<1>2. /\ link = {} /\ entries = {} /\ systemEntries = {} /\ inSystem = {} /\ systemQueue = {}
      /\ queued = {} /\ inMemory = {} /\ service = <<>> /\ data = {}
      /\ Served = {} /\ OnBuses = {} /\ Present = {}
  BY DEF Init, Served, ToSet, OnBuses, Present
<1>3. /\ ReadsOf({}) = {} /\ WritesOf({}) = {}
  BY DEF ReadsOf, WritesOf
<1>4. Sorts
  <2>1. load \in Loads /\ sent = 0 /\ load.maxRequests \in Nat
    BY LoadAssumption DEF Init
  <2>2. state \in [Clients -> States]
    BY DEF Init, States
  <2>3. freeReadBuffers \in 0 .. Word - 1 /\ freeWriteBuffers \in Int
    BY ControllerAssumption DEF Init
  <2>4. reserved \in BOOLEAN
    BY DEF Init
  <2> QED BY <1>2, <2>1, <2>2, <2>3, <2>4 DEF Sorts
<1>5. OneOnBus
  BY ControllerAssumption DEF Init, OneOnBus
<1>6. Places
  BY <1>2, <1>3 DEF Places, Once
<1>7. HoldsReadBuffer = {}
  <2>1. BegunReads = {}
    BY <1>2 DEF BegunReads, ReadsOf
  <2> QED BY <1>2, <1>3, <2>1, HoldersAre
<1>8. Accounts
  <2>1. freeReadBuffers = (ReadBuffers - 0) % Word
    <3>1. ReadBuffers \in 0 .. 2 * Word - 1 /\ Word \in Nat /\ Word > 0 /\ ReadBuffers < Word
      BY ControllerAssumption
    <3>2. ReadBuffers % Word = ReadBuffers /\ ReadBuffers - 0 = ReadBuffers
      BY <3>1, ModOnce
    <3> QED BY <3>2 DEF Init
  <2>2. freeWriteBuffers = WriteBuffers - 0
    BY ControllerAssumption DEF Init
  <2>3. WritesOf(entries \cup systemEntries \cup inSystem) = {}
    BY <1>2 DEF WritesOf
  <2> QED BY <1>1, <1>7, <2>1, <2>2, <2>3 DEF Accounts, BuffersAccounted
<1> QED BY <1>4, <1>5, <1>6, <1>8, InitIInv DEF BInv

LEMMA CycleBInv ==
  ASSUME BInv, [Cycle]_vars
  PROVE  BInv'
<1>1. IInv'
  BY CycleIInv DEF BInv
<1>2. CASE Cycle
  <2>1. PICK reads, chunks, ended, issued, order : Moves(reads, chunks, ended, issued, order)
    BY <1>2, ClockMoves DEF Cycle
  <2>2. Sorts'
    BY <1>2, <2>1, SortsKept
  <2>3. OneOnBus'
    BY <1>2, BusMoves
  <2>4. Places'
    BY <1>2, <2>1, PlacesKept
  <2>5. Accounts'
    <3>1. IsFiniteSet(HoldsReadBuffer') /\ freeReadBuffers' = (ReadBuffers - Cardinality(HoldsReadBuffer')) % Word
      BY <1>2, <2>1, ReadBuffersKept
    <3>2. freeWriteBuffers' = WriteBuffers
                                - Cardinality(WritesOf(entries' \cup systemEntries' \cup inSystem'))
      BY <2>1, WriteBuffersKept
    <3> QED BY <3>1, <3>2 DEF Accounts, BuffersAccounted
  <2> QED BY <1>1, <2>2, <2>3, <2>4, <2>5 DEF BInv
<1>3. CASE UNCHANGED vars
  <2>1. /\ UNCHANGED <<load, sent, link, state, data, trans, busCycles, onBus, reserved, service>>
        /\ UNCHANGED <<entries, systemEntries, queued, inMemory, systemQueue, inSystem>>
        /\ UNCHANGED <<freeReadBuffers, freeWriteBuffers>>
    BY <1>3 DEF vars, clientVars, busVars, requestVars
  <2>2. /\ UNCHANGED <<SomeRequests, Served, OnBuses, HoldsReadBuffer>>
    <3>1. UNCHANGED SomeRequests
      BY <2>1 DEF SomeRequests, Contents
    <3>2. UNCHANGED Served /\ UNCHANGED OnBuses
      BY <2>1 DEF Served, OnBuses
    <3>3. UNCHANGED HoldsReadBuffer
      BY <2>1 DEF HoldsReadBuffer, ReadsOf
    <3> QED BY <3>1, <3>2, <3>3
  <2>3. UNCHANGED Present
    BY <2>1, <2>2, Zenon DEF Present
  <2>4. Sorts'
    BY <2>1, <2>2, <2>3, Zenon DEF BInv, Sorts
  <2>5. OneOnBus'
    BY <2>1, <2>2, Zenon DEF BInv, OneOnBus
  <2>6. Places'
    BY <2>1, <2>2, <2>3, Zenon DEF BInv, Places, Once
  <2>7. Accounts'
    BY <2>1, <2>2, Zenon DEF BInv, Accounts, BuffersAccounted
  <2> QED BY <1>1, <2>4, <2>5, <2>6, <2>7 DEF BInv
<1> QED BY <1>2, <1>3

\* The counters of the buffers, which many stages change (processMemoryTransaction,
\* stage_updateCompletedRequests, stage_sendToSchedulers, updateBusCounters,
\* issueSystemTransaction, updateSystemBuses), are what the requests do not hold:
\* no stage forgets a buffer or frees it twice, also when the counter of read
\* buffers wraps.
THEOREM BuffersNeverLost == Spec => []BuffersAccounted
<1>1. BInv => BuffersAccounted
  BY DEF BInv, Accounts
<1> QED BY <1>1, InitBInv, CycleBInv, PTL DEF Spec

\* A bus carries a request at most, exactly while its cycles are counted, a client
\* has a request at most on its link, and the counters stay within their ranges.
THEOREM ControllerType == Spec => []TypeOK
<1>1. BInv => TypeOK
  <2> SUFFICES ASSUME BInv PROVE TypeOK
    OBVIOUS
  <2>1. \A s, x : s = {x} => Cardinality(s) = 1
    BY FS_Singleton
  <2>2. Cardinality({}) = 0
    BY FS_EmptySet
  <2>3. \A s : (\A q, r \in s : q = r) => Cardinality(s) <= 1
    <3> SUFFICES ASSUME NEW s, \A q, r \in s : q = r PROVE Cardinality(s) <= 1
      OBVIOUS
    <3>1. CASE s = {}
      BY <2>2, <3>1
    <3>2. CASE s # {}
      <4>1. PICK x : s = {x}
        BY <3>2
      <4> QED BY <2>1, <4>1
    <3> QED BY <3>1, <3>2
  <2>4. \A c \in Clients : Cardinality(Of(c, link)) <= 1
    BY <2>3 DEF BInv, Places, Of
  <2>5. \A c \in Clients : (busCycles[c] = 0) = (onBus[c] = {}) /\ Cardinality(onBus[c]) <= 1
    BY <2>3 DEF BInv, OneOnBus
  <2>6. freeWriteBuffers \in 0 .. WriteBuffers
    <3>1. /\ Cardinality(WritesOf(link)) \in Nat
          /\ Cardinality(WritesOf(entries \cup systemEntries \cup inSystem)) \in Nat
      <4>1. IsFiniteSet(entries) /\ IsFiniteSet(systemEntries) /\ IsFiniteSet(inSystem) /\ IsFiniteSet(link)
        BY DEF BInv, IInv, Finite
      <4>2. IsFiniteSet(entries \cup systemEntries)
        BY <4>1, CountsUnion
      <4>3. IsFiniteSet(entries \cup systemEntries \cup inSystem)
        BY <4>1, <4>2, CountsUnion
      <4> QED BY <4>1, <4>3, CountsTo DEF WritesOf
    <3>2. freeWriteBuffers >= 0 /\ freeWriteBuffers \in Int
      BY <3>1, WritersFinite DEF BInv, IInv, WriteCredits, Finite
    <3>3. freeWriteBuffers = WriteBuffers - Cardinality(WritesOf(entries \cup systemEntries \cup inSystem))
      BY DEF BInv, Accounts, BuffersAccounted
    <3> QED BY <3>1, <3>2, <3>3, ControllerAssumption
  <2>7. entries \cup systemEntries \cup systemQueue \cup inSystem \cup data \subseteq SomeRequests
    BY DEF BInv, Sorts, Places, Present
  <2>8. /\ load \in Loads /\ sent \in 0 .. load.maxRequests /\ link \subseteq SomeRequests
        /\ state \in [Clients -> States] /\ reserved \in BOOLEAN
        /\ queued \cup inMemory \subseteq SomeRequests \X Channels
        /\ service \in Seq(SomeRequests) /\ freeReadBuffers \in 0 .. Word - 1
    BY DEF BInv, Sorts
  <2>9. /\ trans \in [Clients -> 0 .. BusCycles] /\ busCycles \in [Clients -> 0 .. BusCycles]
        /\ onBus \in [Clients -> SUBSET SomeRequests]
    BY DEF BInv, OneOnBus
  <2> QED BY <2>4, <2>5, <2>6, <2>7, <2>8, <2>9 DEF TypeOK
<1> QED BY <1>1, InitBInv, CycleBInv, PTL DEF Spec
=============================================================================
