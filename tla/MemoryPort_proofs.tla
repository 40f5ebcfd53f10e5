------------------------- MODULE MemoryPort_proofs -------------------------
(***************************************************************************)
(* For every size of the transactions, the bus and the transfers: the      *)
(* Command Processor and the Memory Controller, which count a transmission *)
(* each for itself, agree on when the bus is free; no ticket is lost; and  *)
(* a load ends with its last byte.                                         *)
(***************************************************************************)
EXTENDS MemoryPort, ModArith, FiniteSetTheorems, TLAPS

-----------------------------------------------------------------------------
(* The inductive invariant.                                                *)

\* The controller counts a transmission a cycle after the Command Processor
\* when it is a write, and a cycle before it when it is the data of a read.
InStep ==
  /\ busCycles = IF data # None THEN Bus(data.size)
                 ELSE IF request.com = "write" THEN 0 ELSE transCycles
  /\ data # None => transCycles = 0
  /\ request.com = "write" => /\ command = "write"
                              /\ request.size \in 1 .. MaxTransaction
                              /\ transCycles = Bus(request.size)
  /\ transCycles > 0 => lastSize > 0 \/ command = "write"

\* A read is in one place only, and asks for something; the one that is sent is
\* checked when it is received.
OnePlace ==
  /\ request.com = "read" => request \notin atMemory \cup {data}
  /\ data \notin atMemory
  /\ \A t \in atMemory \cup {data} : t # None => t.com = "read" /\ t.size > 0
  /\ request.com = "none" => request = None

\* The bytes that arrived or arrive now.
Here == { b \in 0 .. moved - 1 : \A t \in Asked : ~(t.at <= b /\ b < t.at + t.size) }

\* The reads are disjoint parts of what was asked for, and what was received is
\* the rest of it.
Parts ==
  command \in {"load", "loadShader"} =>
    /\ \A t \in Asked : t.at + t.size <= moved
    /\ \A s, t \in Asked : s # t => s.at + s.size <= t.at \/ t.at + t.size <= s.at
    /\ received + (IF transCycles > 0 THEN lastSize ELSE 0) = Cardinality(Here)

\* The first read of LOAD_SHADER may ask for more than the program: no other
\* follows it, and the load never ends.
TooMuch ==
  command \in {"load", "loadShader"} /\ moved > size =>
    /\ \A t \in Asked : t.at = 0 /\ t.size = moved
    /\ received \in {0, moved}
    /\ transCycles > 0 => lastSize = moved

AtRest ==
  /\ command \in {"none", "write"} => Asked = {}
  /\ command = "none" => transCycles = 0 /\ request = None
  /\ command = "write" => moved <= size
  /\ command # "none" => size > 0

IInv == TypeOK /\ TicketsKept /\ InStep /\ OnePlace /\ Parts /\ TooMuch /\ AtRest

\* Without LOAD_SHADER no transaction is empty and none goes beyond its buffer.
Loaded == command # "loadShader" /\ moved <= size /\ SizeAllowed

-----------------------------------------------------------------------------
(* What the operators of the model return.                                 *)

LEMMA BusCycles ==
  ASSUME NEW n \in Nat
  PROVE  Bus(n) \in Nat /\ (n > 0 => Bus(n) > 0)
<1> DEFINE m == n + BusWidth - 1
           q == m \div BusWidth
           r == m % BusWidth
<1>1. BusWidth \in Nat /\ BusWidth > 0 /\ m \in Nat
  BY PortAssumption
<1>2. q \in Int /\ r \in 0 .. BusWidth - 1 /\ m = BusWidth * q + r
  BY <1>1, DivMod
<1> HIDE DEF q, r
<1>3. \A x \in Nat : BusWidth * x \in Nat
  BY <1>1
<1>4. ASSUME q < 0 PROVE FALSE
  <2>1. 0 - q - 1 \in Nat
    BY <1>2, <1>4
  <2>2. BusWidth * (0 - q - 1) \in Nat
    BY <2>1, <1>3
  <2>3. BusWidth * (0 - q - 1) = 0 - BusWidth * q - BusWidth
    BY <1>1, <1>2
  <2> QED BY <1>1, <1>2, <2>2, <2>3
<1>5. ASSUME n > 0, q = 0 PROVE FALSE
  <2>1. BusWidth * q = 0
    BY <1>1, <1>5
  <2> QED BY <1>1, <1>2, <1>5, <2>1
<1>6. Bus(n) = q
  BY DEF Bus, q
<1> QED BY <1>2, <1>4, <1>5, <1>6

LEMMA ByteCount ==
  \A at, n \in Nat :
    IsFiniteSet(at .. at + n - 1) /\ Cardinality(at .. at + n - 1) = n
<1> TAKE at, n \in Nat
<1> DEFINE last == at + n - 1
<1>1. last \in Int /\ at \in Int
  OBVIOUS
<1> HIDE DEF last
<1>2. IsFiniteSet(at .. last) /\ Cardinality(at .. last) = IF at > last THEN 0 ELSE last - at + 1
  BY <1>1, FS_Interval
<1>3. (IF at > last THEN 0 ELSE last - at + 1) = n
  BY DEF last
<1> QED BY <1>2, <1>3 DEF last

LEMMA Kinds ==
  /\ None.com = "none" /\ None.size = 0 /\ None \in Transactions
  /\ \A at, n \in Nat : /\ Read(at, n) \in Transactions /\ Write(at, n) \in Transactions
                        /\ Read(at, n) # None /\ Write(at, n) # None
                        /\ Read(at, n).com = "read" /\ Write(at, n).com = "write"
                        /\ Read(at, n).at = at /\ Read(at, n).size = n
                        /\ Write(at, n).size = n
BY DEF None, Read, Write, Transactions

LEMMA LeastIs ==
  ASSUME NEW m \in Nat, NEW n \in Nat
  PROVE  /\ Least(m, n) \in Nat /\ Least(m, n) <= m /\ Least(m, n) <= n
         /\ m > 0 /\ n > 0 => Least(m, n) > 0
BY DEF Least

LEMMA ChunkIs ==
  ASSUME TypeOK, moved < size
  PROVE  Chunk \in 1 .. MaxTransaction /\ moved + Chunk \in Nat /\ moved + Chunk <= size
<1>1. size - moved \in Nat /\ size - moved > 0 /\ moved \in Nat /\ size \in Nat
      /\ MaxTransaction \in Nat /\ MaxTransaction > 0
  BY PortAssumption DEF TypeOK
<1>2. Chunk \in Nat /\ Chunk <= size - moved /\ Chunk <= MaxTransaction /\ Chunk > 0
  BY <1>1 DEF Chunk, Least
<1> QED BY <1>1, <1>2

-----------------------------------------------------------------------------
(* The two sides of a cycle.                                               *)

\* The reads that are at the controller once it has read the request.
Rest == atMemory \cup Accepted

\* In the cycle in which it counts, the controller sees the bus as the Command
\* Processor does.
LEMMA CountedAlike ==
  ASSUME IInv
  PROVE  /\ Counted = Left
         /\ Incoming \in Nat /\ Left \in Nat /\ IncomingSize \in Nat
         /\ data # None => Incoming > 0 /\ transCycles = 0 /\ request.com # "write"
         /\ Incoming > 0 => IncomingSize > 0 \/ command = "write"
<1>1. /\ data \in Transactions /\ request \in Transactions
      /\ transCycles \in Nat /\ lastSize \in Nat /\ busCycles \in Nat
  BY DEF IInv, TypeOK
<1>2. \A t \in Transactions : t.size \in Nat
  BY Kinds DEF Transactions
<1>3. \A t \in Transactions : Bus(t.size) \in Nat /\ (t.size > 0 => Bus(t.size) > 0)
  BY <1>2, BusCycles
<1>4. CASE data # None
  <2>1. data.size > 0 /\ transCycles = 0 /\ busCycles = Bus(data.size)
    BY <1>4 DEF IInv, InStep, OnePlace
  <2>2. request.com # "write"
    <3>1. data \in Asked
      BY <1>4 DEF Asked
    <3> QED BY <3>1 DEF IInv, AtRest, InStep
  <2> QED BY <1>1, <1>2, <1>3, <1>4, <2>1, <2>2 DEF Counted, Left, Incoming, IncomingSize
<1>5. CASE data = None
  <2>1. /\ Incoming = transCycles /\ IncomingSize = lastSize
        /\ transCycles > 0 => lastSize > 0 \/ command = "write"
    BY <1>5 DEF Incoming, IncomingSize, IInv, InStep
  <2>2. CASE request.com = "write"
    <3>1. transCycles = Bus(request.size)
      BY <2>2 DEF IInv, InStep
    <3> QED BY <1>1, <1>3, <1>5, <2>1, <2>2, <3>1 DEF Counted, Left
  <2>3. CASE request.com # "write"
    <3>1. busCycles = transCycles
      BY <1>5, <2>3 DEF IInv, InStep
    <3> QED BY <1>1, <1>5, <2>1, <2>3, <3>1 DEF Counted, Left
  <2> QED BY <2>2, <2>3
<1> QED BY <1>4, <1>5

\* The controller hands the reads on, one to the link, and keeps the others.
LEMMA ControllerHandsOn ==
  ASSUME IInv, Running, ControllerCycle
  PROVE  /\ Asked' = Rest \cup Accepted'
         /\ data' # None => Counted = 0 /\ data' \in Rest
         /\ atMemory' \subseteq Rest /\ data' \notin atMemory'
         /\ busCycles' = IF data' # None THEN Bus(data'.size) ELSE Counted
<1>1. /\ data' = IF Serves THEN reserved ELSE None
      /\ busCycles' = IF Serves THEN Bus(reserved.size) ELSE Counted
      /\ atMemory' = Waiting \cup Accepted
  BY DEF ControllerCycle
<1>2. /\ reserved # None => reserved \in atMemory
      /\ None \notin atMemory
      /\ request.com = "read" => request \notin atMemory /\ request # None
  BY Kinds DEF IInv, TypeOK, OnePlace
<1>3. None \notin Accepted
  BY <1>2 DEF Accepted
<1>4. Asked' = atMemory' \cup Accepted' \cup (IF data' # None THEN {data'} ELSE {})
  BY DEF Asked
<1>5. CASE Serves
  <2>1. /\ reserved # None /\ Counted = 0 /\ data' = reserved /\ busCycles' = Bus(reserved.size)
        /\ atMemory' = (atMemory \ {reserved}) \cup Accepted /\ reserved \in atMemory
    BY <1>1, <1>2, <1>5 DEF Serves, Waiting
  <2>2. reserved \notin Accepted
    BY <1>2, <2>1 DEF Accepted
  <2> QED BY <1>4, <2>1, <2>2 DEF Rest
<1>6. CASE ~Serves
  <2>1. data' = None /\ busCycles' = Counted /\ atMemory' = atMemory \cup Accepted
    BY <1>1, <1>6 DEF Waiting
  <2> QED BY <1>2, <1>3, <1>4, <2>1 DEF Rest
<1> QED BY <1>5, <1>6

\* The reads at the controller are well formed.
LEMMA RestIs ==
  ASSUME IInv, Running
  PROVE  /\ IsFiniteSet(Rest) /\ Rest \subseteq Asked
         /\ Rest \subseteq Transactions \ {None}
         /\ \A t \in Rest : t.com = "read" /\ t.size \in Nat /\ t.at \in Nat /\ t.size > 0
         /\ data # None => data \notin Rest /\ Asked = Rest \cup {data}
         /\ data = None => Asked = Rest
<1>1. /\ IsFiniteSet(atMemory) /\ atMemory \subseteq Transactions \ {None}
      /\ request \in Transactions
  BY DEF IInv, TypeOK
<1>2. IsFiniteSet(Rest)
  BY <1>1, FS_AddElement DEF Rest, Accepted
<1>3. request.com = "read" => request # None /\ request.size > 0 /\ request # data
  <2>1. request.com = "read" => request # None /\ request # data
    BY Kinds DEF IInv, OnePlace
  <2>2. request # None => request.size \in 1 .. MaxTransaction
    BY DEF Running, SizeAllowed
  <2> QED BY <2>1, <2>2, PortAssumption
<1>4. \A t \in Transactions : t.size \in Nat /\ t.at \in Nat
  BY DEF Transactions, None
<1>5. Rest \subseteq Transactions \ {None}
  BY <1>1, <1>3 DEF Rest, Accepted
<1>6. \A t \in Rest : t.com = "read" /\ t.size > 0
  BY <1>1, <1>3 DEF Rest, Accepted, IInv, OnePlace
<1>7. data \notin Rest
  BY <1>3 DEF IInv, OnePlace, Rest, Accepted
<1> QED BY <1>2, <1>4, <1>5, <1>6, <1>7 DEF Rest, Asked

-----------------------------------------------------------------------------
(* The parts of the invariant that every cycle keeps alike.                *)

LEMMA ControllerType ==
  ASSUME IInv, Running, ControllerCycle, freeTickets' \in 0 .. Tickets,
         command' \in {"none", "write", "load", "loadShader"}, request' \in Transactions,
         size' \in Nat, moved' \in Nat, received' \in Nat, transCycles' \in Nat,
         lastSize' \in Nat
  PROVE  TypeOK'
<1>1. /\ atMemory' \subseteq Rest /\ (data' # None => data' \in Rest)
      /\ busCycles' = IF data' # None THEN Bus(data'.size) ELSE Counted
  BY ControllerHandsOn
<1>2. /\ IsFiniteSet(Rest) /\ Rest \subseteq Transactions \ {None}
      /\ \A t \in Rest : t.size \in Nat
  BY RestIs
<1>3. IsFiniteSet(atMemory') /\ atMemory' \subseteq Transactions \ {None}
  BY <1>1, <1>2, FS_Subset
<1>4. data' \in Transactions
  BY <1>1, <1>2, Kinds
<1>5. busCycles' \in Nat
  BY <1>1, <1>2, CountedAlike, BusCycles
<1>6. reserved' # None => reserved' \in atMemory'
  <2>1. atMemory' = Waiting \cup Accepted
    BY DEF ControllerCycle
  <2>2. reserved # None => reserved \in atMemory
    BY DEF IInv, TypeOK
  <2> QED BY <2>1, <2>2 DEF ControllerCycle, Reserve, Waiting
<1>7. reserved' \in Transactions
  BY <1>3, <1>6, Kinds
<1>8. state' \in {"none", "read", "both"}
  BY DEF ControllerCycle, BusState
<1> QED BY <1>3, <1>4, <1>5, <1>6, <1>7, <1>8 DEF TypeOK

LEMMA OnePlaceKept ==
  ASSUME IInv, Running, ControllerCycle,
         \/ request' = None
         \/ request'.com = "write"
         \/ request'.com = "read" /\ request' # None /\ request' \notin Rest
  PROVE  OnePlace'
<1>1. /\ atMemory' \subseteq Rest /\ (data' # None => data' \in Rest) /\ data' \notin atMemory'
  BY ControllerHandsOn
<1>2. \A t \in Rest : t.com = "read" /\ t.size > 0
  BY RestIs
<1> QED BY <1>1, <1>2, Kinds DEF OnePlace

LEMMA InStepKept ==
  ASSUME IInv, Running, ControllerCycle, request'.com # "write",
         transCycles' = Left, lastSize' = IncomingSize,
         command = "write" /\ transCycles' > 0 => command' = "write"
  PROVE  InStep'
<1>1. /\ data' # None => Counted = 0
      /\ busCycles' = IF data' # None THEN Bus(data'.size) ELSE Counted
  BY ControllerHandsOn
<1>2. /\ Counted = Left /\ Incoming \in Nat
      /\ Incoming > 0 => IncomingSize > 0 \/ command = "write"
  BY CountedAlike
<1>3. Left > 0 => Incoming > 0
  BY <1>2 DEF Left
<1> QED BY <1>1, <1>2, <1>3 DEF InStep

\* A ticket goes from the read to its transmission, and from there back.
LEMMA TicketsMove ==
  ASSUME IInv, Running
  PROVE  /\ Cardinality(Rest) \in Nat
         /\ Returned + Cardinality(Rest) + (IF Left > 0 THEN 1 ELSE 0) = Tickets
<1>1. /\ IsFiniteSet(Rest)
      /\ data # None => data \notin Rest /\ Asked = Rest \cup {data}
      /\ data = None => Asked = Rest
  BY RestIs
<1>2. Cardinality(Rest) \in Nat
  BY <1>1, FS_CardinalityType
<1>3. Cardinality(Asked) = Cardinality(Rest) + IF data # None THEN 1 ELSE 0
  BY <1>1, <1>2, FS_AddElement
<1>4. /\ freeTickets \in Nat /\ Tickets \in Nat /\ transCycles \in Nat
      /\ freeTickets + Cardinality(Asked) + (IF transCycles > 0 THEN 1 ELSE 0) = Tickets
  BY PortAssumption DEF IInv, TypeOK, TicketsKept
<1>5. /\ Incoming \in Nat
      /\ data # None => Incoming > 0 /\ transCycles = 0
      /\ data = None => Incoming = transCycles
  BY CountedAlike DEF Incoming
<1> QED BY <1>2, <1>3, <1>4, <1>5 DEF Returned, Left, Over

-----------------------------------------------------------------------------
(* The Command Processor at rest, and the start of a transfer.             *)

\* At rest there is nothing on its way.
LEMMA NothingOut ==
  ASSUME IInv, Running, command = "none"
  PROVE  /\ Incoming = 0 /\ Left = 0 /\ Rest = {} /\ freeTickets = Tickets
         /\ transCycles = 0 /\ request = None /\ IncomingSize \in Nat
<1>1. Asked = {} /\ transCycles = 0 /\ request = None
  BY DEF IInv, AtRest
<1>2. data = None /\ Rest = {}
  BY <1>1, RestIs DEF Asked
<1>3. Incoming = 0 /\ Left = 0
  BY <1>1, <1>2 DEF Incoming, Left
<1>4. freeTickets = Tickets
  <2>1. Cardinality(Asked) = 0
    BY <1>1, FS_EmptySet
  <2> QED BY <1>1, <2>1, PortAssumption DEF IInv, TypeOK, TicketsKept
<1> QED BY <1>1, <1>2, <1>3, <1>4, CountedAlike

\* What a cycle without a new read leaves of the reads that are out.
LEMMA NoRead ==
  ASSUME IInv, Running, ControllerCycle, request'.com # "read"
  PROVE  Asked' = Rest
BY ControllerHandsOn DEF Accepted

LEMMA QuietKeeps ==
  ASSUME IInv, Running, Quiet, ControllerCycle
  PROVE  IInv'
<1>1. /\ command = "none" /\ request' = None /\ command' = command
      /\ transCycles' = Incoming /\ lastSize' = IncomingSize
      /\ UNCHANGED <<size, moved, received, freeTickets>>
  BY DEF Quiet
<1>2. /\ Incoming = 0 /\ Left = 0 /\ Rest = {} /\ freeTickets = Tickets
      /\ IncomingSize \in Nat
  BY <1>1, NothingOut
<1>3. Asked' = {}
  BY <1>1, <1>2, NoRead, Kinds
<1>4. TypeOK'
  BY <1>1, <1>2, ControllerType, Kinds DEF IInv, TypeOK
<1>5. TicketsKept'
  <2>1. Cardinality(Asked') = 0
    BY <1>3, FS_EmptySet
  <2> QED BY <1>1, <1>2, <2>1, PortAssumption DEF TicketsKept
<1>6. InStep'
  BY <1>1, <1>2, InStepKept, Kinds
<1>7. OnePlace'
  BY <1>1, OnePlaceKept
<1>8. Parts' /\ TooMuch' /\ AtRest'
  BY <1>1, <1>2, <1>3 DEF Parts, TooMuch, AtRest
<1> QED BY <1>4, <1>5, <1>6, <1>7, <1>8 DEF IInv

LEMMA StartWriteKeeps ==
  ASSUME IInv, Running, ControllerCycle, NEW n \in Sizes, StartWrite(n)
  PROVE  IInv'
<1> DEFINE first == Least(n, MaxTransaction)
<1>1. /\ command = "none" /\ command' = "write" /\ size' = n
      /\ lastSize' = IncomingSize /\ received' = received
  BY DEF StartWrite
<1>2. /\ Incoming = 0 /\ Left = 0 /\ Rest = {} /\ freeTickets = Tickets
      /\ transCycles = 0 /\ request = None /\ IncomingSize \in Nat
  BY <1>1, NothingOut
<1>3. /\ n \in Nat /\ n > 0 /\ first \in 1 .. MaxTransaction /\ first <= n
      /\ Tickets \in Nat /\ Tickets > 0 /\ MaxTransaction \in Nat
  BY PortAssumption DEF Least
<1>4. received \in Nat
  BY DEF IInv, TypeOK
<1>5. CASE WriteAccept
  <2>1. /\ request' = Write(0, first) /\ moved' = first
        /\ freeTickets' = freeTickets - 1 /\ transCycles' = Bus(first)
    BY <1>5 DEF StartWrite
  <2>2. /\ Bus(first) \in Nat /\ Bus(first) > 0 /\ request' \in Transactions
        /\ request'.com = "write" /\ request' # None /\ request'.size = first
    <3> HIDE DEF first
    <3>1. first \in Nat /\ first > 0
      BY <1>3
    <3>2. Bus(first) \in Nat /\ Bus(first) > 0
      BY <3>1, BusCycles
    <3>3. /\ Write(0, first) \in Transactions /\ Write(0, first).com = "write"
          /\ Write(0, first) # None /\ Write(0, first).size = first
      BY <3>1, Kinds
    <3> QED BY <2>1, <3>2, <3>3
  <2>3. Asked' = {}
    BY <1>2, <2>2, NoRead
  <2>4. TypeOK'
    BY <1>1, <1>2, <1>3, <1>4, <2>1, <2>2, ControllerType
  <2>5. TicketsKept'
    <3>1. Cardinality(Asked') = 0
      BY <2>3, FS_EmptySet
    <3> QED BY <1>2, <1>3, <2>1, <2>2, <3>1 DEF TicketsKept
  <2>6. InStep'
    <3>1. data' = None /\ busCycles' = 0
      BY <1>2, ControllerHandsOn, CountedAlike
    <3> QED BY <1>1, <1>3, <2>1, <2>2, <3>1 DEF InStep
  <2>7. OnePlace'
    BY <2>2, OnePlaceKept
  <2>8. Parts' /\ TooMuch' /\ AtRest'
    BY <1>1, <1>3, <2>1, <2>3 DEF Parts, TooMuch, AtRest
  <2> QED BY <2>4, <2>5, <2>6, <2>7, <2>8 DEF IInv
<1>6. CASE ~WriteAccept
  <2>1. request' = None /\ moved' = 0 /\ freeTickets' = freeTickets /\ transCycles' = Incoming
    BY <1>6 DEF StartWrite
  <2>2. Asked' = {}
    BY <1>2, <2>1, NoRead, Kinds
  <2>3. TypeOK'
    BY <1>1, <1>2, <1>3, <1>4, <2>1, ControllerType, Kinds
  <2>4. TicketsKept'
    <3>1. Cardinality(Asked') = 0
      BY <2>2, FS_EmptySet
    <3> QED BY <1>2, <1>3, <2>1, <3>1 DEF TicketsKept
  <2>5. InStep'
    BY <1>1, <1>2, <2>1, InStepKept, Kinds
  <2>6. OnePlace'
    BY <2>1, OnePlaceKept
  <2>7. Parts' /\ TooMuch' /\ AtRest'
    BY <1>1, <1>3, <2>1, <2>2 DEF Parts, TooMuch, AtRest
  <2> QED BY <2>3, <2>4, <2>5, <2>6, <2>7 DEF IInv
<1> QED BY <1>5, <1>6

LEMMA StartLoadKeeps ==
  ASSUME IInv, Running, ControllerCycle, NEW load, NEW n \in Sizes, NEW first \in Nat,
         StartLoad(load, n, first)
  PROVE  IInv'
<1>1. /\ command = "none" /\ load \in Loads /\ command' = load /\ size' = n
      /\ received' = 0 /\ transCycles' = Incoming /\ lastSize' = IncomingSize
  BY DEF StartLoad
<1>2. /\ Incoming = 0 /\ Left = 0 /\ Rest = {} /\ freeTickets = Tickets
      /\ transCycles = 0 /\ request = None /\ IncomingSize \in Nat
  BY <1>1, NothingOut
<1>3. /\ n \in Nat /\ n > 0 /\ Tickets \in Nat /\ Tickets > 0
      /\ command' \in {"load", "loadShader"}
  BY <1>1, PortAssumption
<1>4. CASE ReadAccept
  <2>1. /\ request' = Read(0, first) /\ moved' = first /\ freeTickets' = freeTickets - 1
    BY <1>4 DEF StartLoad
  <2>2. /\ request' \in Transactions /\ request'.com = "read" /\ request' # None
        /\ request'.at = 0 /\ request'.size = first
    BY <2>1, Kinds
  <2>3. Asked' = {request'}
    BY <1>2, <2>2, ControllerHandsOn DEF Accepted
  <2>4. TypeOK'
    BY <1>1, <1>2, <1>3, <2>1, <2>2, ControllerType
  <2>5. TicketsKept'
    <3>1. Cardinality(Asked') = 1
      BY <2>3, FS_Singleton
    <3> QED BY <1>1, <1>2, <1>3, <2>1, <3>1 DEF TicketsKept
  <2>6. InStep'
    BY <1>1, <1>2, <2>2, InStepKept
  <2>7. OnePlace'
    BY <1>2, <2>2, OnePlaceKept
  <2>8. Parts'
    <3>1. Here' = {}
      BY <2>1, <2>2, <2>3 DEF Here
    <3>2. Cardinality(Here') = 0
      BY <3>1, FS_EmptySet
    <3> QED BY <1>1, <1>2, <2>1, <2>2, <2>3, <3>2 DEF Parts
  <2>9. TooMuch' /\ AtRest'
    BY <1>1, <1>2, <1>3, <2>1, <2>2, <2>3 DEF TooMuch, AtRest
  <2> QED BY <2>4, <2>5, <2>6, <2>7, <2>8, <2>9 DEF IInv
<1>5. CASE ~ReadAccept
  <2>1. request' = None /\ moved' = 0 /\ freeTickets' = freeTickets
    BY <1>5 DEF StartLoad
  <2>2. Asked' = {}
    BY <1>2, <2>1, NoRead, Kinds
  <2>3. TypeOK'
    BY <1>1, <1>2, <1>3, <2>1, ControllerType, Kinds
  <2>4. TicketsKept'
    <3>1. Cardinality(Asked') = 0
      BY <2>2, FS_EmptySet
    <3> QED BY <1>1, <1>2, <1>3, <2>1, <3>1 DEF TicketsKept
  <2>5. InStep'
    BY <1>1, <1>2, <2>1, InStepKept, Kinds
  <2>6. OnePlace'
    BY <2>1, OnePlaceKept
  <2>7. Parts'
    <3>1. Here' = {}
      BY <2>1 DEF Here
    <3>2. Cardinality(Here') = 0
      BY <3>1, FS_EmptySet
    <3> QED BY <1>1, <1>2, <2>1, <2>2, <3>2 DEF Parts
  <2>8. TooMuch' /\ AtRest'
    BY <1>1, <1>2, <1>3, <2>1, <2>2 DEF TooMuch, AtRest
  <2> QED BY <2>3, <2>4, <2>5, <2>6, <2>7, <2>8 DEF IInv
<1> QED BY <1>4, <1>5

-----------------------------------------------------------------------------
(* A cycle of a write.                                                     *)

LEMMA WriteKeeps ==
  ASSUME IInv, Running, WriteCycle, ControllerCycle
  PROVE  IInv'
<1>1. /\ command = "write" /\ command' = IF transCycles' = 0 /\ moved' = size THEN "none" ELSE "write"
      /\ lastSize' = IncomingSize /\ size' = size /\ received' = received
  BY DEF WriteCycle
<1>2. /\ Rest = {} /\ moved <= size /\ size > 0
  BY <1>1, RestIs DEF IInv, AtRest
<1>3. /\ Left \in Nat /\ IncomingSize \in Nat /\ Counted = Left
      /\ Returned + (IF Left > 0 THEN 1 ELSE 0) = Tickets
  <2>1. Cardinality(Rest) = 0
    BY <1>2, FS_EmptySet
  <2>2. /\ freeTickets \in Int /\ Returned \in Int
    BY PortAssumption DEF IInv, TypeOK, Returned
  <2> QED BY <2>1, <2>2, CountedAlike, TicketsMove
<1>4. /\ size \in Nat /\ moved \in Nat /\ received \in Nat /\ Tickets \in Nat
      /\ Returned \in Int
  BY PortAssumption DEF IInv, TypeOK, Returned
<1>5. CASE MoreToWrite
  <2>1. /\ request' = Write(moved, Chunk) /\ moved' = moved + Chunk
        /\ freeTickets' = Returned - 1 /\ transCycles' = Bus(Chunk)
        /\ moved < size /\ Left = 0 /\ Returned > 0
    BY <1>5 DEF WriteCycle, MoreToWrite
  <2>2. /\ Chunk \in 1 .. MaxTransaction /\ moved + Chunk \in Nat /\ moved + Chunk <= size
        /\ Chunk \in Nat /\ Chunk > 0
    BY <2>1, ChunkIs, PortAssumption DEF IInv
  <2>3. /\ Bus(Chunk) \in Nat /\ Bus(Chunk) > 0 /\ request' \in Transactions
        /\ request'.com = "write" /\ request' # None /\ request'.size = Chunk
    BY <1>4, <2>1, <2>2, BusCycles, Kinds
  <2>4. Asked' = {} /\ command' = "write"
    BY <1>1, <1>2, <2>1, <2>3, NoRead
  <2>5. TypeOK'
    BY <1>1, <1>3, <1>4, <2>1, <2>2, <2>3, <2>4, ControllerType
  <2>6. TicketsKept'
    <3>1. Cardinality(Asked') = 0
      BY <2>4, FS_EmptySet
    <3> QED BY <1>3, <1>4, <2>1, <2>3, <3>1 DEF TicketsKept
  <2>7. InStep'
    <3>1. data' = None /\ busCycles' = 0
      BY <1>2, <1>3, <2>1, ControllerHandsOn
    <3> QED BY <2>1, <2>2, <2>3, <2>4, <3>1 DEF InStep
  <2>8. OnePlace'
    BY <2>3, OnePlaceKept
  <2>9. Parts' /\ TooMuch' /\ AtRest'
    BY <1>1, <1>2, <2>1, <2>2, <2>4 DEF Parts, TooMuch, AtRest
  <2> QED BY <2>5, <2>6, <2>7, <2>8, <2>9 DEF IInv
<1>6. CASE ~MoreToWrite
  <2>1. request' = None /\ moved' = moved /\ freeTickets' = Returned /\ transCycles' = Left
    BY <1>6 DEF WriteCycle
  <2>2. Asked' = {}
    BY <1>2, <2>1, NoRead, Kinds
  <2>3. TypeOK'
    <3>1. /\ freeTickets' \in 0 .. Tickets
          /\ command' \in {"none", "write", "load", "loadShader"}
      <4>1. Returned <= Tickets /\ Returned >= 0
        BY <1>3, <1>4, PortAssumption
      <4> QED BY <1>1, <1>4, <2>1, <4>1
    <3> QED BY <1>1, <1>3, <1>4, <2>1, <3>1, ControllerType, Kinds
  <2>4. TicketsKept'
    <3>1. Cardinality(Asked') = 0
      BY <2>2, FS_EmptySet
    <3> QED BY <1>3, <1>4, <2>1, <3>1 DEF TicketsKept
  <2>5. InStep'
    <3>1. transCycles' > 0 => command' = "write"
      BY <1>1
    <3> QED BY <1>1, <2>1, <3>1, InStepKept, Kinds
  <2>6. OnePlace'
    BY <2>1, OnePlaceKept
  <2>7. Parts' /\ TooMuch' /\ AtRest'
    BY <1>1, <1>2, <2>1, <2>2 DEF Parts, TooMuch, AtRest
  <2> QED BY <2>3, <2>4, <2>5, <2>6, <2>7 DEF IInv
<1> QED BY <1>5, <1>6

-----------------------------------------------------------------------------
(* A cycle of a load.                                                      *)

\* The bytes that are here once the data on the link are taken.
Taken == { b \in 0 .. moved - 1 : \A t \in Rest : ~(t.at <= b /\ b < t.at + t.size) }

LEMMA BytesArrive ==
  ASSUME IInv, Running, command \in {"load", "loadShader"}
  PROVE  /\ IsFiniteSet(Taken) /\ Cardinality(Taken) <= moved
         /\ Cardinality(Taken) = moved => Taken = 0 .. moved - 1
         /\ received + (IF Incoming > 0 THEN IncomingSize ELSE 0) = Cardinality(Taken)
<1>1. /\ moved \in Nat /\ received \in Nat /\ transCycles \in Nat /\ lastSize \in Nat
  BY DEF IInv, TypeOK
<1>2. /\ IsFiniteSet(0 .. moved - 1) /\ Cardinality(0 .. moved - 1) = moved
  <2>1. IsFiniteSet(0 .. 0 + moved - 1) /\ Cardinality(0 .. 0 + moved - 1) = moved
    BY <1>1, ByteCount
  <2> QED BY <1>1, <2>1
<1>3. /\ IsFiniteSet(Taken) /\ Cardinality(Taken) <= moved
      /\ Cardinality(Taken) = moved => Taken = 0 .. moved - 1
  <2>1. Taken \in SUBSET (0 .. moved - 1)
    BY DEF Taken
  <2> QED BY <1>2, <2>1, FS_Subset
<1>4. /\ \A t \in Asked : t.at + t.size <= moved
      /\ \A s, t \in Asked : s # t => s.at + s.size <= t.at \/ t.at + t.size <= s.at
      /\ received + (IF transCycles > 0 THEN lastSize ELSE 0) = Cardinality(Here)
  BY DEF IInv, Parts
<1>5. CASE data = None
  <2>1. Taken = Here
    BY <1>5, RestIs DEF Taken, Here
  <2> QED BY <1>3, <1>4, <1>5, <2>1 DEF Incoming, IncomingSize
<1>6. CASE data # None
  <2> DEFINE bytes == data.at .. data.at + data.size - 1
  <2>1. /\ Asked = Rest \cup {data} /\ data \notin Rest
        /\ data.at \in Nat /\ data.size \in Nat /\ data.size > 0
        /\ Rest \subseteq Asked
        /\ \A t \in Rest : t.size \in Nat /\ t.at \in Nat
    <3>1. data \in Transactions /\ data.size > 0
      BY <1>6 DEF IInv, TypeOK, OnePlace
    <3>2. \A t \in Transactions : t.at \in Nat /\ t.size \in Nat
      BY DEF Transactions, None
    <3> QED BY <1>6, <3>1, <3>2, RestIs
  <2>2. Taken = Here \cup bytes /\ Here \cap bytes = {}
    <3>1. \A b \in bytes : /\ b \in 0 .. moved - 1 /\ b \notin Here
                           /\ data.at <= b /\ b < data.at + data.size
      BY <1>1, <1>4, <2>1 DEF Here
    <3>2. \A b \in bytes, t \in Rest : ~(t.at <= b /\ b < t.at + t.size)
      BY <1>4, <2>1, <3>1
    <3>3. Here \subseteq Taken
      BY <2>1 DEF Here, Taken
    <3>4. bytes \subseteq Taken
      BY <3>1, <3>2 DEF Taken
    <3>5. \A b \in Taken : b \in Here \/ b \in bytes
      <4> SUFFICES ASSUME NEW b \in Taken, b \notin bytes PROVE b \in Here
        OBVIOUS
      <4>1. b \in 0 .. moved - 1 /\ b \in Int
        BY <1>1 DEF Taken
      <4>2. ~(data.at <= b /\ b < data.at + data.size)
        BY <2>1, <4>1
      <4> QED BY <2>1, <4>1, <4>2 DEF Taken, Here
    <3> QED BY <3>1, <3>3, <3>4, <3>5
  <2>3. IsFiniteSet(bytes) /\ Cardinality(bytes) = data.size
    BY <2>1, ByteCount
  <2> HIDE DEF bytes
  <2>4. IsFiniteSet(Here)
    <3>1. Here \in SUBSET (0 .. moved - 1)
      BY DEF Here
    <3> QED BY <1>2, <3>1, FS_Subset
  <2>5. Cardinality(Taken) = Cardinality(Here) + data.size
    <3>1. Cardinality(Here \cup bytes)
            = Cardinality(Here) + Cardinality(bytes) - Cardinality(Here \cap bytes)
      BY <2>3, <2>4, FS_Union
    <3>2. Cardinality(Here \cap bytes) = 0
      BY <2>2, FS_EmptySet
    <3>3. Cardinality(Here) \in Nat
      BY <2>4, FS_CardinalityType
    <3> QED BY <2>1, <2>2, <2>3, <3>1, <3>2, <3>3
  <2>6. /\ Incoming > 0 /\ transCycles = 0 /\ IncomingSize = data.size
    BY <1>6, CountedAlike DEF IncomingSize
  <2>7. received = Cardinality(Here)
    BY <1>1, <1>4, <2>6
  <2> QED BY <1>3, <2>1, <2>5, <2>6, <2>7
<1> QED BY <1>5, <1>6

\* What the cycle adds to the counters of the load.
LEMMA LoadCounts ==
  ASSUME IInv, Running, LoadCycle
  PROVE  /\ command \in {"load", "loadShader"} /\ size' = size
         /\ transCycles' = Left /\ lastSize' = IncomingSize
         /\ received' \in Nat /\ transCycles' \in Nat /\ lastSize' \in Nat
         /\ received' + (IF transCycles' > 0 THEN lastSize' ELSE 0) = Cardinality(Taken)
         /\ command' = IF received' = size THEN "none" ELSE command
         /\ transCycles' > 0 => lastSize' > 0
<1>1. /\ command \in {"load", "loadShader"} /\ size' = size
      /\ transCycles' = Left /\ lastSize' = IncomingSize
      /\ received' = (IF Over THEN received + IncomingSize ELSE received)
      /\ command' = IF received' = size THEN "none" ELSE command
  BY DEF LoadCycle, AllReceived
<1>2. /\ Incoming \in Nat /\ Left \in Nat /\ IncomingSize \in Nat /\ received \in Nat
      /\ Incoming > 0 => IncomingSize > 0
  BY <1>1, CountedAlike DEF IInv, TypeOK
<1>3. received + (IF Incoming > 0 THEN IncomingSize ELSE 0) = Cardinality(Taken)
  BY <1>1, BytesArrive
<1> QED BY <1>1, <1>2, <1>3 DEF Left, Over

\* The read that is sent, if there is one, continues those before it.
LEMMA LoadAsks ==
  ASSUME IInv, Running, LoadCycle, ControllerCycle
  PROVE  /\ moved' \in Nat /\ moved <= moved' /\ request' \in Transactions
         /\ \/ /\ request' = None /\ moved' = moved /\ Asked' = Rest
               /\ freeTickets' = Returned
            \/ /\ request'.com = "read" /\ request' # None /\ request' \notin Rest
               /\ request'.at = moved /\ request'.size \in Nat /\ request'.size > 0
               /\ moved' = moved + request'.size /\ moved' <= size
               /\ request'.size <= MaxTransaction
               /\ Asked' = Rest \cup {request'} /\ freeTickets' = Returned - 1
               /\ Returned > 0
<1>1. moved \in Nat /\ size \in Nat /\ MaxTransaction \in Nat
  BY PortAssumption DEF IInv, TypeOK
<1>2. CASE moved < size /\ ReadAccept /\ Returned > 0
  <2>1. /\ request' = Read(moved, Chunk) /\ moved' = moved + Chunk
        /\ freeTickets' = Returned - 1
    BY <1>2 DEF LoadCycle
  <2>2. Chunk \in 1 .. MaxTransaction /\ moved + Chunk \in Nat /\ moved + Chunk <= size
    BY <1>2, ChunkIs DEF IInv
  <2>3. Chunk \in Nat /\ Chunk > 0 /\ Chunk <= MaxTransaction
    BY <1>1, <2>2
  <2>4. /\ request' \in Transactions /\ request'.com = "read" /\ request' # None
        /\ request'.at = moved /\ request'.size = Chunk
    BY <1>1, <2>1, <2>3, Kinds
  <2>5. request' \notin Rest
    <3>1. \A t \in Rest : t.at + t.size <= moved /\ t.size \in Nat /\ t.at \in Nat /\ t.size > 0
      BY RestIs DEF IInv, Parts, LoadCycle
    <3>2. \A t \in Rest : t.at < moved
      BY <1>1, <3>1
    <3> QED BY <1>1, <2>4, <3>2
  <2>6. Asked' = Rest \cup {request'}
    BY <2>4, ControllerHandsOn DEF Accepted
  <2> QED BY <1>1, <1>2, <2>1, <2>2, <2>3, <2>4, <2>5, <2>6
<1>3. CASE ~(moved < size /\ ReadAccept /\ Returned > 0)
  <2>1. request' = None /\ moved' = moved /\ freeTickets' = Returned
    BY <1>3 DEF LoadCycle
  <2> QED BY <1>1, <2>1, NoRead, Kinds
<1> QED BY <1>2, <1>3

LEMMA LoadParts ==
  ASSUME IInv, Running, LoadCycle, ControllerCycle
  PROVE  /\ Here' = Taken
         /\ Parts'
<1>1. /\ moved \in Nat
      /\ \A t \in Rest : t.size \in Nat /\ t.at \in Nat
      /\ \A t \in Rest : t.at + t.size <= moved
      /\ \A s, t \in Rest : s # t => s.at + s.size <= t.at \/ t.at + t.size <= s.at
  BY RestIs DEF IInv, TypeOK, Parts, LoadCycle
<1>2. received' + (IF transCycles' > 0 THEN lastSize' ELSE 0) = Cardinality(Taken)
  BY LoadCounts
<1>3. CASE request' = None /\ moved' = moved /\ Asked' = Rest
  <2>1. Here' = Taken
    BY <1>3 DEF Here, Taken
  <2> QED BY <1>1, <1>2, <1>3, <2>1 DEF Parts
<1>4. CASE /\ request'.at = moved /\ request'.size \in Nat /\ request'.size > 0
           /\ moved' = moved + request'.size /\ Asked' = Rest \cup {request'}
  <2>1. Here' = Taken
    <3>1. Here' = { b \in 0 .. moved' - 1 :
                      \A t \in Rest \cup {request'} : ~(t.at <= b /\ b < t.at + t.size) }
      BY <1>4 DEF Here
    <3>2. \A b \in 0 .. moved' - 1 :
            b \in 0 .. moved - 1 <=> ~(request'.at <= b /\ b < request'.at + request'.size)
      BY <1>1, <1>4
    <3>3. \A b \in 0 .. moved - 1 : b \in 0 .. moved' - 1
      BY <1>1, <1>4
    <3> QED BY <3>1, <3>2, <3>3 DEF Taken
  <2>2. \A t \in Asked' : t.at + t.size <= moved'
    BY <1>1, <1>4
  <2>3. \A s, t \in Asked' : s # t => s.at + s.size <= t.at \/ t.at + t.size <= s.at
    BY <1>1, <1>4
  <2> QED BY <1>2, <2>1, <2>2, <2>3 DEF Parts
<1> QED BY <1>3, <1>4, LoadAsks

\* A load that ends has received everything.
LEMMA LoadEnds ==
  ASSUME IInv, Running, LoadCycle, ControllerCycle
  PROVE  TooMuch' /\ AtRest'
<1>1. /\ moved \in Nat /\ size \in Nat /\ size > 0 /\ received \in Nat
      /\ moved' \in Nat /\ received' \in Nat /\ transCycles' \in Nat /\ lastSize' \in Nat
      /\ size' = size /\ command \in {"load", "loadShader"}
      /\ transCycles' > 0 => lastSize' > 0
      /\ command' = IF received' = size THEN "none" ELSE command
  BY LoadCounts, LoadAsks DEF IInv, TypeOK, AtRest
<1>2. \A t \in Rest : t.size \in Nat /\ t.at \in Nat /\ t.size > 0
  BY RestIs
<1>3. \A t \in Asked' : t.size \in Nat /\ t.at \in Nat /\ t.size > 0
  BY <1>1, <1>2, LoadAsks
<1>4. /\ received' + (IF transCycles' > 0 THEN lastSize' ELSE 0) = Cardinality(Taken)
      /\ Cardinality(Taken) <= moved
      /\ Cardinality(Taken) = moved => Taken = 0 .. moved - 1
      /\ received + (IF Incoming > 0 THEN IncomingSize ELSE 0) = Cardinality(Taken)
  BY <1>1, LoadCounts, BytesArrive
<1>5. CASE moved' <= size
  <2>1. ASSUME received' = size
        PROVE  Asked' = {} /\ transCycles' = 0 /\ request' = None
    <3>1. /\ Cardinality(Taken) = moved /\ moved = moved' /\ transCycles' = 0
      BY <1>1, <1>4, <1>5, <2>1, LoadAsks
    <3>2. Here' = 0 .. moved' - 1
      BY <1>4, <3>1, LoadParts
    <3>3. ASSUME NEW t \in Asked' PROVE FALSE
      <4>1. t.at + t.size <= moved'
        BY <2>1, LoadParts, <1>1, LoadAsks, RestIs DEF IInv, Parts
      <4>2. t.at \in Here'
        BY <1>1, <1>3, <3>2, <4>1
      <4> QED BY <1>3, <4>2 DEF Here
    <3>4. request' = None
      BY <3>3, LoadAsks
    <3> QED BY <3>1, <3>3, <3>4
  <2> QED BY <1>1, <1>5, <2>1 DEF TooMuch, AtRest
<1>6. CASE moved' > size
  <2>1. request' = None /\ moved' = moved /\ Asked' = Rest
    BY <1>1, <1>6, LoadAsks
  <2>2. /\ \A t \in Asked : t.at = 0 /\ t.size = moved
        /\ received \in {0, moved} /\ (transCycles > 0 => lastSize = moved)
    BY <1>1, <1>6, <2>1 DEF IInv, TooMuch
  <2>3. Incoming > 0 => IncomingSize = moved
    BY <2>2 DEF Incoming, IncomingSize, Asked
  <2>4. Incoming > 0 => received = 0
    BY <1>1, <1>4, <1>6, <2>1, <2>2, <2>3
  <2>5. received' \in {0, moved} /\ (transCycles' > 0 => lastSize' = moved)
    <3>1. /\ received' = (IF Over THEN received + IncomingSize ELSE received)
          /\ transCycles' = Left /\ lastSize' = IncomingSize
      BY DEF LoadCycle
    <3> QED BY <1>1, <2>2, <2>3, <2>4, <3>1, CountedAlike DEF Left, Over
  <2>6. received' # size
    BY <1>1, <1>6, <2>1, <2>5
  <2>7. \A t \in Asked' : t.at = 0 /\ t.size = moved
    BY <2>1, <2>2, RestIs
  <2> QED BY <1>1, <2>1, <2>5, <2>6, <2>7 DEF TooMuch, AtRest
<1> QED BY <1>1, <1>5, <1>6

LEMMA LoadKeeps ==
  ASSUME IInv, Running, LoadCycle, ControllerCycle
  PROVE  IInv'
<1>1. /\ command \in {"load", "loadShader"}
      /\ command' \in {"none", "load", "loadShader"} /\ size' = size /\ size \in Nat
      /\ transCycles' = Left /\ lastSize' = IncomingSize
      /\ received' \in Nat /\ transCycles' \in Nat /\ lastSize' \in Nat
  BY LoadCounts DEF IInv, TypeOK
<1>2. /\ IsFiniteSet(Rest) /\ Cardinality(Rest) \in Nat
      /\ Returned + Cardinality(Rest) + (IF Left > 0 THEN 1 ELSE 0) = Tickets
      /\ Tickets \in Nat /\ Returned \in Nat
  BY TicketsMove, RestIs, PortAssumption DEF IInv, TypeOK, Returned
<1>3. freeTickets' \in 0 .. Tickets /\ TicketsKept'
  <2>1. CASE Asked' = Rest /\ freeTickets' = Returned
    BY <1>1, <1>2, <2>1 DEF TicketsKept
  <2>2. CASE /\ Asked' = Rest \cup {request'} /\ request' \notin Rest
             /\ freeTickets' = Returned - 1 /\ Returned > 0
    <3>1. Cardinality(Asked') = Cardinality(Rest) + 1
      BY <1>2, <2>2, FS_AddElement
    <3> QED BY <1>1, <1>2, <2>2, <3>1 DEF TicketsKept
  <2> QED BY <2>1, <2>2, LoadAsks
<1>4. TypeOK'
  BY <1>1, <1>3, LoadAsks, ControllerType
<1>5. InStep'
  BY <1>1, LoadAsks, InStepKept, Kinds
<1>6. OnePlace'
  BY LoadAsks, OnePlaceKept
<1> QED BY <1>3, <1>4, <1>5, <1>6, LoadParts, LoadEnds DEF IInv

-----------------------------------------------------------------------------
(* The invariant and what follows from it.                                 *)

LEMMA InitHolds == Init => IInv
<1> SUFFICES ASSUME Init PROVE IInv
  OBVIOUS
<1>1. Asked = {}
  BY Kinds DEF Init, Asked, Accepted
<1>2. Cardinality(Asked) = 0
  BY <1>1, FS_EmptySet
<1>3. TypeOK
  BY Kinds, FS_EmptySet, PortAssumption DEF Init, TypeOK
<1>4. TicketsKept
  BY <1>2, PortAssumption DEF Init, TicketsKept
<1>5. InStep /\ OnePlace /\ Parts /\ TooMuch /\ AtRest
  BY <1>1, Kinds DEF Init, InStep, OnePlace, Parts, TooMuch, AtRest
<1> QED BY <1>3, <1>4, <1>5 DEF IInv

LEMMA NextKeeps == IInv /\ [Next]_vars => IInv'
<1> SUFFICES ASSUME IInv, [Next]_vars PROVE IInv'
  OBVIOUS
<1>1. CASE Running /\ Quiet /\ ControllerCycle
  BY <1>1, QuietKeeps
<1>2. CASE Running /\ Start /\ ControllerCycle
  <2>1. CASE \E n \in Sizes : StartWrite(n)
    BY <1>2, <2>1, StartWriteKeeps
  <2>2. CASE \E n \in Sizes : StartLoad("load", n, Least(n, MaxTransaction))
    <3>1. PICK n \in Sizes : StartLoad("load", n, Least(n, MaxTransaction))
      BY <2>2
    <3>2. Least(n, MaxTransaction) \in Nat
      BY PortAssumption DEF Least
    <3> QED BY <1>2, <3>1, <3>2, StartLoadKeeps
  <2>3. CASE \E n \in Sizes, other \in OtherSizes :
               StartLoad("loadShader", n, Least(other, MaxTransaction))
    <3>1. PICK n \in Sizes, other \in OtherSizes :
            StartLoad("loadShader", n, Least(other, MaxTransaction))
      BY <2>3
    <3>2. Least(other, MaxTransaction) \in Nat
      BY PortAssumption DEF Least
    <3> QED BY <1>2, <3>1, <3>2, StartLoadKeeps
  <2> QED BY <1>2, <2>1, <2>2, <2>3 DEF Start
<1>3. CASE Running /\ WriteCycle /\ ControllerCycle
  BY <1>3, WriteKeeps
<1>4. CASE Running /\ LoadCycle /\ ControllerCycle
  BY <1>4, LoadKeeps
<1>5. CASE UNCHANGED vars
  BY <1>5 DEF vars, port, controller, IInv, TypeOK, TicketsKept, InStep, OnePlace, Parts,
     TooMuch, AtRest, Here, Asked, Accepted
<1> QED BY <1>1, <1>2, <1>3, <1>4, <1>5 DEF Next

LEMMA Invariance == Spec => []IInv
BY InitHolds, NextKeeps, PTL DEF Spec

\* The counters of the port and of the controller stay in their ranges: no
\* ticket too many is given back and none is taken when there is none.
THEOREM PortType == Spec => []TypeOK
<1>1. IInv => TypeOK
  BY DEF IInv
<1> QED BY <1>1, Invariance, PTL

\* Neither side ever gets data on a busy bus, for every size of transaction,
\* bus and transfer and whatever the other units do: each counts a transmission
\* for itself, and both come to its end in the same cycle.
THEOREM BusNeverBusy == Spec => []BusFree
<1>1. IInv => BusFree
  BY DEF IInv, InStep, BusFree, AtRest, Asked
<1> QED BY <1>1, Invariance, PTL

\* Every ticket is free, with a read, or with the transmission.
THEOREM NoTicketLost == Spec => []TicketsKept
<1>1. IInv => TicketsKept
  BY DEF IInv
<1> QED BY <1>1, Invariance, PTL

-----------------------------------------------------------------------------
(* Loads of which every read is cut from the program.                      *)

LEMMA LoadedInit == Init => Loaded
BY DEF Init, Loaded, SizeAllowed

LEMMA LoadedNext ==
  ASSUME Loads \subseteq {"load"}, IInv, Loaded, [Next]_vars
  PROVE  Loaded'
<1>1. /\ size \in Nat /\ moved \in Nat /\ moved <= size /\ command # "loadShader"
      /\ MaxTransaction \in Nat /\ MaxTransaction > 0 /\ request # None => request.size \in 1 .. MaxTransaction
  BY PortAssumption DEF IInv, TypeOK, Loaded, SizeAllowed
<1>2. \A n \in Sizes : /\ n \in Nat /\ Least(n, MaxTransaction) \in 1 .. MaxTransaction
                       /\ Least(n, MaxTransaction) <= n /\ Least(n, MaxTransaction) \in Nat
  BY PortAssumption DEF Least
<1>3. CASE Running /\ Quiet /\ ControllerCycle
  BY <1>1, <1>3 DEF Quiet, Loaded, SizeAllowed
<1>4. CASE Running /\ Start /\ ControllerCycle
  <2>1. CASE \E n \in Sizes : StartWrite(n)
    <3>1. PICK n \in Sizes : StartWrite(n)
      BY <2>1
    <3> DEFINE first == Least(n, MaxTransaction)
    <3>2. /\ first \in 1 .. MaxTransaction /\ first <= n /\ first \in Nat /\ n \in Nat
      BY <1>2
    <3>3. /\ command' = "write" /\ size' = n
          /\ \/ request' = Write(0, first) /\ moved' = first
             \/ request' = None /\ moved' = 0
      BY <3>1 DEF StartWrite
    <3> HIDE DEF first
    <3>4. Write(0, first).size = first
      BY <3>2, Kinds
    <3> QED BY <3>2, <3>3, <3>4 DEF Loaded, SizeAllowed
  <2>2. CASE \E n \in Sizes : StartLoad("load", n, Least(n, MaxTransaction))
    <3>1. PICK n \in Sizes : StartLoad("load", n, Least(n, MaxTransaction))
      BY <2>2
    <3> DEFINE first == Least(n, MaxTransaction)
    <3>2. /\ first \in 1 .. MaxTransaction /\ first <= n /\ first \in Nat /\ n \in Nat
      BY <1>2
    <3>3. /\ command' = "load" /\ size' = n
          /\ \/ request' = Read(0, first) /\ moved' = first
             \/ request' = None /\ moved' = 0
      BY <3>1 DEF StartLoad
    <3> HIDE DEF first
    <3>4. Read(0, first).size = first
      BY <3>2, Kinds
    <3> QED BY <3>2, <3>3, <3>4 DEF Loaded, SizeAllowed
  <2>3. ~(\E n \in Sizes, other \in OtherSizes :
            StartLoad("loadShader", n, Least(other, MaxTransaction)))
    BY DEF StartLoad
  <2> QED BY <1>4, <2>1, <2>2, <2>3 DEF Start
<1>5. CASE Running /\ WriteCycle /\ ControllerCycle
  <2>1. /\ size' = size /\ command' \in {"none", "write"}
        /\ \/ MoreToWrite /\ request' = Write(moved, Chunk) /\ moved' = moved + Chunk
           \/ request' = None /\ moved' = moved
    BY <1>5 DEF WriteCycle
  <2>2. CASE MoreToWrite /\ request' = Write(moved, Chunk) /\ moved' = moved + Chunk
    <3>1. Chunk \in 1 .. MaxTransaction /\ moved + Chunk \in Nat /\ moved + Chunk <= size
      BY <2>2, ChunkIs DEF IInv, MoreToWrite
    <3>2. Write(moved, Chunk).size = Chunk
      BY <1>1, <3>1, Kinds
    <3> QED BY <2>1, <2>2, <3>1, <3>2 DEF Loaded, SizeAllowed
  <2> QED BY <1>1, <2>1, <2>2 DEF Loaded, SizeAllowed
<1>6. CASE Running /\ LoadCycle /\ ControllerCycle
  <2>1. size' = size /\ command' # "loadShader"
    BY <1>1, <1>6 DEF LoadCycle
  <2> QED BY <1>1, <1>6, <2>1, LoadAsks DEF Loaded, SizeAllowed
<1>7. CASE UNCHANGED vars
  BY <1>7 DEF vars, port, Loaded, SizeAllowed
<1> QED BY <1>3, <1>4, <1>5, <1>6, <1>7 DEF Next

LEMMA LoadedAlways ==
  ASSUME Loads \subseteq {"load"}
  PROVE  Spec => [](IInv /\ Loaded)
<1>1. IInv /\ Loaded /\ [Next]_vars => Loaded'
  BY LoadedNext
<1> QED BY <1>1, LoadedInit, Invariance, PTL DEF Spec

\* The reads of LOAD_VERTEX_PROGRAM and LOAD_FRAGMENT_PROGRAM stay in the
\* buffer of the program, do not overlap, and none is on its way when the load
\* has ended and the buffer is deleted.
THEOREM LoadsStayInBuffer ==
  ASSUME Loads \subseteq {"load"}
  PROVE  Spec => []InBuffer
<1>1. IInv /\ Loaded => InBuffer
  <2> SUFFICES ASSUME IInv, Loaded PROVE InBuffer
    OBVIOUS
  <2>1. command \in {"none", "write"} => Asked = {}
    BY DEF IInv, AtRest
  <2>2. command \in {"none", "write"} \/ command \in {"load", "loadShader"}
    BY DEF IInv, TypeOK
  <2>3. /\ moved <= size /\ moved \in Nat /\ size \in Nat
        /\ \A t \in Asked : t.at \in Nat /\ t.size \in Nat
    <3>1. Asked \subseteq Transactions
      BY DEF Asked, Accepted, IInv, TypeOK
    <3>2. \A t \in Transactions : t.at \in Nat /\ t.size \in Nat
      BY DEF Transactions, None
    <3> QED BY <3>1, <3>2 DEF IInv, TypeOK, Loaded
  <2> QED BY <2>1, <2>2, <2>3 DEF IInv, Parts, InBuffer
<1> QED BY <1>1, LoadedAlways, PTL

\* No transaction of such loads, nor of a write, is empty or above the maximum:
\* the constructor of MemoryTransaction never panics.
THEOREM TransactionSizes ==
  ASSUME Loads \subseteq {"load"}
  PROVE  Spec => []SizeAllowed
<1>1. Loaded => SizeAllowed
  BY DEF Loaded
<1> QED BY <1>1, LoadedAlways, PTL
=============================================================================
