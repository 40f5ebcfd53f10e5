--------------------------- MODULE Signal_proofs ---------------------------
(***************************************************************************)
(* The ring of a signal stays inside its bounds and its counter exact, for *)
(* every latency, bandwidth, capacity and set of objects, and for every    *)
(* order and spacing of the calls of the two boxes.                        *)
(***************************************************************************)
EXTENDS Signal, ModArith, FiniteSetTheorems, TLAPS

\* The inductive invariant.  The window is what makes it inductive: an access
\* moves the ring over slots known to be empty, so what lies ahead of the new
\* read point is what lay ahead of the old one.
IInv == TypeOK /\ PendentExact /\ InWindow /\ WriteAhead

\* Slot arithmetic, in the form the steps use it.
LEMMA SlotType == \A n \in Nat : Slot(n) \in Slots
  BY SizeAssumption, DivMod DEF Slot, Slots

LEMMA SlotOnce ==
  \A n \in 0 .. 2 * Capacity - 1 :
    Slot(n) = IF n < Capacity THEN n ELSE n - Capacity
<1>1. Capacity \in Nat /\ Capacity > 0
  BY SizeAssumption
<1> QED BY <1>1, ModOnce DEF Slot

LEMMA SlotPlus ==
  ASSUME NEW a \in Nat, NEW b \in Nat
  PROVE  Slot(Slot(a) + b) = Slot(a + b)
<1>1. Capacity \in Nat /\ Capacity > 0
  BY SizeAssumption
<1>2. a \in Int /\ b \in Int
  OBVIOUS
<1>3. ((a % Capacity) + b) % Capacity = (a + b) % Capacity
  BY <1>1, <1>2, ModPlus
<1> QED BY <1>3 DEF Slot

\* One turn of the ring leads back to the slot.
LEMMA SlotTurn ==
  ASSUME NEW a \in Nat
  PROVE  Slot(a + Capacity) = Slot(a)
<1>1. Capacity \in Nat /\ Capacity > 0
  BY SizeAssumption
<1>2. Slot(Capacity) = 0
  BY <1>1, SlotOnce
<1>3. Slot(Slot(Capacity) + a) = Slot(Capacity + a)
  BY <1>1, SlotPlus
<1> QED BY <1>1, <1>2, <1>3

\* Two distances below the capacity lead to two slots.
LEMMA SlotDistinct ==
  ASSUME NEW r \in Slots, NEW j \in 0 .. Capacity - 1,
         NEW k \in 0 .. Capacity - 1, Slot(r + j) = Slot(r + k)
  PROVE  j = k
<1>1. /\ r + j \in 0 .. 2 * Capacity - 1 /\ r + k \in 0 .. 2 * Capacity - 1
      /\ r \in 0 .. Capacity - 1 /\ Capacity \in Nat
  BY SizeAssumption DEF Slots
<1>2. /\ Slot(r + j) = IF r + j < Capacity THEN r + j ELSE r + j - Capacity
      /\ Slot(r + k) = IF r + k < Capacity THEN r + k ELSE r + k - Capacity
  BY <1>1, SlotOnce
<1> QED BY <1>1, <1>2

\* The cells in flight are finitely many.
LEMMA InFlightFinite == TypeOK => IsFiniteSet(InFlight)
<1>1. IsFiniteSet(Slots) /\ IsFiniteSet(1 .. Bandwidth)
  BY SizeAssumption, FS_Interval DEF Slots
<1>2. IsFiniteSet(Slots \X (1 .. Bandwidth))
  BY <1>1, FS_Product
<1> QED BY <1>2, FS_Subset DEF InFlight

\* With nothing counted in flight every slot is empty.
LEMMA NothingInFlight ==
  ASSUME TypeOK, PendentExact, pendentReads = 0
  PROVE  \A s \in Slots : nReads[s] = 0
<1>1. InFlight = {}
  BY InFlightFinite, FS_EmptySet DEF PendentExact
<1>2. SUFFICES ASSUME NEW s \in Slots, nReads[s] > 0
               PROVE  FALSE
  BY SizeAssumption DEF TypeOK
<1>3. <<s, 1>> \in InFlight
  BY <1>2, SizeAssumption DEF InFlight, TypeOK
<1> QED BY <1>1, <1>3

\* clock: when nothing was lost, the ring seen from the slot of the current
\* cycle is as well formed as it was from the slot of the last access.
LEMMA ClockKeepsWindow ==
  ASSUME IInv, ~LostData
  PROVE  /\ ClockedRead \in Slots /\ ClockedWrite \in Slots
         /\ ClockedDone \in 0 .. Bandwidth
         /\ ClockedDone + nReads[ClockedRead] <= Bandwidth
         /\ \A k \in MaxLatency + 1 .. Capacity - 1 :
              nReads[Slot(ClockedRead + k)] = 0
         /\ \E k \in 1 .. MaxLatency : ClockedWrite = Slot(ClockedRead + k)
<1> USE SizeAssumption
<1>0. /\ lag \in Nat /\ nextRead \in Slots /\ nextWrite \in Slots
      /\ nReads \in [Slots -> 0 .. Bandwidth] /\ readsDone \in 0 .. Bandwidth
  BY DEF IInv, TypeOK
<1>a. nextRead \in Nat /\ nextWrite \in Nat
  BY <1>0 DEF Slots
<1>1. ClockedRead \in Slots /\ ClockedWrite \in Slots
  <2>1. nextRead + lag \in Nat /\ nextWrite + lag \in Nat
    BY <1>0, <1>a
  <2> QED BY <2>1, SlotType DEF ClockedRead, ClockedWrite
<1>2. \E k \in 1 .. MaxLatency : ClockedWrite = Slot(ClockedRead + k)
  <2>1. PICK k \in 1 .. MaxLatency : nextWrite = Slot(nextRead + k)
    BY DEF IInv, WriteAhead
  <2>a. nextRead + k \in Nat /\ nextRead + lag \in Nat /\ k \in Nat
    BY <1>0, <1>a
  <2>2. ClockedWrite = Slot((nextRead + k) + lag)
    BY <2>1, <2>a, <1>0, SlotPlus DEF ClockedWrite
  <2>3. Slot(ClockedRead + k) = Slot((nextRead + lag) + k)
    BY <2>a, SlotPlus DEF ClockedRead
  <2>4. (nextRead + k) + lag = (nextRead + lag) + k
    BY <1>0 DEF Slots
  <2> QED BY <2>2, <2>3, <2>4
<1>3. CASE pendentReads = 0
  <2>1. \A s \in Slots : nReads[s] = 0
    BY <1>3, NothingInFlight DEF IInv
  <2>2. \A k \in MaxLatency + 1 .. Capacity - 1 :
          nReads[Slot(ClockedRead + k)] = 0
    BY <2>1, <1>1, SlotType DEF Slots
  <2>3. ClockedDone \in 0 .. Bandwidth
    BY <1>0 DEF ClockedDone
  <2> QED BY <1>1, <1>2, <2>1, <2>2, <2>3
<1>4. CASE pendentReads > 0
  <2>1. /\ lag <= MaxLatency
        /\ \A i \in 0 .. lag - 1 : nReads[Slot(nextRead + i)] = 0
    <3>1. \A i \in 0 .. lag - 1 : nextRead + i \in Nat
      BY <1>0, <1>a
    <3>2. \A i \in 0 .. lag - 1 : Slot(nextRead + i) \in Slots
      BY <3>1, SlotType
    <3> QED BY <1>0, <1>4, <3>2 DEF LostData
  <2>2. \A k \in MaxLatency + 1 .. Capacity - 1 :
          nReads[Slot(ClockedRead + k)] = 0
    <3> SUFFICES ASSUME NEW k \in MaxLatency + 1 .. Capacity - 1
                 PROVE  nReads[Slot(ClockedRead + k)] = 0
      OBVIOUS
    <3>a. nextRead + lag \in Nat /\ k \in Nat
      BY <1>0, <1>a
    <3>1. Slot(ClockedRead + k) = Slot((nextRead + lag) + k)
      BY <3>a, SlotPlus DEF ClockedRead
    <3>2. CASE lag + k < Capacity
      <4>1. lag + k \in MaxLatency + 1 .. Capacity - 1
        BY <3>2, <1>0
      <4>2. nReads[Slot(nextRead + (lag + k))] = 0
        BY <4>1 DEF IInv, InWindow
      <4>3. nextRead + (lag + k) = (nextRead + lag) + k
        BY <1>0 DEF Slots
      <4> QED BY <3>1, <4>2, <4>3
    <3>3. CASE lag + k >= Capacity
      <4> DEFINE j == lag + k - Capacity
      <4>1. j \in 0 .. lag - 1
        BY <3>3, <1>0
      <4>2. nReads[Slot(nextRead + j)] = 0
        BY <4>1, <2>1
      <4>3. Slot(nextRead + (lag + k)) = Slot(nextRead + j)
        <5>1. nextRead + j \in Nat
          BY <1>a, <4>1
        <5>2. Slot((nextRead + j) + Capacity) = Slot(nextRead + j)
          BY <5>1, SlotTurn
        <5>3. (nextRead + j) + Capacity = nextRead + (lag + k)
          BY <1>0, <1>a
        <5> QED BY <5>2, <5>3
      <4>4. nextRead + (lag + k) = (nextRead + lag) + k
        BY <1>0 DEF Slots
      <4> QED BY <3>1, <4>2, <4>3, <4>4
    <3> QED BY <3>2, <3>3, <1>0
  <2>3. /\ ClockedDone \in 0 .. Bandwidth
        /\ ClockedDone + nReads[ClockedRead] <= Bandwidth
    <3>1. CASE lag = 0
      <4>1. ClockedRead = nextRead
        BY <3>1, <1>0, SlotOnce DEF ClockedRead, Slots
      <4> QED BY <3>1, <4>1, <1>0 DEF ClockedDone, IInv, InWindow
    <3>2. CASE lag > 0
      BY <3>2, <1>0, <1>1 DEF ClockedDone
    <3> QED BY <3>1, <3>2, <1>0
  <2> QED BY <1>1, <1>2, <2>2, <2>3
<1> QED BY <1>3, <1>4 DEF IInv, TypeOK

-----------------------------------------------------------------------------
\* A write to a slot one to MaxLatency cycles ahead.
LEMMA InsertKeeps ==
  ASSUME IInv, ~LostData, Running,
         NEW d \in Data,
         NEW k \in 1 .. MaxLatency, NEW s, s = Slot(ClockedRead + k),
         Insert(d, s)
  PROVE  IInv'
<1> USE SizeAssumption
<1>0. /\ TypeOK
      /\ nReads \in [Slots -> 0 .. Bandwidth]
      /\ pendentReads = Cardinality(InFlight) /\ pendentReads \in Nat
  BY DEF IInv, TypeOK, PendentExact
<1>1. CASE nReads[s] = Bandwidth
  <2>1. UNCHANGED <<data, nReads, nextRead, nextWrite, readsDone, pendentReads,
                    lag, call>>
        /\ error' = "bandwidth"
    BY <1>1 DEF Insert, Fail, ring
  <2>2. InFlight' = InFlight
    BY <2>1 DEF InFlight
  <2> QED BY <2>1, <2>2 DEF IInv, TypeOK, PendentExact, InWindow, WriteAhead
<1>2. CASE nReads[s] # Bandwidth
  <2>1. /\ data' = [data EXCEPT ![s][nReads[s] + 1] = d]
        /\ nReads' = [nReads EXCEPT ![s] = @ + 1]
        /\ pendentReads' = pendentReads + 1
        /\ nextRead' = ClockedRead /\ nextWrite' = s
        /\ readsDone' = ClockedDone /\ lag' = 0
        /\ call' = <<"write", d>> /\ error' = error
    BY <1>2 DEF Insert
  <2>2. ClockedRead \in Slots /\ ClockedRead \in Nat
    BY ClockKeepsWindow DEF Slots
  <2>3. s \in Slots
    <3>1. ClockedRead + k \in Nat
      BY <2>2
    <3> QED BY <3>1, SlotType
  <2>4. nReads[s] \in 0 .. Bandwidth - 1
    BY <1>0, <1>2, <2>3
  <2>5. nReads' \in [Slots -> 0 .. Bandwidth]
    BY <2>1, <2>3, <2>4, <1>0
  <2>6. PendentExact'
    <3> DEFINE cell == <<s, nReads[s] + 1>>
    <3>1. cell \notin InFlight /\ cell \in Slots \X (1 .. Bandwidth)
      BY <2>3, <2>4 DEF InFlight
    <3>2. InFlight' = InFlight \cup {cell}
      BY <2>1, <2>3, <2>4, <1>0 DEF InFlight
    <3> HIDE DEF cell
    <3>3. Cardinality(InFlight \cup {cell}) = Cardinality(InFlight) + 1
      BY <3>1, <1>0, InFlightFinite, FS_AddElement
    <3> QED BY <3>2, <3>3, <2>1, <1>0 DEF PendentExact
  <2>7. ASSUME NEW j \in 0 .. Capacity - 1, j # k
        PROVE  /\ Slot(ClockedRead + j) \in Slots
               /\ nReads'[Slot(ClockedRead + j)] = nReads[Slot(ClockedRead + j)]
    <3>1. Slot(ClockedRead + j) # s
      <4>1. k \in 0 .. Capacity - 1 /\ s = Slot(ClockedRead + k)
        BY SizeAssumption
      <4>2. Slot(ClockedRead + j) = Slot(ClockedRead + k) => j = k
        BY <2>2, <4>1, SlotDistinct
      <4> QED BY <4>1, <4>2, <2>7
    <3>2. ClockedRead + j \in Nat
      BY <2>2
    <3>3. Slot(ClockedRead + j) \in Slots
      BY <3>2, SlotType
    <3> QED BY <3>1, <3>3, <2>1, <1>0
  <2>8. InWindow'
    <3>1. \A j \in MaxLatency + 1 .. Capacity - 1 :
            nReads'[Slot(nextRead' + j)] = 0
      <4> TAKE j \in MaxLatency + 1 .. Capacity - 1
      <4>1. j \in 0 .. Capacity - 1 /\ j # k
        OBVIOUS
      <4>2. nReads[Slot(ClockedRead + j)] = 0
        BY ClockKeepsWindow
      <4> QED BY <4>1, <4>2, <2>1, <2>7
    <3>2. Slot(ClockedRead + 0) = ClockedRead
      BY <2>2, SlotOnce DEF Slots
    <3>3. nReads'[ClockedRead] = nReads[ClockedRead]
      BY <2>7, <3>2
    <3>4. ClockedDone + nReads[ClockedRead] <= Bandwidth
      BY ClockKeepsWindow
    <3> QED BY <3>1, <3>3, <3>4, <2>1 DEF InWindow, Slot
  <2>9. WriteAhead'
    BY <2>1 DEF WriteAhead, Slot
  <2>10. data' \in [Slots -> [1 .. Bandwidth -> Data \cup {NoData}]]
    BY <2>1, <2>3, <2>4, <1>0 DEF TypeOK
  <2>11. ClockedDone \in 0 .. Bandwidth
    BY ClockKeepsWindow
  <2>12. TypeOK'
    <3>1. call' \in {"write"} \X Data
      BY <2>1
    <3>2. pendentReads' \in Nat /\ lag' \in Nat /\ error' = "none"
      BY <2>1, <1>0 DEF Running
    <3> QED BY <3>1, <3>2, <2>1, <2>2, <2>3, <2>5, <2>10, <2>11
            DEF TypeOK, Slots
  <2> QED BY <2>6, <2>8, <2>9, <2>12 DEF IInv
<1> QED BY <1>1, <1>2

\* An assertion that fires leaves the ring as it was.
LEMMA FailKeeps ==
  ASSUME IInv, NEW why \in {"lost", "bandwidth", "latency"}, Fail(why)
  PROVE  IInv'
<1>1. /\ UNCHANGED <<data, nReads, nextRead, nextWrite, readsDone,
                     pendentReads, lag, call>>
      /\ error' = why
  BY DEF Fail, ring
<1>2. InFlight' = InFlight
  BY <1>1 DEF InFlight
<1> QED BY <1>1, <1>2 DEF IInv, TypeOK, PendentExact, InWindow, WriteAhead

LEMMA WriteKeeps ==
  ASSUME IInv, NEW d \in Data, Write(d)
  PROVE  IInv'
<1>1. CASE LostData
  BY <1>1, FailKeeps DEF Write
<1>2. CASE ~LostData
  <2>1. PICK k \in 1 .. MaxLatency : ClockedWrite = Slot(ClockedRead + k)
    BY <1>2, ClockKeepsWindow
  <2>2. Running /\ Insert(d, ClockedWrite)
    BY <1>2 DEF Write
  <2> QED BY <1>2, <2>1, <2>2, InsertKeeps
<1> QED BY <1>1, <1>2

LEMMA WriteLatKeeps ==
  ASSUME IInv, NEW d \in Data, NEW latency \in WriteLatencies,
         WriteLat(d, latency)
  PROVE  IInv'
<1>1. CASE LostData
  BY <1>1, FailKeeps DEF WriteLat
<1>2. CASE ~LostData /\ latency > MaxLatency
  BY <1>2, FailKeeps DEF WriteLat
<1>3. CASE ~LostData /\ ~(latency > MaxLatency)
  <2>1. latency \in 1 .. MaxLatency
    BY <1>3, SizeAssumption, UseAssumption
  <2>2. Running /\ Insert(d, Slot(ClockedRead + latency))
    BY <1>3 DEF WriteLat
  <2> QED BY <1>3, <2>1, <2>2, InsertKeeps
<1> QED BY <1>1, <1>2, <1>3

LEMMA ReadKeeps ==
  ASSUME IInv, Read
  PROVE  IInv'
<1> USE SizeAssumption
<1>0. /\ TypeOK /\ Running
      /\ nReads \in [Slots -> 0 .. Bandwidth]
      /\ pendentReads = Cardinality(InFlight) /\ pendentReads \in Nat
  BY DEF IInv, TypeOK, PendentExact, Read
<1>1. CASE pendentReads = 0 \/ (lag = 0 /\ nReads[nextRead] = 0)
  <2>1. /\ UNCHANGED <<data, nReads, nextRead, nextWrite, readsDone,
                       pendentReads, lag, error>>
        /\ call' = <<"read", NoData>>
    BY <1>1 DEF Read, ring
  <2>2. InFlight' = InFlight
    BY <2>1 DEF InFlight
  <2> QED BY <2>1, <2>2 DEF IInv, TypeOK, PendentExact, InWindow, WriteAhead
<1>2. CASE /\ ~(pendentReads = 0 \/ (lag = 0 /\ nReads[nextRead] = 0))
           /\ LostData
  BY <1>2, FailKeeps DEF Read
<1>3. CASE /\ ~(pendentReads = 0 \/ (lag = 0 /\ nReads[nextRead] = 0))
           /\ ~LostData
  <2>1. /\ nextRead' = ClockedRead /\ nextWrite' = ClockedWrite
        /\ lag' = 0 /\ error' = error
    BY <1>3 DEF Read
  <2>2. /\ ClockedRead \in Slots /\ ClockedWrite \in Slots
        /\ ClockedRead \in Nat
        /\ ClockedDone \in 0 .. Bandwidth
        /\ ClockedDone + nReads[ClockedRead] <= Bandwidth
    BY <1>3, ClockKeepsWindow DEF Slots
  <2>3. WriteAhead'
    BY <1>3, <2>1, ClockKeepsWindow DEF WriteAhead, Slot
  <2>4. CASE nReads[ClockedRead] = 0
    <3>1. /\ call' = <<"read", NoData>> /\ readsDone' = ClockedDone
          /\ UNCHANGED <<data, nReads, pendentReads>>
      BY <1>3, <2>4 DEF Read
    <3>2. InFlight' = InFlight
      BY <3>1 DEF InFlight
    <3>3. PendentExact'
      BY <3>1, <3>2, <1>0 DEF PendentExact
    <3>4. InWindow'
      BY <1>3, <2>1, <2>2, <3>1, ClockKeepsWindow DEF InWindow, Slot
    <3>5. TypeOK'
      BY <2>1, <2>2, <3>1, <1>0 DEF TypeOK, Slots
    <3> QED BY <2>3, <3>3, <3>4, <3>5 DEF IInv
  <2>5. CASE nReads[ClockedRead] # 0
    <3>1. /\ call' = <<"read", data[ClockedRead][ClockedDone + 1]>>
          /\ data' = [data EXCEPT ![ClockedRead][ClockedDone + 1] = NoData]
          /\ readsDone' = ClockedDone + 1
          /\ nReads' = [nReads EXCEPT ![ClockedRead] = @ - 1]
          /\ pendentReads' = pendentReads - 1
      BY <1>3, <2>5 DEF Read
    <3>2. /\ nReads[ClockedRead] \in 1 .. Bandwidth
          /\ ClockedDone + 1 \in 1 .. Bandwidth
      BY <2>2, <2>5, <1>0
    <3>3. /\ nReads' \in [Slots -> 0 .. Bandwidth]
          /\ nReads'[ClockedRead] = nReads[ClockedRead] - 1
      BY <3>1, <3>2, <2>2, <1>0
    <3>4. PendentExact' /\ pendentReads' \in Nat
      <4> DEFINE cell == <<ClockedRead, nReads[ClockedRead]>>
      <4>1. cell \in InFlight
        BY <3>2, <2>2 DEF InFlight
      <4>2. InFlight' = InFlight \ {cell}
        BY <3>1, <3>2, <2>2, <1>0 DEF InFlight
      <4> HIDE DEF cell
      <4>3. Cardinality(InFlight \ {cell}) = Cardinality(InFlight) - 1
        BY <4>1, <1>0, InFlightFinite, FS_RemoveElement
      <4>4. pendentReads # 0
        BY <1>3
      <4> QED BY <4>2, <4>3, <4>4, <3>1, <1>0 DEF PendentExact
    <3>5. InWindow'
      <4>1. \A k \in MaxLatency + 1 .. Capacity - 1 :
              nReads'[Slot(nextRead' + k)] = 0
        <5> TAKE k \in MaxLatency + 1 .. Capacity - 1
        <5>1. nReads[Slot(ClockedRead + k)] = 0
          BY <1>3, ClockKeepsWindow
        <5>2. ClockedRead + k \in Nat
          BY <2>2
        <5>3. Slot(ClockedRead + k) \in Slots
          BY <5>2, SlotType
        <5>4. Slot(ClockedRead + k) # ClockedRead
          BY <5>1, <2>5
        <5> QED BY <5>1, <5>3, <5>4, <3>1, <2>1, <1>0
      <4>2. readsDone' + nReads'[nextRead'] <= Bandwidth
        BY <2>1, <2>2, <3>1, <3>2, <3>3
      <4> QED BY <4>1, <4>2 DEF InWindow, Slot
    <3>6. /\ data' \in [Slots -> [1 .. Bandwidth -> Data \cup {NoData}]]
          /\ data[ClockedRead][ClockedDone + 1] \in Data \cup {NoData}
      BY <3>1, <3>2, <2>2, <1>0 DEF TypeOK
    <3>7. TypeOK'
      <4>1. call' \in {"read"} \X (Data \cup {NoData})
        BY <3>1, <3>6
      <4>2. readsDone' \in 0 .. Bandwidth
        BY <3>1, <3>2
      <4> QED BY <2>1, <2>2, <3>3, <3>4, <3>6, <4>1, <4>2, <1>0
              DEF TypeOK, Slots
    <3> QED BY <2>3, <3>4, <3>5, <3>7 DEF IInv
  <2> QED BY <2>4, <2>5
<1> QED BY <1>1, <1>2, <1>3

LEMMA TickKeeps ==
  ASSUME IInv, Tick
  PROVE  IInv'
<1>1. /\ UNCHANGED <<data, nReads, nextRead, nextWrite, readsDone,
                     pendentReads, call, error>>
      /\ lag' = lag + 1
  BY DEF Tick, ring
<1>2. InFlight' = InFlight
  BY <1>1 DEF InFlight
<1> QED BY <1>1, <1>2 DEF IInv, TypeOK, PendentExact, InWindow, WriteAhead

LEMMA NextKeeps == IInv /\ [Next]_vars => IInv'
<1> SUFFICES ASSUME IInv, [Next]_vars PROVE IInv'
  OBVIOUS
<1>1. CASE FixedLatency /\ \E d \in Data : Write(d)
  BY <1>1, WriteKeeps
<1>2. CASE \E d \in Data, latency \in WriteLatencies : WriteLat(d, latency)
  BY <1>2, WriteLatKeeps
<1>3. CASE Read
  BY <1>3, ReadKeeps
<1>4. CASE Tick
  BY <1>4, TickKeeps
<1>5. CASE UNCHANGED vars
  <2>1. UNCHANGED <<data, nReads, nextRead, nextWrite, readsDone,
                    pendentReads, lag, call, error>>
    BY <1>5 DEF vars, ring
  <2>2. InFlight' = InFlight
    BY <2>1 DEF InFlight
  <2> QED BY <2>1, <2>2 DEF IInv, TypeOK, PendentExact, InWindow, WriteAhead
<1> QED BY <1>1, <1>2, <1>3, <1>4, <1>5 DEF Next

-----------------------------------------------------------------------------
\* An empty signal, and one filled by setData for the first cycle of the
\* simulation: the objects put in are as many as pendentReads says.
LEMMA InitKeeps == (FirstCycle = 0 /\ Init) => IInv
<1> SUFFICES ASSUME FirstCycle = 0, Init PROVE IInv
  OBVIOUS
<1> USE SizeAssumption
<1>1. /\ nextRead = 0 /\ nextWrite = MaxLatency /\ readsDone = 0 /\ lag = 0
      /\ call = <<"none">> /\ error = "none"
  BY DEF Init
<1>2. /\ \A k \in 0 .. Capacity - 1 : Slot(nextRead + k) = k
      /\ nextRead \in Slots /\ nextWrite \in Slots
  BY <1>1, SlotOnce DEF Slots
<1>3. WriteAhead
  BY <1>1, <1>2 DEF WriteAhead
<1>4. CASE Empty
  <2>1. /\ data \in [Slots -> [1 .. Bandwidth -> Data \cup {NoData}]]
        /\ nReads = [s \in Slots |-> 0] /\ pendentReads = 0
    BY <1>4 DEF Empty
  <2>2. InFlight = {}
    BY <2>1 DEF InFlight
  <2>3. PendentExact
    BY <2>1, <2>2, FS_EmptySet DEF PendentExact
  <2>4. InWindow
    BY <1>1, <1>2, <2>1 DEF InWindow, Slots
  <2>5. TypeOK
    BY <1>1, <1>2, <2>1 DEF TypeOK
  <2> QED BY <1>3, <2>3, <2>4, <2>5 DEF IInv
<1>5. CASE Filled
  <2>1. \A s \in Slots : FromFirst(s) = s
    <3>1. Slot(FirstCycle) = 0
      BY SlotOnce
    <3>2. \A s \in Slots : s + Capacity - 0 \in Capacity .. 2 * Capacity - 1
      BY DEF Slots
    <3>3. \A s \in Slots : Slot(s + Capacity - 0) = s
      BY <3>2, SlotOnce DEF Slots
    <3> QED BY <3>1, <3>3 DEF FromFirst
  <2>2. /\ data \in [Slots -> [1 .. Bandwidth -> Data \cup {NoData}]]
        /\ nReads = [s \in Slots |-> IF s < MaxLatency THEN Bandwidth ELSE 0]
        /\ pendentReads = MaxLatency * Bandwidth
    BY <1>5, <2>1 DEF Filled
  <2>3. PendentExact
    <3>1. InFlight = (0 .. MaxLatency - 1) \X (1 .. Bandwidth)
      BY <2>2 DEF InFlight, Slots
    <3>2. /\ IsFiniteSet(0 .. MaxLatency - 1) /\ IsFiniteSet(1 .. Bandwidth)
          /\ Cardinality(0 .. MaxLatency - 1) = MaxLatency
          /\ Cardinality(1 .. Bandwidth) = Bandwidth
      BY FS_Interval
    <3> DEFINE S == 0 .. MaxLatency - 1
               T == 1 .. Bandwidth
    <3>3. /\ IsFiniteSet(S) /\ Cardinality(S) = MaxLatency
          /\ IsFiniteSet(T) /\ Cardinality(T) = Bandwidth
          /\ InFlight = S \X T
      BY <3>1, <3>2
    <3> HIDE DEF S, T
    <3>4. Cardinality(S \X T) = Cardinality(S) * Cardinality(T)
      BY <3>3, FS_Product
    <3> QED BY <2>2, <3>3, <3>4 DEF PendentExact
  <2>4. InWindow
    BY <1>1, <1>2, <2>2 DEF InWindow, Slots
  <2>5. MaxLatency * Bandwidth \in Nat
    OBVIOUS
  <2>6. TypeOK
    BY <1>1, <1>2, <2>2, <2>5 DEF TypeOK
  <2> QED BY <1>3, <2>3, <2>4, <2>6 DEF IInv
<1> QED BY <1>4, <1>5 DEF Init

LEMMA Invariance ==
  ASSUME FirstCycle = 0
  PROVE  Spec => []IInv
<1>1. Init => IInv
  BY InitKeeps
<1>2. IInv /\ [Next]_vars => IInv'
  BY NextKeeps
<1> QED BY <1>1, <1>2, PTL DEF Spec

\* The theorems assume what every box of the simulator does that calls setData
\* (another first cycle breaks the signal).
-----------------------------------------------------------------------------
\* The ring of every signal keeps its type.
THEOREM SignalType ==
  ASSUME FirstCycle = 0
  PROVE  Spec => []TypeOK
<1>1. IInv => TypeOK
  BY DEF IInv
<1> QED BY <1>1, Invariance, PTL

\* pendentReads counts the objects in flight, whatever the latency, the
\* bandwidth and the capacity and however the two boxes interleave their calls
\* (Signal::read, Signal::write, clock).
THEOREM CounterExact ==
  ASSUME FirstCycle = 0
  PROVE  Spec => []PendentExact
<1>1. IInv => PendentExact
  BY DEF IInv
<1> QED BY <1>1, Invariance, PTL

\* What is in flight lies in the MaxLatency + 1 slots from the read point on, and
\* a slot is never filled while it is still read (writeGenFast, readGenFast).
THEOREM UnreadInWindow ==
  ASSUME FirstCycle = 0
  PROVE  Spec => []InWindow
<1>1. IInv => InWindow
  BY DEF IInv
<1> QED BY <1>1, Invariance, PTL

-----------------------------------------------------------------------------
(***************************************************************************)
(* The ring implements the delay line.                                     *)
(***************************************************************************)

\* The objects a cell further on, in a ring that was brought up to its cycle.
CellOf(content, reads, read, done, k) ==
  LET s == Slot(read + k)
  IN  [i \in 1 .. reads[s] |-> content[s][(IF k = 0 THEN done ELSE 0) + i]]
Ahead(k) == CellOf(data, nReads, ClockedRead, ClockedDone, k)

LEMMA DistanceUnique ==
  ASSUME NEW r \in Slots, NEW k \in 1 .. MaxLatency
  PROVE  Distance(Slot(r + k), r) = k
<1>1. \A j \in 1 .. MaxLatency : j \in 0 .. Capacity - 1
  BY SizeAssumption
<1>2. \A j \in 1 .. MaxLatency : Slot(r + k) = Slot(r + j) => j = k
  BY <1>1, SlotDistinct
<1> QED BY <1>2 DEF Distance

\* A slot has something to be read or nothing.
LEMMA WaitingEmpty ==
  ASSUME TypeOK, NEW k \in Nat
  PROVE  /\ Slot(nextRead + k) \in Slots
         /\ Waiting(k) = <<>> <=> nReads[Slot(nextRead + k)] = 0
<1>1. nextRead + k \in Nat
  BY SizeAssumption DEF TypeOK, Slots
<1>2. Slot(nextRead + k) \in Slots
  BY <1>1, SlotType
<1>3. nReads[Slot(nextRead + k)] \in Nat
  BY <1>2, SizeAssumption DEF TypeOK
<1>4. \A n \in Nat : \A f : [i \in 1 .. n |-> f[i]] = <<>> <=> n = 0
  OBVIOUS
<1> QED BY <1>2, <1>3 DEF Waiting

LEMMA EmptyCell ==
  ASSUME NEW c, NEW m
  PROVE  [i \in 1 .. 0 |-> c[m + i]] = <<>>
<1>1. 1 .. 0 = {}
  OBVIOUS
<1> QED BY <1>1

LEMMA OverdueType == Overdue \in BOOLEAN /\ Overdue' \in BOOLEAN
BY DEF Overdue

\* clock reports lost data exactly when an object of the delay line is overdue.
LEMMA LostIsOverdue ==
  ASSUME IInv
  PROVE  LostData <=> Overdue
<1> USE SizeAssumption
<1>1. TypeOK /\ PendentExact /\ InWindow /\ lag \in Nat
  BY DEF IInv, TypeOK
<1>2. \A k \in Nat : /\ Slot(nextRead + k) \in Slots
                     /\ Waiting(k) = <<>> <=> nReads[Slot(nextRead + k)] = 0
  BY <1>1, WaitingEmpty
<1>3. \A s \in Slots : nReads[s] \in Nat
  BY <1>1 DEF TypeOK
<1>4. CASE pendentReads = 0
  <2>1. \A s \in Slots : nReads[s] = 0
    BY <1>1, <1>4, NothingInFlight
  <2>2. ~LostData
    BY <1>4 DEF LostData
  <2>3. ~Overdue
    BY <2>1, <1>2 DEF Overdue
  <2> QED BY <2>2, <2>3
<1>5. CASE pendentReads # 0 /\ lag <= MaxLatency
  <2>1. pendentReads > 0
    BY <1>5, <1>1 DEF TypeOK
  <2>2. LostData <=> \E i \in 0 .. lag - 1 : nReads[Slot(nextRead + i)] > 0
    BY <1>5, <2>1 DEF LostData
  <2>3. Overdue <=> \E i \in 0 .. lag - 1 : Waiting(i) # <<>>
    BY <1>1, <1>5 DEF Overdue
  <2>4. \A i \in 0 .. lag - 1 : nReads[Slot(nextRead + i)] > 0 <=> Waiting(i) # <<>>
    BY <1>1, <1>2, <1>3
  <2> QED BY <2>2, <2>3, <2>4
<1>6. CASE pendentReads # 0 /\ lag > MaxLatency
  <2>1. LostData
    BY <1>6, <1>1 DEF LostData, TypeOK
  <2>2. Overdue <=> \E k \in 0 .. MaxLatency : Waiting(k) # <<>>
    BY <1>1, <1>6 DEF Overdue
  <2>3. ASSUME \A k \in 0 .. MaxLatency : Waiting(k) = <<>>
        PROVE  FALSE
    <3>1. \A k \in 0 .. Capacity - 1 : nReads[Slot(nextRead + k)] = 0
      BY <2>3, <1>1, <1>2 DEF InWindow
    <3>2. ASSUME NEW s \in Slots PROVE \E k \in 0 .. Capacity - 1 : s = Slot(nextRead + k)
      <4>1. /\ nextRead \in 0 .. Capacity - 1 /\ s \in 0 .. Capacity - 1
        BY <1>1 DEF TypeOK, Slots
      <4>2. CASE s >= nextRead
        <5>1. s - nextRead \in 0 .. Capacity - 1 /\ nextRead + (s - nextRead) = s
          BY <4>1, <4>2
        <5>2. Slot(s) = s
          BY <4>1, SlotOnce
        <5> QED BY <5>1, <5>2
      <4>3. CASE s < nextRead
        <5>1. /\ s + Capacity - nextRead \in 0 .. Capacity - 1
              /\ nextRead + (s + Capacity - nextRead) = s + Capacity
              /\ s + Capacity \in 0 .. 2 * Capacity - 1
          BY <4>1, <4>3
        <5>2. Slot(s + Capacity) = s
          BY <4>1, <5>1, SlotOnce
        <5> QED BY <5>1, <5>2
      <4> QED BY <4>1, <4>2, <4>3
    <3>3. \A s \in Slots : nReads[s] = 0
      BY <3>1, <3>2
    <3>4. InFlight = {}
      BY <3>3 DEF InFlight
    <3> QED BY <3>4, <1>1, <1>6, FS_EmptySet DEF PendentExact
  <2> QED BY <2>1, <2>2, <2>3
<1> QED BY <1>1, <1>4, <1>5, <1>6

\* When nothing was lost, the line is what lies ahead of the read point of the
\* current cycle.
LEMMA LineIsAhead ==
  ASSUME IInv, ~LostData, NEW k \in 0 .. MaxLatency
  PROVE  Line[k] = Ahead(k)
<1> USE SizeAssumption
<1>1. TypeOK /\ lag \in Nat /\ nextRead \in Nat /\ k \in Nat
  BY DEF IInv, TypeOK, Slots
<1>a. \A s \in Slots : nReads[s] \in Nat
  BY <1>1 DEF TypeOK
<1>2. Slot(ClockedRead + k) = Slot(nextRead + (lag + k))
  <2>1. nextRead + lag \in Nat
    BY <1>1
  <2>2. Slot(Slot(nextRead + lag) + k) = Slot((nextRead + lag) + k)
    BY <2>1, <1>1, SlotPlus
  <2>3. (nextRead + lag) + k = nextRead + (lag + k)
    BY <1>1
  <2> QED BY <2>2, <2>3 DEF ClockedRead
<1>3. CASE lag + k <= MaxLatency
  <2>1. (IF lag + k = 0 THEN readsDone ELSE 0) = (IF k = 0 THEN ClockedDone ELSE 0)
    BY <1>1 DEF ClockedDone
  <2> QED BY <1>2, <1>3, <2>1 DEF Line, Waiting, Ahead, CellOf
<1>4. CASE lag + k > MaxLatency
  <2>1. nReads[Slot(ClockedRead + k)] = 0
    <3>1. CASE pendentReads = 0
      <4>1. Slot(nextRead + (lag + k)) \in Slots
        BY <1>1, SlotType
      <4> QED BY <3>1, <4>1, <1>2, NothingInFlight DEF IInv
    <3>2. CASE pendentReads # 0
      <4>1. /\ lag <= MaxLatency
            /\ \A i \in 0 .. lag - 1 : ~(nReads[Slot(nextRead + i)] > 0)
        <5>1. pendentReads > 0
          BY <3>2, <1>1 DEF TypeOK
        <5> QED BY <5>1, Zenon DEF LostData
      <4>2. CASE lag + k < Capacity
        <5>1. lag + k \in MaxLatency + 1 .. Capacity - 1
          BY <1>4, <4>2, <1>1
        <5> QED BY <5>1, <1>2 DEF IInv, InWindow
      <4>3. CASE lag + k >= Capacity
        <5> DEFINE j == lag + k - Capacity
        <5>1. j \in 0 .. lag - 1 /\ nextRead + j \in Nat
          BY <4>1, <4>3, <1>1
        <5>2. (nextRead + j) + Capacity = nextRead + (lag + k)
          BY <1>1
        <5>3. Slot(nextRead + (lag + k)) = Slot(nextRead + j)
          BY <5>1, <5>2, SlotTurn
        <5>4. Slot(nextRead + j) \in Slots
          BY <5>1, SlotType
        <5>5. nReads[Slot(nextRead + j)] \in Nat
          BY <5>4, <1>a
        <5> QED BY <5>1, <5>3, <5>5, <4>1, <1>2
      <4> QED BY <4>2, <4>3, <1>1
    <3> QED BY <3>1, <3>2
  <2>2. ~(lag + k <= MaxLatency)
    BY <1>1, <1>4
  <2> QED BY <2>1, <2>2 DEF Line, Ahead, CellOf
<1> QED BY <1>1, <1>3, <1>4

\* An access that brings the ring up to its cycle.
LEMMA MovedLine ==
  ASSUME lag' = 0, nextRead' = ClockedRead
  PROVE  /\ Line' = [k \in 0 .. MaxLatency |->
                       CellOf(data', nReads', ClockedRead, readsDone', k)]
         /\ ~Overdue'
<1>1. \A k \in 0 .. MaxLatency : lag' + k = k
  BY SizeAssumption
<1>2. \A k \in 0 .. MaxLatency : ~(k < lag')
  BY SizeAssumption
<1> QED BY <1>1, <1>2 DEF Line, Overdue, Waiting, CellOf, Slot

\* The three ways in which the delay line stops.
LEMMA FailIs ==
  ASSUME NEW why, Fail(why)
  PROVE  /\ error' = why /\ Line' = Line /\ Overdue' = Overdue /\ call' = call
         /\ Distance(nextWrite, nextRead)' = Distance(nextWrite, nextRead)
<1>1. /\ UNCHANGED <<data, nReads, nextRead, nextWrite, readsDone, lag, call>>
      /\ error' = why
  BY DEF Fail, ring
<1> QED BY <1>1 DEF Line, Overdue, Distance, Waiting, Slot

\* A write brings its object to the end of the cell it goes to.
LEMMA InsertArrives ==
  ASSUME IInv, ~LostData, Running, NEW d \in Data, NEW k \in 1 .. MaxLatency,
         Insert(d, Slot(ClockedRead + k))
  PROVE  /\ ~Overdue /\ Overdue' = Overdue
         /\ IF Len(Line[k]) = Bandwidth
            THEN Fail("bandwidth")
            ELSE /\ Line' = [Line EXCEPT ![k] = Append(@, d)]
                 /\ Distance(nextWrite, nextRead)' = k
                 /\ call' = <<"write", d>> /\ error' = error
<1> USE SizeAssumption
<1> DEFINE s == Slot(ClockedRead + k)
<1>1. /\ data \in [Slots -> [1 .. Bandwidth -> Data \cup {NoData}]]
      /\ nReads \in [Slots -> 0 .. Bandwidth]
      /\ ClockedRead \in Slots /\ ClockedRead \in Nat
  BY ClockKeepsWindow DEF IInv, TypeOK, Slots
<1>2. s \in Slots /\ nReads[s] \in 0 .. Bandwidth
  <2>1. ClockedRead + k \in Nat
    BY <1>1
  <2> QED BY <2>1, <1>1, SlotType
<1>3. Line[k] = [i \in 1 .. nReads[s] |-> data[s][i]]
  <2>1. k \in 0 .. MaxLatency /\ \A i \in 1 .. nReads[s] : 0 + i = i
    BY <1>2
  <2>2. Line[k] = [i \in 1 .. nReads[s] |-> data[s][0 + i]]
    BY <2>1, LineIsAhead DEF Ahead, CellOf
  <2> QED BY <2>1, <2>2
<1>4. Len(Line[k]) = nReads[s]
  BY <1>2, <1>3
<1>5. ~Overdue
  BY LostIsOverdue
<1>6. CASE nReads[s] = Bandwidth
  <2>1. Fail("bandwidth")
    BY <1>6 DEF Insert
  <2> QED BY <2>1, <1>4, <1>5, <1>6, FailIs, OverdueType
<1>7. CASE nReads[s] # Bandwidth
  <2>1. /\ data' = [data EXCEPT ![s][nReads[s] + 1] = d]
        /\ nReads' = [nReads EXCEPT ![s] = @ + 1]
        /\ nextRead' = ClockedRead /\ nextWrite' = s
        /\ readsDone' = ClockedDone /\ lag' = 0
        /\ call' = <<"write", d>> /\ error' = error
    BY <1>7 DEF Insert
  <2>2. /\ Line' = [j \in 0 .. MaxLatency |->
                      CellOf(data', nReads', ClockedRead, ClockedDone, j)]
        /\ Overdue' = Overdue
    BY <2>1, <1>5, MovedLine, OverdueType
  <2>3. Distance(nextWrite, nextRead)' = k
    <3>1. Distance(s, ClockedRead) = k
      BY <1>1, DistanceUnique
    <3> QED BY <2>1, <3>1 DEF Distance, Slot
  <2>4. nReads[s] \in 0 .. Bandwidth - 1
    BY <1>2, <1>7
  <2>5. ASSUME NEW j \in 0 .. MaxLatency
        PROVE  Line'[j] = [Line EXCEPT ![k] = Append(@, d)][j]
    <3>1. Line'[j] = CellOf(data', nReads', ClockedRead, ClockedDone, j)
      BY <2>2
    <3>2. CASE j = k
      <4>1. Line'[j] = [i \in 1 .. nReads[s] + 1 |-> data'[s][i]]
        <5>1. nReads'[s] = nReads[s] + 1
          BY <2>1, <1>1, <1>2
        <5>2. ~(k = 0) /\ \A i \in 1 .. nReads[s] + 1 : 0 + i = i
          BY <2>4
        <5>3. CellOf(data', nReads', ClockedRead, ClockedDone, k)
                = [i \in 1 .. nReads'[s] |-> data'[s][0 + i]]
          BY <5>2 DEF CellOf
        <5> QED BY <3>1, <3>2, <5>1, <5>2, <5>3
      <4>2. \A i \in 1 .. nReads[s] + 1 :
              data'[s][i] = IF i = nReads[s] + 1 THEN d ELSE data[s][i]
        <5> DEFINE n == nReads[s]
                   c == data[s]
        <5>1. /\ data'[s] = [c EXCEPT ![n + 1] = d]
              /\ n \in 0 .. Bandwidth - 1 /\ DOMAIN c = 1 .. Bandwidth
          BY <2>1, <1>1, <1>2, <2>4
        <5> HIDE DEF n, c
        <5>2. \A i \in 1 .. n + 1 : i \in DOMAIN c
          BY <5>1
        <5>3. \A i \in 1 .. n + 1 : [c EXCEPT ![n + 1] = d][i] = IF i = n + 1 THEN d ELSE c[i]
          BY <5>2
        <5> QED BY <5>1, <5>3 DEF n, c
      <4>3. Append(Line[k], d) = [i \in 1 .. nReads[s] + 1 |->
                                    IF i = nReads[s] + 1 THEN d ELSE data[s][i]]
        <5> DEFINE n == nReads[s]
                   c == data[s]
        <5>1. n \in Nat /\ Line[k] = [i \in 1 .. n |-> c[i]]
          BY <1>3, <2>4
        <5> HIDE DEF n, c
        <5>2. Append([i \in 1 .. n |-> c[i]], d)
                = [i \in 1 .. n + 1 |-> IF i = n + 1 THEN d ELSE c[i]]
          BY <5>1
        <5> QED BY <5>1, <5>2 DEF n, c
      <4>4. [Line EXCEPT ![k] = Append(@, d)][j] = Append(Line[k], d)
        BY <3>2 DEF Line
      <4>5. [i \in 1 .. nReads[s] + 1 |-> data'[s][i]] = Append(Line[k], d)
        BY <4>2, <4>3
      <4> QED BY <4>1, <4>4, <4>5
    <3>3. CASE j # k
      <4> DEFINE t == Slot(ClockedRead + j)
      <4>1. t \in Slots /\ t # s
        <5>1. j \in 0 .. Capacity - 1 /\ k \in 0 .. Capacity - 1 /\ ClockedRead + j \in Nat
          BY <1>1
        <5> QED BY <5>1, <1>1, <3>3, SlotType, SlotDistinct
      <4>2. data'[t] = data[t] /\ nReads'[t] = nReads[t]
        BY <4>1, <2>1, <1>1, <1>2
      <4>3. CellOf(data', nReads', ClockedRead, ClockedDone, j) = Ahead(j)
        BY <4>2 DEF Ahead, CellOf
      <4>4. Line[j] = Ahead(j)
        BY LineIsAhead
      <4>5. [Line EXCEPT ![k] = Append(@, d)][j] = Line[j]
        BY <3>3 DEF Line
      <4> QED BY <3>1, <4>3, <4>4, <4>5
    <3> QED BY <3>2, <3>3
  <2>6. Line' = [Line EXCEPT ![k] = Append(@, d)]
    BY <2>2, <2>5 DEF Line
  <2> QED BY <2>1, <2>2, <2>3, <2>6, <1>4, <1>5, <1>7
<1> QED BY <1>6, <1>7

\* The distance of the write point does not change when the ring is moved.
LEMMA DistanceKept ==
  ASSUME IInv
  PROVE  \E k \in 1 .. MaxLatency :
           /\ Distance(nextWrite, nextRead) = k
           /\ ClockedWrite = Slot(ClockedRead + k)
<1>1. PICK k \in 1 .. MaxLatency : nextWrite = Slot(nextRead + k)
  BY DEF IInv, WriteAhead
<1>2. /\ nextRead \in Slots /\ nextRead \in Nat /\ lag \in Nat /\ k \in Nat
      /\ nextRead + k \in Nat /\ nextRead + lag \in Nat
  BY SizeAssumption DEF IInv, TypeOK, Slots
<1>3. Distance(nextWrite, nextRead) = k
  BY <1>1, <1>2, DistanceUnique
<1>4. ClockedWrite = Slot((nextRead + k) + lag)
  BY <1>1, <1>2, SlotPlus DEF ClockedWrite
<1>5. Slot(ClockedRead + k) = Slot((nextRead + lag) + k)
  BY <1>2, SlotPlus DEF ClockedRead
<1>6. (nextRead + k) + lag = (nextRead + lag) + k
  BY <1>2
<1> QED BY <1>3, <1>4, <1>5, <1>6

LEMMA FirstAndRest ==
  ASSUME NEW n \in Nat, n > 0, NEW c, NEW m \in Nat
  PROVE  /\ Head([i \in 1 .. n |-> c[m + i]]) = c[m + 1]
         /\ Tail([i \in 1 .. n |-> c[m + i]]) = [i \in 1 .. n - 1 |-> c[m + 1 + i]]
<1> DEFINE s == [i \in 1 .. n |-> c[m + i]]
<1>1. Len(s) = n /\ s # <<>> /\ s[1] = c[m + 1]
  OBVIOUS
<1>2. Head(s) = s[1]
  BY <1>1 DEF Head
<1>3. Tail(s) = [i \in 1 .. n - 1 |-> s[i + 1]]
  BY <1>1 DEF Tail
<1>4. \A i \in 1 .. n - 1 : s[i + 1] = c[m + 1 + i]
  <2> TAKE i \in 1 .. n - 1
  <2>1. i + 1 \in 1 .. n /\ m + (i + 1) = m + 1 + i
    OBVIOUS
  <2> QED BY <2>1
<1> HIDE DEF s
<1>5. Tail(s) = [i \in 1 .. n - 1 |-> c[m + 1 + i]]
  BY <1>3, <1>4
<1> QED BY <1>1, <1>2, <1>5 DEF s

LEMMA LineDomain == DOMAIN Line = 0 .. MaxLatency /\ Line = [k \in 0 .. MaxLatency |-> Line[k]]
  BY DEF Line

\* A read that moves the ring finds the objects of the line and takes the first.
LEMMA ReadTakes ==
  ASSUME IInv, Read, ~LostData,
         ~(pendentReads = 0 \/ (lag = 0 /\ nReads[nextRead] = 0))
  PROVE  /\ ~Overdue'
         /\ Distance(nextWrite, nextRead)' = Distance(nextWrite, nextRead)
         /\ error' = error
         /\ IF Line[0] = <<>>
            THEN call' = <<"read", NoData>> /\ Line' = Line
            ELSE /\ call' = <<"read", Head(Line[0])>>
                 /\ Line' = [Line EXCEPT ![0] = Tail(@)]
<1> USE SizeAssumption
<1> DEFINE r == ClockedRead
           n == nReads[r]
           c == data[r]
           done == ClockedDone
<1>1. /\ data \in [Slots -> [1 .. Bandwidth -> Data \cup {NoData}]]
      /\ nReads \in [Slots -> 0 .. Bandwidth]
      /\ r \in Slots /\ r \in Nat /\ n \in 0 .. Bandwidth /\ done \in 0 .. Bandwidth
      /\ done + n <= Bandwidth
  BY ClockKeepsWindow DEF IInv, TypeOK, Slots
<1>2. Slot(r + 0) = r
  BY <1>1, SlotOnce DEF Slots
<1>3. Line[0] = [i \in 1 .. n |-> c[done + i]]
  BY <1>2, LineIsAhead DEF Ahead, CellOf
<1>4. Line[0] = <<>> <=> n = 0
  <2>1. \A m \in Nat : \A f : [i \in 1 .. m |-> f[done + i]] = <<>> <=> m = 0
    OBVIOUS
  <2> QED BY <2>1, <1>1, <1>3
<1>5. nextRead' = r /\ nextWrite' = ClockedWrite /\ lag' = 0
  BY DEF Read
<1>6. /\ Line' = [k \in 0 .. MaxLatency |-> CellOf(data', nReads', r, readsDone', k)]
      /\ ~Overdue'
  BY <1>5, MovedLine
<1>7. Distance(nextWrite, nextRead)' = Distance(nextWrite, nextRead)
  <2>1. PICK k \in 1 .. MaxLatency : /\ Distance(nextWrite, nextRead) = k
                                     /\ ClockedWrite = Slot(r + k)
    BY DistanceKept
  <2>2. Distance(ClockedWrite, r) = k
    BY <2>1, <1>1, DistanceUnique
  <2> QED BY <2>1, <2>2, <1>5 DEF Distance, Slot
<1>8. CASE n = 0
  <2>1. /\ call' = <<"read", NoData>> /\ readsDone' = done
        /\ UNCHANGED <<data, nReads, pendentReads, error>>
    BY <1>8 DEF Read
  <2>2. \A k \in 0 .. MaxLatency : Line'[k] = Line[k]
    BY <2>1, <1>6, LineIsAhead DEF Ahead
  <2> QED BY <2>1, <2>2, <1>4, <1>6, <1>7, <1>8 DEF Line
<1>9. CASE n # 0
  <2>1. /\ call' = <<"read", c[done + 1]>>
        /\ data' = [data EXCEPT ![r][done + 1] = NoData]
        /\ nReads' = [nReads EXCEPT ![r] = @ - 1]
        /\ readsDone' = done + 1 /\ error' = error
    BY <1>9 DEF Read
  <2>2. n - 1 \in Nat /\ done \in Nat
    BY <1>1, <1>9
  <2>3. /\ Head(Line[0]) = c[done + 1]
        /\ Tail(Line[0]) = [i \in 1 .. n - 1 |-> c[done + 1 + i]]
    <3>1. n \in Nat /\ n > 0
      BY <1>1, <1>9
    <3> HIDE DEF n, c, done
    <3> QED BY <3>1, <2>2, <1>3, FirstAndRest
  <2>5. Line'[0] = Tail(Line[0])
    <3>1. Line'[0] = [i \in 1 .. nReads'[r] |-> data'[r][(done + 1) + i]]
      BY <1>2, <1>6, <2>1 DEF CellOf
    <3>2. nReads'[r] = n - 1
      BY <1>1, <2>1
    <3>3. \A i \in 1 .. n - 1 : data'[r][(done + 1) + i] = c[done + 1 + i]
      <4>1. data'[r] = [c EXCEPT ![done + 1] = NoData]
        BY <1>1, <2>1
      <4> HIDE DEF n, c
      <4>2. \A i \in 1 .. n - 1 : (done + 1) + i \in 1 .. Bandwidth /\ (done + 1) + i # done + 1
        BY <1>1, <2>2
      <4>3. DOMAIN c = 1 .. Bandwidth
        BY <1>1 DEF c
      <4> QED BY <4>1, <4>2, <4>3
    <3> QED BY <3>1, <3>2, <3>3, <2>3
  <2>6. ASSUME NEW k \in 1 .. MaxLatency PROVE Line'[k] = Line[k]
    <3> DEFINE t == Slot(r + k)
    <3>1. t \in Slots /\ t # r
      <4>1. k \in 0 .. Capacity - 1 /\ 0 \in 0 .. Capacity - 1 /\ r + k \in Nat /\ k # 0
        BY <1>1
      <4> QED BY <4>1, <1>1, <1>2, SlotType, SlotDistinct
    <3>2. data'[t] = data[t] /\ nReads'[t] = nReads[t]
      BY <3>1, <2>1, <1>1
    <3>3. ~(k = 0) /\ k \in 0 .. MaxLatency
      OBVIOUS
    <3>4. CellOf(data', nReads', r, readsDone', k) = Ahead(k)
      BY <3>2, <3>3 DEF Ahead, CellOf
    <3> QED BY <3>3, <3>4, <1>6, LineIsAhead
  <2>7. Line' = [Line EXCEPT ![0] = Tail(@)]
    <3>1. \A k \in 0 .. MaxLatency : Line'[k] = [Line EXCEPT ![0] = Tail(@)][k]
      BY <2>5, <2>6, LineDomain
    <3> QED BY <3>1, <1>6, LineDomain
  <2> QED BY <2>1, <2>3, <2>7, <1>4, <1>6, <1>7, <1>9
<1> QED BY <1>8, <1>9

\* The initial contents: none, or those put in by setData from cycle 0 on.
LEMMA LineInit ==
  ASSUME FirstCycle = 0, Init
  PROVE  DL!Init
<1> USE SizeAssumption
<1>1. /\ nextRead = 0 /\ nextWrite = MaxLatency /\ readsDone = 0 /\ lag = 0
      /\ call = <<"none">> /\ error = "none"
  BY DEF Init
<1>2. /\ \A k \in 0 .. Capacity - 1 : Slot(nextRead + k) = k
      /\ 0 \in Slots /\ MaxLatency \in 1 .. MaxLatency
  BY <1>1, SlotOnce DEF Slots
<1>3. Distance(nextWrite, nextRead) = MaxLatency
  <2>1. Slot(0 + MaxLatency) = MaxLatency
    BY <1>1, <1>2
  <2>2. Distance(Slot(0 + MaxLatency), 0) = MaxLatency
    BY <1>2, DistanceUnique
  <2> QED BY <2>1, <2>2, <1>1
<1>4. Overdue = FALSE
  BY <1>1, OverdueType DEF Overdue
<1>5. \A k \in 0 .. MaxLatency : Line[k] = [i \in 1 .. nReads[k] |-> data[k][0 + i]]
  <2> TAKE k \in 0 .. MaxLatency
  <2>1. 0 + k = k /\ Slot(nextRead + k) = k /\ lag + k <= MaxLatency
    BY <1>1, <1>2
  <2>2. Line[k] = Waiting(k)
    BY <2>1, <1>1 DEF Line
  <2>3. (IF k = 0 THEN readsDone ELSE 0) = 0
    BY <1>1
  <2> QED BY <2>1, <2>2, <2>3 DEF Waiting
<1>6. CASE Empty
  <2>1. \A k \in 0 .. MaxLatency : nReads[k] = 0
    BY <1>6 DEF Empty, Slots
  <2>2. ASSUME NEW k \in 0 .. MaxLatency PROVE Line[k] = <<>>
    <3>1. Line[k] = [i \in 1 .. 0 |-> data[k][0 + i]]
      BY <1>5, <2>1
    <3> QED BY <3>1, EmptyCell
  <2>3. Line = [k \in 0 .. MaxLatency |-> <<>>]
    BY <2>2, LineDomain
  <2> QED BY <2>3, <1>1, <1>3, <1>4 DEF DL!Init, DL!Delays
<1>7. CASE Filled
  <2>1. \A s \in Slots : FromFirst(s) = s
    <3>1. Slot(FirstCycle) = 0
      BY SlotOnce
    <3>2. \A s \in Slots : s + Capacity - 0 \in Capacity .. 2 * Capacity - 1
      BY DEF Slots
    <3>3. \A s \in Slots : Slot(s + Capacity - 0) = s
      BY <3>2, SlotOnce DEF Slots
    <3> QED BY <3>1, <3>3 DEF FromFirst
  <2>2. /\ data \in [Slots -> [1 .. Bandwidth -> Data \cup {NoData}]]
        /\ \A s \in Slots, i \in 1 .. Bandwidth : s < MaxLatency => data[s][i] # NoData
        /\ nReads = [s \in Slots |-> IF s < MaxLatency THEN Bandwidth ELSE 0]
    <3>1. /\ data \in [Slots -> [1 .. Bandwidth -> Data \cup {NoData}]]
          /\ \A s \in Slots, i \in 1 .. Bandwidth : (data[s][i] = NoData) <=> (s >= MaxLatency)
          /\ nReads = [s \in Slots |-> IF s < MaxLatency THEN Bandwidth ELSE 0]
      BY <1>7, <2>1 DEF Filled
    <3> QED BY <3>1 DEF Slots
  <2> DEFINE f == [n \in 1 .. MaxLatency |-> [i \in 1 .. Bandwidth |-> data[n - 1][i]]]
  <2>3. f \in [1 .. MaxLatency -> [1 .. Bandwidth -> Data]]
    <3>1. \A n \in 1 .. MaxLatency : n - 1 \in Slots /\ n - 1 < MaxLatency
      BY DEF Slots
    <3>2. \A n \in 1 .. MaxLatency, i \in 1 .. Bandwidth : data[n - 1][i] \in Data
      BY <3>1, <2>2
    <3> QED BY <3>2
  <2>4. ASSUME NEW k \in 0 .. MaxLatency
        PROVE  Line[k] = IF k < MaxLatency THEN f[k + 1] ELSE <<>>
    <3>1. k \in Slots
      BY DEF Slots
    <3>2. CASE k < MaxLatency
      <4>1. nReads[k] = Bandwidth
        BY <3>1, <3>2, <2>2
      <4>2. k + 1 \in 1 .. MaxLatency /\ (k + 1) - 1 = k /\ \A i \in 1 .. Bandwidth : 0 + i = i
        BY <3>2
      <4> QED BY <3>2, <4>1, <4>2, <1>5
    <3>3. CASE ~(k < MaxLatency)
      <4>1. nReads[k] = 0
        BY <3>1, <3>3, <2>2
      <4>2. Line[k] = [i \in 1 .. 0 |-> data[k][0 + i]]
        BY <4>1, <1>5
      <4>3. Line[k] = <<>>
        BY <4>2, EmptyCell
      <4> QED BY <3>3, <4>3
    <3> QED BY <3>2, <3>3
  <2> HIDE DEF f
  <2>5. Line = [k \in 0 .. MaxLatency |-> IF k < MaxLatency THEN f[k + 1] ELSE <<>>]
    BY <2>4, LineDomain
  <2>6. Line \in { [k \in 0 .. MaxLatency |-> IF k < MaxLatency THEN s[k + 1] ELSE <<>>] :
                   s \in [1 .. MaxLatency -> [1 .. Bandwidth -> Data]] }
    BY <2>3, <2>5
  <2> QED BY <2>6, <1>1, <1>3, <1>4 DEF DL!Init, DL!Delays
<1> QED BY <1>6, <1>7 DEF Init

\* An assertion that fires in the ring fires in the delay line.
LEMMA LineLost ==
  ASSUME Running, Overdue, Fail("lost")
  PROVE  (\A d, k : DL!Write(d, k)) /\ DL!Read
BY FailIs DEF DL!Write, DL!Read, DL!Running, DL!Idle, Running

LEMMA LineInsert ==
  ASSUME IInv, ~LostData, Running, NEW d \in Data, NEW k \in 1 .. MaxLatency,
         Insert(d, Slot(ClockedRead + k))
  PROVE  DL!Write(d, k)
<1>1. /\ ~Overdue /\ Overdue' = Overdue
      /\ IF Len(Line[k]) = Bandwidth
         THEN Fail("bandwidth")
         ELSE /\ Line' = [Line EXCEPT ![k] = Append(@, d)]
              /\ Distance(nextWrite, nextRead)' = k
              /\ call' = <<"write", d>> /\ error' = error
  BY InsertArrives
<1>2. ~(k > MaxLatency)
  BY SizeAssumption
<1>3. DL!Arrive(d, k)
  <2>1. CASE Len(Line[k]) = Bandwidth
    BY <1>1, <2>1, FailIs DEF DL!Arrive, DL!Idle
  <2>2. CASE Len(Line[k]) # Bandwidth
    BY <1>1, <2>2 DEF DL!Arrive
  <2> QED BY <2>1, <2>2
<1> QED BY <1>1, <1>2, <1>3 DEF DL!Write, DL!Running, Running

LEMMA LineWrite ==
  ASSUME IInv, NEW d \in Data, Write(d)
  PROVE  DL!Write(d, Distance(nextWrite, nextRead))
<1>1. CASE LostData
  BY <1>1, LostIsOverdue, LineLost DEF Write
<1>2. CASE ~LostData
  <2>1. PICK k \in 1 .. MaxLatency : /\ Distance(nextWrite, nextRead) = k
                                     /\ ClockedWrite = Slot(ClockedRead + k)
    BY DistanceKept
  <2> QED BY <1>2, <2>1, LineInsert DEF Write
<1> QED BY <1>1, <1>2

LEMMA LineWriteLat ==
  ASSUME IInv, NEW d \in Data, NEW latency \in WriteLatencies, WriteLat(d, latency)
  PROVE  \E k \in 1 .. MaxLatency + 1 : DL!Write(d, k)
<1>1. CASE LostData
  BY <1>1, LostIsOverdue, LineLost, SizeAssumption DEF WriteLat
<1>2. CASE ~LostData /\ latency > MaxLatency
  <2>1. Running /\ Fail("latency") /\ ~Overdue /\ MaxLatency + 1 > MaxLatency
        /\ MaxLatency + 1 \in 1 .. MaxLatency + 1
    BY <1>2, LostIsOverdue, SizeAssumption DEF WriteLat
  <2>2. DL!Write(d, MaxLatency + 1)
    BY <2>1, FailIs DEF DL!Write, DL!Running, DL!Idle, Running
  <2> QED BY <2>1, <2>2
<1>3. CASE ~LostData /\ ~(latency > MaxLatency)
  <2>1. latency \in 1 .. MaxLatency /\ latency \in 1 .. MaxLatency + 1
    BY <1>3, SizeAssumption, UseAssumption
  <2> QED BY <1>3, <2>1, LineInsert DEF WriteLat
<1> QED BY <1>1, <1>2, <1>3

LEMMA LineRead ==
  ASSUME IInv, Read
  PROVE  DL!Read
<1> USE SizeAssumption
<1>1. Running
  BY DEF Read
<1>2. CASE pendentReads = 0 \/ (lag = 0 /\ nReads[nextRead] = 0)
  <2>1. /\ call' = <<"read", NoData>> /\ error' = error
        /\ UNCHANGED <<data, nReads, nextRead, nextWrite, readsDone, lag>>
    BY <1>2 DEF Read, ring
  <2>2. /\ Line' = Line /\ Overdue' = Overdue
        /\ Distance(nextWrite, nextRead)' = Distance(nextWrite, nextRead)
    BY <2>1 DEF Line, Overdue, Distance, Waiting, Slot
  <2>3. ~Overdue
    <3>1. ~LostData
      BY <1>2 DEF LostData, IInv, TypeOK
    <3> QED BY <3>1, LostIsOverdue
  <2>4. Line[0] = <<>>
    <3>1. TypeOK /\ PendentExact /\ lag \in Nat /\ nextRead \in Slots /\ nextRead \in Nat
      BY DEF IInv, TypeOK, Slots
    <3>2. Line[0] = IF lag <= MaxLatency THEN Waiting(lag) ELSE <<>>
      BY <3>1 DEF Line
    <3>3. nReads[Slot(nextRead + lag)] = 0
      <4>1. CASE pendentReads = 0
        BY <4>1, <3>1, WaitingEmpty, NothingInFlight
      <4>2. CASE lag = 0 /\ nReads[nextRead] = 0
        <5>1. Slot(nextRead + 0) = nextRead
          BY <3>1, SlotOnce DEF Slots
        <5> QED BY <4>2, <5>1
      <4> QED BY <1>2, <4>1, <4>2
    <3>4. Waiting(lag) = <<>>
      BY <3>1, <3>3, WaitingEmpty
    <3> QED BY <3>2, <3>4
  <2> QED BY <1>1, <2>1, <2>2, <2>3, <2>4 DEF DL!Read, DL!Running, Running
<1>3. CASE LostData /\ ~(pendentReads = 0 \/ (lag = 0 /\ nReads[nextRead] = 0))
  BY <1>1, <1>3, LostIsOverdue, LineLost DEF Read
<1>4. CASE ~LostData /\ ~(pendentReads = 0 \/ (lag = 0 /\ nReads[nextRead] = 0))
  <2>1. ~Overdue
    BY <1>4, LostIsOverdue
  <2>2. Overdue' = Overdue
    BY <1>4, <2>1, ReadTakes, OverdueType
  <2> QED BY <1>1, <1>4, <2>1, <2>2, ReadTakes DEF DL!Read, DL!Running, Running
<1> QED BY <1>2, <1>3, <1>4

LEMMA LineTick ==
  ASSUME IInv, Tick
  PROVE  DL!Tick
<1> USE SizeAssumption
<1>1. /\ UNCHANGED <<data, nReads, nextRead, nextWrite, readsDone, call, error>>
      /\ lag' = lag + 1 /\ lag \in Nat /\ Running
  BY DEF Tick, ring, IInv, TypeOK
<1>2. \A k \in 0 .. MaxLatency : Waiting(k)' = Waiting(k)
  BY <1>1 DEF Waiting, Slot
<1>3. Distance(nextWrite, nextRead)' = Distance(nextWrite, nextRead)
  BY <1>1 DEF Distance, Slot
<1>4. Line' = [k \in 0 .. MaxLatency |-> IF k < MaxLatency THEN Line[k + 1] ELSE <<>>]
  <2>1. Line' = [k \in 0 .. MaxLatency |->
                   IF lag' + k <= MaxLatency THEN Waiting(lag' + k) ELSE <<>>]
    BY <1>1 DEF Line, Waiting, Slot
  <2>2. ASSUME NEW k \in 0 .. MaxLatency
        PROVE  (IF lag' + k <= MaxLatency THEN Waiting(lag' + k) ELSE <<>>)
                 = IF k < MaxLatency THEN Line[k + 1] ELSE <<>>
    <3>1. lag' + k = lag + (k + 1)
      BY <1>1
    <3>2. k < MaxLatency => k + 1 \in 0 .. MaxLatency
      OBVIOUS
    <3>3. k < MaxLatency =>
            Line[k + 1] = IF lag + (k + 1) <= MaxLatency THEN Waiting(lag + (k + 1)) ELSE <<>>
      BY <3>2 DEF Line
    <3>4. ~(k < MaxLatency) => ~(lag + (k + 1) <= MaxLatency)
      BY <1>1
    <3> QED BY <3>1, <3>3, <3>4
  <2> QED BY <2>1, <2>2
<1>5. Overdue' = (Overdue \/ Line[0] # <<>>)
  <2>1. Line[0] = IF lag <= MaxLatency THEN Waiting(lag) ELSE <<>>
    BY <1>1 DEF Line
  <2>2. Overdue' <=> \E k \in 0 .. MaxLatency : k < lag + 1 /\ Waiting(k) # <<>>
    BY <1>1, <1>2 DEF Overdue
  <2>3. \A k \in 0 .. MaxLatency : k < lag + 1 <=> k < lag \/ k = lag
    BY <1>1
  <2>4. Overdue' <=> (Overdue \/ Line[0] # <<>>)
    BY <2>1, <2>2, <2>3, <1>1 DEF Overdue
  <2> QED BY <2>4, OverdueType
<1> QED BY <1>1, <1>3, <1>4, <1>5 DEF DL!Tick, DL!Running, DL!Delays, Running

LEMMA LineNext ==
  ASSUME IInv, [Next]_vars
  PROVE  [DL!Next]_(DL!vars)
<1>1. CASE FixedLatency /\ \E d \in Data : Write(d)
  BY <1>1, LineWrite DEF DL!Next
<1>2. CASE \E d \in Data, latency \in WriteLatencies : WriteLat(d, latency)
  BY <1>2, LineWriteLat DEF DL!Next
<1>3. CASE Read
  BY <1>3, LineRead DEF DL!Next
<1>4. CASE Tick
  BY <1>4, LineTick DEF DL!Next
<1>5. CASE UNCHANGED vars
  <2>1. UNCHANGED <<data, nReads, nextRead, nextWrite, readsDone, lag, call, error>>
    BY <1>5 DEF vars, ring
  <2>2. /\ Line' = Line /\ Overdue' = Overdue
        /\ Distance(nextWrite, nextRead)' = Distance(nextWrite, nextRead)
    BY <2>1 DEF Line, Overdue, Distance, Waiting, Slot
  <2> QED BY <2>1, <2>2 DEF DL!vars
<1> QED BY <1>1, <1>2, <1>3, <1>4, <1>5 DEF Next

\* Every signal is a delay line, whatever its latency, bandwidth and capacity,
\* whatever the latencies of the writes and however long it is left alone: an
\* object is returned in its cycle, in write order, once, and an assertion fires
\* exactly when an object was missed, a cell is full or a latency too large.
THEOREM ImplementsDelayLine ==
  ASSUME FirstCycle = 0
  PROVE  Spec => IsDelayLine
<1>1. Init => DL!Init
  BY LineInit
<1>2. IInv /\ [Next]_vars => [DL!Next]_(DL!vars)
  BY LineNext
<1> QED BY <1>1, <1>2, Invariance, PTL DEF Spec, IsDelayLine, DL!Spec
=============================================================================
