------------------------------- MODULE Signal -------------------------------
(***************************************************************************)
(* The signal of the simulation framework (class Signal): the only way one *)
(* box passes an object to another.  A ring of Capacity slots holds the    *)
(* objects in flight.  The ring is not moved every cycle: a read or a      *)
(* write first brings it up to the cycle it is made in (clock), and a read *)
(* of a signal with nothing in flight does not even do that.               *)
(*                                                                         *)
(* The two boxes call it in any order within a cycle, any number of times. *)
(* Only the difference between the current cycle and lastCycle is ever     *)
(* used, so the state keeps that difference (lag) and not the two counts.  *)
(***************************************************************************)
EXTENDS Naturals, Sequences, FiniteSets

CONSTANTS
  MaxLatency,       \* the signal's latency, or the largest one allowed
  Bandwidth,        \* objects a cycle's slot can hold
  Capacity,         \* slots of the ring
  Data, NoData,     \* the objects, and none
  FixedLatency,     \* the writer calls write(cycle, data)
  WriteLatencies,   \* latencies of the writer's write(cycle, data, latency)
  FirstCycle,       \* cycle given to setData
  MaxLag            \* bound: cycles the signal may be left alone

\* create: 1 << ceil(log2(maxLatency + 1)), the least power of two above the
\* latency; so the mask the code applies is a modulus.
ASSUME SizeAssumption ==
  /\ MaxLatency \in Nat \ {0}
  /\ Bandwidth \in Nat \ {0}
  /\ Capacity \in Nat
  /\ MaxLatency < Capacity /\ Capacity <= 2 * MaxLatency

ASSUME UseAssumption ==
  /\ NoData \notin Data
  /\ FixedLatency \in BOOLEAN
  /\ WriteLatencies \subseteq Nat \ {0}
  /\ FirstCycle \in Nat
  /\ MaxLag \in Nat

VARIABLES
  data,             \* data[s][i]: the i-th object put in slot s
  nReads,           \* nReads[s]: objects of slot s still to be read
  nextRead,         \* slot of cycle lastCycle
  nextWrite,        \* slot a write without a latency goes to
  readsDone,        \* objects read in cycle lastCycle
  pendentReads,     \* objects in flight
  lag,              \* current cycle - lastCycle
  call,             \* the last access: the object written, or the object read
  error             \* "none", or the assertion that ended the simulation

ring == <<data, nReads, nextRead, nextWrite, readsDone, pendentReads>>
vars == <<ring, lag, call, error>>

Slots == 0 .. Capacity - 1
Slot(n) == n % Capacity
Running == error = "none"

Empty ==
  /\ data = [s \in Slots |-> [i \in 1 .. Bandwidth |-> NoData]]
  /\ nReads = [s \in Slots |-> 0]
  /\ pendentReads = 0

\* Distance of slot s from the slot of the first cycle: setData fills the
\* MaxLatency slots from there.
FromFirst(s) == Slot(s + Capacity - Slot(FirstCycle))

\* Mutant: pendentReads counts the slots filled, not the objects.
FilledSlots ==
  /\ data \in [Slots -> [1 .. Bandwidth -> Data \cup {NoData}]]
  /\ \A s \in Slots, i \in 1 .. Bandwidth :
       (data[s][i] = NoData) <=> (FromFirst(s) >= MaxLatency)
  /\ nReads = [s \in Slots |->
                 IF FromFirst(s) < MaxLatency THEN Bandwidth ELSE 0]
  /\ pendentReads = MaxLatency

\* setData: MaxLatency slots, from the one of firstCycleForReadOrWrite on, are
\* filled to the bandwidth.  nextRead and nextWrite keep their first values.
Filled ==
  /\ data \in [Slots -> [1 .. Bandwidth -> Data \cup {NoData}]]
  /\ \A s \in Slots, i \in 1 .. Bandwidth :
       (data[s][i] = NoData) <=> (FromFirst(s) >= MaxLatency)
  /\ nReads = [s \in Slots |->
                 IF FromFirst(s) < MaxLatency THEN Bandwidth ELSE 0]
  /\ pendentReads = MaxLatency * Bandwidth

Init ==
  /\ Empty \/ Filled
  /\ nextRead = 0
  /\ nextWrite = MaxLatency
  /\ readsDone = 0
  /\ lag = 0
  /\ call = <<"none">>
  /\ error = "none"

-----------------------------------------------------------------------------
(***************************************************************************)
(* clock: what an access finds once the ring is moved to its cycle.        *)
(***************************************************************************)

\* Mutant: only a gap longer than the latency is noticed.
LostDataGapOnly == pendentReads > 0 /\ lag > MaxLatency

\* The two tests of clock for "Lost data": something unread in the slots that
\* are passed, or anything in flight after a gap longer than the latency.
LostData ==
  /\ pendentReads > 0
  /\ IF lag <= MaxLatency
     THEN \E i \in 0 .. lag - 1 : nReads[Slot(nextRead + i)] > 0
     ELSE TRUE

ClockedRead == Slot(nextRead + lag)
\* Mutant: only the read point is moved.
ClockedWriteKept == nextWrite
ClockedWrite == Slot(nextWrite + lag)

ClockedDone == IF lag > 0 THEN 0 ELSE readsDone

\* CG_ASSERT throws out of the simulation loop: nothing happens afterwards.
Fail(why) == error' = why /\ UNCHANGED <<ring, lag, call>>

\* Mutant: the slot is not tested for room.
InsertBlind(d, s) ==
  /\ nReads' = [nReads EXCEPT ![s] = @ + 1]
  /\ pendentReads' = pendentReads + 1
  /\ nextRead' = ClockedRead
  /\ nextWrite' = s
  /\ readsDone' = ClockedDone
  /\ lag' = 0
  /\ call' = <<"write", d>>
  /\ UNCHANGED <<data, error>>

Insert(d, s) ==
  IF nReads[s] = Bandwidth
  THEN Fail("bandwidth")
  ELSE /\ data' = [data EXCEPT ![s][nReads[s] + 1] = d]
       /\ nReads' = [nReads EXCEPT ![s] = @ + 1]
       /\ pendentReads' = pendentReads + 1
       /\ nextRead' = ClockedRead
       /\ nextWrite' = s
       /\ readsDone' = ClockedDone
       /\ lag' = 0
       /\ call' = <<"write", d>>
       /\ UNCHANGED error

\* writeGenFast(cycle, dataW)
Write(d) ==
  /\ Running
  /\ IF LostData THEN Fail("lost") ELSE Insert(d, ClockedWrite)

\* writeGenFast(cycle, dataW, latency): nextWrite is moved for good.
WriteLat(d, latency) ==
  /\ Running
  /\ IF LostData THEN Fail("lost")
     ELSE IF latency > MaxLatency THEN Fail("latency")
     ELSE Insert(d, Slot(ClockedRead + latency))

\* readGenFast: without the clock when nothing is in flight.  The cell that was
\* read is dead until it is written again; the model empties it.
Read ==
  /\ Running
  /\ IF pendentReads = 0 \/ (lag = 0 /\ nReads[nextRead] = 0)
     THEN call' = <<"read", NoData>> /\ UNCHANGED <<ring, lag, error>>
     ELSE IF LostData THEN Fail("lost")
     ELSE /\ nextRead' = ClockedRead
          /\ nextWrite' = ClockedWrite
          /\ lag' = 0
          /\ IF nReads[ClockedRead] = 0
             THEN /\ call' = <<"read", NoData>>
                  /\ readsDone' = ClockedDone
                  /\ UNCHANGED <<data, nReads, pendentReads, error>>
             ELSE /\ call' = <<"read", data[ClockedRead][ClockedDone + 1]>>
                  /\ data' = [data EXCEPT ![ClockedRead][ClockedDone + 1] = NoData]
                  /\ readsDone' = ClockedDone + 1
                  /\ nReads' = [nReads EXCEPT ![ClockedRead] = @ - 1]
                  /\ pendentReads' = pendentReads - 1
                  /\ UNCHANGED error

\* The simulation loop starts the next cycle.
Tick ==
  /\ Running
  /\ lag < MaxLag
  /\ lag' = lag + 1
  /\ UNCHANGED <<ring, call, error>>

Next ==
  \/ FixedLatency /\ \E d \in Data : Write(d)
  \/ \E d \in Data, latency \in WriteLatencies : WriteLat(d, latency)
  \/ Read
  \/ Tick

Spec == Init /\ [][Next]_vars

-----------------------------------------------------------------------------
TypeOK ==
  /\ data \in [Slots -> [1 .. Bandwidth -> Data \cup {NoData}]]
  /\ nReads \in [Slots -> 0 .. Bandwidth]
  /\ nextRead \in Slots
  /\ nextWrite \in Slots
  /\ readsDone \in 0 .. Bandwidth
  /\ pendentReads \in Nat
  /\ lag \in Nat
  /\ call \in {<<"none">>} \cup ({"read"} \X (Data \cup {NoData}))
            \cup ({"write"} \X Data)
  /\ error \in {"none", "lost", "bandwidth", "latency"}

\* The cells holding an object still to be read, for counting: in slot s the
\* first nReads[s] pairs.
InFlight == { c \in Slots \X (1 .. Bandwidth) : c[2] <= nReads[c[1]] }

\* pendentReads counts exactly the objects in flight.  A read returns at once
\* when the counter is 0 and clock skips its checks then: a counter too low
\* would hide objects from the reader for ever (readGenFast, clock).
PendentExact == pendentReads = Cardinality(InFlight)

\* Reader and writer never meet in the ring: what is in flight lies in the
\* MaxLatency + 1 slots from the read point on, and what was read and what
\* was not share a slot only at the read point.  The slots beyond (Capacity
\* is a power of two) stay empty, so no object is read a lap too late.
InWindow ==
  /\ \A k \in MaxLatency + 1 .. Capacity - 1 : nReads[Slot(nextRead + k)] = 0
  /\ readsDone + nReads[nextRead] <= Bandwidth

\* nextWrite stays one to MaxLatency slots ahead of nextRead (writeGenFast).
WriteAhead == \E k \in 1 .. MaxLatency : nextWrite = Slot(nextRead + k)

\* The objects waiting in the slot k cycles from lastCycle, in write order.
Waiting(k) ==
  LET s == Slot(nextRead + k)
      read == IF k = 0 THEN readsDone ELSE 0
  IN  [i \in 1 .. nReads[s] |-> data[s][read + i]]

\* What the two boxes see of the ring: the objects that arrive in the cycles to
\* come, whether one was missed, and the distance of the write point.
Line ==
  [k \in 0 .. MaxLatency |->
     IF lag + k <= MaxLatency THEN Waiting(lag + k) ELSE <<>>]
Overdue == \E k \in 0 .. MaxLatency : k < lag /\ Waiting(k) # <<>>
Distance(write, read) == CHOOSE k \in 1 .. MaxLatency : write = Slot(read + k)

DL == INSTANCE DelayLine WITH
  line <- Line, overdue <- Overdue, usual <- Distance(nextWrite, nextRead)

\* The ring is a delay line: whatever the order of the calls of the two boxes
\* and however long the signal is left alone, an object is returned in its
\* cycle, in write order, once, and the three assertions fire exactly when an
\* object was missed, a slot is full or a latency is too large (Signal::read,
\* Signal::write, against the contract in the header of the class).
IsDelayLine == DL!Spec

=============================================================================
