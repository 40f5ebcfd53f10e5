------------------------ MODULE GeometryPipe_proofs ------------------------
(***************************************************************************)
(* For every batch, size of the queues and latency of the buses: the boxes *)
(* of the geometry pipe never send a triangle that is not expected, none   *)
(* is lost, the mark of the end of a batch is the last of it, and what is  *)
(* rasterized are the triangles of the batches that can be seen.           *)
(***************************************************************************)
EXTENDS GeometryPipe, ModArith, FiniteSetTheorems, TLAPS

-----------------------------------------------------------------------------
(* Types.                                                                  *)

Group == { g \in Seq(Triangles) : Len(g) <= TrianglesCycle }
Pipe(latency) == [1 .. latency -> Group]
PaState ==
  [state : States, received : Nat, asked : 0 .. AssemblyQueue, stored : 0 .. AssemblyQueue,
   free : 0 .. AssemblyQueue - 1, queue : [0 .. AssemblyQueue - 1 -> Nat], requests : Nat,
   lastVertex : 0 .. AssemblyQueue - 1, count : Nat, wait : 0 .. ClipStart, odd : BOOLEAN,
   last : BOOLEAN]
ClpState ==
  [state : States, requested : Nat, window : 0 .. BusLatency + 4, reserved : Nat,
   wait : 0 .. ClipStart, busWait : 0 .. SetupStart, buffer : Seq(Triangles)]
TsState ==
  [state : States, requested : Nat, reserves : Nat, wait : 0 .. SetupStart, last : BOOLEAN,
   fifo : Seq(Triangles)]
TtState ==
  [state : States, requested : Nat, queue : Seq(Triangles), finished : BOOLEAN,
   size : 0 .. TriangleBatch]

Typed ==
  /\ cp \in [status : {"READY", "DRAWING", "END_GEOMETRY", "END_FRAGMENT"}, started : BOOLEAN]
  /\ command \in [geometry : {"none", "DRAW", "END"}, raster : {"none", "DRAW", "END"}]
  /\ batch \in Batches /\ culling \in { b.culling : b \in Batches }
  /\ pa \in PaState /\ clp \in ClpState /\ ts \in TsState /\ tt \in TtState
  /\ {askAssembly, askClipper, askSetup} \subseteq 0 .. TrianglesCycle
  /\ clipIn \in Pipe(1) /\ clipExec \in Pipe(ClipLatency) /\ bus \in Pipe(BusLatency)
  /\ setup \in Pipe(SetupLatency) /\ setupOut \in Pipe(OutputLatency)

-----------------------------------------------------------------------------
(* Phases.                                                                 *)

Geometry(command_, states) ==
  command.geometry = command_ /\ {pa.state, clp.state} \subseteq states
Raster(command_, states) ==
  command.raster = command_ /\ {ts.state, tt.state} \subseteq states

AtWork == {"DRAWING", "END"}
GeometryBegun == Geometry("DRAW", {"READY"}) \/ Geometry("none", AtWork)
RasterBegun == Raster("DRAW", {"READY"}) \/ Raster("none", AtWork)

Phases ==
  /\ cp.status = "READY" => /\ ~cp.started /\ Geometry("none", {"READY"}) /\ Raster("none", {"READY"})
  /\ cp.status = "DRAWING" =>
       /\ cp.started /\ GeometryBegun /\ RasterBegun
       /\ command.geometry = "DRAW" => command.raster = "DRAW"
       /\ command.raster = "DRAW" => clp.state # "END"
  /\ cp.status = "END_GEOMETRY" =>
       /\ Raster("none", AtWork)
       /\ IF cp.started THEN GeometryBegun /\ clp.state # "END"
          ELSE Geometry("END", {"END"}) \/ Geometry("none", {"READY"})
  /\ cp.status = "END_FRAGMENT" =>
       /\ Raster("END", {"END"}) \/ Raster("none", {"READY"})
       /\ IF cp.started THEN Geometry("none", AtWork) /\ clp.state # "END"
          ELSE Geometry("none", {"READY"})
  /\ clp.state = "END" => pa.state = "END"
  /\ tt.state = "END" => ts.state = "END"

\* The batch in the fragment phase has left the geometry phase.
Passed == cp.status # "DRAWING" \/ clp.state = "END"

-----------------------------------------------------------------------------
(* The mark of the end of a batch follows its triangles.                   *)

Ended(s) == s # <<>> /\ Newest(s).last
Vacant(pipe) == \A n \in DOMAIN pipe : pipe[n] = <<>>
Holds(pipe) == \E n \in DOMAIN pipe : Ended(pipe[n])
Orderly(pipe) ==
  \A n \in DOMAIN pipe :
    /\ EndsBatch(pipe[n])
    /\ Ended(pipe[n]) => \A m \in DOMAIN pipe : m > n => pipe[m] = <<>>

ClipperOrder ==
  /\ Orderly(clipIn) /\ Orderly(clipExec) /\ EndsBatch(clp.buffer)
  /\ Holds(clipIn) => pa.state = "END"
  /\ Holds(clipExec) => pa.state = "END" /\ Vacant(clipIn)
  /\ Ended(clp.buffer) => pa.state = "END" /\ Vacant(clipIn) /\ Vacant(clipExec)
  /\ clp.state # "DRAWING" => Vacant(clipIn) /\ Vacant(clipExec) /\ clp.buffer = <<>>
SetupOrder ==
  /\ Orderly(bus) /\ Orderly(setup) /\ EndsBatch(ts.fifo)
  /\ Holds(bus) => Passed /\ ~ts.last
  /\ ts.last /\ ts.state # "READY" => Passed /\ Vacant(bus)
  /\ Holds(setup) => ts.last
  /\ Ended(ts.fifo) => ts.last /\ Vacant(setup)
  /\ ts.state # "DRAWING" => Vacant(bus) /\ Vacant(setup) /\ ts.fifo = <<>>
  /\ ts.state = "END" => ts.last
TraversalOrder ==
  /\ Orderly(setupOut) /\ EndsBatch(tt.queue)
  /\ Holds(setupOut) => ts.state = "END"
  /\ Ended(tt.queue) => ts.state = "END" /\ Vacant(setupOut)
  /\ tt.state # "DRAWING" => Vacant(setupOut) /\ tt.queue = <<>> /\ tt.finished
  /\ ~tt.finished => /\ tt.size <= Len(tt.queue) /\ tt.queue # <<>>
                     /\ tt.queue[1].last <=> tt.size = 0
                     /\ \A n \in 1 .. tt.size : ~tt.queue[n].last

-----------------------------------------------------------------------------
(* What Triangle Setup asks for before it knows of the end is forgotten.   *)

Forgotten ==
  /\ ~Passed => clp.window = 0
  /\ Passed /\ ts.state = "DRAWING" =>
       \/ \E n \in DOMAIN bus : Ended(bus[n]) /\ clp.window = n + 4
       \/ ts.last /\ clp.window <= 4
  /\ ts.state = "END" => clp.window <= 3
  /\ Ended(tt.queue) => clp.window <= 2
  /\ ~tt.finished /\ tt.size = 0 => clp.window <= 1
  /\ tt.state # "DRAWING" => clp.window = 0
  /\ Passed => clp.window > 0 \/ askClipper = 0
  /\ Passed \/ ts.state = "READY" => (clp.state = "DRAWING" => clp.requested = 0)
  /\ ts.state = "READY" => askClipper = 0

-----------------------------------------------------------------------------
(* Room for all that is on its way.                                        *)

Room ==
  /\ clp.reserved + Len(clp.buffer) <= ClipBuffer
  /\ pa.requests + askAssembly <= ClipBuffer
  /\ ts.reserves + Len(ts.fifo) <= SetupFIFO
  /\ ts.state = "DRAWING" => ts.reserves >= Crossing(bus) + Crossing(setup)
  /\ Len(tt.queue) + tt.requested <= TriangleQueue
  /\ pa.stored + pa.asked <= AssemblyQueue
  /\ pa.state = "DRAWING" => pa.received <= VertexCount

-----------------------------------------------------------------------------
(* A unit that starts a triangle does not look at its bus.                 *)

InTime ==
  /\ clipIn[1] # <<>> => clp.wait = 0
  /\ pa.state = "DRAWING" => clp.wait <= pa.wait
  /\ pa.state = "DRAWING" /\ clipIn[1] # <<>> => pa.wait = ClipStart
  /\ \A n \in DOMAIN bus : bus[n] # <<>> => ts.wait <= n - 1
  /\ \A m, n \in DOMAIN bus : m < n /\ bus[m] # <<>> /\ bus[n] # <<>> => n - m >= SetupStart
  /\ ~Passed /\ ts.state = "DRAWING" =>
       /\ ts.wait <= clp.busWait + BusLatency - 1
       /\ \A n \in DOMAIN bus : bus[n] # <<>> => clp.busWait + BusLatency - n >= SetupStart

IInv ==
  Typed /\ Phases /\ ClipperOrder /\ SetupOrder /\ TraversalOrder /\ Forgotten /\ CreditsKept
    /\ Room /\ InTime

-----------------------------------------------------------------------------
(* Sequences of triangles.                                                 *)

LEMMA TriangleType == \A t \in Triangles : t.last \in BOOLEAN
BY DEF Triangles, Pending!Items

\* The first n elements of s, and the others.
LEMMA TakeIs ==
  ASSUME NEW T, NEW s \in Seq(T), NEW n \in 0 .. Len(s)
  PROVE  /\ Take(s, n) \in Seq(T) /\ Len(Take(s, n)) = n
         /\ \A k \in 1 .. n : Take(s, n)[k] = s[k]
         /\ n > 0 => Take(s, n) # <<>> /\ Newest(Take(s, n)) = s[n]
<1>1. Take(s, n) = [k \in 1 .. n |-> s[k]]
  BY DEF Take
<1>2. Take(s, n) \in Seq(T) /\ Len(Take(s, n)) = n
  BY DEF Take
<1>3. \A k \in 1 .. n : Take(s, n)[k] = s[k]
  BY <1>1
<1> QED BY <1>2, <1>3 DEF Newest

LEMMA SameSequence ==
  ASSUME NEW T, NEW r \in Seq(T), NEW s \in Seq(T), Len(r) = Len(s), \A n \in 1 .. Len(s) : r[n] = s[n]
  PROVE  r = s
<1>1. r \in [1 .. Len(r) -> T] /\ s \in [1 .. Len(s) -> T]
  OBVIOUS
<1> QED BY <1>1

LEMMA TakeOne ==
  ASSUME NEW T, NEW s \in Seq(T), Len(s) = 1
  PROVE  Take(s, 1) = <<s[1]>>
<1>1. s[1] \in T /\ 1 \in 0 .. Len(s)
  OBVIOUS
<1> DEFINE x == s[1]
           r == <<x>>
<1>2. r \in Seq(T) /\ Len(r) = 1 /\ r[1] = x
  <2> HIDE DEF x
  <2>1. x \in T
    BY <1>1 DEF x
  <2> QED BY <2>1
<1>3. Take(s, 1) \in Seq(T) /\ Len(Take(s, 1)) = 1 /\ \A k \in 1 .. 1 : Take(s, 1)[k] = s[k]
  BY <1>1, TakeIs
<1>4. \A k \in 1 .. 1 : Take(s, 1)[k] = r[k]
  <2> HIDE DEF r
  <2> TAKE k \in 1 .. 1
  <2>1. k = 1
    OBVIOUS
  <2> QED BY <1>2, <1>3, <2>1
<1> HIDE DEF r, x
<1>5. \A n \in 1 .. Len(r) : Take(s, 1)[n] = r[n]
  BY <1>2, <1>4
<1>6. Take(s, 1) = r
  BY <1>2, <1>3, <1>5, SameSequence
<1> QED BY <1>6 DEF r, x

LEMMA DropIs ==
  ASSUME NEW T, NEW s \in Seq(T), NEW n \in 0 .. Len(s)
  PROVE  /\ Drop(s, n) \in Seq(T) /\ Len(Drop(s, n)) = Len(s) - n
         /\ \A k \in 1 .. Len(s) - n : Drop(s, n)[k] = s[k + n]
         /\ n < Len(s) => Drop(s, n) # <<>> /\ Newest(Drop(s, n)) = Newest(s)
         /\ n = Len(s) => Drop(s, n) = <<>>
<1>1. Drop(s, n) \in Seq(T) /\ Len(Drop(s, n)) = Len(s) - n
  BY DEF Drop
<1>2. \A k \in 1 .. Len(s) - n : Drop(s, n)[k] = s[k + n]
  BY DEF Drop
<1>3. n = Len(s) => Drop(s, n) = <<>>
  BY <1>1
<1>4. n < Len(s) => Drop(s, n) # <<>> /\ Newest(Drop(s, n)) = Newest(s)
  <2> SUFFICES ASSUME n < Len(s) PROVE Drop(s, n) # <<>> /\ Newest(Drop(s, n)) = Newest(s)
    OBVIOUS
  <2>1. Len(s) - n \in 1 .. Len(s) - n /\ (Len(s) - n) + n = Len(s)
    OBVIOUS
  <2>2. Drop(s, n)[Len(s) - n] = s[Len(s)]
    BY <1>2, <2>1
  <2>3. Drop(s, n) # <<>>
    BY <1>1, <2>1
  <2> QED BY <1>1, <2>2, <2>3 DEF Newest
<1> QED BY <1>1, <1>2, <1>3, <1>4

LEMMA TakeDrop ==
  ASSUME NEW T, NEW s \in Seq(T), NEW n \in 0 .. Len(s)
  PROVE  Take(s, n) \o Drop(s, n) = s
<1> DEFINE a == Take(s, n)
           b == Drop(s, n)
           c == a \o b
<1>1. /\ a \in Seq(T) /\ Len(a) = n /\ \A k \in 1 .. n : a[k] = s[k]
  BY TakeIs
<1>2. /\ b \in Seq(T) /\ Len(b) = Len(s) - n
      /\ \A k \in 1 .. Len(s) - n : b[k] = s[k + n]
  BY DropIs
<1> HIDE DEF a, b
<1>3. c \in Seq(T) /\ Len(c) = Len(s)
  BY <1>1, <1>2, SMTT(30)
<1>4. ASSUME NEW k \in 1 .. Len(s) PROVE c[k] = s[k]
  <2>1. CASE k <= n
    BY <1>1, <1>2, <2>1
  <2>2. CASE k > n
    <3>1. k - n \in 1 .. Len(s) - n /\ (k - n) + n = k
      BY <2>2
    <3>2. c[k] = b[k - n]
      BY <1>1, <1>2, <2>2
    <3> QED BY <1>2, <3>1, <3>2
  <2> HIDE DEF c
  <2>3. k <= n \/ k > n
    OBVIOUS
  <2> QED BY <2>1, <2>2, <2>3
<1> HIDE DEF c
<1>5. c = s
  BY <1>3, <1>4, SameSequence
<1> QED BY <1>5 DEF a, b, c

LEMMA EndsTake ==
  ASSUME NEW s \in Seq(Triangles), NEW n \in 0 .. Len(s), EndsBatch(s)
  PROVE  /\ EndsBatch(Take(s, n)) /\ EndsBatch(Drop(s, n))
         /\ Ended(Take(s, n)) => n = Len(s) /\ Ended(s)
         /\ Ended(Drop(s, n)) => Ended(s)
         /\ n = Len(s) /\ Ended(s) => Ended(Take(s, n))
         /\ Ended(s) /\ n < Len(s) => Ended(Drop(s, n))
         /\ Ended(Take(s, n)) <=> n > 0 /\ s[n].last
<1>1. /\ Len(Take(s, n)) = n /\ \A k \in 1 .. n : Take(s, n)[k] = s[k]
      /\ n > 0 => Take(s, n) # <<>> /\ Newest(Take(s, n)) = s[n]
      /\ Take(s, n) \in Seq(Triangles)
  BY TakeIs
<1>2. /\ Len(Drop(s, n)) = Len(s) - n /\ \A k \in 1 .. Len(s) - n : Drop(s, n)[k] = s[k + n]
      /\ n < Len(s) => Drop(s, n) # <<>> /\ Newest(Drop(s, n)) = Newest(s)
      /\ n = Len(s) => Drop(s, n) = <<>>
  BY DropIs
<1>3. EndsBatch(Take(s, n))
  BY <1>1 DEF EndsBatch
<1>4. EndsBatch(Drop(s, n))
  <2> SUFFICES ASSUME NEW k \in 1 .. Len(Drop(s, n)) - 1 PROVE ~Drop(s, n)[k].last
    BY DEF EndsBatch
  <2>1. k \in 1 .. Len(s) - n /\ k + n \in 1 .. Len(s) - 1
    BY <1>2
  <2> QED BY <1>2, <2>1 DEF EndsBatch
<1>5. Ended(Take(s, n)) <=> n > 0 /\ s[n].last
  <2>1. n = 0 => Take(s, n) = <<>>
    BY <1>1
  <2> QED BY <1>1, <2>1 DEF Ended
<1>6. n > 0 /\ s[n].last => n = Len(s)
  BY DEF EndsBatch
<1>7. Len(s) > 0 => s # <<>> /\ Newest(s) = s[Len(s)]
  BY DEF Newest
<1>8. Ended(s) => Len(s) > 0
  BY DEF Ended
<1>9. Ended(Drop(s, n)) => Ended(s)
  <2>1. n < Len(s) => Len(s) > 0
    OBVIOUS
  <2> QED BY <1>2, <1>7, <2>1 DEF Ended
<1>10. Ended(s) /\ n < Len(s) => Ended(Drop(s, n))
  BY <1>2 DEF Ended
<1> QED BY <1>3, <1>4, <1>5, <1>6, <1>7, <1>8, <1>9, <1>10 DEF Ended

LEMMA EndsConcat ==
  ASSUME NEW s \in Seq(Triangles), NEW t \in Seq(Triangles), EndsBatch(s), EndsBatch(t),
         Ended(s) => t = <<>>
  PROVE  /\ s \o t \in Seq(Triangles) /\ Len(s \o t) = Len(s) + Len(t)
         /\ EndsBatch(s \o t)
         /\ Ended(s \o t) <=> Ended(s) \/ Ended(t)
<1>1. s \o t \in Seq(Triangles) /\ Len(s \o t) = Len(s) + Len(t)
  OBVIOUS
<1>2. \A k \in 1 .. Len(s) + Len(t) :
        (s \o t)[k] = IF k <= Len(s) THEN s[k] ELSE t[k - Len(s)]
  OBVIOUS
<1>3. CASE t = <<>>
  <2>1. s \o t = s
    BY <1>3
  <2> QED BY <1>1, <1>3, <2>1 DEF Ended
<1>4. CASE t # <<>>
  <2>1. Len(t) > 0 /\ Len(s) \in Nat /\ Len(t) \in Nat /\ s \o t # <<>>
    BY <1>4, <1>1
  <2>2. Newest(s \o t) = Newest(t)
    <3>1. (s \o t)[Len(s) + Len(t)] = t[Len(t)]
      BY <1>2, <2>1
    <3> QED BY <1>1, <3>1 DEF Newest
  <2>3. Ended(s \o t) <=> Ended(t)
    BY <1>4, <2>1, <2>2 DEF Ended
  <2>4. ~Ended(s)
    BY <1>4
  <2>5. ASSUME NEW k \in 1 .. Len(s \o t) - 1 PROVE ~(s \o t)[k].last
    <3>1. CASE k <= Len(s) - 1
      BY <1>1, <1>2, <3>1 DEF EndsBatch
    <3>2. CASE k = Len(s)
      <4>1. s # <<>> /\ ~Newest(s).last /\ (s \o t)[k] = s[k]
        BY <1>1, <1>2, <2>4, <3>2 DEF Ended
      <4> QED BY <3>2, <4>1 DEF Newest
    <3>3. CASE k > Len(s)
      <4>1. k - Len(s) \in 1 .. Len(t) - 1 /\ (s \o t)[k] = t[k - Len(s)]
        BY <1>1, <1>2, <3>3
      <4> QED BY <4>1 DEF EndsBatch
    <3> QED BY <1>1, <2>1, <3>1, <3>2, <3>3
  <2> QED BY <1>1, <2>3, <2>4, <2>5 DEF EndsBatch
<1> QED BY <1>3, <1>4

\* A mark that is the first is the only one.
LEMMA FirstIsLast ==
  ASSUME NEW s \in Seq(Triangles), EndsBatch(s), s # <<>>, s[1].last
  PROVE  Len(s) = 1 /\ Ended(s) /\ Tail(s) = <<>> /\ Head(s) = s[1]
<1> DEFINE n == Len(s)
<1>1. n \in Nat /\ n # 0
  OBVIOUS
<1>2. n # 1 => 1 \in 1 .. n - 1
  <2> HIDE DEF n
  <2> QED BY <1>1
<1>3. n = 1
  BY <1>2 DEF EndsBatch
<1>4. Ended(s)
  BY <1>3 DEF Ended, Newest
<1>5. Tail(s) \in Seq(Triangles) /\ Len(Tail(s)) = 0
  BY <1>3
<1>6. Tail(s) = <<>>
  <2> DEFINE r == Tail(s)
  <2>1. r \in Seq(Triangles) /\ Len(r) = 0
    BY <1>5
  <2> HIDE DEF r
  <2>2. r = <<>>
    BY <2>1
  <2> QED BY <2>2 DEF r
<1>7. Head(s) = s[1]
  OBVIOUS
<1> QED BY <1>3, <1>4, <1>6, <1>7

\* The promise has the operator of its own.
LEMMA OnlyIs == \A s, kept : Pending!Only(s, kept) = Only(s, kept)
BY DEF Pending!Only, Only

\* What Only leaves of s: no more than s, in order.
LEMMA OnlyKeeps ==
  ASSUME NEW s \in Seq(Triangles), NEW kept
  PROVE  /\ Pending!Only(s, kept) \in Seq(Triangles)
         /\ Len(Pending!Only(s, kept)) <= Len(s)
         /\ EndsBatch(s) => /\ EndsBatch(Pending!Only(s, kept))
                            /\ Ended(Pending!Only(s, kept)) => Ended(s)
<1>0. Len(s) \in Nat
  OBVIOUS
<1>1. PICK f : /\ \A n \in 0 .. Len(s) :
                     f[n] = IF n = 0 THEN <<>>
                            ELSE IF s[n] \in kept THEN Append(f[n - 1], s[n]) ELSE f[n - 1]
               /\ Pending!Only(s, kept) = f[Len(s)]
  BY <1>0, OnlyComputed, OnlyIs
<1> DEFINE Left(n) ==
             /\ f[n] \in Seq(Triangles) /\ Len(f[n]) <= n
             /\ \A k \in 1 .. Len(f[n]) : \E j \in 1 .. n : f[n][k] = s[j]
             /\ \A k \in 1 .. Len(f[n]) - 1 : \E j \in 1 .. n - 1 : f[n][k] = s[j]
           T == { n \in Nat : n <= Len(s) => Left(n) }
<1>2. 0 \in T
  <2>1. f[0] = <<>>
    BY <1>0, <1>1
  <2>2. Left(0)
    BY <2>1
  <2> HIDE DEF Left
  <2> QED BY <2>2
<1>3. ASSUME NEW n \in Nat, n \in T PROVE n + 1 \in T
  <2> SUFFICES ASSUME n + 1 <= Len(s) PROVE Left(n + 1)
    OBVIOUS
  <2>1. Left(n) /\ n + 1 \in 0 .. Len(s) /\ n + 1 # 0 /\ (n + 1) - 1 = n /\ n + 1 \in 1 .. Len(s)
    BY <1>0, <1>3
  <2>2. f[n + 1] = IF s[n + 1] \in kept THEN Append(f[n], s[n + 1]) ELSE f[n]
    BY <1>1, <2>1
  <2>3. CASE s[n + 1] \notin kept
    <3>1. f[n + 1] = f[n]
      BY <2>2, <2>3
    <3> QED BY <2>1, <3>1
  <2>4. CASE s[n + 1] \in kept
    <3> DEFINE q == f[n]
    <3>1. f[n + 1] = Append(q, s[n + 1]) /\ s[n + 1] \in Triangles
      BY <2>1, <2>2, <2>4
    <3>2. q \in Seq(Triangles) /\ Len(q) <= n
      BY <2>1
    <3>3. /\ f[n + 1] \in Seq(Triangles) /\ Len(f[n + 1]) = Len(q) + 1
          /\ \A k \in 1 .. Len(q) : f[n + 1][k] = q[k]
          /\ f[n + 1][Len(q) + 1] = s[n + 1]
      BY <3>1, <3>2
    <3>4. ASSUME NEW k \in 1 .. Len(f[n + 1]) - 1 PROVE \E j \in 1 .. n : f[n + 1][k] = s[j]
      <4>1. k \in 1 .. Len(q)
        BY <3>2, <3>3
      <4> QED BY <2>1, <3>3, <4>1
    <3>5. ASSUME NEW k \in 1 .. Len(f[n + 1]) PROVE \E j \in 1 .. n + 1 : f[n + 1][k] = s[j]
      <4>1. CASE k = Len(q) + 1
        BY <3>3, <4>1, <2>1
      <4>2. CASE k # Len(q) + 1
        <5>1. k \in 1 .. Len(f[n + 1]) - 1
          BY <3>2, <3>3, <4>2
        <5> QED BY <3>4, <5>1
      <4> QED BY <4>1, <4>2
    <3> QED BY <2>1, <3>2, <3>3, <3>4, <3>5
  <2> QED BY <2>3, <2>4
<1> HIDE DEF T
<1>4. Len(s) \in T
  BY <1>0, <1>2, <1>3, Induction
<1>5. Left(Len(s))
  BY <1>0, <1>4 DEF T
<1> DEFINE o == Pending!Only(s, kept)
<1>6. /\ o \in Seq(Triangles) /\ Len(o) <= Len(s)
      /\ \A k \in 1 .. Len(o) : \E j \in 1 .. Len(s) : o[k] = s[j]
      /\ \A k \in 1 .. Len(o) - 1 : \E j \in 1 .. Len(s) - 1 : o[k] = s[j]
  BY <1>1, <1>5
<1> HIDE DEF o
<1>7. ASSUME EndsBatch(s) PROVE EndsBatch(o)
  BY <1>6, <1>7 DEF EndsBatch
<1>8. ASSUME EndsBatch(s), Ended(o) PROVE Ended(s)
  <2>1. Len(o) \in 1 .. Len(o) /\ o[Len(o)].last
    BY <1>6, <1>8 DEF Ended, Newest
  <2>2. PICK j \in 1 .. Len(s) : o[Len(o)] = s[j]
    BY <1>6, <2>1
  <2>3. j = Len(s)
    BY <1>8, <2>1, <2>2 DEF EndsBatch
  <2> QED BY <2>1, <2>2, <2>3 DEF Ended, Newest
<1> QED BY <1>6, <1>7, <1>8 DEF o

-----------------------------------------------------------------------------
(* Pipes.                                                                  *)

LEMMA PipeIs ==
  ASSUME NEW latency \in Nat, latency > 0, NEW pipe \in Pipe(latency)
  PROVE  /\ DOMAIN pipe = 1 .. latency /\ 1 \in DOMAIN pipe /\ latency \in DOMAIN pipe
         /\ Head(pipe) = pipe[1] /\ pipe \in Seq(Group) /\ Len(pipe) = latency
         /\ \A n \in DOMAIN pipe : /\ n \in Nat /\ 1 <= n /\ n <= latency
                                   /\ pipe[n] \in Seq(Triangles) /\ Len(pipe[n]) \in 0 .. TrianglesCycle
<1>1. pipe \in [1 .. latency -> Group] /\ DOMAIN pipe = 1 .. latency
  BY DEF Pipe
<1>2. pipe \in Seq(Group) /\ Len(pipe) = latency
  BY <1>1
<1>3. Head(pipe) = pipe[1]
  BY <1>2
<1>4. \A n \in DOMAIN pipe : pipe[n] \in Seq(Triangles) /\ Len(pipe[n]) <= TrianglesCycle
  BY <1>1 DEF Group
<1>5. TrianglesCycle \in Nat
  BY SizeAssumption
<1> QED BY <1>1, <1>2, <1>3, <1>4, <1>5

LEMMA CarryIs ==
  ASSUME NEW latency \in Nat, latency > 0, NEW pipe \in Pipe(latency), NEW group \in Group
  PROVE  /\ Carry(pipe, group) \in Pipe(latency)
         /\ \A n \in 1 .. latency - 1 : Carry(pipe, group)[n] = pipe[n + 1]
         /\ Carry(pipe, group)[latency] = group
<1>1. pipe \in Seq(Group) /\ Len(pipe) = latency
  BY PipeIs
<1> DEFINE q == Carry(pipe, group)
<1>2. q \in Seq(Group) /\ Len(q) = latency
  BY <1>1 DEF Carry
<1>3. \A n \in 1 .. latency - 1 : q[n] = pipe[n + 1]
  BY <1>1 DEF Carry
<1>4. q[latency] = group
  BY <1>1 DEF Carry
<1> HIDE DEF q
<1>5. q \in [1 .. latency -> Group]
  BY <1>2
<1> QED BY <1>3, <1>4, <1>5 DEF Pipe, q

LEMMA EmptyPipe ==
  ASSUME NEW latency \in Nat, latency > 0
  PROVE  Empty(latency) \in Pipe(latency) /\ Vacant(Empty(latency))
<1>1. <<>> \in Group
  BY SizeAssumption DEF Group
<1>2. Empty(latency) = [n \in 1 .. latency |-> <<>>]
  BY DEF Empty
<1> QED BY <1>1, <1>2 DEF Pipe, Vacant

\* What a pipe is when a group has entered.
LEMMA CarryOrder ==
  ASSUME NEW latency \in Nat, latency > 0, NEW pipe \in Pipe(latency), NEW group \in Group,
         Orderly(pipe), EndsBatch(group), Holds(pipe) => group = <<>>
  PROVE  /\ Orderly(Carry(pipe, group))
         /\ Holds(Carry(pipe, group)) => Holds(pipe) \/ Ended(group)
         /\ Ended(pipe[1]) => Vacant(Carry(pipe, group))
         /\ Ended(group) => Holds(Carry(pipe, group))
         /\ Vacant(pipe) /\ group = <<>> => Vacant(Carry(pipe, group))
         /\ Vacant(Carry(pipe, group)) => group = <<>>
         /\ \A n \in 2 .. latency : Ended(pipe[n]) => Ended(Carry(pipe, group)[n - 1])
<1> DEFINE q == Carry(pipe, group)
<1>1. /\ q \in Pipe(latency) /\ q[latency] = group
      /\ \A n \in 1 .. latency - 1 : q[n] = pipe[n + 1]
  BY CarryIs
<1>2. DOMAIN q = 1 .. latency /\ DOMAIN pipe = 1 .. latency
  BY <1>1, PipeIs
<1> HIDE DEF q
<1>3. \A n \in 1 .. latency : n # latency => n \in 1 .. latency - 1 /\ n + 1 \in 1 .. latency
  OBVIOUS
<1>4. \A n \in DOMAIN q : EndsBatch(q[n])
  BY <1>1, <1>2, <1>3 DEF Orderly
<1>5. ASSUME NEW n \in DOMAIN q, Ended(q[n]), NEW m \in DOMAIN q, m > n PROVE q[m] = <<>>
  <2>1. n \in 1 .. latency - 1 /\ q[n] = pipe[n + 1] /\ n + 1 \in DOMAIN pipe
    BY <1>1, <1>2, <1>5
  <2>2. Holds(pipe)
    BY <1>5, <2>1 DEF Holds
  <2>3. CASE m = latency
    BY <1>1, <2>2, <2>3
  <2>4. CASE m # latency
    <3>1. q[m] = pipe[m + 1] /\ m + 1 \in DOMAIN pipe /\ m + 1 > n + 1
      BY <1>1, <1>2, <1>3, <1>5, <2>4
    <3> QED BY <1>5, <2>1, <3>1 DEF Orderly
  <2> QED BY <2>3, <2>4
<1>6. Holds(q) => Holds(pipe) \/ Ended(group)
  BY <1>1, <1>2, <1>3 DEF Holds
<1>7. Ended(pipe[1]) => Vacant(q)
  <2> SUFFICES ASSUME Ended(pipe[1]), NEW n \in DOMAIN q PROVE q[n] = <<>>
    BY DEF Vacant
  <2>1. Holds(pipe) /\ 1 \in DOMAIN pipe
    BY <1>2 DEF Holds
  <2>2. CASE n = latency
    BY <1>1, <2>1, <2>2
  <2>3. CASE n # latency
    <3>1. q[n] = pipe[n + 1] /\ n + 1 \in DOMAIN pipe /\ n + 1 > 1
      BY <1>1, <1>2, <1>3, <2>3
    <3> QED BY <2>1, <3>1 DEF Orderly
  <2> QED BY <2>2, <2>3
<1>8. Ended(group) => Holds(q)
  BY <1>1, <1>2 DEF Holds
<1>9. Vacant(pipe) /\ group = <<>> => Vacant(q)
  BY <1>1, <1>2, <1>3 DEF Vacant
<1>10. Vacant(q) => group = <<>>
  BY <1>1, <1>2 DEF Vacant
<1>11. \A n \in 2 .. latency : Ended(pipe[n]) => Ended(q[n - 1])
  <2> SUFFICES ASSUME NEW n \in 2 .. latency PROVE q[n - 1] = pipe[n]
    OBVIOUS
  <2>1. n - 1 \in 1 .. latency - 1 /\ (n - 1) + 1 = n
    OBVIOUS
  <2> QED BY <1>1, <2>1
<1> QED BY <1>4, <1>5, <1>6, <1>7, <1>8, <1>9, <1>10, <1>11 DEF Orderly, q

\* A pipe in the order of arrival, group by group.
LEMMA FlatComputed ==
  ASSUME NEW T, NEW p \in Seq(Seq(T))
  PROVE  \E f \in [0 .. Len(p) -> Seq(T)] :
           /\ \A n \in 0 .. Len(p) : f[n] = IF n = 0 THEN <<>> ELSE f[n - 1] \o p[n]
           /\ Flat(p) = f[Len(p)]
<1> DEFINE Left(f) == f = [n \in 0 .. Len(p) |-> IF n = 0 THEN <<>> ELSE f[n - 1] \o p[n]]
           g == [x \in Seq(T) \X Nat |-> IF x[2] \in DOMAIN p THEN x[1] \o p[x[2]] ELSE x[1]]
<1>0. Len(p) \in Nat /\ DOMAIN p = 1 .. Len(p) /\ \A n \in DOMAIN p : p[n] \in Seq(T)
  OBVIOUS
<1>1. PICK f \in [0 .. Len(p) -> Seq(T)] :
        f[0] = <<>> /\ \A n \in 1 .. Len(p) : f[n] = g[<<f[n - 1], n>>]
  <2> DEFINE A == Seq(T)
             b == <<>>
             N == Len(p)
  <2>1. b \in A /\ N \in Nat
    OBVIOUS
  <2>2. g \in [A \X Nat -> A]
    <3>1. \A x \in A \X Nat : g[x] \in A
      BY <1>0
    <3> QED BY <3>1
  <2> HIDE DEF g, A, b, N
  <2>3. Values(A, b, N, g) # {}
    BY <2>1, <2>2, Recursion
  <2> QED BY <2>3 DEF A, b, N, Values
<1>2. ASSUME NEW n \in 1 .. Len(p) PROVE f[n] = f[n - 1] \o p[n]
  <2>1. n \in Nat /\ n - 1 \in 0 .. Len(p) /\ n \in DOMAIN p
    BY <1>0
  <2>2. f[n - 1] \in Seq(T)
    BY <2>1
  <2>3. \A x \in Seq(T), k \in Nat : g[<<x, k>>] = IF k \in DOMAIN p THEN x \o p[k] ELSE x
    OBVIOUS
  <2> HIDE DEF g
  <2>4. g[<<f[n - 1], n>>] = f[n - 1] \o p[n]
    BY <2>1, <2>2, <2>3
  <2> QED BY <1>1, <2>4
<1>3. Left(f)
  <2> DEFINE h == [n \in 0 .. Len(p) |-> IF n = 0 THEN <<>> ELSE f[n - 1] \o p[n]]
  <2>1. \A n \in 0 .. Len(p) : n = 0 \/ n \in 1 .. Len(p)
    BY <1>0
  <2>2. f[0] = <<>>
    BY <1>1
  <2>3. \A n \in 0 .. Len(p) : f[n] = h[n]
    BY <1>2, <2>1, <2>2
  <2>4. f = [n \in 0 .. Len(p) |-> f[n]] /\ h = [n \in 0 .. Len(p) |-> h[n]]
    OBVIOUS
  <2> HIDE DEF h
  <2>5. f = h
    BY <2>3, <2>4
  <2> QED BY <2>5 DEF h
<1> DEFINE c == CHOOSE h : Left(h)
<1>4. Left(c)
  BY <1>3
<1>5. Flat(p) = c[Len(p)]
  BY DEF Flat
<1>6. \A n \in 0 .. Len(p) : c[n] = IF n = 0 THEN <<>> ELSE c[n - 1] \o p[n]
  BY <1>4
<1>7. c \in [0 .. Len(p) -> Seq(T)]
  <2> DEFINE A == { n \in Nat : n <= Len(p) => c[n] \in Seq(T) }
  <2>1. c = [n \in 0 .. Len(p) |-> c[n]]
    BY <1>4
  <2> HIDE DEF c
  <2>2. 0 \in A
    <3>1. 0 \in 0 .. Len(p) /\ <<>> \in Seq(T)
      BY <1>0
    <3>2. c[0] = <<>>
      BY <1>6, <3>1
    <3> QED BY <3>1, <3>2
  <2>3. ASSUME NEW n \in Nat, n \in A PROVE n + 1 \in A
    <3> SUFFICES ASSUME n + 1 <= Len(p) PROVE c[n + 1] \in Seq(T)
      OBVIOUS
    <3>1. c[n] \in Seq(T) /\ n + 1 \in 0 .. Len(p) /\ n + 1 # 0 /\ (n + 1) - 1 = n /\ n + 1 \in DOMAIN p
      BY <1>0, <2>3
    <3>2. c[n + 1] = c[n] \o p[n + 1] /\ p[n + 1] \in Seq(T)
      BY <1>0, <1>6, <3>1
    <3> QED BY <3>1, <3>2
  <2> HIDE DEF A
  <2>4. \A n \in Nat : n \in A
    BY <2>2, <2>3, Induction
  <2>5. \A n \in 0 .. Len(p) : c[n] \in Seq(T)
    BY <1>0, <2>4 DEF A
  <2> QED BY <2>1, <2>5
<1> HIDE DEF c
<1> QED BY <1>5, <1>6, <1>7

LEMMA FlatAppend ==
  ASSUME NEW T
  PROVE  /\ Flat(<<>>) = <<>>
         /\ \A p \in Seq(Seq(T)) : Flat(p) \in Seq(T)
         /\ \A p \in Seq(Seq(T)), g \in Seq(T) : Flat(Append(p, g)) = Flat(p) \o g
<1> DEFINE G == Seq(T)
           Computes(f, p) ==
             /\ f \in [0 .. Len(p) -> G]
             /\ \A n \in 0 .. Len(p) : f[n] = IF n = 0 THEN <<>> ELSE f[n - 1] \o p[n]
<1>0. \A p \in Seq(G) : \E f : Computes(f, p) /\ Flat(p) = f[Len(p)]
  BY FlatComputed
<1> HIDE DEF G
<1>1. Flat(<<>>) = <<>>
  <2>1. <<>> \in Seq(G) /\ Len(<<>>) = 0
    OBVIOUS
  <2>2. PICK f : Computes(f, <<>>) /\ Flat(<<>>) = f[0]
    <3> HIDE DEF Computes
    <3> QED BY <1>0, <2>1
  <2> QED BY <2>2
<1>2. ASSUME NEW p \in Seq(G), NEW x \in G PROVE Flat(Append(p, x)) = Flat(p) \o x
  <2> DEFINE r == Append(p, x)
             N == Len(p)
  <2>1. r \in Seq(G) /\ Len(r) = N + 1 /\ N \in Nat /\ r[N + 1] = x /\ \A n \in 1 .. N : r[n] = p[n]
    OBVIOUS
  <2> HIDE DEF r, N
  <2>2. PICK f : Computes(f, p) /\ Flat(p) = f[N]
    <3> HIDE DEF Computes
    <3> QED BY <1>0 DEF N
  <2>3. PICK h : Computes(h, r) /\ Flat(r) = h[N + 1]
    <3> HIDE DEF Computes
    <3> QED BY <1>0, <2>1
  <2> DEFINE A == { n \in Nat : n <= N => f[n] = h[n] }
  <2>4. 0 \in A
    BY <2>1, <2>2, <2>3 DEF N
  <2>5. ASSUME NEW n \in Nat, n \in A PROVE n + 1 \in A
    <3> SUFFICES ASSUME n + 1 <= N PROVE f[n + 1] = h[n + 1]
      OBVIOUS
    <3>1. f[n] = h[n] /\ n + 1 \in 0 .. N /\ n + 1 \in 0 .. N + 1 /\ n + 1 # 0 /\ (n + 1) - 1 = n
          /\ r[n + 1] = p[n + 1]
      BY <2>1, <2>5
    <3>2. f[n + 1] = f[n] \o p[n + 1]
      BY <2>2, <3>1 DEF N
    <3>3. h[n + 1] = h[n] \o r[n + 1]
      BY <2>1, <2>3, <3>1
    <3> QED BY <3>1, <3>2, <3>3
  <2> HIDE DEF A
  <2>6. N \in A
    BY <2>1, <2>4, <2>5, Induction
  <2>7. f[N] = h[N]
    BY <2>1, <2>6 DEF A
  <2>8. h[N + 1] = h[N] \o x
    <3>1. N + 1 \in 0 .. N + 1 /\ N + 1 # 0 /\ (N + 1) - 1 = N
      BY <2>1
    <3> QED BY <2>1, <2>3, <3>1
  <2> QED BY <2>2, <2>3, <2>7, <2>8 DEF r
<1>3. ASSUME NEW p \in Seq(G) PROVE Flat(p) \in G
  <2>1. PICK f : Computes(f, p) /\ Flat(p) = f[Len(p)]
    <3> HIDE DEF Computes
    <3> QED BY <1>0
  <2>2. Len(p) \in 0 .. Len(p)
    OBVIOUS
  <2> QED BY <2>1, <2>2
<1> HIDE DEF Computes
<1> QED BY <1>1, <1>2, <1>3 DEF G

\* The first group arrives, and another enters.
LEMMA FlatCarry ==
  ASSUME NEW T, NEW p \in Seq(Seq(T)), p # <<>>, NEW g \in Seq(T)
  PROVE  Flat(p) \o g = Head(p) \o Flat(Carry(p, g))
<1> DEFINE G == Seq(T)
<1>0. /\ Flat(<<>>) = <<>> /\ \A q \in Seq(G) : Flat(q) \in Seq(T)
      /\ \A q \in Seq(G), x \in G : Flat(Append(q, x)) = Flat(q) \o x
  BY FlatAppend
<1> DEFINE A == { q \in Seq(G) : \A x \in G : Flat(<<x>> \o q) = x \o Flat(q) }
<1>1. <<>> \in A
  <2>1. ASSUME NEW x \in G PROVE Flat(<<x>> \o <<>>) = x \o <<>>
    <3>1. <<x>> \o <<>> = Append(<<>>, x)
      OBVIOUS
    <3>2. Flat(Append(<<>>, x)) = <<>> \o x
      <4>1. <<>> \in Seq(G)
        OBVIOUS
      <4> HIDE DEF G
      <4> QED BY <1>0, <4>1
    <3>3. <<>> \o x = x /\ x \o <<>> = x
      OBVIOUS
    <3> HIDE DEF G
    <3> QED BY <3>1, <3>2, <3>3
  <2>2. <<>> \in Seq(G)
    OBVIOUS
  <2> HIDE DEF G
  <2> QED BY <1>0, <2>1, <2>2
<1>2. ASSUME NEW q \in Seq(G), NEW y \in G, q \in A PROVE Append(q, y) \in A
  <2>1. ASSUME NEW x \in G PROVE Flat(<<x>> \o Append(q, y)) = x \o Flat(Append(q, y))
    <3>1. Flat(<<x>> \o q) = x \o Flat(q)
      BY <1>2
    <3> DEFINE r == <<x>> \o q
    <3>2. r \in Seq(G) /\ <<x>> \o Append(q, y) = Append(r, y)
      <4> HIDE DEF G
      <4> QED OBVIOUS
    <3> HIDE DEF r
    <3>3. Flat(Append(r, y)) = Flat(r) \o y
      BY <1>0, <3>2
    <3>4. Flat(q) \in Seq(T)
      BY <1>0
    <3>5. (x \o Flat(q)) \o y = x \o (Flat(q) \o y)
      BY <3>4, Associative, SMTT(30)
    <3>6. Flat(Append(q, y)) = Flat(q) \o y
      BY <1>0
    <3> HIDE DEF G
    <3> QED BY <3>1, <3>2, <3>3, <3>5, <3>6 DEF r
  <2>2. Append(q, y) \in Seq(G)
    <3> HIDE DEF G
    <3> QED OBVIOUS
  <2> QED BY <2>1, <2>2
<1> HIDE DEF A
<1>3. Tail(p) \in A
  <2>1. Tail(p) \in Seq(G)
    OBVIOUS
  <2> HIDE DEF G
  <2> QED BY <1>1, <1>2, <2>1, SequenceInduction
<1>4. Head(p) \in G /\ Tail(p) \in Seq(G) /\ p = <<Head(p)>> \o Tail(p)
  <2>1. p \in Seq(G)
    OBVIOUS
  <2> HIDE DEF G
  <2>2. Head(p) \in G /\ Tail(p) \in Seq(G)
    BY <2>1
  <2> DEFINE q == <<Head(p)>> \o Tail(p)
  <2>3. q \in Seq(G) /\ Len(q) = Len(p) /\ \A n \in 1 .. Len(p) : q[n] = p[n]
    BY <2>1, <2>2
  <2> HIDE DEF q
  <2>4. q = p
    BY <2>1, <2>3
  <2> QED BY <2>2, <2>4 DEF q
<1>5. Flat(p) = Head(p) \o Flat(Tail(p))
  BY <1>3, <1>4 DEF A
<1>6. Flat(Carry(p, g)) = Flat(Tail(p)) \o g
  BY <1>0, <1>4 DEF Carry
<1>7. Flat(Tail(p)) \in Seq(T)
  BY <1>0, <1>4
<1>8. (Head(p) \o Flat(Tail(p))) \o g = Head(p) \o (Flat(Tail(p)) \o g)
  <2> DEFINE h == Head(p)
             r == Flat(Tail(p))
  <2>1. h \in Seq(T) /\ r \in Seq(T)
    BY <1>4, <1>7
  <2> HIDE DEF h, r
  <2>2. (h \o r) \o g = h \o (r \o g)
    <3> DEFINE S == Seq(T)
    <3>1. ASSUME NEW x \in S, NEW y \in S, NEW z \in S PROVE (x \o y) \o z = x \o (y \o z)
      BY SMTT(30)
    <3> HIDE DEF S
    <3>2. h \in S /\ r \in S /\ g \in S
      BY <2>1 DEF S
    <3> QED BY <3>1, <3>2
  <2> QED BY <2>2 DEF h, r
<1> QED BY <1>5, <1>6, <1>8

LEMMA FlatVacant ==
  ASSUME NEW T, NEW p \in Seq(Seq(T)), \A n \in DOMAIN p : p[n] = <<>>
  PROVE  Flat(p) = <<>>
<1>1. PICK f \in [0 .. Len(p) -> Seq(T)] :
        /\ \A n \in 0 .. Len(p) : f[n] = IF n = 0 THEN <<>> ELSE f[n - 1] \o p[n]
        /\ Flat(p) = f[Len(p)]
  BY FlatComputed
<1>0. Len(p) \in Nat /\ DOMAIN p = 1 .. Len(p)
  OBVIOUS
<1> DEFINE A == { n \in Nat : n <= Len(p) => f[n] = <<>> }
<1>2. 0 \in A
  <2>1. 0 \in 0 .. Len(p)
    BY <1>0
  <2>2. f[0] = <<>>
    BY <1>1, <2>1
  <2> QED BY <2>2
<1>3. ASSUME NEW n \in Nat, n \in A PROVE n + 1 \in A
  <2> SUFFICES ASSUME n + 1 <= Len(p) PROVE f[n + 1] = <<>>
    OBVIOUS
  <2>1. f[n] = <<>> /\ n + 1 \in 0 .. Len(p) /\ n + 1 # 0 /\ (n + 1) - 1 = n /\ n + 1 \in DOMAIN p
    BY <1>0, <1>3
  <2>2. f[n + 1] = f[n] \o p[n + 1]
    BY <1>1, <2>1
  <2>3. p[n + 1] = <<>>
    BY <2>1
  <2> QED BY <2>1, <2>2, <2>3
<1> HIDE DEF A
<1>4. Len(p) \in A
  BY <1>0, <1>2, <1>3, Induction
<1> QED BY <1>0, <1>1, <1>4 DEF A

\* How many triangles a pipe holds.
Cells(pipe) == { at \in (DOMAIN pipe) \X (1 .. TrianglesCycle) : at[2] <= Len(pipe[at[1]]) }

LEMMA CellsFinite ==
  ASSUME NEW latency \in Nat, latency > 0, NEW pipe \in Pipe(latency)
  PROVE  IsFiniteSet(Cells(pipe)) /\ Crossing(pipe) = Cardinality(Cells(pipe))
<1>1. IsFiniteSet(1 .. latency) /\ IsFiniteSet(1 .. TrianglesCycle)
  BY SizeAssumption, FS_Interval
<1>2. IsFiniteSet((1 .. latency) \X (1 .. TrianglesCycle))
  BY <1>1, FS_Product
<1>3. DOMAIN pipe = 1 .. latency
  BY PipeIs
<1>4. Cells(pipe) \subseteq (1 .. latency) \X (1 .. TrianglesCycle)
  BY <1>3 DEF Cells
<1>5. IsFiniteSet(Cells(pipe))
  BY <1>2, <1>4, FS_Subset
<1> QED BY <1>5 DEF Crossing, Cells

\* The cells of one group.
Filled(n, k) == {n} \X (1 .. k)

LEMMA GroupCells ==
  ASSUME NEW n \in Nat, NEW k \in Nat
  PROVE  IsFiniteSet(Filled(n, k)) /\ Cardinality(Filled(n, k)) = k
<1> DEFINE S == {n}
           T == 1 .. k
<1>1. IsFiniteSet(S) /\ Cardinality(S) = 1
  BY FS_Singleton
<1>2. IsFiniteSet(T) /\ Cardinality(T) = k
  BY FS_Interval
<1> HIDE DEF S, T
<1>3. IsFiniteSet(S \X T) /\ Cardinality(S \X T) = 1 * k
  BY <1>1, <1>2, FS_Product
<1> QED BY <1>3 DEF Filled, S, T

LEMMA CrossingIs ==
  ASSUME NEW latency \in Nat, latency > 0, NEW pipe \in Pipe(latency)
  PROVE  /\ Crossing(pipe) \in Nat /\ Len(pipe[1]) <= Crossing(pipe)
         /\ Vacant(pipe) => Crossing(pipe) = 0
<1>1. IsFiniteSet(Cells(pipe)) /\ Crossing(pipe) = Cardinality(Cells(pipe))
  BY CellsFinite
<1>2. Crossing(pipe) \in Nat
  BY <1>1, FS_CardinalityType
<1>3. Len(pipe[1]) <= Crossing(pipe)
  <2>1. 1 \in DOMAIN pipe /\ Len(pipe[1]) \in 0 .. TrianglesCycle /\ TrianglesCycle \in Nat
    BY PipeIs, SizeAssumption
  <2>2. Filled(1, Len(pipe[1])) \subseteq Cells(pipe)
    BY <2>1 DEF Cells, Filled
  <2>3. Len(pipe[1]) \in Nat /\ 1 \in Nat
    BY <2>1
  <2>4. Cardinality(Filled(1, Len(pipe[1]))) = Len(pipe[1])
    BY <2>3, GroupCells
  <2> QED BY <1>1, <2>2, <2>4, FS_Subset
<1>4. Vacant(pipe) => Crossing(pipe) = 0
  <2>1. Vacant(pipe) => Cells(pipe) = {}
    BY DEF Vacant, Cells
  <2> QED BY <1>1, <2>1, FS_EmptySet
<1> QED BY <1>2, <1>3, <1>4

LEMMA CrossingCarry ==
  ASSUME NEW latency \in Nat, latency > 0, NEW pipe \in Pipe(latency), NEW group \in Group
  PROVE  Crossing(Carry(pipe, group)) = Crossing(pipe) - Len(pipe[1]) + Len(group)
<1> DEFINE q == Carry(pipe, group)
           h == Filled(1, Len(pipe[1]))
           g == Filled(latency, Len(group))
           shift == [at \in Cells(pipe) \ h |-> <<at[1] - 1, at[2]>>]
<1>1. /\ q \in Pipe(latency) /\ q[latency] = group
      /\ \A n \in 1 .. latency - 1 : q[n] = pipe[n + 1]
  BY CarryIs
<1>2. /\ DOMAIN q = 1 .. latency /\ DOMAIN pipe = 1 .. latency
      /\ Len(pipe[1]) \in 0 .. TrianglesCycle /\ Len(group) \in 0 .. TrianglesCycle
      /\ TrianglesCycle \in Nat
  <2>1. Len(group) \in Nat /\ Len(group) <= TrianglesCycle
    BY DEF Group
  <2> QED BY <1>1, <2>1, PipeIs, SizeAssumption
<1> HIDE DEF q
<1>3. /\ IsFiniteSet(Cells(pipe)) /\ Crossing(pipe) = Cardinality(Cells(pipe))
      /\ IsFiniteSet(Cells(q)) /\ Crossing(q) = Cardinality(Cells(q))
  BY <1>1, CellsFinite
<1>4. h \subseteq Cells(pipe) /\ g \subseteq Cells(q)
  BY <1>1, <1>2 DEF Cells, Filled
<1>5. /\ IsFiniteSet(h) /\ Cardinality(h) = Len(pipe[1])
      /\ IsFiniteSet(g) /\ Cardinality(g) = Len(group)
  <2>1. Len(pipe[1]) \in Nat /\ Len(group) \in Nat /\ 1 \in Nat
    BY <1>2
  <2> QED BY <2>1, GroupCells
<1>6. \A at \in Cells(pipe) \ h :
        /\ at = <<at[1], at[2]>> /\ at[1] \in 2 .. latency /\ at[2] \in 1 .. TrianglesCycle
        /\ at[2] <= Len(pipe[at[1]])
  BY <1>2 DEF Cells, Filled
<1>7. \A at \in Cells(q) \ g :
        /\ at = <<at[1], at[2]>> /\ at[1] \in 1 .. latency - 1 /\ at[2] \in 1 .. TrianglesCycle
        /\ at[2] <= Len(q[at[1]])
  BY <1>1, <1>2 DEF Cells, Filled
<1>8. ASSUME NEW at \in Cells(pipe) \ h
      PROVE  <<at[1] - 1, at[2]>> \in Cells(q) \ g
  <2>1. at[1] - 1 \in 1 .. latency - 1 /\ at[1] - 1 # latency /\ (at[1] - 1) + 1 = at[1]
    BY <1>6
  <2>2. q[at[1] - 1] = pipe[at[1]]
    BY <1>1, <2>1
  <2>3. at[2] <= Len(q[at[1] - 1]) /\ at[1] - 1 \in DOMAIN q /\ at[2] \in 1 .. TrianglesCycle
    BY <1>2, <1>6, <2>1, <2>2
  <2> QED BY <2>1, <2>3 DEF Cells, Filled
<1>9. ASSUME NEW at \in Cells(q) \ g
      PROVE  <<at[1] + 1, at[2]>> \in Cells(pipe) \ h
  <2>1. at[1] + 1 \in 2 .. latency /\ at[1] + 1 # 1 /\ q[at[1]] = pipe[at[1] + 1]
    BY <1>1, <1>7
  <2>2. at[2] <= Len(pipe[at[1] + 1]) /\ at[1] + 1 \in DOMAIN pipe /\ at[2] \in 1 .. TrianglesCycle
    BY <1>2, <1>7, <2>1
  <2> QED BY <2>1, <2>2 DEF Cells, Filled
<1>10. shift \in Bijection(Cells(pipe) \ h, Cells(q) \ g)
  <2>1. shift \in [Cells(pipe) \ h -> Cells(q) \ g]
    BY <1>8
  <2>2. ASSUME NEW a \in Cells(pipe) \ h, NEW b \in Cells(pipe) \ h, shift[a] = shift[b]
        PROVE  a = b
    <3>1. <<a[1] - 1, a[2]>> = <<b[1] - 1, b[2]>>
      BY <2>2
    <3>2. a[1] - 1 = b[1] - 1 /\ a[2] = b[2]
      BY <3>1
    <3>3. a[1] = b[1]
      BY <1>6, <3>2
    <3> QED BY <1>6, <3>2, <3>3
  <2>3. ASSUME NEW c \in Cells(q) \ g PROVE \E a \in Cells(pipe) \ h : shift[a] = c
    <3> DEFINE a == <<c[1] + 1, c[2]>>
    <3>1. a \in Cells(pipe) \ h
      BY <1>9
    <3>2. shift[a] = <<a[1] - 1, a[2]>>
      BY <3>1
    <3>3. a[1] - 1 = c[1] /\ a[2] = c[2]
      BY <1>7
    <3>4. shift[a] = c
      BY <1>7, <3>2, <3>3
    <3> QED BY <3>1, <3>4
  <2> HIDE DEF shift
  <2> QED BY <2>1, <2>2, <2>3 DEF Bijection, Injection, IsInjective, Surjection
<1> HIDE DEF shift, h, g
<1>11. IsFiniteSet(Cells(pipe) \ h)
  BY <1>3, FS_Subset
<1>12. Cardinality(Cells(q) \ g) = Cardinality(Cells(pipe) \ h)
  <2>1. ExistsBijection(Cells(pipe) \ h, Cells(q) \ g)
    BY <1>10 DEF ExistsBijection
  <2> QED BY <1>11, <2>1, FS_Bijection
<1>13. Cardinality(Cells(pipe) \ h) = Cardinality(Cells(pipe)) - Cardinality(h)
  <2>1. Cells(pipe) \cap h = h
    BY <1>4
  <2>2. Cardinality(Cells(pipe) \ h) = Cardinality(Cells(pipe)) - Cardinality(Cells(pipe) \cap h)
    BY <1>3, FS_Difference
  <2> QED BY <2>1, <2>2
<1>14. Cardinality(Cells(q) \ g) = Cardinality(Cells(q)) - Cardinality(g)
  <2>1. Cells(q) \cap g = g
    BY <1>4
  <2>2. Cardinality(Cells(q) \ g) = Cardinality(Cells(q)) - Cardinality(Cells(q) \cap g)
    BY <1>3, FS_Difference
  <2> QED BY <2>1, <2>2
<1>15. Cardinality(Cells(pipe)) \in Nat /\ Cardinality(Cells(q)) \in Nat
  BY <1>3, FS_CardinalityType
<1> QED BY <1>2, <1>3, <1>5, <1>12, <1>13, <1>14, <1>15 DEF q

-----------------------------------------------------------------------------
(* Primitive Assembly.                                                     *)

LEMMA Sizes ==
  /\ VerticesCycle \in Nat /\ VerticesCycle > 0 /\ TrianglesCycle \in Nat /\ TrianglesCycle > 0
  /\ ClipStart \in Nat /\ ClipStart > 0 /\ ClipLatency \in Nat /\ ClipLatency > 0
  /\ BusLatency \in Nat /\ BusLatency > 0 /\ SetupFIFO \in Nat /\ SetupFIFO > 0
  /\ SetupStart \in Nat /\ SetupStart > 0 /\ SetupLatency \in Nat /\ SetupLatency > 0
  /\ OutputLatency \in Nat /\ OutputLatency > 0 /\ TriangleBatch \in Nat /\ TriangleBatch > 0
  /\ AssemblyQueue \in Nat /\ AssemblyQueue >= 4
  /\ ClipBuffer \in Nat /\ ClipBuffer > 3 * TrianglesCycle
  /\ TriangleQueue \in Nat /\ TriangleQueue >= TriangleBatch + TrianglesCycle - 1
BY SizeAssumption

LEMMA BatchIs ==
  ASSUME batch \in Batches
  PROVE  /\ batch.primitive \in {"TRIANGLE", "TRIANGLE_STRIP", "TRIANGLE_FAN", "QUAD", "QUAD_STRIP"}
         /\ batch.indices \in Seq(Nat) /\ VertexCount \in Nat
BY BatchAssumption DEF VertexCount

LEMMA Rings ==
  /\ \A n \in Int : Mod(n) \in 0 .. AssemblyQueue - 1
  /\ \A entry \in 0 .. AssemblyQueue - 1, n \in Nat : After(entry, n) \in 0 .. AssemblyQueue - 1
<1>1. AssemblyQueue \in Nat /\ AssemblyQueue >= 4
  BY Sizes
<1>2. \A n \in Int : Mod(n) \in 0 .. AssemblyQueue - 1
  BY <1>1, DivMod DEF Mod
<1>3. ASSUME NEW entry \in 0 .. AssemblyQueue - 1, NEW n \in Nat
      PROVE  After(entry, n) \in 0 .. AssemblyQueue - 1
  <2>1. entry + n \in Int /\ 1 \in 0 .. AssemblyQueue - 1
    BY <1>1
  <2> QED BY <1>2, <2>1 DEF After
<1> QED BY <1>2, <1>3

LEMMA EntriesAre ==
  ASSUME batch \in Batches, NEW p \in PaState
  PROVE  \A n \in 1 .. 3 : EntriesOf(p)[n] \in 0 .. AssemblyQueue - 1
<1>1. p.lastVertex \in 0 .. AssemblyQueue - 1 /\ AssemblyQueue \in Nat /\ AssemblyQueue >= 4
  BY Sizes DEF PaState
<1>2. \A n \in {0, 1, 2, 3} : Mod(p.lastVertex - n) \in 0 .. AssemblyQueue - 1
  <2>1. \A n \in {0, 1, 2, 3} : p.lastVertex - n \in Int
    BY <1>1
  <2> QED BY <2>1, Rings
<1>3. 0 \in 0 .. AssemblyQueue - 1 /\ AssemblyQueue - 1 \in 0 .. AssemblyQueue - 1
  BY <1>1
<1> DEFINE R == 0 .. AssemblyQueue - 1
<1>4. \A a, b, c \in R : \A n \in 1 .. 3 : <<a, b, c>>[n] \in R
  <2> TAKE a, b, c \in R
  <2> TAKE n \in 1 .. 3
  <2>1. n = 1 \/ n = 2 \/ n = 3
    OBVIOUS
  <2> QED BY <2>1
<1> HIDE DEF R
<1>5. \A n \in {0, 1, 2, 3} : Mod(p.lastVertex - n) \in R
  BY <1>2 DEF R
<1>6. 0 \in R /\ AssemblyQueue - 1 \in R
  BY <1>3 DEF R
<1>7. \A n \in 1 .. 3 : EntriesOf(p)[n] \in R
  <2>1. CASE batch.primitive = "TRIANGLE"
    BY <1>4, <1>5, <2>1 DEF EntriesOf
  <2>2. CASE batch.primitive = "TRIANGLE_STRIP"
    BY <1>4, <1>5, <2>2 DEF EntriesOf
  <2>3. CASE batch.primitive = "TRIANGLE_FAN"
    BY <1>4, <1>5, <1>6, <2>3 DEF EntriesOf
  <2>4. CASE batch.primitive = "QUAD"
    BY <1>4, <1>5, <2>4 DEF EntriesOf
  <2>5. CASE batch.primitive = "QUAD_STRIP"
    BY <1>4, <1>5, <2>5 DEF EntriesOf
  <2> QED BY <2>1, <2>2, <2>3, <2>4, <2>5, BatchIs
<1> QED BY <1>7 DEF R

\* A field of a box is given a value of its type.
LEMMA PaFields ==
  ASSUME NEW q \in PaState
  PROVE  /\ \A n \in Nat : /\ [q EXCEPT !.count = n] \in PaState
                          /\ [q EXCEPT !.requests = n] \in PaState
                          /\ [q EXCEPT !.received = n] \in PaState
         /\ \A n \in 0 .. AssemblyQueue : /\ [q EXCEPT !.stored = n] \in PaState
                                         /\ [q EXCEPT !.asked = n] \in PaState
         /\ \A n \in 0 .. AssemblyQueue - 1 : /\ [q EXCEPT !.lastVertex = n] \in PaState
                                             /\ [q EXCEPT !.free = n] \in PaState
         /\ \A n \in 0 .. AssemblyQueue - 1, v \in Nat : [q EXCEPT !.queue[n] = v] \in PaState
         /\ \A n \in 0 .. ClipStart : [q EXCEPT !.wait = n] \in PaState
         /\ \A b \in BOOLEAN : [q EXCEPT !.odd = b] \in PaState /\ [q EXCEPT !.last = b] \in PaState
         /\ \A s \in States : [q EXCEPT !.state = s] \in PaState
<1>1. \A n \in Nat : /\ [q EXCEPT !.count = n] \in PaState
                    /\ [q EXCEPT !.requests = n] \in PaState
                    /\ [q EXCEPT !.received = n] \in PaState
  BY DEF PaState
<1>2. \A n \in 0 .. AssemblyQueue : /\ [q EXCEPT !.stored = n] \in PaState
                                   /\ [q EXCEPT !.asked = n] \in PaState
  BY DEF PaState
<1>3. \A n \in 0 .. AssemblyQueue - 1 : /\ [q EXCEPT !.lastVertex = n] \in PaState
                                       /\ [q EXCEPT !.free = n] \in PaState
  BY DEF PaState
<1>4. \A n \in 0 .. AssemblyQueue - 1, v \in Nat : [q EXCEPT !.queue[n] = v] \in PaState
  BY DEF PaState
<1>5. \A n \in 0 .. ClipStart : [q EXCEPT !.wait = n] \in PaState
  BY DEF PaState
<1>6. \A b \in BOOLEAN : [q EXCEPT !.odd = b] \in PaState /\ [q EXCEPT !.last = b] \in PaState
  BY DEF PaState
<1>7. \A s \in States : [q EXCEPT !.state = s] \in PaState
  BY DEF PaState
<1> QED BY <1>1, <1>2, <1>3, <1>4, <1>5, <1>6, <1>7

LEMMA PassOverIs ==
  ASSUME batch \in Batches, NEW p \in PaState, p.stored >= Needed
  PROVE  /\ PassOver(p) \in PaState /\ PassOver(p).stored <= p.stored
         /\ \A f \in {"state", "received", "asked", "free", "queue", "last", "requests", "wait"} :
              PassOver(p)[f] = p[f]
<1>1. /\ p.stored \in 0 .. AssemblyQueue /\ p.count \in Nat /\ p.odd \in BOOLEAN
      /\ p.lastVertex \in 0 .. AssemblyQueue - 1 /\ AssemblyQueue \in Nat
  BY Sizes DEF PaState
<1>2. Used(p) \in 0 .. Needed /\ Used(p) \in Nat
  BY BatchIs DEF Used, Needed
<1>3. p.stored - Used(p) \in 0 .. AssemblyQueue /\ p.stored - Used(p) <= p.stored
  <2>1. Needed \in Nat
    BY DEF Needed
  <2> QED BY <1>1, <1>2, <2>1
<1>4. (IF Used(p) = 0 THEN p.lastVertex ELSE After(p.lastVertex, Used(p))) \in 0 .. AssemblyQueue - 1
  BY <1>1, <1>2, Rings
<1>5. (IF batch.primitive \in {"TRIANGLE", "TRIANGLE_FAN"} THEN p.odd ELSE ~p.odd) \in BOOLEAN
  BY <1>1
<1> DEFINE s == p.stored - Used(p)
           v == IF Used(p) = 0 THEN p.lastVertex ELSE After(p.lastVertex, Used(p))
           o == IF batch.primitive \in {"TRIANGLE", "TRIANGLE_FAN"} THEN p.odd ELSE ~p.odd
<1>6. PassOver(p) = [p EXCEPT !.stored = s, !.count = p.count + 1, !.lastVertex = v, !.odd = o]
  BY DEF PassOver, PaState
<1> HIDE DEF s, v, o
<1>7. s \in 0 .. AssemblyQueue /\ s <= p.stored /\ v \in 0 .. AssemblyQueue - 1 /\ o \in BOOLEAN
  BY <1>3, <1>4, <1>5 DEF s, v, o
<1>8. PassOver(p) \in PaState
  <2>1. [p EXCEPT !.stored = s] \in PaState
    BY <1>7, PaFields
  <2>2. p.count + 1 \in Nat
    BY <1>1
  <2>3. [[p EXCEPT !.stored = s] EXCEPT !.count = p.count + 1] \in PaState
    BY <2>1, <2>2, PaFields
  <2>4. [[[p EXCEPT !.stored = s] EXCEPT !.count = p.count + 1] EXCEPT !.lastVertex = v] \in PaState
    BY <1>7, <2>3, PaFields
  <2> QED BY <1>6, <1>7, <2>4, PaFields
<1>9. PassOver(p).stored = s
  BY <1>6 DEF PaState
<1>10. /\ PassOver(p).state = p.state /\ PassOver(p).received = p.received
       /\ PassOver(p).asked = p.asked /\ PassOver(p).free = p.free /\ PassOver(p).queue = p.queue
       /\ PassOver(p).last = p.last /\ PassOver(p).requests = p.requests /\ PassOver(p).wait = p.wait
  BY <1>6 DEF PaState
<1> QED BY <1>7, <1>8, <1>9, <1>10

Assembling == [pa : PaState, sent : Seq(Triangles)]
Kept == {"state", "received", "asked", "free", "queue", "last"}

\* A vertex arrives.
Received(q) ==
  [q EXCEPT !.queue[q.free] = batch.indices[q.received + 1],
            !.free = After(@, 1), !.received = @ + 1, !.stored = @ + 1, !.asked = @ - 1]

-----------------------------------------------------------------------------
(* The ring of the assembly queue.                                         *)

\* Entry of the vertex with position j in the batch: a fan keeps the first one
\* in entry 0 and takes the others in turn.
Slot(j) ==
  IF batch.primitive = "TRIANGLE_FAN" /\ j > 0 THEN 1 + ((j - 1) % (AssemblyQueue - 1)) ELSE Mod(j)

\* One more wraps, or not.
LEMMA ModNext ==
  ASSUME NEW c \in Nat, c > 0, NEW j \in Nat, NEW d \in 0 .. c
  PROVE  /\ j % c \in 0 .. c - 1
         /\ (j + d) % c = IF (j % c) + d < c THEN (j % c) + d ELSE ((j % c) + d) - c
<1> DEFINE r == j % c
<1>1. r \in 0 .. c - 1
  BY DivMod
<1>2. (r + d) % c = (j + d) % c
  <2>1. j \in Int /\ d \in Int
    OBVIOUS
  <2>2. \A a, b \in Int : ((a % c) + b) % c = (a + b) % c
    BY ModPlus
  <2> QED BY <2>1, <2>2
<1> HIDE DEF r
<1>3. r + d \in 0 .. 2 * c - 1
  BY <1>1
<1> DEFINE n == r + d
<1>4. n % c = IF n < c THEN n ELSE n - c
  <2>1. n \in 0 .. 2 * c - 1
    BY <1>3
  <2> HIDE DEF n
  <2> QED BY <2>1, ModOnce
<1>5. (r + d) % c = IF r + d < c THEN r + d ELSE (r + d) - c
  BY <1>4
<1>6. r \in 0 .. c - 1 /\ (j + d) % c = IF r + d < c THEN r + d ELSE (r + d) - c
  BY <1>1, <1>2, <1>5
<1> QED BY <1>6 DEF r

LEMMA ModsAdd ==
  \A a, b \in Int : ((a % AssemblyQueue) + b) % AssemblyQueue = (a + b) % AssemblyQueue
<1> TAKE a, b \in Int
<1>1. AssemblyQueue \in Nat /\ AssemblyQueue > 0
  BY Sizes
<1> QED BY <1>1, ModPlus

LEMMA SlotIs ==
  ASSUME NEW j \in Nat
  PROVE  /\ Slot(j) \in 0 .. AssemblyQueue - 1
         /\ batch.primitive # "TRIANGLE_FAN" => Slot(j) = j % AssemblyQueue
         /\ batch.primitive = "TRIANGLE_FAN" =>
              Slot(j) = IF j = 0 THEN 0 ELSE 1 + ((j - 1) % (AssemblyQueue - 1))
<1>1. AssemblyQueue \in Nat /\ AssemblyQueue >= 4
  BY Sizes
<1>2. Mod(j) \in 0 .. AssemblyQueue - 1
  BY Rings
<1>3. 0 % AssemblyQueue = 0
  <2>1. 0 \in 0 .. 2 * AssemblyQueue - 1
    BY <1>1
  <2> QED BY <1>1, <2>1, ModOnce
<1>4. j > 0 => (j - 1) % (AssemblyQueue - 1) \in 0 .. AssemblyQueue - 2
  <2> SUFFICES ASSUME j > 0 PROVE (j - 1) % (AssemblyQueue - 1) \in 0 .. AssemblyQueue - 2
    OBVIOUS
  <2> DEFINE c == AssemblyQueue - 1
             i == j - 1
  <2>1. c \in Nat /\ c > 0 /\ i \in Int
    BY <1>1
  <2> HIDE DEF c, i
  <2>2. i % c \in 0 .. c - 1
    BY <2>1, DivMod
  <2>3. i % c \in 0 .. AssemblyQueue - 2
    BY <1>1, <2>2 DEF c
  <2> QED BY <2>3 DEF c, i
<1> DEFINE r == (j - 1) % (AssemblyQueue - 1)
<1> HIDE DEF r
<1>5. j > 0 => 1 + r \in 0 .. AssemblyQueue - 1
  <2>1. j > 0 => r \in 0 .. AssemblyQueue - 2
    BY <1>4 DEF r
  <2> QED BY <1>1, <2>1
<1>6. Slot(j) = IF batch.primitive = "TRIANGLE_FAN" /\ j > 0 THEN 1 + r ELSE Mod(j)
  BY DEF Slot, r
<1>7. Slot(j) \in 0 .. AssemblyQueue - 1
  BY <1>2, <1>5, <1>6
<1>8. batch.primitive # "TRIANGLE_FAN" => Slot(j) = j % AssemblyQueue
  BY <1>6 DEF Mod
<1>9. batch.primitive = "TRIANGLE_FAN" => Slot(j) = IF j = 0 THEN 0 ELSE 1 + r
  <2>1. j = 0 => Mod(j) = 0
    BY <1>3 DEF Mod
  <2> QED BY <1>6, <2>1
<1> QED BY <1>7, <1>8, <1>9 DEF r

\* The entry after one.
LEMMA SlotAfter ==
  ASSUME NEW j \in Nat, NEW n \in 1 .. 4, batch.primitive = "TRIANGLE_FAN" => n = 1
  PROVE  After(Slot(j), n) = Slot(j + n)
<1>1. AssemblyQueue \in Nat /\ AssemblyQueue >= 4 /\ j + n \in Nat
  BY Sizes
<1>2. CASE batch.primitive # "TRIANGLE_FAN"
  <2>1. Slot(j) = j % AssemblyQueue /\ Slot(j + n) = (j + n) % AssemblyQueue
    BY <1>1, <1>2, SlotIs
  <2>2. ((j % AssemblyQueue) + n) % AssemblyQueue = (j + n) % AssemblyQueue
    <3>1. j \in Int /\ n \in Int
      OBVIOUS
    <3> QED BY <3>1, ModsAdd
  <2>3. After(Slot(j), n) = (Slot(j) + n) % AssemblyQueue
    BY <1>2 DEF After, Mod
  <2> QED BY <2>1, <2>2, <2>3
<1>3. CASE batch.primitive = "TRIANGLE_FAN" /\ j = 0
  <2> DEFINE c == AssemblyQueue - 1
  <2>0. n = 1 /\ c \in Nat /\ c > 2
    BY <1>1, <1>3
  <2>1. Slot(j) = 0 /\ Slot(1) = 1 + ((1 - 1) % c)
    BY <1>3, SlotIs
  <2> HIDE DEF c
  <2>2. 0 % c = 0
    <3>1. 0 \in 0 .. 2 * c - 1
      BY <2>0
    <3> QED BY <2>0, <3>1, ModOnce
  <2>3. 1 % AssemblyQueue = 1
    <3>1. 1 \in 0 .. 2 * AssemblyQueue - 1
      BY <1>1
    <3> QED BY <1>1, <3>1, ModOnce
  <2>4. After(0, 1) = 1 % AssemblyQueue
    BY <1>1 DEF After, Mod
  <2>5. Slot(1) = 1 + (0 % c)
    BY <2>1
  <2> QED BY <1>3, <2>0, <2>1, <2>2, <2>3, <2>4, <2>5
<1>4. CASE batch.primitive = "TRIANGLE_FAN" /\ j > 0
  <2> DEFINE c == AssemblyQueue - 1
             i == j - 1
             r == i % c
  <2>1. Slot(j) = 1 + r
    BY <1>4, SlotIs
  <2>2. n = 1 /\ c \in Nat /\ c > 2 /\ i \in Nat /\ i + 1 = j /\ 1 \in 0 .. c /\ c + 1 = AssemblyQueue
    BY <1>1, <1>4
  <2>3. Slot(j + 1) = 1 + (j % c)
    <3>1. (j + 1) - 1 = j /\ j + 1 \in Nat /\ j + 1 # 0
      OBVIOUS
    <3> HIDE DEF c
    <3>2. Slot(j + 1) = 1 + (((j + 1) - 1) % c)
      BY <1>4, <3>1, SlotIs DEF c
    <3> QED BY <3>1, <3>2
  <2> HIDE DEF c, i
  <2>4. r \in 0 .. c - 1 /\ (i + 1) % c = IF r + 1 < c THEN r + 1 ELSE (r + 1) - c
    <3>1. \A d \in 0 .. c :
            /\ i % c \in 0 .. c - 1
            /\ (i + d) % c = IF (i % c) + d < c THEN (i % c) + d ELSE ((i % c) + d) - c
      <4>1. c \in Nat /\ c > 0 /\ i \in Nat
        BY <2>2
      <4> QED BY <4>1, ModNext
    <3>2. 1 \in 0 .. c
      BY <2>2
    <3> QED BY <3>1, <3>2
  <2> HIDE DEF r
  <2>5. CASE r + 1 = c
    <3>1. Slot(j) = AssemblyQueue - 1
      <4>1. r \in Int /\ c \in Int /\ AssemblyQueue \in Int
        BY <1>1, <2>2, <2>4
      <4> QED BY <2>1, <2>2, <2>5, <4>1
    <3>2. After(Slot(j), 1) = 1
      BY <1>4, <3>1 DEF After
    <3>3. (i + 1) % c = 0
      BY <2>2, <2>4, <2>5
    <3>4. Slot(j + 1) = 1
      BY <2>2, <2>3, <3>3
    <3> QED BY <2>2, <3>2, <3>4
  <2>6. CASE r + 1 # c
    <3>1. r + 1 < c /\ (i + 1) % c = r + 1
      BY <2>2, <2>4, <2>6
    <3>2. Slot(j + 1) = r + 2
      BY <2>2, <2>3, <2>4, <3>1
    <3>3. Slot(j) # AssemblyQueue - 1 /\ Slot(j) + 1 = r + 2 /\ r + 2 \in 0 .. 2 * AssemblyQueue - 1
          /\ r + 2 < AssemblyQueue
      BY <2>1, <2>2, <2>4, <3>1
    <3>4. After(Slot(j), 1) = Mod(Slot(j) + 1)
      BY <3>3 DEF After
    <3> DEFINE m == r + 2
    <3>5. m \in 0 .. 2 * AssemblyQueue - 1 /\ m < AssemblyQueue
      BY <3>3
    <3> HIDE DEF m
    <3>6. m % AssemblyQueue = m
      BY <1>1, <3>5, ModOnce
    <3>7. After(Slot(j), 1) = m
      BY <3>3, <3>4, <3>6 DEF Mod, m
    <3> QED BY <2>2, <3>2, <3>7 DEF m
  <2> QED BY <2>5, <2>6
<1> QED BY <1>2, <1>3, <1>4

\* The entries before one.
LEMMA SlotBefore ==
  ASSUME NEW j \in Nat, NEW n \in 0 .. 3, n <= j
  PROVE  /\ batch.primitive # "TRIANGLE_FAN" => Mod(Slot(j) - n) = Slot(j - n)
         /\ batch.primitive = "TRIANGLE_FAN" /\ j >= 2 =>
              /\ Mod(Slot(j)) = Slot(j)
              /\ (IF Slot(j) = 1 THEN AssemblyQueue - 1 ELSE Mod(Slot(j) - 1)) = Slot(j - 1)
<1>1. AssemblyQueue \in Nat /\ AssemblyQueue >= 4 /\ j - n \in Nat
  BY Sizes
<1>2. ASSUME batch.primitive # "TRIANGLE_FAN" PROVE Mod(Slot(j) - n) = Slot(j - n)
  <2>1. Slot(j) = j % AssemblyQueue /\ Slot(j - n) = (j - n) % AssemblyQueue
    BY <1>1, <1>2, SlotIs
  <2> DEFINE b == 0 - n
  <2>2. b \in Int
    OBVIOUS
  <2>3. ((j % AssemblyQueue) + b) % AssemblyQueue = (j + b) % AssemblyQueue
    <3> HIDE DEF b
    <3> QED BY <2>2, ModsAdd
  <2>4. j % AssemblyQueue \in Int
    BY <1>1, DivMod
  <2> DEFINE r == j % AssemblyQueue
  <2>5. r + b = r - n /\ j + b = j - n
    <3>1. r \in Int
      BY <2>4
    <3> HIDE DEF r
    <3> QED BY <3>1
  <2>6. (r - n) % AssemblyQueue = (j - n) % AssemblyQueue
    BY <2>3, <2>5
  <2> QED BY <2>1, <2>6 DEF Mod
<1>3. ASSUME batch.primitive = "TRIANGLE_FAN", j >= 2
      PROVE  /\ Mod(Slot(j)) = Slot(j)
             /\ (IF Slot(j) = 1 THEN AssemblyQueue - 1 ELSE Mod(Slot(j) - 1)) = Slot(j - 1)
  <2> DEFINE s == Slot(j)
             t == Slot(j - 1)
  <2>1. /\ s \in 0 .. AssemblyQueue - 1 /\ t \in 0 .. AssemblyQueue - 1 /\ j - 1 \in Nat /\ j - 1 > 0
    <3>1. j - 1 \in Nat /\ j - 1 > 0
      BY <1>3
    <3> QED BY <3>1, SlotIs
  <2>2. After(t, 1) = s
    <3>1. (j - 1) + 1 = j /\ 1 \in 1 .. 4
      OBVIOUS
    <3>2. After(Slot(j - 1), 1) = Slot((j - 1) + 1)
      BY <2>1, <3>1, SlotAfter
    <3> QED BY <3>1, <3>2
  <2>3. t > 0
    <3> DEFINE c == AssemblyQueue - 1
               i == (j - 1) - 1
    <3>1. c \in Nat /\ c > 0 /\ i \in Int /\ j - 1 # 0
      BY <1>1, <2>1
    <3>2. t = 1 + (i % c)
      BY <1>3, <2>1, <3>1, SlotIs
    <3> HIDE DEF c, i, t
    <3>3. i % c \in 0 .. c - 1
      BY <3>1, DivMod
    <3> QED BY <3>1, <3>2, <3>3
  <2> HIDE DEF s, t
  <2>4. \A m \in 0 .. AssemblyQueue - 1 : Mod(m) = m
    <3> TAKE m \in 0 .. AssemblyQueue - 1
    <3>1. m \in 0 .. 2 * AssemblyQueue - 1 /\ m < AssemblyQueue
      BY <1>1
    <3> QED BY <1>1, <3>1, ModOnce DEF Mod
  <2>5. Mod(s) = s
    BY <2>1, <2>4
  <2>6. CASE t = AssemblyQueue - 1
    <3>1. s = 1
      BY <1>3, <2>2, <2>6 DEF After
    <3> QED BY <2>5, <2>6, <3>1 DEF s, t
  <2>7. CASE t # AssemblyQueue - 1
    <3>1. s = Mod(t + 1)
      BY <2>2, <2>7 DEF After
    <3>2. t + 1 \in 0 .. AssemblyQueue - 1
      BY <1>1, <2>1, <2>7
    <3>3. s = t + 1
      BY <2>4, <3>1, <3>2
    <3>4. s # 1 /\ s - 1 = t
      BY <1>1, <2>1, <2>3, <3>3
    <3>5. Mod(s - 1) = t
      BY <2>1, <2>4, <3>4
    <3> QED BY <2>5, <3>4, <3>5 DEF s, t
  <2> QED BY <2>6, <2>7
<1> QED BY <1>2, <1>3

\* Vertices that are in the queue together have entries of their own.
LEMMA SlotsDiffer ==
  ASSUME NEW i \in Nat, NEW j \in Nat, i < j,
         IF batch.primitive = "TRIANGLE_FAN" THEN i = 0 \/ j - i < AssemblyQueue - 1
                                             ELSE j - i < AssemblyQueue
  PROVE  Slot(i) # Slot(j)
<1>1. AssemblyQueue \in Nat /\ AssemblyQueue >= 4
  BY Sizes
<1>2. ASSUME NEW c \in Nat, c > 0, NEW k \in Nat, NEW l \in Nat, k < l, l - k < c
      PROVE  k % c # l % c
  <2> DEFINE d == l - k
             r == k % c
  <2>1. d \in 0 .. c /\ d > 0 /\ k + d = l /\ d < c
    BY <1>2
  <2> HIDE DEF d
  <2>2. k % c \in 0 .. c - 1 /\ (k + d) % c = IF (k % c) + d < c THEN (k % c) + d ELSE ((k % c) + d) - c
    BY <1>2, <2>1, ModNext
  <2>3. r \in 0 .. c - 1 /\ (k + d) % c = IF r + d < c THEN r + d ELSE (r + d) - c
    BY <2>2
  <2> HIDE DEF r
  <2>4. (k + d) % c # r
    BY <2>1, <2>3
  <2> QED BY <2>1, <2>4 DEF r
<1>3. CASE batch.primitive # "TRIANGLE_FAN"
  <2>1. Slot(i) = i % AssemblyQueue /\ Slot(j) = j % AssemblyQueue
    BY <1>3, SlotIs
  <2>2. i % AssemblyQueue # j % AssemblyQueue
    <3>1. AssemblyQueue > 0 /\ j - i < AssemblyQueue
      BY <1>1, <1>3
    <3> HIDE <1>3
    <3> QED BY <1>1, <1>2, <3>1
  <2> QED BY <2>1, <2>2
<1>4. CASE batch.primitive = "TRIANGLE_FAN"
  <2> DEFINE c == AssemblyQueue - 1
             k == i - 1
             l == j - 1
  <2>1. c \in Nat /\ c > 0 /\ l \in Nat
    BY <1>1
  <2>2. Slot(j) = 1 + (l % c) /\ (i > 0 => Slot(i) = 1 + (k % c)) /\ (i = 0 => Slot(i) = 0)
    BY <1>4, SlotIs
  <2>3. i > 0 => k \in Nat /\ k < l /\ l - k < c
    BY <1>1, <1>4
  <2> HIDE DEF c, k, l
  <2>4. l % c \in 0 .. c - 1
    BY <2>1, DivMod
  <2>5. CASE i = 0
    BY <2>2, <2>4, <2>5
  <2>6. CASE i > 0
    <3>1. k % c # l % c
      BY <1>2, <2>1, <2>3, <2>6
    <3>2. k % c \in 0 .. c - 1
      BY <2>1, <2>3, <2>6, DivMod
    <3> DEFINE x == k % c
               y == l % c
    <3>3. x \in Int /\ y \in Int /\ x # y /\ Slot(i) = 1 + x /\ Slot(j) = 1 + y
      BY <2>1, <2>2, <2>4, <2>6, <3>1, <3>2
    <3> HIDE DEF x, y
    <3> QED BY <3>3
  <2> QED BY <2>5, <2>6
<1> QED BY <1>3, <1>4

-----------------------------------------------------------------------------
(* The triangles of a batch in Primitive Assembly.                         *)

\* Vertices that the first k triangles leave behind.
Consumed(k) ==
  CASE batch.primitive = "TRIANGLE"   -> 3 * k
    [] batch.primitive = "QUAD"       -> 4 * (k \div 2)
    [] batch.primitive = "QUAD_STRIP" -> 2 * (k \div 2)
    [] OTHER                          -> k

\* Vertices that were received and that a later triangle may use.
Held(p) ==
  { j \in Nat : /\ j < p.received
                /\ IF batch.primitive = "TRIANGLE_FAN" THEN j = 0 \/ j > p.count
                                                       ELSE j >= Consumed(p.count) }

InBatch == Pending!Triangles(batch.primitive, VertexCount)

\* The queue holds the vertices that are left of the batch, in their entries.
Gathered(p) ==
  /\ p.received <= VertexCount
  /\ p.count <= InBatch
  /\ p.stored = p.received - Consumed(p.count)
  /\ p.lastVertex = Slot(Consumed(p.count) + Needed - 1)
  /\ p.free = Slot(p.received)
  /\ batch.primitive \notin {"TRIANGLE", "TRIANGLE_FAN"} => (p.odd <=> p.count % 2 = 0)
  /\ \A j \in Held(p) : p.queue[Slot(j)] = batch.indices[j + 1]
  /\ p.last => NoneLeft(p)

LEMMA Halves ==
  \A k \in Nat : /\ k \div 2 \in Nat /\ k % 2 \in {0, 1} /\ k = 2 * (k \div 2) + (k % 2)
                 /\ k % 2 = 0 => (k + 1) % 2 = 1 /\ (k + 1) \div 2 = k \div 2
                 /\ k % 2 # 0 => (k + 1) % 2 = 0 /\ (k + 1) \div 2 = (k \div 2) + 1
<1> TAKE k \in Nat
<1> DEFINE h == k \div 2
           r == k % 2
           i == (k + 1) \div 2
           s == (k + 1) % 2
<1>1. r \in 0 .. 1 /\ h \in Int /\ k = 2 * h + r
  <2>1. 2 \in Nat /\ 2 > 0 /\ k \in Int
    OBVIOUS
  <2>2. k % 2 \in 0 .. 2 - 1 /\ k \div 2 \in Int /\ k = 2 * (k \div 2) + (k % 2)
    BY <2>1, DivMod
  <2> QED BY <2>2
<1>2. s \in 0 .. 1 /\ i \in Int /\ k + 1 = 2 * i + s
  <2>1. 2 \in Nat /\ 2 > 0 /\ k + 1 \in Int
    OBVIOUS
  <2>2. (k + 1) % 2 \in 0 .. 2 - 1 /\ (k + 1) \div 2 \in Int /\ k + 1 = 2 * ((k + 1) \div 2) + ((k + 1) % 2)
    BY <2>1, DivMod
  <2> QED BY <2>2
<1> HIDE DEF h, r, i, s
<1>3. /\ h \in Nat /\ r \in {0, 1} /\ k = 2 * h + r
      /\ r = 0 => s = 1 /\ i = h
      /\ r # 0 => s = 0 /\ i = h + 1
  BY <1>1, <1>2
<1> QED BY <1>3 DEF h, r, i, s

\* What a primitive uses up: all triangles of a batch find their vertices.
LEMMA ConsumedIs ==
  ASSUME batch \in Batches, NEW k \in Nat
  PROVE  /\ Consumed(k) \in Nat /\ InBatch \in Nat /\ Consumed(0) = 0
         /\ Consumed(k) + Needed <= VertexCount => k < InBatch
         /\ k <= InBatch /\ VertexCount < Consumed(k) + Needed => k = InBatch
<1> DEFINE V == VertexCount
           h == k \div 2
           q == batch.primitive
<1>1. V \in Nat
  BY BatchIs
<1>2. h \in Nat /\ (k = 2 * h \/ k = 2 * h + 1) /\ 0 \div 2 = 0
  BY Halves
<1>3. CASE q = "TRIANGLE"
  <2> DEFINE d == V \div 3
             m == V % 3
  <2>1. m \in 0 .. 2 /\ d \in Int /\ V = 3 * d + m
    <3> HIDE DEF V
    <3>1. 3 \in Nat /\ 3 > 0 /\ V \in Int
      BY <1>1
    <3>2. V % 3 \in 0 .. 3 - 1 /\ V \div 3 \in Int /\ V = 3 * (V \div 3) + (V % 3)
      BY <3>1, DivMod
    <3> QED BY <3>2
  <2>2. Consumed(k) = 3 * k /\ Consumed(0) = 3 * 0 /\ InBatch = d /\ Needed = 3
    BY <1>3 DEF Consumed, InBatch, Needed, Pending!Triangles
  <2> HIDE DEF d, m, V
  <2>3. /\ 3 * k \in Nat /\ d \in Nat /\ 3 * 0 = 0
        /\ 3 * k + 3 <= V => k < d
        /\ k <= d /\ V < 3 * k + 3 => k = d
    BY <1>1, <2>1
  <2> QED BY <2>2, <2>3 DEF V
<1>4. CASE q = "QUAD"
  <2> DEFINE d == V \div 4
             m == V % 4
  <2>1. m \in 0 .. 3 /\ d \in Int /\ V = 4 * d + m
    <3> HIDE DEF V
    <3>1. 4 \in Nat /\ 4 > 0 /\ V \in Int
      BY <1>1
    <3>2. V % 4 \in 0 .. 4 - 1 /\ V \div 4 \in Int /\ V = 4 * (V \div 4) + (V % 4)
      BY <3>1, DivMod
    <3> QED BY <3>2
  <2>2. Consumed(k) = 4 * h /\ Consumed(0) = 4 * (0 \div 2) /\ InBatch = 2 * d /\ Needed = 4
    BY <1>4 DEF Consumed, InBatch, Needed, Pending!Triangles
  <2> HIDE DEF d, m, V, h
  <2>3. /\ 4 * h \in Nat /\ 2 * d \in Nat /\ 4 * 0 = 0
        /\ 4 * h + 4 <= V => k < 2 * d
        /\ k <= 2 * d /\ V < 4 * h + 4 => k = 2 * d
    BY <1>1, <1>2, <2>1
  <2> QED BY <1>2, <2>2, <2>3 DEF V
<1>5. CASE q = "QUAD_STRIP"
  <2> DEFINE W == V - 2
             d == W \div 2
             m == W % 2
  <2>1. m \in 0 .. 1 /\ d \in Int /\ W = 2 * d + m
    <3>1. 2 \in Nat /\ 2 > 0 /\ W \in Int
      BY <1>1
    <3> HIDE DEF W
    <3>2. W % 2 \in 0 .. 2 - 1 /\ W \div 2 \in Int /\ W = 2 * (W \div 2) + (W % 2)
      BY <3>1, DivMod
    <3> QED BY <3>2
  <2>2. /\ Consumed(k) = 2 * h /\ Consumed(0) = 2 * (0 \div 2) /\ Needed = 4
        /\ InBatch = IF V < 4 THEN 0 ELSE 2 * d
    BY <1>5 DEF Consumed, InBatch, Needed, Pending!Triangles
  <2>3. W = V - 2
    OBVIOUS
  <2> HIDE DEF d, m, V, h, W
  <2>4. /\ 2 * h \in Nat /\ (V >= 4 => 2 * d \in Nat) /\ 2 * 0 = 0
        /\ 2 * h + 4 <= V => V >= 4 /\ k < 2 * d
        /\ V >= 4 /\ k <= 2 * d /\ V < 2 * h + 4 => k = 2 * d
        /\ k <= 0 => k = 0
    BY <1>1, <1>2, <2>1, <2>3
  <2>5. CASE V < 4
    <3>1. ~(V >= 4)
      BY <1>1, <2>5
    <3>2. InBatch = 0
      BY <2>2, <2>5
    <3> QED BY <1>2, <2>2, <2>4, <3>1, <3>2 DEF V
  <2>6. CASE ~(V < 4)
    <3>1. V >= 4
      BY <1>1, <2>6
    <3>2. InBatch = 2 * d
      BY <2>2, <2>6
    <3> QED BY <1>2, <2>2, <2>4, <3>1, <3>2 DEF V
  <2> QED BY <2>5, <2>6
<1>6. CASE q \in {"TRIANGLE_STRIP", "TRIANGLE_FAN"}
  <2>1. Consumed(k) = k /\ Consumed(0) = 0 /\ InBatch = (IF V < 3 THEN 0 ELSE V - 2) /\ Needed = 3
    BY <1>6 DEF Consumed, InBatch, Needed, Pending!Triangles
  <2> HIDE DEF V
  <2>2. /\ (IF V < 3 THEN 0 ELSE V - 2) \in Nat
        /\ k + 3 <= V => k < (IF V < 3 THEN 0 ELSE V - 2)
        /\ k <= (IF V < 3 THEN 0 ELSE V - 2) /\ V < k + 3 => k = (IF V < 3 THEN 0 ELSE V - 2)
    BY <1>1
  <2> QED BY <2>1, <2>2 DEF V
<1> QED BY <1>3, <1>4, <1>5, <1>6, BatchIs

\* A triangle more uses up what PassOver takes off.
LEMMA ConsumedNext ==
  ASSUME batch \in Batches, NEW p \in PaState,
         batch.primitive \notin {"TRIANGLE", "TRIANGLE_FAN"} => (p.odd <=> p.count % 2 = 0)
  PROVE  /\ Used(p) \in 0 .. 4 /\ Consumed(p.count + 1) = Consumed(p.count) + Used(p)
         /\ batch.primitive = "TRIANGLE_FAN" => Used(p) = 1
<1> DEFINE k == p.count
           h == k \div 2
           q == batch.primitive
           i == (k + 1) \div 2
<1>1. k \in Nat
  BY DEF PaState
<1>2. h \in Nat /\ (k % 2 = 0 => i = h) /\ (k % 2 # 0 => i = h + 1)
  <2> HIDE DEF k
  <2> QED BY <1>1, Halves
<1>3. CASE q = "TRIANGLE"
  <2>1. Consumed(k) = 3 * k /\ Consumed(k + 1) = 3 * (k + 1) /\ Used(p) = 3
    BY <1>3 DEF Consumed, Used
  <2> HIDE DEF k
  <2>2. 3 * (k + 1) = 3 * k + 3
    BY <1>1
  <2> QED BY <1>3, <2>1, <2>2 DEF k
<1>4. CASE q = "QUAD"
  <2>1. Consumed(k) = 4 * h /\ Consumed(k + 1) = 4 * i /\ Used(p) = (IF k % 2 = 0 THEN 0 ELSE 4)
    BY <1>4 DEF Consumed, Used
  <2> HIDE DEF k, h, i
  <2>2. CASE k % 2 = 0
    <3>1. 4 * i = 4 * h + 0
      BY <1>2, <2>2
    <3> QED BY <1>4, <2>1, <2>2, <3>1 DEF k
  <2>3. CASE k % 2 # 0
    <3>1. 4 * i = 4 * h + 4
      BY <1>2, <2>3
    <3> QED BY <1>4, <2>1, <2>3, <3>1 DEF k
  <2> QED BY <2>2, <2>3
<1>5. CASE q = "QUAD_STRIP"
  <2>1. Consumed(k) = 2 * h /\ Consumed(k + 1) = 2 * i /\ Used(p) = (IF k % 2 = 0 THEN 0 ELSE 2)
    BY <1>5 DEF Consumed, Used
  <2> HIDE DEF k, h, i
  <2>2. CASE k % 2 = 0
    <3>1. 2 * i = 2 * h + 0
      BY <1>2, <2>2
    <3> QED BY <1>5, <2>1, <2>2, <3>1 DEF k
  <2>3. CASE k % 2 # 0
    <3>1. 2 * i = 2 * h + 2
      BY <1>2, <2>3
    <3> QED BY <1>5, <2>1, <2>3, <3>1 DEF k
  <2> QED BY <2>2, <2>3
<1>6. CASE q \in {"TRIANGLE_STRIP", "TRIANGLE_FAN"}
  BY <1>6 DEF Consumed, Used
<1> QED BY <1>3, <1>4, <1>5, <1>6, BatchIs

\* The fields that Gathered is about.
Holding == {"received", "count", "stored", "lastVertex", "free", "odd", "queue", "last"}

LEMMA GatheredSame ==
  ASSUME NEW p, NEW q, \A f \in Holding : q[f] = p[f], Gathered(p)
  PROVE  Gathered(q)
<1>1. /\ q.received = p.received /\ q.count = p.count /\ q.stored = p.stored
      /\ q.lastVertex = p.lastVertex /\ q.free = p.free /\ q.odd = p.odd /\ q.queue = p.queue
      /\ q.last = p.last
  BY DEF Holding
<1>2. Held(q) = Held(p) /\ NoneLeft(q) = NoneLeft(p)
  BY <1>1 DEF Held, NoneLeft
<1> QED BY <1>1, <1>2 DEF Gathered

LEMMA StartGathered ==
  ASSUME batch \in Batches
  PROVE  Gathered(PaStart)
<1> DEFINE p == PaStart
<1>1. /\ p.received = 0 /\ p.count = 0 /\ p.stored = 0 /\ p.free = 0 /\ p.odd = TRUE /\ p.last = FALSE
      /\ p.lastVertex = Needed - 1
  <2>1. p.lastVertex = IF batch.primitive \in {"QUAD", "QUAD_STRIP"} THEN 3 ELSE 2
    BY DEF PaStart
  <2>2. 4 - 1 = 3 /\ 3 - 1 = 2
    OBVIOUS
  <2>3. p.lastVertex = Needed - 1
    BY <2>1, <2>2 DEF Needed
  <2>4. /\ p.received = 0 /\ p.count = 0 /\ p.stored = 0 /\ p.free = 0 /\ p.odd = TRUE /\ p.last = FALSE
    BY DEF PaStart
  <2> QED BY <2>3, <2>4
<1> HIDE DEF p
<1>2. Consumed(0) = 0 /\ InBatch \in Nat /\ VertexCount \in Nat
  BY BatchIs, ConsumedIs
<1>3. AssemblyQueue \in Nat /\ AssemblyQueue >= 4
  BY Sizes
<1>4. \A n \in {0, 2, 3} : n % AssemblyQueue = n
  <2> TAKE n \in {0, 2, 3}
  <2>1. n \in 0 .. 2 * AssemblyQueue - 1 /\ n < AssemblyQueue
    BY <1>3
  <2> QED BY <1>3, <2>1, ModOnce
<1>5. Slot(0) = 0
  BY <1>4, SlotIs
<1>6. Needed - 1 \in {2, 3} /\ (batch.primitive = "TRIANGLE_FAN" => Needed - 1 = 2)
  BY DEF Needed
<1>7. Slot(Needed - 1) = Needed - 1
  <2>1. CASE batch.primitive # "TRIANGLE_FAN"
    <3>1. \A j \in Nat : Slot(j) = j % AssemblyQueue
      BY <2>1, SlotIs
    <3> QED BY <1>4, <1>6, <3>1
  <2>2. CASE batch.primitive = "TRIANGLE_FAN"
    <3> DEFINE c == AssemblyQueue - 1
    <3>1. c \in Nat /\ c > 2 /\ 1 \in 0 .. 2 * c - 1
      BY <1>3
    <3>2. Slot(2) = 1 + ((2 - 1) % c)
      BY <2>2, SlotIs
    <3> HIDE DEF c
    <3>3. 2 - 1 = 1 /\ 1 % c = 1
      BY <3>1, ModOnce
    <3>4. Slot(2) = 1 + 1
      BY <3>2, <3>3
    <3> QED BY <1>6, <2>2, <3>4
  <2> QED BY <2>1, <2>2
<1>8. 0 + Needed - 1 = Needed - 1 /\ 0 - 0 = 0
  BY <1>6 DEF Needed
<1>9. Held(p) = {}
  BY <1>1 DEF Held
<1>10. 0 % 2 = 0
  BY Halves
<1> QED BY <1>1, <1>2, <1>5, <1>7, <1>8, <1>9, <1>10 DEF Gathered, p

\* The vertices of the next triangle are in the queue.
LEMMA TriangleGathered ==
  ASSUME batch \in Batches, NEW p \in PaState, Gathered(p), p.stored >= Needed
  PROVE  /\ p.count < InBatch
         /\ \A n \in 1 .. 3 :
              LET j == Pending!Corners(batch.primitive, p.count)[n]
              IN  j \in Nat /\ p.queue[EntriesOf(p)[n]] = batch.indices[j + 1]
<1> DEFINE k == p.count
           c == Consumed(k)
           h == k \div 2
           q == batch.primitive
           r == p.received
           L == p.lastVertex
<1>1. /\ k \in Nat /\ c \in Nat /\ r \in Nat /\ VertexCount \in Nat /\ h \in Nat /\ r <= VertexCount
      /\ p.stored = r - c /\ Needed \in Nat
  BY BatchIs, ConsumedIs, Halves DEF PaState, Gathered, Needed
<1>2. c + Needed <= r /\ c + Needed <= VertexCount
  <2>1. p.stored >= Needed
    OBVIOUS
  <2> HIDE DEF c, r
  <2> QED BY <1>1, <2>1
<1>3. k < InBatch
  <2>1. Consumed(k) + Needed <= VertexCount => k < InBatch
    <3> HIDE DEF k
    <3> QED BY <1>1, ConsumedIs
  <2> QED BY <1>2, <2>1
<1> DEFINE Fits(a, b, d) ==
             /\ Pending!Corners(q, k) = <<a, b, d>> /\ EntriesOf(p) = <<Slot(a), Slot(b), Slot(d)>>
             /\ {a, b, d} \subseteq Held(p)
<1>4. /\ q \notin {"TRIANGLE", "TRIANGLE_FAN"} => (p.odd <=> k % 2 = 0)
      /\ \A j \in Held(p) : p.queue[Slot(j)] = batch.indices[j + 1]
  BY DEF Gathered
<1> DEFINE l == c + Needed - 1
<1>5. l \in Nat /\ l < r /\ L = Slot(l) /\ l >= 2
  <2>1. L = Slot(l)
    BY DEF Gathered
  <2>2. Needed >= 3
    BY DEF Needed
  <2> HIDE DEF c, r, L
  <2> QED BY <1>1, <1>2, <2>1, <2>2
<1>6. ASSUME q # "TRIANGLE_FAN", NEW n \in 0 .. 3, n <= l
      PROVE  Mod(L - n) = Slot(l - n)
  <2> HIDE DEF l, L
  <2> QED BY <1>5, <1>6, SlotBefore
<1>7. ASSUME q # "TRIANGLE_FAN", NEW j \in Nat, c <= j, j <= l
      PROVE  j \in Held(p)
  <2>1. j < r /\ j >= c
    <3> HIDE DEF c, r, l
    <3> QED BY <1>1, <1>5, <1>7
  <2> QED BY <1>7, <2>1 DEF Held
<1>8. q # "TRIANGLE_FAN" /\ Needed = 3 =>
        /\ Mod(L - 2) = Slot(c) /\ Mod(L - 1) = Slot(c + 1) /\ Mod(L - 0) = Slot(c + 2)
        /\ {c, c + 1, c + 2} \subseteq Held(p)
  <2> SUFFICES ASSUME q # "TRIANGLE_FAN", Needed = 3
               PROVE  /\ Mod(L - 2) = Slot(c) /\ Mod(L - 1) = Slot(c + 1) /\ Mod(L - 0) = Slot(c + 2)
                      /\ {c, c + 1, c + 2} \subseteq Held(p)
    OBVIOUS
  <2>1. l = c + 2
    <3> HIDE DEF c
    <3> QED BY <1>1
  <2> HIDE DEF l, L, c, q, Fits
  <2>2. /\ l - 2 = c /\ l - 1 = c + 1 /\ l - 0 = c + 2 /\ 0 <= l /\ 1 <= l /\ 2 <= l
        /\ c + 1 \in Nat /\ c + 2 \in Nat /\ c <= c + 1 /\ c <= c + 2 /\ c <= l /\ c + 1 <= l /\ c + 2 <= l
        /\ c <= c
    BY <1>1, <2>1
  <2>3. Mod(L - 2) = Slot(l - 2) /\ Mod(L - 1) = Slot(l - 1) /\ Mod(L - 0) = Slot(l - 0)
    BY <1>6, <2>2
  <2>4. c \in Held(p) /\ c + 1 \in Held(p) /\ c + 2 \in Held(p)
    BY <1>1, <1>7, <2>2
  <2> QED BY <2>2, <2>3, <2>4
<1>9. q # "TRIANGLE_FAN" /\ Needed = 4 =>
        /\ Mod(L - 3) = Slot(c) /\ Mod(L - 2) = Slot(c + 1)
        /\ Mod(L - 1) = Slot(c + 2) /\ Mod(L - 0) = Slot(c + 3)
        /\ {c, c + 1, c + 2, c + 3} \subseteq Held(p)
  <2> SUFFICES ASSUME q # "TRIANGLE_FAN", Needed = 4
               PROVE  /\ Mod(L - 3) = Slot(c) /\ Mod(L - 2) = Slot(c + 1)
                      /\ Mod(L - 1) = Slot(c + 2) /\ Mod(L - 0) = Slot(c + 3)
                      /\ {c, c + 1, c + 2, c + 3} \subseteq Held(p)
    OBVIOUS
  <2>1. l = c + 3
    <3> HIDE DEF c
    <3> QED BY <1>1
  <2> HIDE DEF l, L, c, q, Fits
  <2>2. /\ l - 3 = c /\ l - 2 = c + 1 /\ l - 1 = c + 2 /\ l - 0 = c + 3
        /\ 0 <= l /\ 1 <= l /\ 2 <= l /\ 3 <= l
        /\ c + 1 \in Nat /\ c + 2 \in Nat /\ c + 3 \in Nat
        /\ c <= c /\ c <= c + 1 /\ c <= c + 2 /\ c <= c + 3
        /\ c <= l /\ c + 1 <= l /\ c + 2 <= l /\ c + 3 <= l
    BY <1>1, <2>1
  <2>3. /\ Mod(L - 3) = Slot(l - 3) /\ Mod(L - 2) = Slot(l - 2) /\ Mod(L - 1) = Slot(l - 1)
        /\ Mod(L - 0) = Slot(l - 0)
    BY <1>6, <2>2
  <2>4. c \in Held(p) /\ c + 1 \in Held(p) /\ c + 2 \in Held(p) /\ c + 3 \in Held(p)
    BY <1>1, <1>7, <2>2
  <2> QED BY <2>2, <2>3, <2>4
<1>10. ASSUME NEW a, NEW b, NEW d, Fits(a, b, d)
       PROVE  \A n \in 1 .. 3 :
                LET j == Pending!Corners(q, k)[n]
                IN  j \in Nat /\ p.queue[EntriesOf(p)[n]] = batch.indices[j + 1]
  <2>1. a \in Held(p) /\ b \in Held(p) /\ d \in Held(p) /\ \A j \in Held(p) : j \in Nat
    BY <1>10 DEF Held
  <2>2. \A n \in 1 .. 3 : n = 1 \/ n = 2 \/ n = 3
    OBVIOUS
  <2> HIDE DEF q, k
  <2> QED BY <1>4, <1>10, <2>1, <2>2
<1>11. CASE q = "TRIANGLE"
  <2>1. c = 3 * k /\ Needed = 3 /\ EntriesOf(p) = <<Mod(L - 2), Mod(L - 1), Mod(L - 0)>>
    BY <1>11 DEF Consumed, Needed, EntriesOf
  <2>2. Pending!Corners(q, k) = <<3 * k, 3 * k + 1, 3 * k + 2>>
    BY <1>11 DEF Pending!Corners
  <2>3. Fits(c, c + 1, c + 2)
    <3> HIDE DEF c, L, q, k
    <3> QED BY <1>8, <1>11, <2>1, <2>2
  <2> HIDE DEF Fits, c
  <2> QED BY <1>3, <1>10, <2>3
<1>12. CASE q = "TRIANGLE_STRIP"
  <2>1. c = k /\ Needed = 3
    BY <1>12 DEF Consumed, Needed
  <2>2. CASE p.odd
    <3>1. k % 2 = 0
      BY <1>4, <1>12, <2>2
    <3>2. EntriesOf(p) = <<Mod(L - 2), Mod(L - 1), Mod(L - 0)>>
      BY <1>12, <2>2 DEF EntriesOf
    <3>3. Pending!Corners(q, k) = <<k, k + 1, k + 2>>
      BY <1>12, <3>1 DEF Pending!Corners
    <3>4. Fits(c, c + 1, c + 2)
      <4> HIDE DEF c, L, q, k
      <4> QED BY <1>8, <1>12, <2>1, <3>2, <3>3
    <3> HIDE DEF Fits, c
    <3> QED BY <1>3, <1>10, <3>4
  <2>3. CASE ~p.odd
    <3>1. k % 2 # 0
      BY <1>4, <1>12, <2>3
    <3>2. EntriesOf(p) = <<Mod(L - 1), Mod(L - 2), Mod(L - 0)>>
      BY <1>12, <2>3 DEF EntriesOf
    <3>3. Pending!Corners(q, k) = <<k + 1, k, k + 2>>
      BY <1>12, <3>1 DEF Pending!Corners
    <3>4. Fits(c + 1, c, c + 2)
      <4> HIDE DEF c, L, q, k
      <4> QED BY <1>8, <1>12, <2>1, <3>2, <3>3
    <3> HIDE DEF Fits, c
    <3> QED BY <1>3, <1>10, <3>4
  <2> QED BY <2>2, <2>3
<1>13. CASE q = "TRIANGLE_FAN"
  <2>1. c = k /\ Needed = 3 /\ EntriesOf(p) = <<0, IF L = 1 THEN AssemblyQueue - 1 ELSE Mod(L - 1), Mod(L - 0)>>
    BY <1>13 DEF Consumed, Needed, EntriesOf
  <2>2. Pending!Corners(q, k) = <<0, k + 1, k + 2>>
    BY <1>13 DEF Pending!Corners
  <2>3. l = k + 2
    <3> HIDE DEF c, k
    <3> QED BY <1>1, <2>1
  <2>4. Slot(0) = 0
    BY <1>13, SlotIs
  <2>5. L \in 0 .. AssemblyQueue - 1 /\ AssemblyQueue \in Nat
    BY Sizes DEF PaState
  <2>6. Mod(L) = Slot(l) /\ (IF L = 1 THEN AssemblyQueue - 1 ELSE Mod(L - 1)) = Slot(l - 1) /\ L - 0 = L
    <3>1. L - 0 = L
      BY <2>5
    <3> HIDE DEF l, L, Fits
    <3>2. 0 \in 0 .. 3 /\ 0 <= l
      BY <1>5
    <3>3. Mod(Slot(l)) = Slot(l) /\ (IF Slot(l) = 1 THEN AssemblyQueue - 1 ELSE Mod(Slot(l) - 1)) = Slot(l - 1)
      BY <1>5, <1>13, <3>2, SlotBefore
    <3> QED BY <1>5, <3>1, <3>3
  <2>7. 0 \in Held(p) /\ k + 1 \in Held(p) /\ k + 2 \in Held(p) /\ l - 1 = k + 1
    <3>1. /\ 0 < r /\ k + 1 < r /\ k + 2 < r /\ k + 1 > k /\ k + 2 > k /\ k + 1 \in Nat /\ k + 2 \in Nat
          /\ l - 1 = k + 1
      <4> HIDE DEF l, k, r
      <4> QED BY <1>1, <1>5, <2>3
    <3> QED BY <1>13, <3>1 DEF Held
  <2>8. Fits(0, k + 1, k + 2)
    <3> HIDE DEF c, L, q, k, l
    <3> QED BY <1>13, <2>1, <2>2, <2>3, <2>4, <2>6, <2>7
  <2> HIDE DEF Fits
  <2> QED BY <1>3, <1>10, <2>8
<1>14. CASE q = "QUAD"
  <2>1. c = 4 * h /\ Needed = 4
    BY <1>14 DEF Consumed, Needed
  <2>2. CASE p.odd
    <3>1. k % 2 = 0
      BY <1>4, <1>14, <2>2
    <3>2. EntriesOf(p) = <<Mod(L - 3), Mod(L - 2), Mod(L - 0)>>
      BY <1>14, <2>2 DEF EntriesOf
    <3>3. Pending!Corners(q, k) = <<4 * h, 4 * h + 1, 4 * h + 3>>
      BY <1>14, <3>1 DEF Pending!Corners
    <3>4. Fits(c, c + 1, c + 3)
      <4> HIDE DEF c, L, q, k, h
      <4> QED BY <1>9, <1>14, <2>1, <3>2, <3>3
    <3> HIDE DEF Fits, c
    <3> QED BY <1>3, <1>10, <3>4
  <2>3. CASE ~p.odd
    <3>1. k % 2 # 0
      BY <1>4, <1>14, <2>3
    <3>2. EntriesOf(p) = <<Mod(L - 2), Mod(L - 1), Mod(L - 0)>>
      BY <1>14, <2>3 DEF EntriesOf
    <3>3. Pending!Corners(q, k) = <<4 * h + 1, 4 * h + 2, 4 * h + 3>>
      BY <1>14, <3>1 DEF Pending!Corners
    <3>4. Fits(c + 1, c + 2, c + 3)
      <4> HIDE DEF c, L, q, k, h
      <4> QED BY <1>9, <1>14, <2>1, <3>2, <3>3
    <3> HIDE DEF Fits, c
    <3> QED BY <1>3, <1>10, <3>4
  <2> QED BY <2>2, <2>3
<1>15. CASE q = "QUAD_STRIP"
  <2>1. c = 2 * h /\ Needed = 4
    BY <1>15 DEF Consumed, Needed
  <2>2. CASE p.odd
    <3>1. k % 2 = 0
      BY <1>4, <1>15, <2>2
    <3>2. EntriesOf(p) = <<Mod(L - 3), Mod(L - 2), Mod(L - 0)>>
      BY <1>15, <2>2 DEF EntriesOf
    <3>3. Pending!Corners(q, k) = <<2 * h, 2 * h + 1, 2 * h + 3>>
      BY <1>15, <3>1 DEF Pending!Corners
    <3>4. Fits(c, c + 1, c + 3)
      <4> HIDE DEF c, L, q, k, h
      <4> QED BY <1>9, <1>15, <2>1, <3>2, <3>3
    <3> HIDE DEF Fits, c
    <3> QED BY <1>3, <1>10, <3>4
  <2>3. CASE ~p.odd
    <3>1. k % 2 # 0
      BY <1>4, <1>15, <2>3
    <3>2. EntriesOf(p) = <<Mod(L - 1), Mod(L - 3), Mod(L - 0)>>
      BY <1>15, <2>3 DEF EntriesOf
    <3>3. Pending!Corners(q, k) = <<2 * h + 2, 2 * h, 2 * h + 3>>
      BY <1>15, <3>1 DEF Pending!Corners
    <3>4. Fits(c + 2, c, c + 3)
      <4> HIDE DEF c, L, q, k, h
      <4> QED BY <1>9, <1>15, <2>1, <3>2, <3>3
    <3> HIDE DEF Fits, c
    <3> QED BY <1>3, <1>10, <3>4
  <2> QED BY <2>2, <2>3
<1> QED BY <1>11, <1>12, <1>13, <1>14, <1>15, BatchIs

\* A triangle is passed over.
LEMMA PassGathered ==
  ASSUME batch \in Batches, NEW p \in PaState, Gathered(p), p.stored >= Needed, ~p.last
  PROVE  Gathered(PassOver(p)) /\ PassOver(p).count = p.count + 1
<1> DEFINE z == PassOver(p)
           u == Used(p)
           k == p.count
           r == p.received
           c == Consumed(k)
           odd == batch.primitive \notin {"TRIANGLE", "TRIANGLE_FAN"} => (p.odd <=> k % 2 = 0)
<1>1. odd /\ k \in Nat /\ r \in Nat /\ p.odd \in BOOLEAN
  BY DEF Gathered, PaState
<1>2. u \in 0 .. 4 /\ Consumed(k + 1) = c + u /\ (batch.primitive = "TRIANGLE_FAN" => u = 1)
  BY <1>1, ConsumedNext
<1>3. c \in Nat /\ InBatch \in Nat /\ Needed \in {3, 4}
  <2> HIDE DEF k
  <2> QED BY <1>1, ConsumedIs DEF Needed
<1>4. k < InBatch
  BY TriangleGathered
<1>5. /\ z.count = k + 1 /\ z.stored = p.stored - u
      /\ z.lastVertex = IF u = 0 THEN p.lastVertex ELSE After(p.lastVertex, u)
      /\ z.odd = IF batch.primitive \in {"TRIANGLE", "TRIANGLE_FAN"} THEN p.odd ELSE ~p.odd
      /\ z.received = r /\ z.free = p.free /\ z.queue = p.queue /\ z.last = FALSE
  <2>1. p.last \in BOOLEAN
    BY DEF PaState
  <2> QED BY <2>1 DEF PassOver, PaState
<1>6. /\ r <= VertexCount /\ p.stored = r - c /\ p.lastVertex = Slot(c + Needed - 1)
      /\ p.free = Slot(r) /\ \A j \in Held(p) : p.queue[Slot(j)] = batch.indices[j + 1]
  BY DEF Gathered
<1> HIDE DEF z
<1>7. z.count <= InBatch
  <2> HIDE DEF k
  <2> QED BY <1>1, <1>3, <1>4, <1>5
<1>8. z.stored = z.received - Consumed(z.count)
  <2>1. z.stored = (r - c) - u /\ z.received = r /\ Consumed(z.count) = c + u
    BY <1>2, <1>5, <1>6
  <2> HIDE DEF c, u, r
  <2>2. (r - c) - u = r - (c + u)
    BY <1>1, <1>2, <1>3
  <2> QED BY <2>1, <2>2
<1>9. z.lastVertex = Slot(Consumed(z.count) + Needed - 1)
  <2> DEFINE l == c + Needed - 1
  <2>1. l \in Nat /\ l + u = (c + u) + Needed - 1 /\ u \in Nat
    <3> HIDE DEF c, u
    <3> QED BY <1>2, <1>3
  <2>2. Consumed(z.count) = c + u /\ p.lastVertex = Slot(l)
    BY <1>2, <1>5, <1>6
  <2> HIDE DEF c, u, l
  <2>3. CASE u = 0
    <3>1. l + u = l
      BY <2>1, <2>3
    <3> QED BY <1>5, <2>1, <2>2, <2>3, <3>1
  <2>4. CASE u # 0
    <3>1. u \in 1 .. 4
      BY <1>2, <2>4
    <3>2. After(Slot(l), u) = Slot(l + u)
      BY <1>2, <2>1, <3>1, SlotAfter
    <3> QED BY <1>5, <2>1, <2>2, <2>4, <3>2
  <2> QED BY <2>3, <2>4
<1>10. batch.primitive \notin {"TRIANGLE", "TRIANGLE_FAN"} => (z.odd <=> z.count % 2 = 0)
  <2>1. (k + 1) % 2 = 0 <=> k % 2 # 0
    <3>1. /\ k % 2 = 0 => (k + 1) % 2 = 1
          /\ k % 2 # 0 => (k + 1) % 2 = 0
      <4> HIDE DEF k
      <4> QED BY <1>1, Halves
    <3> QED BY <3>1
  <2>2. z.count % 2 = 0 <=> k % 2 # 0
    BY <1>5, <2>1
  <2> QED BY <1>1, <1>5, <2>2
<1>11. \A j \in Held(z) : z.queue[Slot(j)] = batch.indices[j + 1]
  <2> SUFFICES ASSUME NEW j \in Held(z) PROVE j \in Held(p)
    BY <1>5, <1>6
  <2>1. /\ j \in Nat /\ j < r
        /\ IF batch.primitive = "TRIANGLE_FAN" THEN j = 0 \/ j > k + 1 ELSE j >= c + u
    <3>1. Consumed(z.count) = c + u
      BY <1>2, <1>5
    <3> HIDE DEF c, u
    <3> QED BY <1>5, <3>1 DEF Held
  <2>2. IF batch.primitive = "TRIANGLE_FAN" THEN j = 0 \/ j > k ELSE j >= c
    <3> HIDE DEF c, u, k
    <3> QED BY <1>1, <1>2, <1>3, <2>1
  <2> QED BY <2>1, <2>2 DEF Held
<1>12. z.received <= VertexCount /\ z.free = Slot(z.received) /\ ~z.last
  BY <1>5, <1>6
<1>13. Gathered(z)
  BY <1>7, <1>8, <1>9, <1>10, <1>11, <1>12 DEF Gathered
<1> QED BY <1>5, <1>13 DEF z

\* A vertex arrives in the entry behind those that are held.
LEMMA ReceiveGathered ==
  ASSUME batch \in Batches, NEW q \in PaState, q.asked > 0, q.received < VertexCount,
         q.stored + q.asked <= AssemblyQueue, Gathered(q)
  PROVE  Gathered(Received(q)) /\ Received(q).count = q.count
<1> DEFINE z == Received(q)
           r == q.received
           c == Consumed(q.count)
           v == batch.indices[r + 1]
           k == q.count
           s == q.stored
           A == q.asked
<1>1. /\ k \in Nat /\ r \in Nat /\ VertexCount \in Nat /\ c \in Nat /\ q.free \in 0 .. AssemblyQueue - 1
      /\ q.queue \in [0 .. AssemblyQueue - 1 -> Nat] /\ AssemblyQueue \in Nat /\ s \in Nat /\ A \in Nat
      /\ q.last \in BOOLEAN
  <2>1. k \in Nat
    BY DEF PaState
  <2>2. \A n \in Nat : Consumed(n) \in Nat
    BY ConsumedIs
  <2>3. c \in Nat
    BY <2>1, <2>2
  <2>4. VertexCount \in Nat
    BY BatchIs
  <2>5. AssemblyQueue \in Nat
    BY Sizes
  <2>6. /\ r \in Nat /\ q.free \in 0 .. AssemblyQueue - 1 /\ q.last \in BOOLEAN
        /\ q.queue \in [0 .. AssemblyQueue - 1 -> Nat]
    BY DEF PaState
  <2>7. s \in Nat /\ A \in Nat
    BY <2>5 DEF PaState
  <2> QED BY <2>1, <2>3, <2>4, <2>5, <2>6, <2>7
<1>2. /\ z.received = r + 1 /\ z.count = k /\ z.stored = s + 1 /\ z.lastVertex = q.lastVertex
      /\ z.free = After(q.free, 1) /\ z.odd = q.odd /\ z.last = q.last
      /\ z.queue = [q.queue EXCEPT ![q.free] = v]
  BY DEF Received, PaState
<1>3. /\ k <= InBatch /\ s = r - c /\ q.lastVertex = Slot(c + Needed - 1) /\ q.free = Slot(r)
      /\ batch.primitive \notin {"TRIANGLE", "TRIANGLE_FAN"} => (q.odd <=> k % 2 = 0)
      /\ \A j \in Held(q) : q.queue[Slot(j)] = batch.indices[j + 1]
      /\ ~q.last
  <2>1. ~NoneLeft(q)
    BY <1>1 DEF NoneLeft
  <2> QED BY <2>1 DEF Gathered
<1> HIDE DEF z
<1>4. r + 1 <= VertexCount /\ s + 1 = (r + 1) - c /\ s < AssemblyQueue
  <2>1. r < VertexCount /\ s + A <= AssemblyQueue /\ A > 0 /\ s = r - c
    BY <1>3
  <2> HIDE DEF r, c, s, A
  <2> QED BY <1>1, <2>1
<1>5. z.free = Slot(z.received)
  <2>1. After(Slot(r), 1) = Slot(r + 1)
    <3>1. 1 \in 1 .. 4
      OBVIOUS
    <3> HIDE DEF r
    <3> QED BY <1>1, <3>1, SlotAfter
  <2> QED BY <1>2, <1>3, <2>1
<1>6. ASSUME NEW j \in Held(z) PROVE z.queue[Slot(j)] = batch.indices[j + 1]
  <2>1. j \in Nat /\ j < r + 1 /\ IF batch.primitive = "TRIANGLE_FAN" THEN j = 0 \/ j > k ELSE j >= c
    BY <1>2, <1>6 DEF Held
  <2>2. Slot(j) \in 0 .. AssemblyQueue - 1
    BY <2>1, SlotIs
  <2>3. CASE j = r
    BY <1>1, <1>2, <1>3, <2>3
  <2>4. CASE j # r
    <3>1. j < r /\ IF batch.primitive = "TRIANGLE_FAN" THEN j = 0 \/ r - j < AssemblyQueue - 1
                                                       ELSE r - j < AssemblyQueue
      <4>1. s < AssemblyQueue /\ s = r - c
        BY <1>3, <1>4
      <4>2. batch.primitive = "TRIANGLE_FAN" => c = k
        BY DEF Consumed
      <4> HIDE DEF r, c, s, k
      <4> QED BY <1>1, <2>1, <2>4, <4>1, <4>2
    <3>2. j \in Held(q)
      BY <2>1, <3>1 DEF Held
    <3>3. Slot(j) # Slot(r)
      <4> HIDE DEF r
      <4> QED BY <1>1, <2>1, <3>1, SlotsDiffer
    <3> QED BY <1>1, <1>2, <1>3, <2>2, <3>2, <3>3
  <2> QED BY <2>3, <2>4
<1>7. Gathered(z)
  <2>1. z.received <= VertexCount /\ z.stored = z.received - Consumed(z.count)
    BY <1>2, <1>4
  <2> QED BY <1>2, <1>3, <1>5, <1>6, <2>1 DEF Gathered
<1> QED BY <1>2, <1>7 DEF z

-----------------------------------------------------------------------------
(* What can be seen of a batch.                                            *)

\* Triangles and marks of the end as the pipe makes them.
Genuine == { t \in Triangles : t.last => t = Last }

\* The triangles of all batches.
Drawn == Genuine \cup { Pending!TriangleAt(b, k) : b \in Batches, k \in Nat }

Rest(p) == Pending!From(batch, p.count)
Shown(s) == Pending!Seen(s, batch.culling)
Unsent(p) == IF p.state = "DRAWING" THEN Shown(Rest(p) \o <<Last>>) ELSE <<>>

\* What is shown of two sequences, one after the other.
LEMMA ShownConcat ==
  ASSUME NEW r \in Seq(Drawn), NEW s \in Seq(Drawn)
  PROVE  /\ r \o s \in Seq(Drawn) /\ Shown(r) \in Seq(Drawn) /\ Shown(r \o s) = Shown(r) \o Shown(s)
         /\ Shown(<<>>) = <<>> /\ Shown(r) \o <<>> = Shown(r) /\ <<>> \o Shown(r) = Shown(r)
<1> DEFINE V == Pending!Visible(batch.culling)
           T == Drawn
<1>1. \A x : Shown(x) = Only(x, V)
  BY OnlyIs DEF Shown, Pending!Seen
<1> HIDE DEF V, T
<1>2. r \in Seq(T) /\ s \in Seq(T)
  BY DEF T
<1>3. r \o s \in Seq(T) /\ Only(r, V) \in Seq(T) /\ Only(<<>>, V) = <<>>
  BY <1>2, Concat, OnlyAppend
<1>4. Only(r \o s, V) = Only(r, V) \o Only(s, V)
  BY <1>2, OnlyConcat
<1>5. Only(r, V) \o <<>> = Only(r, V) /\ <<>> \o Only(r, V) = Only(r, V)
  BY <1>3, Concat
<1> QED BY <1>1, <1>3, <1>4, <1>5 DEF T

\* One triangle, or the mark of the end.
LEMMA ShownOne ==
  ASSUME NEW t \in Drawn
  PROVE  /\ <<t>> \in Seq(Drawn)
         /\ Shown(<<t>>) = IF t \in Pending!Visible(batch.culling) THEN <<t>> ELSE <<>>
<1> DEFINE V == Pending!Visible(batch.culling)
           T == Drawn
<1>1. \A x : Shown(x) = Only(x, V)
  BY OnlyIs DEF Shown, Pending!Seen
<1> HIDE DEF V, T
<1>2. t \in T /\ <<>> \in Seq(T) /\ Append(<<>>, t) = <<t>>
  BY DEF T
<1>3. Only(<<t>>, V) = IF t \in V THEN Append(Only(<<>>, V), t) ELSE Only(<<>>, V)
  <2>1. \A s \in Seq(T), x \in T :
          Only(Append(s, x), V) = IF x \in V THEN Append(Only(s, V), x) ELSE Only(s, V)
    BY OnlyAppend
  <2>2. Only(Append(<<>>, t), V) = IF t \in V THEN Append(Only(<<>>, V), t) ELSE Only(<<>>, V)
    BY <1>2, <2>1
  <2> QED BY <1>2, <2>2
<1>4. Only(<<>>, V) = <<>>
  BY OnlyAppend
<1>5. <<t>> \in Seq(T)
  BY <1>2
<1> QED BY <1>1, <1>2, <1>3, <1>4, <1>5 DEF V, T

LEMMA LastShown ==
  /\ Last \in Genuine /\ Last \in Drawn /\ Last.last /\ <<Last>> \in Seq(Drawn)
  /\ Shown(<<Last>>) = <<Last>>
<1>1. Last \in Triangles /\ Last.last
  BY DEF Last, Pending!Last, Triangles, Pending!Items
<1>2. Last \in Genuine /\ Last \in Drawn /\ Last \in Pending!Visible(batch.culling)
  BY <1>1 DEF Genuine, Drawn, Pending!Visible, Triangles
<1> QED BY <1>1, <1>2, ShownOne

\* The triangles from one on: that one and those from the next on.
LEMMA FromIs ==
  ASSUME batch \in Batches, NEW k \in Nat, k <= InBatch
  PROVE  /\ Pending!From(batch, k) \in Seq(Drawn)
         /\ k = InBatch => Pending!From(batch, k) = <<>>
         /\ k < InBatch =>
              Pending!From(batch, k) = <<Pending!TriangleAt(batch, k)>> \o Pending!From(batch, k + 1)
<1> DEFINE m == InBatch - k
           T == Drawn
           At(n) == Pending!TriangleAt(batch, n)
           F(n) == Pending!From(batch, n)
<1>1. InBatch \in Nat /\ m \in Nat
  BY ConsumedIs
<1>2. \A n : F(n) = [i \in 1 .. InBatch - n |-> At(n + i - 1)]
  BY DEF Pending!From, InBatch, VertexCount
<1>3. \A n \in Nat : At(n) \in T
  BY DEF Drawn
<1> HIDE DEF T, At, F
<1>4. \A n \in Nat : n <= InBatch => F(n) \in Seq(T) /\ Len(F(n)) = InBatch - n /\ \A i \in 1 .. InBatch - n : F(n)[i] = At(n + i - 1)
  <2> TAKE n \in Nat
  <2> SUFFICES ASSUME n <= InBatch
               PROVE  F(n) \in Seq(T) /\ Len(F(n)) = InBatch - n /\ \A i \in 1 .. InBatch - n : F(n)[i] = At(n + i - 1)
    OBVIOUS
  <2> DEFINE d == InBatch - n
             f == [i \in 1 .. d |-> At(n + i - 1)]
  <2>1. d \in Nat
    BY <1>1
  <2>2. \A i \in 1 .. d : n + i - 1 \in Nat
    <3> HIDE DEF d
    <3> QED BY <2>1
  <2>3. f \in [1 .. d -> T]
    <3> HIDE DEF d
    <3> QED BY <1>3, <2>2
  <2>4. F(n) = f
    BY <1>2
  <2>5. \A i \in 1 .. d : f[i] = At(n + i - 1)
    OBVIOUS
  <2> HIDE DEF d, f
  <2>6. f \in Seq(T) /\ Len(f) = d
    BY <2>1, <2>3
  <2> QED BY <2>4, <2>5, <2>6 DEF d
<1>5. F(k) \in Seq(T) /\ Len(F(k)) = m /\ \A i \in 1 .. m : F(k)[i] = At(k + i - 1)
  BY <1>4
<1>6. k = InBatch => F(k) = <<>>
  <2> SUFFICES ASSUME k = InBatch PROVE F(k) = <<>>
    OBVIOUS
  <2>1. m = 0
    BY <1>1
  <2> QED BY <1>5, <2>1
<1>7. k < InBatch => F(k) = <<At(k)>> \o F(k + 1)
  <2> SUFFICES ASSUME k < InBatch PROVE F(k) = <<At(k)>> \o F(k + 1)
    OBVIOUS
  <2> DEFINE g == F(k + 1)
             x == At(k)
             l == k + 1
  <2>1. l \in Nat /\ l <= InBatch /\ InBatch - l = m - 1 /\ m > 0
    BY <1>1
  <2>2. g \in Seq(T) /\ Len(g) = m - 1 /\ \A i \in 1 .. m - 1 : g[i] = At(l + i - 1)
    <3>1. F(l) \in Seq(T) /\ Len(F(l)) = InBatch - l /\ \A i \in 1 .. InBatch - l : F(l)[i] = At(l + i - 1)
      <4> HIDE DEF l
      <4> QED BY <1>4, <2>1
    <3> QED BY <2>1, <3>1
  <2>3. x \in T
    BY <1>3
  <2>4. \A i \in 1 .. m : i = 1 \/ (i - 1 \in 1 .. m - 1 /\ i > 1 /\ l + (i - 1) - 1 = k + i - 1)
    BY <1>1
  <2>5. x = At(k + 1 - 1) /\ 1 \in 1 .. m /\ l = k + 1
    <3>1. k + 1 - 1 = k
      OBVIOUS
    <3> QED BY <1>1, <2>1, <3>1
  <2> HIDE DEF g, x, l, m
  <2> DEFINE s == <<x>> \o g
  <2>6. s \in Seq(T) /\ Len(s) = m /\ s[1] = x /\ \A i \in 1 .. m : i > 1 => s[i] = g[i - 1]
    BY <1>1, <2>1, <2>2, <2>3
  <2> HIDE DEF s
  <2>7. \A i \in 1 .. m : s[i] = F(k)[i]
    <3> TAKE i \in 1 .. m
    <3>1. CASE i = 1
      <4>1. F(k)[1] = At(k + 1 - 1)
        BY <1>5, <2>5
      <4> QED BY <2>5, <2>6, <3>1, <4>1
    <3>2. CASE i # 1
      <4> DEFINE j == i - 1
      <4>1. j \in 1 .. m - 1 /\ i > 1 /\ l + j - 1 = k + i - 1
        <5>1. (i - 1) \in 1 .. m - 1 /\ i > 1 /\ l + (i - 1) - 1 = k + i - 1
          BY <2>4, <3>2
        <5> QED BY <5>1
      <4>2. s[i] = g[j]
        BY <2>6, <4>1
      <4> HIDE DEF j
      <4>3. g[j] = At(l + j - 1)
        BY <2>2, <4>1
      <4>4. F(k)[i] = At(k + i - 1)
        BY <1>5
      <4> QED BY <4>1, <4>2, <4>3, <4>4
    <3> QED BY <3>1, <3>2
  <2>8. s = F(k)
    BY <1>5, <2>6, <2>7
  <2> QED BY <2>8 DEF s, g, x, l
<1> QED BY <1>5, <1>6, <1>7 DEF F, T, At

\* The next triangle of the batch, and the entries it is assembled from.
LEMMA NextTriangle ==
  ASSUME batch \in Batches, NEW p \in PaState, Gathered(p), p.stored >= Needed,
         NEW v, v = [n \in 1 .. 3 |-> p.queue[EntriesOf(p)[n]]]
  PROVE  LET t == Pending!Triangle(v[1], v[2], v[3])
         IN  /\ Rest(p) = <<t>> \o Pending!From(batch, p.count + 1)
             /\ Rest(p) \in Seq(Drawn) /\ Pending!From(batch, p.count + 1) \in Seq(Drawn)
             /\ t \in Genuine /\ t \in Drawn /\ ~t.last
             /\ Pending!Degenerate(v) => t \notin Pending!Visible(batch.culling)
<1> DEFINE k == p.count
           t == Pending!Triangle(v[1], v[2], v[3])
           At == Pending!Corners(batch.primitive, k)
<1>1. /\ k < InBatch /\ k \in Nat /\ InBatch \in Nat
      /\ \A n \in 1 .. 3 : p.queue[EntriesOf(p)[n]] = batch.indices[At[n] + 1]
  <2>1. k \in Nat
    BY DEF PaState
  <2>2. InBatch \in Nat
    BY <2>1, ConsumedIs
  <2>3. k < InBatch /\ \A n \in 1 .. 3 : p.queue[EntriesOf(p)[n]] = batch.indices[At[n] + 1]
    BY TriangleGathered
  <2> QED BY <2>1, <2>2, <2>3
<1>2. v[1] = batch.indices[At[1] + 1] /\ v[2] = batch.indices[At[2] + 1] /\ v[3] = batch.indices[At[3] + 1]
  <2> HIDE DEF At
  <2> QED BY <1>1
<1>3. t = Pending!TriangleAt(batch, k)
  <2> HIDE DEF k
  <2> QED BY <1>2 DEF Pending!TriangleAt
<1>4. v[1] \in Nat /\ v[2] \in Nat /\ v[3] \in Nat
  <2>1. \A n \in 1 .. 3 : EntriesOf(p)[n] \in 0 .. AssemblyQueue - 1
    BY EntriesAre
  <2>2. p.queue \in [0 .. AssemblyQueue - 1 -> Nat]
    BY DEF PaState
  <2>3. \A n \in 1 .. 3 : p.queue[EntriesOf(p)[n]] \in Nat
    BY <2>1, <2>2
  <2>4. \A n \in 1 .. 3 : v[n] \in Nat
    BY <2>3
  <2> HIDE DEF At
  <2> QED BY <2>4
<1>5. t.vertices = <<v[1], v[2], v[3]>> /\ t.last = FALSE /\ t \in Triangles
  BY <1>4 DEF Pending!Triangle, Triangles, Pending!Items
<1> HIDE DEF t
<1>6. t \in Genuine /\ t \in Drawn /\ ~t.last
  BY <1>5 DEF Genuine, Drawn
<1>7. Pending!Degenerate(v) => t \notin Pending!Visible(batch.culling)
  <2>1. Pending!Degenerate(v) => Pending!Degenerate(t.vertices)
    BY <1>5 DEF Pending!Degenerate
  <2> QED BY <1>5, <2>1 DEF Pending!Visible
<1>8. Rest(p) = <<t>> \o Pending!From(batch, k + 1) /\ Rest(p) \in Seq(Drawn)
      /\ Pending!From(batch, k + 1) \in Seq(Drawn)
  <2>1. k + 1 \in Nat /\ k + 1 <= InBatch /\ k <= InBatch
    <3> HIDE DEF k
    <3> QED BY <1>1
  <2>2. \A n \in Nat : n <= InBatch =>
          /\ Pending!From(batch, n) \in Seq(Drawn)
          /\ n < InBatch =>
               Pending!From(batch, n) = <<Pending!TriangleAt(batch, n)>> \o Pending!From(batch, n + 1)
    BY FromIs
  <2> HIDE DEF k
  <2>3. Pending!From(batch, k) = <<t>> \o Pending!From(batch, k + 1)
    BY <1>1, <1>3, <2>1, <2>2
  <2>4. Pending!From(batch, k) \in Seq(Drawn) /\ Pending!From(batch, k + 1) \in Seq(Drawn)
    BY <1>1, <2>1, <2>2
  <2> QED BY <2>3, <2>4 DEF Rest, k
<1> QED BY <1>6, <1>7, <1>8 DEF t

LEMMA GenuineDrawn == \A s \in Seq(Genuine) : s \in Seq(Drawn)
<1> TAKE s \in Seq(Genuine)
<1>1. s \in [1 .. Len(s) -> Genuine] /\ Len(s) \in Nat /\ Genuine \subseteq Drawn
  BY DEF Drawn
<1> HIDE DEF Drawn
<1>2. s \in [1 .. Len(s) -> Drawn]
  BY <1>1
<1> QED BY <1>1, <1>2

\* What is sent, and then what is left.
LEMMA RestShown ==
  ASSUME batch \in Batches, NEW p \in PaState, Gathered(p)
  PROVE  /\ Rest(p) \in Seq(Drawn) /\ Shown(Rest(p)) \in Seq(Drawn)
         /\ p.last => Rest(p) = <<>>
<1> DEFINE k == p.count
           c == Consumed(k)
           r == p.received
<1>1. k \in Nat /\ r \in Nat /\ k <= InBatch /\ p.stored = r - c
  BY DEF PaState, Gathered
<1>2. Pending!From(batch, k) \in Seq(Drawn) /\ (k = InBatch => Pending!From(batch, k) = <<>>)
  <2> HIDE DEF k
  <2> QED BY <1>1, FromIs
<1>3. p.last => k = InBatch
  <2> SUFFICES ASSUME p.last PROVE k = InBatch
    OBVIOUS
  <2>1. r = VertexCount /\ p.stored < Needed
    BY DEF Gathered, NoneLeft
  <2>2. c \in Nat /\ Needed \in Nat /\ VertexCount \in Nat
    <3>1. \A n \in Nat : Consumed(n) \in Nat
      BY ConsumedIs
    <3>2. Needed \in Nat
      BY DEF Needed
    <3> HIDE DEF k
    <3> QED BY <1>1, <3>1, <3>2, BatchIs
  <2>3. VertexCount < c + Needed
    <3> HIDE DEF c, r
    <3> QED BY <1>1, <2>1, <2>2
  <2>4. \A n \in Nat : n <= InBatch /\ VertexCount < Consumed(n) + Needed => n = InBatch
    BY ConsumedIs
  <2> HIDE DEF k
  <2> QED BY <1>1, <2>3, <2>4
<1>4. Rest(p) \in Seq(Drawn)
  BY <1>2 DEF Rest
<1>5. Shown(Rest(p)) \in Seq(Drawn)
  <2> DEFINE s == Rest(p)
  <2>1. s \in Seq(Drawn)
    BY <1>4
  <2> HIDE DEF s
  <2>2. Shown(s) \in Seq(Drawn)
    BY <2>1, ShownConcat
  <2> QED BY <2>2 DEF s
<1> QED BY <1>2, <1>3, <1>4, <1>5 DEF Rest

\* A triangle more is assembled: it is sent, or it could not be seen.
LEMMA AssembleShown ==
  ASSUME batch \in Batches, NEW a \in Assembling, Gathered(a.pa), a.sent \in Seq(Genuine)
  PROVE  /\ Gathered(AssembleTriangle(a).pa) /\ AssembleTriangle(a).sent \in Seq(Genuine)
         /\ Shown(AssembleTriangle(a).sent \o Rest(AssembleTriangle(a).pa)) = Shown(a.sent \o Rest(a.pa))
<1> DEFINE v == [n \in 1 .. 3 |-> a.pa.queue[EntriesOf(a.pa)[n]]]
           t == Pending!Triangle(v[1], v[2], v[3])
           b == AssembleTriangle(a)
           p == PassOver(a.pa)
           from == Pending!From(batch, a.pa.count + 1)
<1>1. a.pa \in PaState /\ a.sent \in Seq(Drawn)
  BY GenuineDrawn DEF Assembling
<1>2. CASE a.pa.requests = 0 \/ a.pa.last \/ a.pa.stored < Needed
  <2>1. b = a
    BY <1>2 DEF AssembleTriangle
  <2> HIDE DEF b
  <2> QED BY <2>1 DEF b
<1>3. CASE ~(a.pa.requests = 0 \/ a.pa.last \/ a.pa.stored < Needed)
  <2>1. a.pa.stored >= Needed /\ ~a.pa.last
    <3>1. Needed \in Nat /\ a.pa.stored \in Nat
      <4>1. \A x \in PaState : x.stored \in Nat
        BY Sizes DEF PaState
      <4> QED BY <1>1, <4>1 DEF Needed
    <3> QED BY <1>3, <3>1
  <2>2. Gathered(p) /\ p.count = a.pa.count + 1 /\ p \in PaState
    BY <1>1, <2>1, PassGathered, PassOverIs
  <2>3. /\ Rest(a.pa) = <<t>> \o from /\ from \in Seq(Drawn)
        /\ t \in Genuine /\ t \in Drawn
        /\ Pending!Degenerate(v) => t \notin Pending!Visible(batch.culling)
    <3> DEFINE q == a.pa
    <3>1. q \in PaState /\ Gathered(q) /\ q.stored >= Needed
      BY <1>1, <2>1
    <3> HIDE DEF v
    <3>2. v = [n \in 1 .. 3 |-> q.queue[EntriesOf(q)[n]]]
      BY DEF v
    <3> HIDE DEF q
    <3>3. /\ Rest(q) = <<t>> \o Pending!From(batch, q.count + 1)
          /\ Pending!From(batch, q.count + 1) \in Seq(Drawn)
          /\ t \in Genuine /\ t \in Drawn
          /\ Pending!Degenerate(v) => t \notin Pending!Visible(batch.culling)
      BY <3>1, <3>2, NextTriangle
    <3> QED BY <3>3 DEF q
  <2>4. <<t>> \in Seq(Drawn) /\ Shown(<<t>>) = IF t \in Pending!Visible(batch.culling) THEN <<t>> ELSE <<>>
    <3> HIDE DEF t
    <3> QED BY <2>3, ShownOne
  <2>5. CASE Pending!Degenerate(v)
    <3>1. b = [a EXCEPT !.pa = p]
      BY <1>3, <2>5 DEF AssembleTriangle, Assembling
    <3>2. b.pa = p /\ b.sent = a.sent
      <4> HIDE DEF p, b
      <4> QED BY <3>1 DEF Assembling
    <3>3. Rest(b.pa) = from
      <4> HIDE DEF b, p
      <4> QED BY <2>2, <3>2 DEF Rest
    <3>4. Shown(<<t>>) = <<>>
      BY <2>3, <2>4, <2>5
    <3> DEFINE s == a.sent
    <3> HIDE DEF from, t, s, b, p, v
    <3>5. s \in Seq(Drawn)
      BY <1>1 DEF s
    <3> DEFINE u == <<t>>
    <3>6. u \in Seq(Drawn) /\ Shown(u) = <<>>
      BY <2>4, <3>4
    <3> HIDE DEF u
    <3>7. Shown(u \o from) = Shown(from)
      <4>1. Shown(u \o from) = Shown(u) \o Shown(from)
        BY <2>3, <3>6, ShownConcat
      <4>2. <<>> \o Shown(from) = Shown(from)
        BY <2>3, ShownConcat
      <4> QED BY <3>6, <4>1, <4>2
    <3>8. u \o from \in Seq(Drawn)
      BY <2>3, <3>6, ShownConcat
    <3>9. Shown(s \o (u \o from)) = Shown(s) \o Shown(u \o from) /\ Shown(s \o from) = Shown(s) \o Shown(from)
      BY <2>3, <3>5, <3>8, ShownConcat
    <3>10. Shown(s \o (u \o from)) = Shown(s \o from)
      BY <3>7, <3>9
    <3> QED BY <2>2, <2>3, <3>2, <3>3, <3>10 DEF b, s, u
  <2>6. CASE ~Pending!Degenerate(v)
    <3>1. b = [pa |-> Requested(p), sent |-> Append(a.sent, t)]
      BY <1>3, <2>6 DEF AssembleTriangle
    <3>2. Requested(p).count = p.count /\ \A f \in Holding : Requested(p)[f] = p[f]
      <4> HIDE DEF p
      <4> QED BY <2>2 DEF Requested, Holding, PaState
    <3>3. Gathered(Requested(p))
      <4> DEFINE q == Requested(p)
      <4>1. \A f \in Holding : q[f] = p[f]
        BY <3>2
      <4> HIDE DEF q, p
      <4>2. Gathered(q)
        BY <2>2, <4>1, GatheredSame
      <4> QED BY <4>2 DEF q
    <3>4. b.pa = Requested(p) /\ b.sent = Append(a.sent, t)
      <4> HIDE DEF p, b, t
      <4> QED BY <3>1
    <3>5. Rest(b.pa) = from
      <4> HIDE DEF b, p
      <4> QED BY <2>2, <3>2, <3>4 DEF Rest
    <3> DEFINE s == a.sent
               u == <<t>>
    <3>6. s \in Seq(Genuine) /\ s \in Seq(Drawn) /\ u \in Seq(Drawn)
      BY <1>1, <2>4
    <3> HIDE DEF t, s
    <3>7. Append(s, t) = s \o u /\ Append(s, t) \in Seq(Genuine)
      BY <2>3, <3>6
    <3> HIDE DEF from, b, u
    <3>8. (s \o u) \o from = s \o (u \o from)
      <4> DEFINE T == Drawn
      <4>1. s \in Seq(T) /\ u \in Seq(T) /\ from \in Seq(T)
        BY <2>3, <3>6
      <4> HIDE DEF T
      <4> QED BY <4>1, Associative
    <3>9. b.sent \o Rest(b.pa) = s \o Rest(a.pa)
      BY <2>3, <3>4, <3>5, <3>7, <3>8 DEF s, u
    <3>10. b.sent \in Seq(Genuine)
      BY <3>4, <3>7 DEF s
    <3>11. Gathered(b.pa)
      <4> HIDE DEF p
      <4> QED BY <3>3, <3>4
    <3> QED BY <3>9, <3>10, <3>11 DEF b, s
  <2> QED BY <2>5, <2>6
<1> QED BY <1>2, <1>3

-----------------------------------------------------------------------------
(* The cycles of Primitive Assembly.                                       *)

\* The cycle of p has come to a.
Progress(p, a) ==
  /\ a.pa \in PaState /\ a.sent \in Seq(Triangles)
  /\ \A k \in 1 .. Len(a.sent) : ~a.sent[k].last
  /\ a.pa.requests + Len(a.sent) = p.requests
  /\ \A f \in {"state", "received", "asked", "free", "queue", "last"} : a.pa[f] = p[f]
  /\ a.pa.stored <= p.stored
  /\ a.pa.wait = IF a.sent = <<>> THEN p.wait ELSE ClipStart
  /\ Gathered(p) => /\ Gathered(a.pa) /\ a.sent \in Seq(Genuine)
                    /\ Shown(a.sent \o Rest(a.pa)) = Shown(Rest(p))

\* A triangle more is passed over or sent.
LEMMA AssembleTriangleIs ==
  ASSUME batch \in Batches, NEW a \in Assembling
  PROVE  /\ AssembleTriangle(a) \in Assembling
         /\ \A f \in Kept : AssembleTriangle(a).pa[f] = a.pa[f]
         /\ AssembleTriangle(a).pa.stored <= a.pa.stored
         /\ \/ /\ AssembleTriangle(a).sent = a.sent
               /\ AssembleTriangle(a).pa.requests = a.pa.requests
               /\ AssembleTriangle(a).pa.wait = a.pa.wait
            \/ /\ \E t \in Triangles : ~t.last /\ AssembleTriangle(a).sent = Append(a.sent, t)
               /\ AssembleTriangle(a).pa.requests = a.pa.requests - 1
               /\ AssembleTriangle(a).pa.wait = ClipStart
<1> DEFINE at == EntriesOf(a.pa)
           v == [n \in 1 .. 3 |-> a.pa.queue[at[n]]]
           t == Pending!Triangle(v[1], v[2], v[3])
           b == AssembleTriangle(a)
<1>1. a.pa \in PaState /\ a.sent \in Seq(Triangles)
  BY DEF Assembling
<1>2. a.pa.stored \in Nat /\ a.pa.requests \in Nat
  BY <1>1, Sizes, SMTT(30) DEF PaState
<1>3. CASE a.pa.requests = 0 \/ a.pa.last \/ a.pa.stored < Needed
  <2>1. b = a
    BY <1>3 DEF AssembleTriangle
  <2> HIDE DEF b
  <2> QED BY <1>2, <2>1 DEF b
<1>4. CASE ~(a.pa.requests = 0 \/ a.pa.last \/ a.pa.stored < Needed)
  <2>1. a.pa.stored >= Needed /\ a.pa.requests - 1 \in Nat
    <3>1. Needed \in Nat
      BY DEF Needed
    <3> QED BY <1>2, <1>4, <3>1
  <2> DEFINE p == PassOver(a.pa)
  <2>2. /\ p \in PaState /\ p.stored <= a.pa.stored
        /\ \A f \in {"state", "received", "asked", "free", "queue", "last", "requests", "wait"} :
              p[f] = a.pa[f]
    BY <1>1, <2>1, PassOverIs
  <2>3. CASE Pending!Degenerate(v)
    <3>1. b = [a EXCEPT !.pa = p]
      BY <1>4, <2>3 DEF AssembleTriangle, Assembling
    <3> HIDE DEF p, b
    <3>2. b.pa = p /\ b.sent = a.sent /\ b \in Assembling
      BY <2>2, <3>1 DEF Assembling
    <3> QED BY <2>2, <3>2 DEF b, Kept
  <2>4. CASE ~Pending!Degenerate(v)
    <3>1. b = [pa |-> Requested(p), sent |-> Append(a.sent, t)]
      BY <1>4, <2>4 DEF AssembleTriangle
    <3>2. t \in Triangles /\ ~t.last
      <4>1. \A n \in 1 .. 3 : v[n] \in Nat
        <5>1. \A n \in 1 .. 3 : at[n] \in 0 .. AssemblyQueue - 1
          BY <1>1, EntriesAre
        <5> HIDE DEF at
        <5> QED BY <1>1, <5>1 DEF PaState
      <4>2. v[1] \in Nat /\ v[2] \in Nat /\ v[3] \in Nat
        BY <4>1
      <4> HIDE DEF v
      <4>3. <<v[1], v[2], v[3]>> \in Seq(Nat)
        BY <4>2
      <4> QED BY <4>3 DEF Pending!Triangle, Triangles, Pending!Items
    <3> DEFINE r == a.pa.requests - 1
    <3>3. Requested(p) = [[p EXCEPT !.requests = r] EXCEPT !.wait = ClipStart]
      <4>1. p.requests = a.pa.requests
        BY <2>2
      <4> HIDE DEF p
      <4> QED BY <2>2, <4>1 DEF Requested, PaState
    <3> HIDE DEF p, b, t, v, at, r
    <3>4. Requested(p) \in PaState
      <4>1. [p EXCEPT !.requests = r] \in PaState
        BY <2>1, <2>2, PaFields DEF r
      <4>2. ClipStart \in 0 .. ClipStart
        BY Sizes
      <4> QED BY <3>3, <4>1, <4>2, PaFields
    <3>5. /\ Requested(p).requests = r /\ Requested(p).wait = ClipStart
          /\ Requested(p).stored = p.stored /\ \A f \in Kept : Requested(p)[f] = p[f]
      BY <2>2, <3>3 DEF PaState, Kept
    <3>6. b.pa = Requested(p) /\ b.sent = Append(a.sent, t) /\ b \in Assembling
      BY <1>1, <3>1, <3>2, <3>4 DEF Assembling
    <3> QED BY <2>2, <3>2, <3>5, <3>6 DEF b, r, Kept
  <2> QED BY <2>3, <2>4
<1> QED BY <1>3, <1>4

LEMMA ProgressOn ==
  ASSUME batch \in Batches, NEW p \in PaState, NEW a \in Assembling, Progress(p, a)
  PROVE  /\ Progress(p, AssembleTriangle(a))
         /\ Len(AssembleTriangle(a).sent) <= Len(a.sent) + 1
<1> DEFINE b == AssembleTriangle(a)
<1>1. /\ b \in Assembling /\ b.pa.stored <= a.pa.stored /\ \A f \in Kept : b.pa[f] = a.pa[f]
      /\ \/ b.sent = a.sent /\ b.pa.requests = a.pa.requests /\ b.pa.wait = a.pa.wait
         \/ /\ \E t \in Triangles : ~t.last /\ b.sent = Append(a.sent, t)
            /\ b.pa.requests = a.pa.requests - 1 /\ b.pa.wait = ClipStart
  BY AssembleTriangleIs
<1> HIDE DEF b
<1>2. /\ a.pa \in PaState /\ a.sent \in Seq(Triangles) /\ b.pa \in PaState /\ b.sent \in Seq(Triangles)
      /\ a.pa.requests \in Nat /\ b.pa.requests \in Nat /\ p.requests \in Nat
      /\ a.pa.stored \in Nat /\ b.pa.stored \in Nat /\ p.stored \in Nat
  <2>1. a.pa \in PaState /\ a.sent \in Seq(Triangles) /\ b.pa \in PaState /\ b.sent \in Seq(Triangles)
    BY <1>1 DEF Assembling
  <2>2. \A q \in PaState : q.requests \in Nat /\ q.stored \in Nat
    BY Sizes DEF PaState
  <2> QED BY <2>1, <2>2
<1>3. b.pa.stored <= p.stored /\ \A f \in Kept : b.pa[f] = p[f]
  BY <1>1, <1>2 DEF Progress, Kept
<1> DEFINE Full == Gathered(p) => /\ Gathered(b.pa) /\ b.sent \in Seq(Genuine)
                                  /\ Shown(b.sent \o Rest(b.pa)) = Shown(Rest(p))
<1>4. Full
  <2> SUFFICES ASSUME Gathered(p) PROVE Full
    OBVIOUS
  <2>1. Gathered(a.pa) /\ a.sent \in Seq(Genuine) /\ Shown(a.sent \o Rest(a.pa)) = Shown(Rest(p))
    BY DEF Progress
  <2>2. /\ Gathered(b.pa) /\ b.sent \in Seq(Genuine)
        /\ Shown(b.sent \o Rest(b.pa)) = Shown(a.sent \o Rest(a.pa))
    BY <2>1, AssembleShown DEF b
  <2> QED BY <2>1, <2>2
<1>5. CASE b.sent = a.sent /\ b.pa.requests = a.pa.requests /\ b.pa.wait = a.pa.wait
  <2>1. Progress(p, b)
    BY <1>2, <1>3, <1>4, <1>5 DEF Progress, Kept
  <2> QED BY <1>2, <1>5, <2>1 DEF b
<1>6. CASE /\ \E t \in Triangles : ~t.last /\ b.sent = Append(a.sent, t)
           /\ b.pa.requests = a.pa.requests - 1 /\ b.pa.wait = ClipStart
  <2>1. PICK t \in Triangles : ~t.last /\ b.sent = Append(a.sent, t)
    BY <1>6
  <2>2. /\ Len(b.sent) = Len(a.sent) + 1 /\ b.sent # <<>> /\ Len(a.sent) \in Nat
        /\ b.sent[Len(a.sent) + 1] = t /\ \A k \in 1 .. Len(a.sent) : b.sent[k] = a.sent[k]
    BY <1>2, <2>1
  <2>3. \A k \in 1 .. Len(b.sent) : ~b.sent[k].last
    <3> TAKE k \in 1 .. Len(b.sent)
    <3>1. k \in 1 .. Len(a.sent) \/ k = Len(a.sent) + 1
      BY <2>2
    <3> QED BY <2>1, <2>2, <3>1 DEF Progress
  <2>4. b.pa.requests + Len(b.sent) = p.requests
    <3>1. a.pa.requests + Len(a.sent) = p.requests
      BY DEF Progress
    <3>2. b.pa.requests = a.pa.requests - 1 /\ a.pa.requests \in Nat
      BY <1>2, <1>6
    <3>3. Len(b.sent) = Len(a.sent) + 1 /\ Len(a.sent) \in Nat
      BY <2>2
    <3> QED BY <3>1, <3>2, <3>3
  <2>5. Progress(p, b)
    BY <1>2, <1>3, <1>4, <1>6, <2>2, <2>3, <2>4 DEF Progress, Kept
  <2> QED BY <2>2, <2>5 DEF b
<1> QED BY <1>1, <1>5, <1>6

\* All that a cycle sends, of p and from one triangle to the next.
LEMMA AssembleIs ==
  ASSUME batch \in Batches, NEW p \in PaState, NEW a \in Assemble(p)
  PROVE  Progress(p, a) /\ Len(a.sent) <= TrianglesCycle /\ a \in Assembling
<1> DEFINE start == [pa |-> p, sent |-> <<>>]
           A == SUBSET Assembling
           b == {start}
           N == TrianglesCycle
           g == [x \in A \X Nat |-> { AssembleTriangle(c) : c \in x[1] }]
           Steps(f) == f = [n \in 0 .. TrianglesCycle |->
                              IF n = 0 THEN {start} ELSE { AssembleTriangle(c) : c \in f[n - 1] }]
<1>0. TrianglesCycle \in Nat
  BY Sizes
<1>1. start \in Assembling
  BY DEF Assembling
<1>2. \A c \in Assembling : AssembleTriangle(c) \in Assembling
  BY AssembleTriangleIs
<1>3. g \in [A \X Nat -> A]
  <2>1. \A x \in A \X Nat : { AssembleTriangle(c) : c \in x[1] } \in A
    BY <1>2
  <2> QED BY <2>1
<1>4. PICK f \in [0 .. N -> A] : f[0] = b /\ \A n \in 1 .. N : f[n] = g[<<f[n - 1], n>>]
  <2>1. b \in A /\ N \in Nat
    BY <1>0, <1>1
  <2> HIDE DEF g, A, b, N
  <2>2. Values(A, b, N, g) # {}
    BY <1>3, <2>1, Recursion
  <2> QED BY <2>2 DEF Values
<1>5. ASSUME NEW n \in 1 .. N PROVE f[n] = { AssembleTriangle(c) : c \in f[n - 1] }
  <2>1. n \in Nat /\ n - 1 \in 0 .. N
    BY <1>0
  <2>2. f[n - 1] \in A
    BY <1>4, <2>1
  <2>3. \A x \in A, k \in Nat : g[<<x, k>>] = { AssembleTriangle(c) : c \in x }
    OBVIOUS
  <2> HIDE DEF g, A
  <2>4. g[<<f[n - 1], n>>] = { AssembleTriangle(c) : c \in f[n - 1] }
    BY <2>1, <2>2, <2>3
  <2> QED BY <1>4, <2>4
<1>6. Steps(f)
  <2> DEFINE h == [n \in 0 .. TrianglesCycle |->
                     IF n = 0 THEN {start} ELSE { AssembleTriangle(c) : c \in f[n - 1] }]
  <2>1. \A n \in 0 .. N : n = 0 \/ n \in 1 .. N
    BY <1>0
  <2>2. \A n \in 0 .. N : f[n] = h[n]
    BY <1>4, <1>5, <2>1
  <2>3. f = [n \in 0 .. N |-> f[n]] /\ h = [n \in 0 .. N |-> h[n]]
    BY <1>4
  <2> HIDE DEF h
  <2>4. f = h
    BY <2>2, <2>3
  <2> QED BY <2>4 DEF h
<1> DEFINE c == CHOOSE h : Steps(h)
<1>7. Steps(c)
  BY <1>6
<1>8. Assemble(p) = c[TrianglesCycle]
  BY DEF Assemble
<1>9. \A n \in 0 .. N : c[n] = IF n = 0 THEN {start} ELSE { AssembleTriangle(d) : d \in c[n - 1] }
  BY <1>7
<1> HIDE DEF c
<1> DEFINE Good(n) == \A d \in c[n] : d \in Assembling /\ Progress(p, d) /\ Len(d.sent) <= n
           T == { n \in Nat : n <= N => Good(n) }
<1>10. 0 \in T
  <2>1. c[0] = {start}
    <3>1. 0 \in 0 .. N
      BY <1>0
    <3> HIDE DEF start, N
    <3> QED BY <1>9, <3>1
  <2>2. Progress(p, start) /\ Len(start.sent) <= 0
    <3>1. p.requests \in Nat /\ p.stored \in Nat
      BY Sizes DEF PaState
    <3>2. Gathered(p) => Shown(<<>> \o Rest(p)) = Shown(Rest(p)) /\ <<>> \in Seq(Genuine)
      <4> SUFFICES ASSUME Gathered(p) PROVE Shown(<<>> \o Rest(p)) = Shown(Rest(p)) /\ <<>> \in Seq(Genuine)
        OBVIOUS
      <4> DEFINE z == Rest(p)
      <4>1. z \in Seq(Drawn)
        BY RestShown
      <4> HIDE DEF z
      <4>2. <<>> \o z = z /\ <<>> \in Seq(Genuine)
        BY <4>1
      <4> QED BY <4>2 DEF z
    <3> QED BY <3>1, <3>2 DEF Progress
  <2>3. Good(0)
    BY <1>1, <2>1, <2>2
  <2> HIDE DEF Good
  <2> QED BY <2>3
<1>11. ASSUME NEW n \in Nat, n \in T PROVE n + 1 \in T
  <2> SUFFICES ASSUME n + 1 <= N PROVE Good(n + 1)
    OBVIOUS
  <2>1. Good(n) /\ n + 1 \in 0 .. N /\ n + 1 # 0 /\ (n + 1) - 1 = n
    BY <1>0, <1>11
  <2>2. c[n + 1] = { AssembleTriangle(d) : d \in c[n] }
    BY <1>9, <2>1
  <2> SUFFICES ASSUME NEW e \in c[n + 1]
               PROVE  e \in Assembling /\ Progress(p, e) /\ Len(e.sent) <= n + 1
    OBVIOUS
  <2>3. PICK d \in c[n] : e = AssembleTriangle(d)
    BY <2>2
  <2>4. d \in Assembling /\ Progress(p, d) /\ Len(d.sent) <= n
    BY <2>1
  <2>5. Progress(p, e) /\ Len(e.sent) <= Len(d.sent) + 1
    BY <2>3, <2>4, ProgressOn
  <2>6. e \in Assembling
    BY <1>2, <2>3, <2>4
  <2>7. Len(d.sent) \in Nat /\ Len(e.sent) \in Nat
    BY <2>4, <2>6 DEF Assembling
  <2> QED BY <2>4, <2>5, <2>6, <2>7
<1> HIDE DEF T
<1>12. N \in T
  BY <1>0, <1>10, <1>11, Induction
<1>13. Good(N)
  BY <1>0, <1>12 DEF T
<1> QED BY <1>8, <1>13

\* What is sent in a cycle: triangles, or the mark of the end.
LEMMA SendTrianglesIs ==
  ASSUME batch \in Batches, NEW p \in PaState, p.state = "DRAWING", NEW a \in SendTriangles(p)
  PROVE  /\ a.pa \in PaState /\ a.sent \in Group /\ EndsBatch(a.sent)
         /\ a.pa.state = IF Ended(a.sent) THEN "END" ELSE "DRAWING"
         /\ a.pa.requests + Len(a.sent) = p.requests
         /\ a.pa.stored <= p.stored
         /\ a.pa.received = p.received /\ a.pa.asked = p.asked
         /\ a.pa.wait = IF a.sent = <<>> THEN p.wait ELSE ClipStart
         /\ a.sent # <<>> => p.wait = 0
         /\ Gathered(p) => /\ Gathered(a.pa) /\ a.sent \in Seq(Genuine)
                           /\ Unsent(p) = Shown(a.sent) \o Unsent(a.pa)
<1>0. p.requests \in Nat /\ p.stored \in Nat /\ TrianglesCycle \in Nat /\ TrianglesCycle > 0
  BY Sizes DEF PaState
<1>1. CASE p.requests > 0 /\ p.wait = 0 /\ p.last
  <2> DEFINE r == p.requests - 1
  <2>1. a = [pa |-> [Requested(p) EXCEPT !.state = "END"], sent |-> <<Last>>]
    BY <1>1 DEF SendTriangles
  <2>2. a.sent = <<Last>> /\ a.pa = [[[p EXCEPT !.requests = r] EXCEPT !.wait = ClipStart] EXCEPT !.state = "END"]
    BY <2>1 DEF Requested, PaState
  <2>3. r \in Nat /\ r + 1 = p.requests /\ ClipStart \in 0 .. ClipStart /\ "END" \in States
    BY <1>0, <1>1, Sizes DEF States
  <2> HIDE DEF r
  <2>4. a.pa \in PaState
    <3>1. [p EXCEPT !.requests = r] \in PaState
      BY <2>3, PaFields
    <3>2. [[p EXCEPT !.requests = r] EXCEPT !.wait = ClipStart] \in PaState
      BY <2>3, <3>1, PaFields
    <3> DEFINE y == [[p EXCEPT !.requests = r] EXCEPT !.wait = ClipStart]
    <3>3. a.pa = [y EXCEPT !.state = "END"] /\ y \in PaState
      BY <2>2, <3>2
    <3> HIDE DEF y
    <3> QED BY <2>3, <3>3, PaFields
  <2>5. /\ a.pa.state = "END" /\ a.pa.requests = r /\ a.pa.wait = ClipStart
        /\ a.pa.stored = p.stored /\ a.pa.received = p.received /\ a.pa.asked = p.asked
    BY <2>2 DEF PaState
  <2>6. a.sent \in Group /\ EndsBatch(a.sent) /\ Ended(a.sent) /\ Len(a.sent) = 1 /\ a.sent # <<>>
    <3>1. Last \in Triangles /\ Last.last
      BY DEF Last, Pending!Last, Triangles, Pending!Items
    <3> DEFINE l == Last
    <3> HIDE DEF l
    <3>2. l \in Triangles /\ l.last /\ a.sent = <<l>>
      BY <2>2, <3>1 DEF l
    <3> QED BY <1>0, <3>2 DEF Group, EndsBatch, Ended, Newest
  <2>7. Gathered(p) => /\ Gathered(a.pa) /\ a.sent \in Seq(Genuine)
                       /\ Unsent(p) = Shown(a.sent) \o Unsent(a.pa)
    <3> SUFFICES ASSUME Gathered(p)
                 PROVE  /\ Gathered(a.pa) /\ a.sent \in Seq(Genuine)
                        /\ Unsent(p) = Shown(a.sent) \o Unsent(a.pa)
      OBVIOUS
    <3>1. \A f \in Holding : a.pa[f] = p[f]
      BY <2>2 DEF Holding, PaState
    <3>2. Gathered(a.pa)
      <4> DEFINE q == a.pa
      <4>1. \A f \in Holding : q[f] = p[f]
        BY <3>1
      <4> HIDE DEF q
      <4>2. Gathered(q)
        BY <4>1, GatheredSame
      <4> QED BY <4>2 DEF q
    <3>3. Rest(p) = <<>>
      BY <1>1, RestShown
    <3> DEFINE l == <<Last>>
    <3>4. l \in Seq(Genuine) /\ l \in Seq(Drawn) /\ Shown(l) = l /\ a.sent = l
      BY <2>2, LastShown
    <3> HIDE DEF l
    <3>5. Unsent(a.pa) = <<>>
      BY <2>5 DEF Unsent
    <3>6. Unsent(p) = Shown(<<>> \o l)
      BY <3>3 DEF Unsent, l
    <3>7. <<>> \o l = l /\ l \o <<>> = l
      BY <3>4
    <3> QED BY <3>2, <3>4, <3>5, <3>6, <3>7
  <2> QED BY <1>0, <1>1, <2>3, <2>4, <2>5, <2>6, <2>7
<1>2. CASE ~(p.requests > 0 /\ p.wait = 0 /\ p.last) /\ p.wait = 0
  <2>1. a \in Assemble(p)
    BY <1>2 DEF SendTriangles
  <2>2. Progress(p, a) /\ Len(a.sent) <= TrianglesCycle
    BY <2>1, AssembleIs
  <2>3. a.sent \in Group /\ EndsBatch(a.sent) /\ ~Ended(a.sent)
    BY <2>2 DEF Progress, Group, EndsBatch, Ended, Newest
  <2>4. Gathered(p) => /\ Gathered(a.pa) /\ a.sent \in Seq(Genuine)
                       /\ Unsent(p) = Shown(a.sent) \o Unsent(a.pa)
    <3> SUFFICES ASSUME Gathered(p)
                 PROVE  /\ Gathered(a.pa) /\ a.sent \in Seq(Genuine)
                        /\ Unsent(p) = Shown(a.sent) \o Unsent(a.pa)
      OBVIOUS
    <3>1. /\ a.pa \in PaState /\ a.pa.state = "DRAWING" /\ Gathered(a.pa) /\ a.sent \in Seq(Genuine)
          /\ Shown(a.sent \o Rest(a.pa)) = Shown(Rest(p))
      BY <2>2 DEF Progress
    <3> DEFINE r == Rest(p)
               z == Rest(a.pa)
               e == a.sent
               l == <<Last>>
    <3>2. r \in Seq(Drawn) /\ z \in Seq(Drawn) /\ e \in Seq(Drawn) /\ l \in Seq(Drawn)
      BY <3>1, RestShown, GenuineDrawn, LastShown
    <3>3. Unsent(p) = Shown(r \o l) /\ Unsent(a.pa) = Shown(z \o l) /\ Shown(e \o z) = Shown(r)
      BY <3>1 DEF Unsent
    <3> HIDE DEF r, z, e, l
    <3>4. Shown(r \o l) = Shown(e \o z) \o Shown(l)
      <4>1. Shown(r \o l) = Shown(r) \o Shown(l)
        BY <3>2, ShownConcat
      <4> QED BY <3>3, <4>1
    <3>5. Shown(e \o z) = Shown(e) \o Shown(z) /\ Shown(z \o l) = Shown(z) \o Shown(l)
      BY <3>2, ShownConcat
    <3>6. (Shown(e) \o Shown(z)) \o Shown(l) = Shown(e) \o (Shown(z) \o Shown(l))
      <4> DEFINE T == Drawn
                 x == Shown(e)
                 y == Shown(z)
                 w == Shown(l)
      <4>1. x \in Seq(T) /\ y \in Seq(T) /\ w \in Seq(T)
        BY <3>2, ShownConcat
      <4> HIDE DEF T, x, y, w
      <4>2. (x \o y) \o w = x \o (y \o w)
        BY <4>1, Associative
      <4> QED BY <4>2 DEF x, y, w
    <3> QED BY <3>1, <3>3, <3>4, <3>5, <3>6 DEF e
  <2> QED BY <1>2, <2>2, <2>3, <2>4 DEF Progress
<1>3. CASE p.wait # 0
  <2>1. a = [pa |-> p, sent |-> <<>>]
    BY <1>3 DEF SendTriangles
  <2>2. a.pa = p /\ a.sent = <<>>
    BY <2>1
  <2>3. a.sent \in Group /\ EndsBatch(a.sent) /\ ~Ended(a.sent) /\ Len(a.sent) = 0
    BY <1>0, <2>2 DEF Group, EndsBatch, Ended
  <2>4. Gathered(p) => /\ a.sent \in Seq(Genuine) /\ Unsent(p) = Shown(a.sent) \o Unsent(p)
    <3> SUFFICES ASSUME Gathered(p)
                 PROVE  a.sent \in Seq(Genuine) /\ Unsent(p) = Shown(a.sent) \o Unsent(p)
      OBVIOUS
    <3> DEFINE r == Rest(p) \o <<Last>>
    <3>1. r \in Seq(Drawn)
      BY RestShown, LastShown, ShownConcat
    <3>2. Unsent(p) = Shown(r)
      BY DEF Unsent
    <3> HIDE DEF r
    <3>3. Shown(<<>>) = <<>> /\ <<>> \o Shown(r) = Shown(r)
      BY <3>1, ShownConcat
    <3>4. <<>> \in Seq(Genuine)
      OBVIOUS
    <3> QED BY <2>2, <3>2, <3>3, <3>4
  <2> QED BY <1>0, <1>3, <2>2, <2>3, <2>4
<1> QED BY <1>1, <1>2, <1>3

LEMMA ReceivedIs ==
  ASSUME batch \in Batches, NEW q \in PaState, q.asked > 0, q.received < VertexCount,
         q.stored + q.asked <= AssemblyQueue
  PROVE  /\ Received(q) \in PaState
         /\ Received(q).received = q.received + 1 /\ Received(q).asked = q.asked - 1
         /\ Received(q).stored = q.stored + 1
         /\ \A f \in {"state", "requests", "wait", "last"} : Received(q)[f] = q[f]
<1>1. /\ q.stored \in 0 .. AssemblyQueue /\ q.asked \in 0 .. AssemblyQueue /\ q.received \in Nat
      /\ q.free \in 0 .. AssemblyQueue - 1 /\ AssemblyQueue \in Nat
  BY Sizes DEF PaState
<1> DEFINE v == batch.indices[q.received + 1]
           f == After(q.free, 1)
           r == q.received + 1
           s == q.stored + 1
           k == q.asked - 1
<1>2. v \in Nat
  <2>1. batch.indices \in Seq(Nat) /\ Len(batch.indices) \in Nat /\ q.received < Len(batch.indices)
    BY BatchIs DEF VertexCount
  <2>2. q.received + 1 \in 1 .. Len(batch.indices)
    BY <1>1, <2>1
  <2> QED BY <2>1, <2>2
<1>3. f \in 0 .. AssemblyQueue - 1
  BY <1>1, Rings
<1>4. r \in Nat /\ s \in 0 .. AssemblyQueue /\ k \in 0 .. AssemblyQueue
  BY <1>1
<1>5. Received(q) = [q EXCEPT !.queue[q.free] = v, !.free = f, !.received = r, !.stored = s, !.asked = k]
  BY DEF Received, PaState
<1> HIDE DEF v, f, r, s, k
<1>6. Received(q) \in PaState
  <2>1. [q EXCEPT !.queue[q.free] = v] \in PaState
    BY <1>1, <1>2, PaFields
  <2>2. [[q EXCEPT !.queue[q.free] = v] EXCEPT !.free = f] \in PaState
    BY <1>3, <2>1, PaFields
  <2>3. [[[q EXCEPT !.queue[q.free] = v] EXCEPT !.free = f] EXCEPT !.received = r] \in PaState
    BY <1>4, <2>2, PaFields
  <2>4. [[[[q EXCEPT !.queue[q.free] = v] EXCEPT !.free = f] EXCEPT !.received = r]
           EXCEPT !.stored = s] \in PaState
    BY <1>4, <2>3, PaFields
  <2> QED BY <1>4, <1>5, <2>4, PaFields
<1>7. /\ Received(q).received = r /\ Received(q).asked = k /\ Received(q).stored = s
      /\ Received(q).state = q.state /\ Received(q).requests = q.requests
      /\ Received(q).wait = q.wait /\ Received(q).last = q.last
  BY <1>5 DEF PaState
<1> QED BY <1>6, <1>7 DEF r, s, k

\* What n vertices make of p.
Arrived(p, q, n) ==
  /\ q \in PaState /\ q.received = p.received + n /\ q.asked = p.asked - n
  /\ q.stored = p.stored + n
  /\ \A f \in {"state", "requests", "wait", "last"} : q[f] = p[f]
  /\ q.count = p.count /\ (Gathered(p) => Gathered(q))

LEMMA ArrivedOn ==
  ASSUME batch \in Batches, NEW p \in PaState, p.stored + p.asked <= AssemblyQueue,
         NEW n \in Nat, n < p.asked, p.received + n < VertexCount,
         NEW q, Arrived(p, q, n)
  PROVE  Arrived(p, Received(q), n + 1)
<1>1. p.received \in Nat /\ p.asked \in Nat /\ p.stored \in Nat /\ AssemblyQueue \in Nat
  BY Sizes DEF PaState
<1>2. q \in PaState /\ q.received = p.received + n /\ q.asked = p.asked - n /\ q.stored = p.stored + n
  BY DEF Arrived
<1>3. q.asked > 0 /\ q.received < VertexCount /\ q.stored + q.asked <= AssemblyQueue
  BY <1>1, <1>2
<1>4. /\ Received(q) \in PaState
      /\ Received(q).received = q.received + 1 /\ Received(q).asked = q.asked - 1
      /\ Received(q).stored = q.stored + 1
      /\ \A f \in {"state", "requests", "wait", "last"} : Received(q)[f] = q[f]
  BY <1>2, <1>3, ReceivedIs
<1>5. /\ Received(q).received = p.received + (n + 1) /\ Received(q).asked = p.asked - (n + 1)
      /\ Received(q).stored = p.stored + (n + 1)
  BY <1>1, <1>2, <1>4
<1>6. Received(q).count = p.count /\ (Gathered(p) => Gathered(Received(q)))
  <2>1. q.count = p.count /\ (Gathered(p) => Gathered(q))
    BY DEF Arrived
  <2>2. Received(q).count = q.count
    BY <1>2 DEF Received, PaState
  <2>3. Gathered(q) => Gathered(Received(q))
    BY <1>2, <1>3, ReceiveGathered
  <2> QED BY <2>1, <2>2, <2>3
<1> QED BY <1>4, <1>5, <1>6 DEF Arrived

\* The vertices of a cycle.
LEMMA ReceiveVerticesIs ==
  ASSUME batch \in Batches, NEW p \in PaState, p.stored + p.asked <= AssemblyQueue,
         NEW m \in Nat, m <= p.asked, p.received + m <= VertexCount,
         NEW q \in ReceiveVertices(p, m)
  PROVE  Arrived(p, q, m)
<1> DEFINE Steps(f) == f = [n \in 0 .. m |->
                              IF n = 0 THEN {p} ELSE { Received(d) : d \in f[n - 1] }]
           Good(n, S) == \A d \in S : Arrived(p, d, n)
<1>0. p.received \in Nat /\ p.asked \in Nat /\ p.stored \in Nat /\ VertexCount \in Nat /\ 0 \in 0 .. m
  BY Sizes, BatchIs DEF PaState
<1>1. Good(0, {p})
  BY <1>0 DEF Arrived
<1>2. ASSUME NEW n \in Nat, n + 1 <= m, NEW S, Good(n, S)
      PROVE  Good(n + 1, { Received(d) : d \in S })
  <2>1. n < p.asked /\ p.received + n < VertexCount
    BY <1>0, <1>2
  <2>2. \A d \in S : Arrived(p, Received(d), n + 1)
    BY <1>2, <2>1, ArrivedOn
  <2> QED BY <2>2
<1> DEFINE A == SUBSET PaState
           b == {p}
           Step(d) == IF Received(d) \in PaState THEN Received(d) ELSE d
           g == [x \in A \X Nat |-> { Step(d) : d \in x[1] }]
<1>3. PICK f \in [0 .. m -> A] : f[0] = b /\ \A n \in 1 .. m : f[n] = g[<<f[n - 1], n>>]
  <2>1. b \in A
    OBVIOUS
  <2>2. g \in [A \X Nat -> A]
    <3>1. \A x \in A \X Nat : { Step(d) : d \in x[1] } \in A
      OBVIOUS
    <3> QED BY <3>1
  <2> HIDE DEF g, A, b
  <2>3. Values(A, b, m, g) # {}
    BY <2>1, <2>2, Recursion
  <2> QED BY <2>3 DEF Values
<1>4. ASSUME NEW n \in 1 .. m PROVE f[n] = { Step(d) : d \in f[n - 1] }
  <2>1. n \in Nat /\ n - 1 \in 0 .. m
    OBVIOUS
  <2>2. f[n - 1] \in A
    BY <1>3, <2>1
  <2>3. \A x \in A, k \in Nat : g[<<x, k>>] = { Step(d) : d \in x }
    OBVIOUS
  <2> HIDE DEF g, A, Step
  <2>4. g[<<f[n - 1], n>>] = { Step(d) : d \in f[n - 1] }
    BY <2>1, <2>2, <2>3
  <2> QED BY <1>3, <2>4
<1> HIDE DEF g, A, Good
<1>5. ASSUME NEW n \in Nat, n + 1 <= m, Good(n, f[n])
      PROVE  f[n + 1] = { Received(d) : d \in f[n] } /\ Good(n + 1, f[n + 1])
  <2>1. Good(n + 1, { Received(d) : d \in f[n] })
    BY <1>2, <1>5
  <2>2. \A d \in f[n] : Step(d) = Received(d)
    BY <2>1 DEF Good, Arrived
  <2>3. f[n + 1] = { Step(d) : d \in f[n] }
    <3>1. n + 1 \in 1 .. m /\ (n + 1) - 1 = n
      BY <1>5
    <3> HIDE DEF Step
    <3> QED BY <1>4, <3>1
  <2> HIDE DEF Step
  <2>4. f[n + 1] = { Received(d) : d \in f[n] }
    BY <2>2, <2>3
  <2> QED BY <2>1, <2>4
<1> HIDE DEF Step
<1>6. \A n \in Nat : n <= m => Good(n, f[n])
  <2> DEFINE T == { n \in Nat : n <= m => Good(n, f[n]) }
  <2>1. 0 \in T
    BY <1>1, <1>3
  <2>2. ASSUME NEW n \in Nat, n \in T PROVE n + 1 \in T
    BY <1>5, <2>2
  <2> HIDE DEF T
  <2>3. \A n \in Nat : n \in T
    BY <2>1, <2>2, Induction
  <2> QED BY <2>3 DEF T
<1>7. Steps(f)
  <2> DEFINE h == [n \in 0 .. m |-> IF n = 0 THEN {p} ELSE { Received(d) : d \in f[n - 1] }]
  <2>1. ASSUME NEW n \in 1 .. m PROVE f[n] = { Received(d) : d \in f[n - 1] }
    <3>1. n - 1 \in Nat /\ (n - 1) + 1 = n /\ (n - 1) + 1 <= m /\ n - 1 <= m
      OBVIOUS
    <3>2. Good(n - 1, f[n - 1])
      BY <1>6, <3>1
    <3> DEFINE k == n - 1
    <3>3. k \in Nat /\ k + 1 = n /\ k + 1 <= m /\ Good(k, f[k])
      BY <3>1, <3>2
    <3> HIDE DEF k
    <3>4. f[k + 1] = { Received(d) : d \in f[k] }
      BY <1>5, <3>3
    <3> QED BY <3>3, <3>4 DEF k
  <2>2. \A n \in 0 .. m : n = 0 \/ n \in 1 .. m
    OBVIOUS
  <2>3. \A n \in 0 .. m : f[n] = h[n]
    BY <1>3, <2>1, <2>2
  <2>4. f = [n \in 0 .. m |-> f[n]] /\ h = [n \in 0 .. m |-> h[n]]
    BY <1>3
  <2> HIDE DEF h
  <2>5. f = h
    BY <2>3, <2>4
  <2> QED BY <2>5 DEF h
<1> DEFINE c == CHOOSE h : Steps(h)
<1>8. Steps(c)
  BY <1>7
<1>9. ReceiveVertices(p, m) = c[m]
  BY DEF ReceiveVertices, Received
<1>10. \A n \in 0 .. m : c[n] = IF n = 0 THEN {p} ELSE { Received(d) : d \in c[n - 1] }
  BY <1>8
<1> HIDE DEF c
<1> DEFINE T == { n \in Nat : n <= m => Good(n, c[n]) }
<1>11. 0 \in T
  <2>1. c[0] = {p}
    BY <1>0, <1>10
  <2> QED BY <1>1, <2>1
<1>12. ASSUME NEW n \in Nat, n \in T PROVE n + 1 \in T
  <2> SUFFICES ASSUME n + 1 <= m PROVE Good(n + 1, c[n + 1])
    OBVIOUS
  <2>1. Good(n, c[n]) /\ n + 1 \in 0 .. m /\ n + 1 # 0 /\ (n + 1) - 1 = n
    BY <1>12
  <2>2. c[n + 1] = { Received(d) : d \in c[n] }
    BY <1>10, <2>1
  <2> QED BY <1>2, <2>1, <2>2
<1> HIDE DEF T
<1>13. m \in T
  BY <1>11, <1>12, Induction
<1>14. Good(m, c[m])
  BY <1>13 DEF T
<1> QED BY <1>9, <1>14 DEF Good

LEMMA AskVerticesIs ==
  ASSUME batch \in Batches, NEW p \in PaState, p.stored + p.asked <= AssemblyQueue
  PROVE  /\ AskVertices(p) \in 0 .. AssemblyQueue - p.stored - p.asked
         /\ p.asked + AskVertices(p) \in 0 .. AssemblyQueue
<1>1. /\ p.stored \in 0 .. AssemblyQueue /\ p.asked \in 0 .. AssemblyQueue /\ p.received \in Nat
      /\ AssemblyQueue \in Nat /\ VerticesCycle \in Nat /\ VertexCount \in Nat
  BY Sizes, BatchIs DEF PaState
<1>2. AskVertices(p) \in 0 .. AssemblyQueue - p.stored - p.asked
  BY <1>1 DEF AskVertices, Smaller
<1> QED BY <1>1, <1>2

\* A cycle of Primitive Assembly while it draws.
Draws(p, sent) ==
  /\ clipIn' = Carry(clipIn, sent) /\ EndsBatch(sent) /\ pa' \in PaState
  /\ pa'.state = IF Ended(sent) THEN "END" ELSE "DRAWING"
  /\ pa'.requests + Len(sent) = p.requests
  /\ pa'.stored + pa'.asked <= AssemblyQueue /\ pa'.received <= VertexCount
  /\ pa'.wait = IF sent = <<>> THEN CountDown(p.wait) ELSE ClipStart
  /\ sent # <<>> => CountDown(p.wait) = 0
  /\ Gathered(p) => /\ Gathered(pa') /\ sent \in Seq(Genuine)
                    /\ Unsent(p) = Shown(sent) \o Unsent(pa')

LEMMA DrawAssemblyIs ==
  ASSUME batch \in Batches, NEW p \in PaState, p.state = "DRAWING", DrawAssembly(p),
         p.stored + p.asked <= AssemblyQueue, p.received <= VertexCount
  PROVE  \E sent \in Group : Draws(p, sent)
<1> DEFINE M == 0 .. Smaller(VerticesCycle, Smaller(p.asked, VertexCount - p.received))
<1>1. PICK m \in M : \E o \in {[p EXCEPT !.wait = CountDown(@)]} :
        \E a \in SendTriangles([o EXCEPT !.asked = @ + AskVertices(o)]) :
        \E q \in ReceiveVertices(a.pa, m) :
          /\ pa' = IF NoneLeft(q) THEN [q EXCEPT !.last = TRUE] ELSE q
          /\ clipIn' = Carry(clipIn, a.sent)
  BY DEF DrawAssembly
<1> DEFINE w == CountDown(p.wait)
           o == [p EXCEPT !.wait = w]
           k == p.asked + AskVertices(o)
           s == [o EXCEPT !.asked = k]
<1>2. o = [p EXCEPT !.wait = CountDown(@)] /\ s = [o EXCEPT !.asked = @ + AskVertices(o)]
  BY DEF PaState
<1>3. PICK a \in SendTriangles(s) : \E q \in ReceiveVertices(a.pa, m) :
          /\ pa' = IF NoneLeft(q) THEN [q EXCEPT !.last = TRUE] ELSE q
          /\ clipIn' = Carry(clipIn, a.sent)
  <2> HIDE DEF o, s
  <2> QED BY <1>1, <1>2
<1>4. PICK q \in ReceiveVertices(a.pa, m) :
          /\ pa' = IF NoneLeft(q) THEN [q EXCEPT !.last = TRUE] ELSE q
          /\ clipIn' = Carry(clipIn, a.sent)
  BY <1>3
<1>5. /\ p.stored \in Nat /\ p.asked \in Nat /\ p.received \in Nat /\ VertexCount \in Nat
      /\ VerticesCycle \in Nat /\ AssemblyQueue \in Nat /\ p.wait \in 0 .. ClipStart /\ ClipStart \in Nat
  BY Sizes, BatchIs DEF PaState
<1>6. w \in 0 .. ClipStart
  BY <1>5 DEF CountDown
<1> HIDE DEF w
<1>7. /\ o \in PaState /\ o.asked = p.asked /\ o.stored = p.stored /\ o.received = p.received
      /\ o.wait = w /\ o.state = p.state /\ o.requests = p.requests
  <2>1. o \in PaState
    BY <1>6, PaFields
  <2> QED BY <2>1 DEF PaState
<1>8. o.count = p.count /\ \A f \in Holding : o[f] = p[f]
  BY DEF Holding, PaState
<1> HIDE DEF o
<1>9. k \in 0 .. AssemblyQueue /\ p.stored + k <= AssemblyQueue /\ k >= p.asked
  <2>1. /\ AskVertices(o) \in 0 .. AssemblyQueue - o.stored - o.asked
        /\ o.asked + AskVertices(o) \in 0 .. AssemblyQueue
    BY <1>7, AskVerticesIs
  <2> DEFINE n == AskVertices(o)
  <2> HIDE DEF n
  <2>2. n \in 0 .. AssemblyQueue - p.stored - p.asked /\ p.asked + n \in 0 .. AssemblyQueue
    BY <1>7, <2>1 DEF n
  <2>3. k = p.asked + n
    BY DEF n
  <2> QED BY <1>5, <2>2, <2>3
<1> HIDE DEF k
<1>10. /\ s \in PaState /\ s.asked = k /\ s.stored = p.stored /\ s.received = p.received
      /\ s.wait = w /\ s.state = p.state /\ s.requests = p.requests
  <2>1. s \in PaState
    BY <1>7, <1>9, PaFields
  <2> QED BY <1>7, <2>1 DEF PaState
<1>11. s.count = p.count /\ \A f \in Holding : s[f] = p[f]
  <2>1. s.count = o.count /\ \A f \in Holding : s[f] = o[f]
    BY <1>7 DEF Holding, PaState
  <2> QED BY <1>8, <2>1
<1> HIDE DEF s
<1>12. /\ a.pa \in PaState /\ a.sent \in Group /\ EndsBatch(a.sent)
       /\ a.pa.state = IF Ended(a.sent) THEN "END" ELSE "DRAWING"
       /\ a.pa.requests + Len(a.sent) = s.requests
       /\ a.pa.stored <= s.stored
       /\ a.pa.received = s.received /\ a.pa.asked = s.asked
       /\ a.pa.wait = IF a.sent = <<>> THEN s.wait ELSE ClipStart
       /\ a.sent # <<>> => s.wait = 0
       /\ Gathered(s) => /\ Gathered(a.pa) /\ a.sent \in Seq(Genuine)
                         /\ Unsent(s) = Shown(a.sent) \o Unsent(a.pa)
  BY <1>10, SendTrianglesIs
<1>13. m \in Nat /\ m <= p.asked /\ m <= VertexCount - p.received
  <2> DEFINE x == p.asked
             y == VertexCount - p.received
  <2>1. x \in Nat /\ y \in Nat /\ VerticesCycle \in Nat
    BY <1>5
  <2>2. m \in 0 .. Smaller(VerticesCycle, Smaller(x, y))
    OBVIOUS
  <2> HIDE DEF x, y, M
  <2>3. m \in Nat /\ m <= x /\ m <= y
    BY <2>1, <2>2 DEF Smaller
  <2> QED BY <2>3 DEF x, y
<1>14. a.pa.stored \in Nat /\ a.pa.asked \in Nat /\ a.pa.received \in Nat
  <2>1. a.pa \in PaState
    BY <1>12
  <2>2. \A x \in PaState : x.stored \in Nat /\ x.asked \in Nat /\ x.received \in Nat
    BY Sizes DEF PaState
  <2> QED BY <2>1, <2>2
<1>15. a.pa.stored + a.pa.asked <= AssemblyQueue /\ m <= a.pa.asked /\ a.pa.received + m <= VertexCount
  <2> DEFINE x == a.pa.stored
             y == a.pa.asked
             u == a.pa.received
  <2>1. /\ x \in Nat /\ y = k /\ u = p.received /\ x <= p.stored
    BY <1>10, <1>12, <1>14
  <2> HIDE DEF x, y, u
  <2>2. x + y <= AssemblyQueue /\ m <= y /\ u + m <= VertexCount
    BY <1>5, <1>9, <1>13, <2>1
  <2> QED BY <2>2 DEF x, y, u
<1>16. Arrived(a.pa, q, m)
  BY <1>12, <1>13, <1>15, ReceiveVerticesIs
<1>17. /\ q \in PaState /\ q.received = a.pa.received + m /\ q.asked = a.pa.asked - m
       /\ q.stored = a.pa.stored + m /\ q.state = a.pa.state /\ q.requests = a.pa.requests
       /\ q.wait = a.pa.wait /\ q.count = a.pa.count /\ (Gathered(a.pa) => Gathered(q))
  BY <1>16 DEF Arrived
<1>18. q.stored + q.asked <= AssemblyQueue /\ q.received <= VertexCount
  BY <1>13, <1>14, <1>15, <1>17
<1>19. /\ pa' \in PaState /\ pa'.state = q.state /\ pa'.requests = q.requests /\ pa'.wait = q.wait
       /\ pa'.stored = q.stored /\ pa'.asked = q.asked /\ pa'.received = q.received
       /\ pa'.count = q.count
  <2>1. [q EXCEPT !.last = TRUE] \in PaState
    BY <1>17, PaFields
  <2>2. CASE NoneLeft(q)
    <3>1. pa' = [q EXCEPT !.last = TRUE]
      BY <1>4, <2>2
    <3> QED BY <1>17, <2>1, <3>1 DEF PaState
  <2>3. CASE ~NoneLeft(q)
    BY <1>4, <1>17, <2>3
  <2> QED BY <2>2, <2>3
<1>20. Gathered(p) => /\ Gathered(pa') /\ a.sent \in Seq(Genuine)
                       /\ Unsent(p) = Shown(a.sent) \o Unsent(pa')
  <2> SUFFICES ASSUME Gathered(p)
               PROVE  /\ Gathered(pa') /\ a.sent \in Seq(Genuine)
                      /\ Unsent(p) = Shown(a.sent) \o Unsent(pa')
    OBVIOUS
  <2>1. Gathered(s)
    BY <1>11, GatheredSame
  <2>2. Gathered(a.pa) /\ Gathered(q) /\ a.sent \in Seq(Genuine) /\ Unsent(s) = Shown(a.sent) \o Unsent(a.pa)
    BY <1>12, <1>17, <2>1
  <2>3. Unsent(s) = Unsent(p)
    BY <1>10, <1>11 DEF Unsent, Rest
  <2>4. Unsent(pa') = Unsent(a.pa)
    BY <1>17, <1>19 DEF Unsent, Rest
  <2>5. Gathered(pa')
    <3>1. CASE NoneLeft(q)
      <4> DEFINE z == [q EXCEPT !.last = TRUE]
      <4>1. z.last /\ \A f \in Holding \ {"last"} : z[f] = q[f]
        BY <1>17 DEF Holding, PaState
      <4>2. pa' = z
        BY <1>4, <3>1
      <4> HIDE DEF z
      <4>3. /\ z.received = q.received /\ z.count = q.count /\ z.stored = q.stored
            /\ z.lastVertex = q.lastVertex /\ z.free = q.free /\ z.odd = q.odd /\ z.queue = q.queue
        BY <4>1 DEF Holding
      <4>4. Held(z) = Held(q) /\ NoneLeft(z)
        BY <3>1, <4>3 DEF Held, NoneLeft
      <4>5. Gathered(z)
        BY <2>2, <4>3, <4>4 DEF Gathered
      <4> QED BY <4>2, <4>5
    <3>2. CASE ~NoneLeft(q)
      BY <1>4, <2>2, <3>2
    <3> QED BY <3>1, <3>2
  <2> QED BY <2>2, <2>3, <2>4, <2>5
<1>21. Draws(p, a.sent)
  BY <1>4, <1>10, <1>12, <1>17, <1>18, <1>19, <1>20 DEF Draws, w
<1> QED BY <1>12, <1>21

\* Where an order takes a box that does not draw.
Ordered(box, order) ==
  IF order = "DRAW" THEN "DRAWING" ELSE IF order = "END" THEN "READY" ELSE box.state

\* A cycle of Primitive Assembly in which sent leaves it.
AssemblyStep(sent) ==
  /\ sent \in Group /\ EndsBatch(sent) /\ clipIn' = Carry(clipIn, sent) /\ pa' \in PaState
  /\ pa'.stored + pa'.asked <= AssemblyQueue
  /\ pa'.state = IF pa.state = "DRAWING" THEN IF Ended(sent) THEN "END" ELSE "DRAWING"
                 ELSE Ordered(pa, command.geometry)
  /\ pa.state # "DRAWING" => sent = <<>>
  /\ IF pa.state = "READY" /\ command.geometry = "DRAW"
     THEN pa'.requests = 0 /\ pa'.received = 0
     ELSE pa'.requests + Len(sent) = pa.requests + askAssembly
  /\ pa.state = "DRAWING" =>
       /\ pa'.received <= VertexCount
       /\ pa'.wait = IF sent = <<>> THEN CountDown(pa.wait) ELSE ClipStart
       /\ sent # <<>> => CountDown(pa.wait) = 0
       /\ Gathered(pa) => /\ Gathered(pa') /\ sent \in Seq(Genuine)
                          /\ Unsent(pa) = Shown(sent) \o Unsent(pa')
  /\ pa.state = "READY" /\ command.geometry = "DRAW" => pa' = PaStart

LEMMA AssemblyCycleIs ==
  ASSUME Typed, Room, AssemblyCycle
  PROVE  \E sent : AssemblyStep(sent)
<1> DEFINE r == pa.requests + askAssembly
           p == [pa EXCEPT !.requests = r]
<1>1. /\ pa \in PaState /\ pa.requests \in Nat /\ askAssembly \in 0 .. TrianglesCycle /\ batch \in Batches
      /\ TrianglesCycle \in Nat /\ pa.state \in States
  BY Sizes DEF Typed, PaState
<1>2. r \in Nat
  BY <1>1
<1>3. PICK z \in {p} :
      \/ pa.state = "READY" /\ command.geometry = "DRAW" /\ pa' = PaStart /\ clipIn' = Carry(clipIn, <<>>)
      \/ pa.state = "DRAWING" /\ DrawAssembly(z)
      \/ pa.state = "END" /\ command.geometry = "END" /\ pa' = Idle(z) /\ clipIn' = Carry(clipIn, <<>>)
      \/ pa.state # "DRAWING" /\ command.geometry = "none" /\ pa' = z /\ clipIn' = Carry(clipIn, <<>>)
  <2>1. p = [pa EXCEPT !.requests = @ + askAssembly]
    BY <1>1 DEF PaState
  <2> QED BY <2>1 DEF AssemblyCycle
<1> HIDE DEF r
<1>4. /\ p \in PaState /\ p.requests = r /\ p.state = pa.state /\ p.stored = pa.stored
      /\ p.asked = pa.asked /\ p.received = pa.received /\ p.wait = pa.wait
      /\ p.count = pa.count /\ \A f \in Holding : p[f] = pa[f]
  <2>1. p \in PaState
    BY <1>1, <1>2, PaFields
  <2> QED BY <1>1, <2>1 DEF PaState, Holding
<1> HIDE DEF p
<1>5. z = p
  OBVIOUS
<1>6. pa.stored + pa.asked <= AssemblyQueue /\ (pa.state = "DRAWING" => pa.received <= VertexCount)
  BY DEF Room
<1>7. /\ <<>> \in Group /\ EndsBatch(<<>>) /\ ~Ended(<<>>) /\ Len(<<>>) = 0
  BY <1>1 DEF Group, EndsBatch, Ended
<1>8. CASE pa.state = "READY" /\ command.geometry = "DRAW" /\ pa' = PaStart /\ clipIn' = Carry(clipIn, <<>>)
  <2>1. /\ PaStart \in PaState /\ PaStart.state = "DRAWING" /\ PaStart.requests = 0
        /\ PaStart.stored = 0 /\ PaStart.asked = 0 /\ PaStart.received = 0
    <3>1. /\ AssemblyQueue \in Nat /\ AssemblyQueue >= 4 /\ ClipStart \in Nat
      BY Sizes
    <3> DEFINE l == IF batch.primitive \in {"QUAD", "QUAD_STRIP"} THEN 3 ELSE 2
               z0 == [n \in 0 .. AssemblyQueue - 1 |-> 0]
    <3>2. l \in 0 .. AssemblyQueue - 1 /\ z0 \in [0 .. AssemblyQueue - 1 -> Nat]
      BY <3>1
    <3>3. PaStart = [state |-> "DRAWING", received |-> 0, asked |-> 0, stored |-> 0, free |-> 0,
                     queue |-> z0, requests |-> 0, lastVertex |-> l,
                     count |-> 0, wait |-> 0, odd |-> TRUE, last |-> FALSE]
      BY DEF PaStart
    <3> HIDE DEF l, z0
    <3> QED BY <3>1, <3>2, <3>3 DEF PaState, States
  <2>2. AssemblyStep(<<>>)
    BY <1>7, <1>8, <2>1, Sizes DEF AssemblyStep, Ordered
  <2> QED BY <2>2
<1>9. CASE pa.state = "DRAWING" /\ DrawAssembly(p)
  <2>1. PICK sent \in Group : Draws(p, sent)
    BY <1>1, <1>4, <1>6, <1>9, DrawAssemblyIs
  <2>2. /\ clipIn' = Carry(clipIn, sent) /\ EndsBatch(sent) /\ pa' \in PaState
        /\ pa'.state = IF Ended(sent) THEN "END" ELSE "DRAWING"
        /\ pa'.requests + Len(sent) = pa.requests + askAssembly
        /\ pa'.stored + pa'.asked <= AssemblyQueue /\ pa'.received <= VertexCount
        /\ pa'.wait = IF sent = <<>> THEN CountDown(pa.wait) ELSE ClipStart
        /\ sent # <<>> => CountDown(pa.wait) = 0
    BY <1>4, <2>1 DEF Draws, r
  <2>3. Gathered(pa) => /\ Gathered(pa') /\ sent \in Seq(Genuine)
                        /\ Unsent(pa) = Shown(sent) \o Unsent(pa')
    <3>1. Gathered(pa) => Gathered(p)
      BY <1>4, GatheredSame
    <3>2. Unsent(p) = Unsent(pa)
      BY <1>4 DEF Unsent, Rest
    <3> QED BY <2>1, <3>1, <3>2 DEF Draws
  <2>4. AssemblyStep(sent)
    BY <1>9, <2>2, <2>3 DEF AssemblyStep, Ordered
  <2> QED BY <2>4
<1>10. CASE pa.state = "END" /\ command.geometry = "END" /\ pa' = Idle(p) /\ clipIn' = Carry(clipIn, <<>>)
  <2>1. Idle(p) \in PaState
    BY <1>4, PaFields DEF Idle, States
  <2>2. /\ Idle(p).state = "READY" /\ Idle(p).requests = r /\ Idle(p).stored = pa.stored
        /\ Idle(p).asked = pa.asked
    BY <1>4 DEF Idle, PaState
  <2>3. AssemblyStep(<<>>)
    BY <1>2, <1>6, <1>7, <1>10, <2>1, <2>2 DEF AssemblyStep, Ordered, r
  <2> QED BY <2>3
<1>11. CASE pa.state # "DRAWING" /\ command.geometry = "none" /\ pa' = p /\ clipIn' = Carry(clipIn, <<>>)
  <2>1. AssemblyStep(<<>>)
    BY <1>2, <1>4, <1>6, <1>7, <1>11 DEF AssemblyStep, Ordered, r
  <2> QED BY <2>1
<1> QED BY <1>3, <1>5, <1>8, <1>9, <1>10, <1>11

-----------------------------------------------------------------------------
(* The Clipper.                                                            *)

LEMMA SmallerIs ==
  ASSUME NEW x \in Nat, NEW y \in Nat
  PROVE  Smaller(x, y) \in Nat /\ Smaller(x, y) <= x /\ Smaller(x, y) <= y
BY DEF Smaller

LEMMA ClpFields ==
  ASSUME NEW c \in ClpState
  PROVE  /\ \A n \in Nat : [c EXCEPT !.requested = n] \in ClpState /\ [c EXCEPT !.reserved = n] \in ClpState
         /\ \A n \in 0 .. BusLatency + 4 : [c EXCEPT !.window = n] \in ClpState
         /\ \A n \in 0 .. ClipStart : [c EXCEPT !.wait = n] \in ClpState
         /\ \A n \in 0 .. SetupStart : [c EXCEPT !.busWait = n] \in ClpState
         /\ \A s \in Seq(Triangles) : [c EXCEPT !.buffer = s] \in ClpState
         /\ \A s \in States : [c EXCEPT !.state = s] \in ClpState
<1>1. \A n \in Nat : [c EXCEPT !.requested = n] \in ClpState /\ [c EXCEPT !.reserved = n] \in ClpState
  BY DEF ClpState
<1>2. \A n \in 0 .. BusLatency + 4 : [c EXCEPT !.window = n] \in ClpState
  BY DEF ClpState
<1>3. \A n \in 0 .. ClipStart : [c EXCEPT !.wait = n] \in ClpState
  BY DEF ClpState
<1>4. \A n \in 0 .. SetupStart : [c EXCEPT !.busWait = n] \in ClpState
  BY DEF ClpState
<1>5. \A s \in Seq(Triangles) : [c EXCEPT !.buffer = s] \in ClpState
  BY DEF ClpState
<1>6. \A s \in States : [c EXCEPT !.state = s] \in ClpState
  BY DEF ClpState
<1> QED BY <1>1, <1>2, <1>3, <1>4, <1>5, <1>6

\* The triangles asked for that the Clipper does not forget.
Listened == IF clp.window > 0 THEN 0 ELSE clp.requested + askClipper

LEMMA ListenIs ==
  ASSUME Typed
  PROVE  /\ Listen(clp) \in ClpState /\ Listened \in Nat
         /\ Listen(clp).requested = Listened /\ Listen(clp).window = CountDown(clp.window)
         /\ \A f \in {"state", "reserved", "wait", "busWait", "buffer"} : Listen(clp)[f] = clp[f]
<1>1. /\ clp \in ClpState /\ askClipper \in Nat /\ clp.requested \in Nat
      /\ clp.window \in 0 .. BusLatency + 4 /\ BusLatency \in Nat
  BY Sizes DEF Typed, ClpState
<1> DEFINE w == CountDown(clp.window)
           r == Listened
           b == [clp EXCEPT !.requested = r]
<1>2. r \in Nat /\ w \in 0 .. BusLatency + 4
  BY <1>1 DEF Listened, CountDown
<1>3. Listen(clp) = [b EXCEPT !.window = w]
  BY <1>1 DEF Listen, Listened, ClpState
<1> HIDE DEF w, r
<1>4. b \in ClpState
  BY <1>1, <1>2, ClpFields
<1>5. Listen(clp) \in ClpState
  <2> HIDE DEF b
  <2> QED BY <1>2, <1>3, <1>4, ClpFields
<1>6. Listen(clp).requested = r /\ Listen(clp).window = w
  BY <1>1, <1>3 DEF ClpState
<1>7. \A f \in {"state", "reserved", "wait", "busWait", "buffer"} : Listen(clp)[f] = clp[f]
  BY <1>1, <1>3 DEF ClpState
<1> QED BY <1>2, <1>5, <1>6, <1>7 DEF r, w

\* The first of a queue leave it.
Splits(queue, sent, left) ==
  \E n \in 0 .. Len(queue) : sent = Take(queue, n) /\ left = Drop(queue, n)

\* What a unit leaves of a group.
Leaves(group, new) ==
  /\ new \in Group /\ Len(new) <= Len(group)
  /\ EndsBatch(group) => EndsBatch(new) /\ (Ended(new) => Ended(group))

\* A cycle of the Clipper: group enters it, new enters its buffer, sent leaves.
ClipperStep(group, new, sent) ==
  /\ group \in Group /\ sent \in Group /\ clp' \in ClpState
  /\ clipExec' = Carry(clipExec, group) /\ bus' = Carry(bus, sent)
  /\ askAssembly' \in 0 .. TrianglesCycle
  /\ IF clp.state = "DRAWING"
     THEN /\ group = IF clp.wait = 0 THEN clipIn[1] ELSE <<>>
          /\ Leaves(clipExec[1], new) /\ new = Pending!Only(clipExec[1], InView)
          /\ Splits(clp.buffer \o new, sent, clp'.buffer)
          /\ clp.reserved + Len(clp.buffer) + askAssembly' <= ClipBuffer
          /\ clp'.reserved = clp.reserved + askAssembly' - Len(clipExec[1])
          /\ clp'.wait = IF group # <<>> THEN ClipStart - 1 ELSE CountDown(clp.wait)
          /\ clp'.busWait = IF sent # <<>> THEN SetupStart ELSE CountDown(clp.busWait)
          /\ sent # <<>> => CountDown(clp.busWait) = 0
          /\ clp'.requested + Len(sent) = Listened
          /\ clp'.state = IF Ended(sent) THEN "END" ELSE "DRAWING"
          /\ clp'.window = IF Ended(sent) THEN BusLatency + 4 ELSE CountDown(clp.window)
     ELSE /\ group = <<>> /\ sent = <<>> /\ askAssembly' = 0
          /\ clp'.state = Ordered(clp, command.geometry)
          /\ clp'.window = CountDown(clp.window)
          /\ IF clp.state = "READY" /\ command.geometry = "DRAW"
             THEN clp'.reserved = 0 /\ clp'.requested = 0 /\ clp'.wait = 0 /\ clp'.buffer = <<>>
             ELSE clp'.reserved = clp.reserved /\ clp'.buffer = clp.buffer

LEMMA SendClippedIs ==
  ASSUME NEW d \in ClpState
  PROVE  LET n == ClippedSent(d)
             sent == Take(d.buffer, n)
         IN  /\ n \in 0 .. Len(d.buffer) /\ n <= d.requested /\ n <= TrianglesCycle
             /\ n > 0 => d.busWait = 0
             /\ sent \in Group /\ Len(sent) = n /\ Splits(d.buffer, sent, SendClipped(d).buffer)
             /\ SendClipped(d) \in ClpState
             /\ SendClipped(d).requested = d.requested - n
             /\ SendClipped(d).busWait = IF n > 0 THEN SetupStart ELSE d.busWait
             /\ SendClipped(d).state = IF Ended(sent) THEN "END" ELSE d.state
             /\ SendClipped(d).window = IF Ended(sent) THEN BusLatency + 4 ELSE d.window
             /\ SendClipped(d).reserved = d.reserved /\ SendClipped(d).wait = d.wait
<1> DEFINE n == ClippedSent(d)
           sent == Take(d.buffer, n)
           left == Drop(d.buffer, n)
           r == d.requested - n
           w == IF n > 0 THEN SetupStart ELSE d.busWait
           e == IF n > 0 /\ d.buffer[n].last THEN "END" ELSE d.state
           v == IF n > 0 /\ d.buffer[n].last THEN BusLatency + 4 ELSE d.window
<1>1. /\ d.buffer \in Seq(Triangles) /\ Len(d.buffer) \in Nat /\ d.requested \in Nat
      /\ d.busWait \in 0 .. SetupStart /\ d.window \in 0 .. BusLatency + 4 /\ d.state \in States
  BY DEF ClpState
<1>2. TrianglesCycle \in Nat /\ SetupStart \in Nat /\ BusLatency \in Nat
  BY Sizes
<1>3. n \in 0 .. Len(d.buffer) /\ n <= d.requested /\ n <= TrianglesCycle /\ (n > 0 => d.busWait = 0)
  <2>1. CASE n = 0
    BY <1>1, <1>2, <2>1
  <2>2. CASE n # 0
    <3> DEFINE x == Smaller(Len(d.buffer), d.requested)
    <3>1. n = Smaller(TrianglesCycle, x) /\ d.busWait = 0
      BY <2>2 DEF ClippedSent
    <3>2. x \in Nat /\ x <= Len(d.buffer) /\ x <= d.requested
      BY <1>1, SmallerIs
    <3> HIDE DEF x, n
    <3>3. n \in Nat /\ n <= x /\ n <= TrianglesCycle
      BY <1>2, <3>1, <3>2, SmallerIs
    <3> QED BY <1>1, <3>1, <3>2, <3>3
  <2> QED BY <2>1, <2>2
<1>4. SendClipped(d) = [d EXCEPT !.buffer = left, !.requested = r, !.busWait = w, !.window = v, !.state = e]
  BY DEF SendClipped, ClpState
<1> HIDE DEF n
<1>5. sent \in Seq(Triangles) /\ Len(sent) = n /\ (n > 0 => sent # <<>> /\ Newest(sent) = d.buffer[n])
  BY <1>1, <1>3, TakeIs
<1>6. left \in Seq(Triangles)
  BY <1>1, <1>3, DropIs
<1>7. r \in Nat /\ w \in 0 .. SetupStart /\ e \in States /\ v \in 0 .. BusLatency + 4
  BY <1>1, <1>2, <1>3 DEF States
<1>8. Ended(sent) <=> n > 0 /\ d.buffer[n].last
  <2>1. n = 0 => sent = <<>>
    BY <1>5
  <2> QED BY <1>3, <1>5, <2>1 DEF Ended
<1>9. /\ e = IF Ended(sent) THEN "END" ELSE d.state
      /\ v = IF Ended(sent) THEN BusLatency + 4 ELSE d.window
  BY <1>8
<1>10. sent \in Group
  BY <1>3, <1>5 DEF Group
<1>11. Splits(d.buffer, sent, left)
  BY <1>3 DEF Splits
<1> HIDE DEF left, r, v, e, sent
<1>12. SendClipped(d) \in ClpState
  <2>1. [d EXCEPT !.buffer = left] \in ClpState
    BY <1>6, ClpFields
  <2>2. [[d EXCEPT !.buffer = left] EXCEPT !.requested = r] \in ClpState
    BY <1>7, <2>1, ClpFields
  <2> HIDE DEF w
  <2>3. [[[d EXCEPT !.buffer = left] EXCEPT !.requested = r] EXCEPT !.busWait = w] \in ClpState
    BY <1>7, <2>2, ClpFields
  <2>4. [[[[d EXCEPT !.buffer = left] EXCEPT !.requested = r] EXCEPT !.busWait = w]
           EXCEPT !.window = v] \in ClpState
    BY <1>7, <2>3, ClpFields
  <2> QED BY <1>4, <1>7, <2>4, ClpFields
<1>13. /\ SendClipped(d).buffer = left /\ SendClipped(d).requested = r /\ SendClipped(d).busWait = w
       /\ SendClipped(d).state = e /\ SendClipped(d).window = v
       /\ SendClipped(d).reserved = d.reserved /\ SendClipped(d).wait = d.wait
  <2> HIDE DEF w
  <2> QED BY <1>4 DEF ClpState
<1>14. Splits(d.buffer, sent, SendClipped(d).buffer)
  BY <1>11, <1>13
<1>15. Len(sent) = n
  BY <1>5
<1> QED BY <1>3, <1>9, <1>10, <1>12, <1>13, <1>14, <1>15 DEF sent, n, r

\* What the view frustum, or the culling, leaves of a group.
LEMMA LeavesOnly ==
  ASSUME NEW group \in Group, NEW kept
  PROVE  Leaves(group, Pending!Only(group, kept))
<1>1. group \in Seq(Triangles) /\ Len(group) \in Nat /\ Len(group) <= TrianglesCycle /\ TrianglesCycle \in Nat
  BY Sizes DEF Group
<1> DEFINE o == Pending!Only(group, kept)
<1>2. /\ o \in Seq(Triangles) /\ Len(o) <= Len(group)
      /\ EndsBatch(group) => EndsBatch(o) /\ (Ended(o) => Ended(group))
  BY <1>1, OnlyKeeps
<1> HIDE DEF o
<1>3. Len(o) <= TrianglesCycle
  <2>1. Len(o) \in Nat
    BY <1>2
  <2> QED BY <1>1, <1>2, <2>1
<1>4. Leaves(group, o)
  BY <1>2, <1>3 DEF Leaves, Group
<1> QED BY <1>4 DEF o

LEMMA DrawClipperIs ==
  ASSUME Typed, clp.state = "DRAWING", clp.reserved + Len(clp.buffer) <= ClipBuffer,
         Len(clipExec[1]) <= clp.reserved, DrawClipper(Listen(clp))
  PROVE  \E group, new, sent : ClipperStep(group, new, sent)
<1> DEFINE c == Listen(clp)
<1>1. /\ c \in ClpState /\ Listened \in Nat /\ c.requested = Listened /\ c.window = CountDown(clp.window)
      /\ c.state = clp.state /\ c.reserved = clp.reserved /\ c.wait = clp.wait /\ c.busWait = clp.busWait
      /\ c.buffer = clp.buffer
  BY ListenIs
<1> HIDE DEF c
<1>2. /\ clp.reserved \in Nat /\ clp.wait \in 0 .. ClipStart /\ clp.busWait \in 0 .. SetupStart
      /\ clp.buffer \in Seq(Triangles) /\ Len(clp.buffer) \in Nat
  BY DEF Typed, ClpState
<1>3. /\ ClipStart \in Nat /\ ClipStart > 0 /\ SetupStart \in Nat /\ ClipBuffer \in Nat /\ TrianglesCycle \in Nat
      /\ ClipLatency \in Nat /\ ClipLatency > 0
  BY Sizes
<1>4. /\ Head(clipExec) = clipExec[1] /\ Len(clipExec[1]) \in Nat /\ clipExec[1] \in Group
      /\ Head(clipIn) = clipIn[1] /\ clipIn[1] \in Group
  <2>1. clipExec \in Pipe(ClipLatency) /\ clipIn \in Pipe(1) /\ 1 \in Nat /\ 1 > 0
    BY DEF Typed
  <2>2. Head(clipExec) = clipExec[1] /\ 1 \in DOMAIN clipExec /\ clipExec[1] \in Seq(Triangles) /\ Len(clipExec[1]) \in 0 .. TrianglesCycle
    BY <1>3, <2>1, PipeIs
  <2>3. Head(clipIn) = clipIn[1] /\ clipIn[1] \in Seq(Triangles) /\ Len(clipIn[1]) \in 0 .. TrianglesCycle
    BY <2>1, PipeIs
  <2> QED BY <1>3, <2>2, <2>3 DEF Group
<1> DEFINE room == RoomForClipped(c)
           group == IF StartsClipping THEN Head(clipIn) ELSE <<>>
           w == IF group # <<>> THEN ClipStart - 1 ELSE CountDown(clp.wait)
           u == CountDown(clp.busWait)
           r == clp.reserved + room
           x == [c EXCEPT !.reserved = r]
           y == [x EXCEPT !.wait = w]
           z == [y EXCEPT !.busWait = u]
           arrived == Head(clipExec)
           new == Pending!Only(arrived, InView)
           b == clp.buffer \o new
           k == r - Len(arrived)
           e == [z EXCEPT !.buffer = b]
           d == [e EXCEPT !.reserved = k]
           n == ClippedSent(d)
           sent == Take(d.buffer, n)
<1>5. room \in 0 .. TrianglesCycle /\ room <= ClipBuffer - clp.reserved - Len(clp.buffer)
  <2>1. room = Smaller(ClipBuffer - clp.reserved - Len(clp.buffer), TrianglesCycle)
    BY <1>1 DEF RoomForClipped
  <2>2. ClipBuffer - clp.reserved - Len(clp.buffer) \in Nat
    BY <1>2, <1>3
  <2> HIDE DEF room
  <2> QED BY <1>3, <2>1, <2>2, SmallerIs, SMTT(30)
<1>6. group \in Group /\ group = IF clp.wait = 0 THEN clipIn[1] ELSE <<>>
  <2>1. <<>> \in Group
    BY <1>3 DEF Group
  <2> QED BY <1>4, <2>1 DEF StartsClipping
<1>7. w \in 0 .. ClipStart /\ u \in 0 .. SetupStart
  BY <1>2, <1>3, SMTT(30) DEF CountDown
<1>8. Leaves(arrived, new) /\ arrived = clipExec[1] /\ new = Pending!Only(clipExec[1], InView)
  BY <1>4, LeavesOnly
<1>9. PICK f \in {EndClipping(z, arrived)} :
        /\ askAssembly' = room
        /\ clipExec' = Carry(clipExec, group)
        /\ bus' = Carry(bus, Take(f.buffer, ClippedSent(f)))
        /\ clp' = SendClipped(f)
  <2>1. z = [c EXCEPT !.reserved = @ + room,
                      !.wait = IF group # <<>> THEN ClipStart - 1 ELSE CountDown(@),
                      !.busWait = CountDown(@)]
    BY <1>1 DEF ClpState
  <2> HIDE DEF z, group, room, arrived
  <2>2. group = IF StartsClipping THEN Head(clipIn) ELSE <<>>
    BY DEF group
  <2>3. room = RoomForClipped(c) /\ arrived = Head(clipExec)
    BY DEF room, arrived
  <2>4. DrawClipper(c)
    BY DEF c
  <2>5. \E f \in {EndClipping([c EXCEPT !.reserved = @ + room,
                      !.wait = IF group # <<>> THEN ClipStart - 1 ELSE CountDown(@),
                      !.busWait = CountDown(@)], arrived)} :
        /\ askAssembly' = room
        /\ clipExec' = Carry(clipExec, group)
        /\ bus' = Carry(bus, Take(f.buffer, ClippedSent(f)))
        /\ clp' = SendClipped(f)
    BY <2>4 DEF DrawClipper, room, group, arrived
  <2> QED BY <2>1, <2>5
<1>10. r \in Nat /\ k \in Nat
  <2> HIDE DEF room
  <2> QED BY <1>2, <1>4, <1>5
<1> HIDE DEF room, w, u, r, k, group, arrived, new, b
<1>11. /\ x \in ClpState /\ x.reserved = r /\ x.requested = Listened /\ x.window = CountDown(clp.window)
       /\ x.state = clp.state /\ x.buffer = clp.buffer
  <2>1. x \in ClpState
    BY <1>1, <1>10, ClpFields
  <2> QED BY <1>1, <2>1 DEF ClpState
<1> HIDE DEF x
<1>12. /\ y \in ClpState /\ y.reserved = r /\ y.requested = Listened /\ y.window = CountDown(clp.window)
       /\ y.state = clp.state /\ y.buffer = clp.buffer /\ y.wait = w
  <2>1. y \in ClpState
    BY <1>7, <1>11, ClpFields
  <2> QED BY <1>11, <2>1 DEF ClpState
<1> HIDE DEF y
<1>13. /\ z \in ClpState /\ z.reserved = r /\ z.requested = Listened /\ z.window = CountDown(clp.window)
       /\ z.state = clp.state /\ z.buffer = clp.buffer /\ z.wait = w /\ z.busWait = u
  <2>1. z \in ClpState
    BY <1>7, <1>12, ClpFields
  <2> QED BY <1>12, <2>1 DEF ClpState
<1> HIDE DEF z
<1>14. b \in Seq(Triangles)
  <2>1. new \in Seq(Triangles)
    BY <1>8 DEF Leaves, Group
  <2> QED BY <1>2, <2>1 DEF b
<1>15. /\ e \in ClpState /\ e.reserved = r /\ e.requested = Listened /\ e.window = CountDown(clp.window)
       /\ e.state = clp.state /\ e.buffer = b /\ e.wait = w /\ e.busWait = u
  <2>1. e \in ClpState
    BY <1>13, <1>14, ClpFields
  <2> QED BY <1>13, <2>1 DEF ClpState
<1>16. EndClipping(z, arrived) = d
  <2>1. z.buffer \o Pending!Only(arrived, InView) = b
    BY <1>13 DEF b, new
  <2>2. z.reserved - Len(arrived) = k
    BY <1>13 DEF k
  <2> QED BY <1>13, <2>1, <2>2 DEF EndClipping, ClpState
<1> HIDE DEF e
<1>17. /\ d \in ClpState /\ d.reserved = k /\ d.requested = Listened /\ d.window = CountDown(clp.window)
       /\ d.state = clp.state /\ d.buffer = b /\ d.wait = w /\ d.busWait = u
  <2>1. d \in ClpState
    BY <1>10, <1>15, ClpFields
  <2> QED BY <1>15, <2>1 DEF ClpState
<1> HIDE DEF d
<1>18. /\ askAssembly' = room /\ clipExec' = Carry(clipExec, group)
       /\ bus' = Carry(bus, sent) /\ clp' = SendClipped(d)
  BY <1>9, <1>16
<1>19. /\ n \in 0 .. Len(d.buffer) /\ n <= d.requested /\ n <= TrianglesCycle
       /\ n > 0 => d.busWait = 0
       /\ sent \in Group /\ Len(sent) = n /\ Splits(d.buffer, sent, SendClipped(d).buffer)
       /\ SendClipped(d) \in ClpState
       /\ SendClipped(d).requested = d.requested - n
       /\ SendClipped(d).busWait = IF n > 0 THEN SetupStart ELSE d.busWait
       /\ SendClipped(d).state = IF Ended(sent) THEN "END" ELSE d.state
       /\ SendClipped(d).window = IF Ended(sent) THEN BusLatency + 4 ELSE d.window
       /\ SendClipped(d).reserved = d.reserved /\ SendClipped(d).wait = d.wait
  BY <1>17, SendClippedIs
<1> HIDE DEF sent, n
<1>20. n > 0 <=> sent # <<>>
  <2>1. sent \in Seq(Triangles)
    BY <1>19 DEF Group
  <2> QED BY <1>19, <2>1
<1>21. /\ Splits(clp.buffer \o new, sent, clp'.buffer)
       /\ clp.reserved + Len(clp.buffer) + askAssembly' <= ClipBuffer
       /\ clp'.reserved = clp.reserved + askAssembly' - Len(clipExec[1])
  <2>1. Splits(clp.buffer \o new, sent, clp'.buffer)
    BY <1>17, <1>18, <1>19 DEF b
  <2>2. clp.reserved + Len(clp.buffer) + askAssembly' <= ClipBuffer
    BY <1>2, <1>3, <1>5, <1>18
  <2>3. clp'.reserved = k
    BY <1>17, <1>18, <1>19
  <2>4. k = clp.reserved + room - Len(clipExec[1])
    <3>1. arrived = clipExec[1]
      BY <1>8
    <3>2. Len(arrived) = Len(clipExec[1])
      BY <3>1
    <3>3. k = (clp.reserved + room) - Len(arrived)
      BY DEF k, r
    <3>4. clp.reserved \in Nat /\ room \in Nat /\ Len(clipExec[1]) \in Nat
      BY <1>2, <1>4, <1>5
    <3> QED BY <3>2, <3>3, <3>4
  <2>5. clp'.reserved = clp.reserved + askAssembly' - Len(clipExec[1])
    BY <1>18, <2>3, <2>4
  <2> QED BY <2>1, <2>2, <2>5
<1>22. /\ clp'.wait = IF group # <<>> THEN ClipStart - 1 ELSE CountDown(clp.wait)
       /\ clp'.busWait = IF sent # <<>> THEN SetupStart ELSE CountDown(clp.busWait)
       /\ sent # <<>> => CountDown(clp.busWait) = 0
  <2>1. clp'.wait = w
    BY <1>17, <1>18, <1>19
  <2>2. clp'.busWait = (IF sent # <<>> THEN SetupStart ELSE u) /\ (sent # <<>> => u = 0)
    BY <1>17, <1>18, <1>19, <1>20
  <2> QED BY <2>1, <2>2 DEF w, u
<1>23. /\ clp'.requested + Len(sent) = Listened
       /\ clp'.state = IF Ended(sent) THEN "END" ELSE "DRAWING"
       /\ clp'.window = IF Ended(sent) THEN BusLatency + 4 ELSE CountDown(clp.window)
  BY <1>1, <1>17, <1>18, <1>19
<1>24. ClipperStep(group, new, sent)
  BY <1>5, <1>6, <1>8, <1>18, <1>19, <1>21, <1>22, <1>23 DEF ClipperStep
<1> QED BY <1>24

LEMMA ClipperCycleIs ==
  ASSUME Typed, clp.reserved + Len(clp.buffer) <= ClipBuffer,
         clp.state = "DRAWING" => Len(clipExec[1]) <= clp.reserved, ClipperCycle
  PROVE  \E group, new, sent : ClipperStep(group, new, sent)
<1> DEFINE c == Listen(clp)
<1>1. PICK d \in {c} :
        \/ /\ clp.state = "READY" /\ command.geometry = "DRAW" /\ clp' = ClpStart(d.window)
           /\ askAssembly' = 0 /\ clipExec' = Carry(clipExec, <<>>) /\ bus' = Carry(bus, <<>>)
        \/ clp.state = "DRAWING" /\ DrawClipper(d)
        \/ /\ clp.state = "END" /\ command.geometry = "END" /\ clp' = Idle(d)
           /\ askAssembly' = 0 /\ clipExec' = Carry(clipExec, <<>>) /\ bus' = Carry(bus, <<>>)
        \/ /\ clp.state # "DRAWING" /\ command.geometry = "none" /\ clp' = d
           /\ askAssembly' = 0 /\ clipExec' = Carry(clipExec, <<>>) /\ bus' = Carry(bus, <<>>)
  BY DEF ClipperCycle
<1>2. d = c
  OBVIOUS
<1>3. /\ c \in ClpState /\ c.window = CountDown(clp.window) /\ c.state = clp.state
      /\ c.reserved = clp.reserved /\ c.buffer = clp.buffer /\ c.wait = clp.wait
  BY ListenIs
<1>4. CASE clp.state = "DRAWING" /\ DrawClipper(d)
  BY <1>2, <1>4, DrawClipperIs
<1> HIDE DEF c
<1>5. <<>> \in Group /\ 0 \in 0 .. TrianglesCycle
  BY Sizes DEF Group
<1>6. CASE /\ clp.state = "READY" /\ command.geometry = "DRAW" /\ clp' = ClpStart(d.window)
           /\ askAssembly' = 0 /\ clipExec' = Carry(clipExec, <<>>) /\ bus' = Carry(bus, <<>>)
  <2>1. clp' = ClpStart(c.window) /\ c.window \in 0 .. BusLatency + 4
    BY <1>2, <1>3, <1>6 DEF ClpState
  <2>2. clp' \in ClpState
    <3>1. ClipStart \in Nat /\ SetupStart \in Nat
      BY Sizes
    <3> QED BY <2>1, <3>1 DEF ClpStart, ClpState, States
  <2>3. /\ clp'.state = "DRAWING" /\ clp'.window = c.window /\ clp'.reserved = 0 /\ clp'.requested = 0
        /\ clp'.wait = 0 /\ clp'.buffer = <<>>
    BY <2>1 DEF ClpStart
  <2>4. ClipperStep(<<>>, <<>>, <<>>)
    BY <1>3, <1>5, <1>6, <2>2, <2>3 DEF ClipperStep, Ordered
  <2> QED BY <2>4
<1>7. CASE /\ clp.state = "END" /\ command.geometry = "END" /\ clp' = Idle(d)
           /\ askAssembly' = 0 /\ clipExec' = Carry(clipExec, <<>>) /\ bus' = Carry(bus, <<>>)
  <2>1. clp' \in ClpState
    BY <1>2, <1>3, <1>7, ClpFields DEF Idle, States
  <2>2. /\ clp'.state = "READY" /\ clp'.window = c.window /\ clp'.reserved = c.reserved
        /\ clp'.buffer = c.buffer
    BY <1>2, <1>3, <1>7 DEF Idle, ClpState
  <2>3. ClipperStep(<<>>, <<>>, <<>>)
    BY <1>3, <1>5, <1>7, <2>1, <2>2 DEF ClipperStep, Ordered
  <2> QED BY <2>3
<1>8. CASE /\ clp.state # "DRAWING" /\ command.geometry = "none" /\ clp' = d
           /\ askAssembly' = 0 /\ clipExec' = Carry(clipExec, <<>>) /\ bus' = Carry(bus, <<>>)
  <2>1. ClipperStep(<<>>, <<>>, <<>>)
    BY <1>2, <1>3, <1>5, <1>8 DEF ClipperStep, Ordered
  <2> QED BY <2>1
<1> QED BY <1>1, <1>4, <1>6, <1>7, <1>8

-----------------------------------------------------------------------------
(* Triangle Setup.                                                         *)

LEMMA TsFields ==
  ASSUME NEW s \in TsState
  PROVE  /\ \A n \in Nat : [s EXCEPT !.requested = n] \in TsState /\ [s EXCEPT !.reserves = n] \in TsState
         /\ \A n \in 0 .. SetupStart : [s EXCEPT !.wait = n] \in TsState
         /\ \A b \in BOOLEAN : [s EXCEPT !.last = b] \in TsState
         /\ \A q \in Seq(Triangles) : [s EXCEPT !.fifo = q] \in TsState
         /\ \A e \in States : [s EXCEPT !.state = e] \in TsState
<1>1. \A n \in Nat : [s EXCEPT !.requested = n] \in TsState /\ [s EXCEPT !.reserves = n] \in TsState
  BY DEF TsState
<1>2. \A n \in 0 .. SetupStart : [s EXCEPT !.wait = n] \in TsState
  BY DEF TsState
<1>3. \A b \in BOOLEAN : [s EXCEPT !.last = b] \in TsState
  BY DEF TsState
<1>4. \A q \in Seq(Triangles) : [s EXCEPT !.fifo = q] \in TsState
  BY DEF TsState
<1>5. \A e \in States : [s EXCEPT !.state = e] \in TsState
  BY DEF TsState
<1> QED BY <1>1, <1>2, <1>3, <1>4, <1>5

\* A cycle of Triangle Setup: group enters it, new enters its FIFO, sent leaves.
SetupStep(group, new, sent) ==
  /\ group \in Group /\ sent \in Group /\ ts' \in TsState
  /\ setup' = Carry(setup, group) /\ setupOut' = Carry(setupOut, sent)
  /\ askClipper' \in 0 .. TrianglesCycle
  /\ IF ts.state = "DRAWING"
     THEN /\ group = IF ts.wait = 0 THEN bus[1] ELSE <<>>
          /\ Leaves(setup[1], new) /\ new = Pending!Only(setup[1], Facing)
          /\ Splits(ts.fifo \o new, sent, ts'.fifo)
          /\ ts.last => askClipper' = 0
          /\ ts.reserves + Len(ts.fifo) + askClipper' <= SetupFIFO
          /\ ts'.reserves = ts.reserves + askClipper' - Len(setup[1])
          /\ ts'.wait = IF group # <<>> THEN SetupStart - 1 ELSE CountDown(ts.wait)
          /\ ts'.last = IF group # <<>> THEN Newest(group).last ELSE ts.last
          /\ ts'.requested + Len(sent) = ts.requested + askSetup
          /\ ts'.state = IF Ended(sent) THEN "END" ELSE "DRAWING"
     ELSE /\ group = <<>> /\ sent = <<>> /\ askClipper' = 0
          /\ ts'.state = Ordered(ts, command.raster)
          /\ IF ts.state = "READY" /\ command.raster = "DRAW"
             THEN ts'.reserves = 0 /\ ts'.requested = 0 /\ ts'.wait = 0 /\ ts'.fifo = <<>> /\ ~ts'.last
             ELSE /\ ts'.reserves = ts.reserves /\ ts'.fifo = ts.fifo /\ ts'.last = ts.last
                  /\ ts'.requested = ts.requested + askSetup

LEMMA SendSetupIs ==
  ASSUME NEW d \in TsState
  PROVE  LET n == SetupSent(d)
             sent == Take(d.fifo, n)
         IN  /\ n \in 0 .. Len(d.fifo) /\ n <= d.requested /\ n <= TrianglesCycle
             /\ sent \in Group /\ Len(sent) = n /\ Splits(d.fifo, sent, SendSetup(d).fifo)
             /\ SendSetup(d) \in TsState
             /\ SendSetup(d).requested = d.requested - n
             /\ SendSetup(d).state = IF Ended(sent) THEN "END" ELSE d.state
             /\ SendSetup(d).reserves = d.reserves /\ SendSetup(d).wait = d.wait
             /\ SendSetup(d).last = d.last
<1> DEFINE n == SetupSent(d)
           sent == Take(d.fifo, n)
           left == Drop(d.fifo, n)
           r == d.requested - n
           e == IF n > 0 /\ d.fifo[n].last THEN "END" ELSE d.state
<1>1. d.fifo \in Seq(Triangles) /\ Len(d.fifo) \in Nat /\ d.requested \in Nat /\ d.state \in States
  BY DEF TsState
<1>2. TrianglesCycle \in Nat
  BY Sizes
<1>3. n \in 0 .. Len(d.fifo) /\ n <= d.requested /\ n <= TrianglesCycle
  <2> DEFINE x == Smaller(d.requested, Len(d.fifo))
  <2>1. n = Smaller(TrianglesCycle, x)
    BY DEF SetupSent
  <2>2. x \in Nat /\ x <= Len(d.fifo) /\ x <= d.requested
    BY <1>1, SmallerIs
  <2> HIDE DEF x, n
  <2>3. n \in Nat /\ n <= x /\ n <= TrianglesCycle
    BY <1>2, <2>1, <2>2, SmallerIs
  <2> QED BY <1>1, <2>2, <2>3
<1>4. SendSetup(d) = [d EXCEPT !.fifo = left, !.requested = r, !.state = e]
  BY DEF SendSetup, TsState
<1> HIDE DEF n
<1>5. sent \in Seq(Triangles) /\ Len(sent) = n /\ (n > 0 => sent # <<>> /\ Newest(sent) = d.fifo[n])
  BY <1>1, <1>3, TakeIs
<1>6. left \in Seq(Triangles)
  BY <1>1, <1>3, DropIs
<1>7. r \in Nat /\ e \in States
  BY <1>1, <1>2, <1>3 DEF States
<1>8. Ended(sent) <=> n > 0 /\ d.fifo[n].last
  <2>1. n = 0 => sent = <<>>
    BY <1>5
  <2> QED BY <1>3, <1>5, <2>1 DEF Ended
<1>9. e = IF Ended(sent) THEN "END" ELSE d.state
  BY <1>8
<1>10. sent \in Group
  BY <1>3, <1>5 DEF Group
<1>11. Splits(d.fifo, sent, left)
  BY <1>3 DEF Splits
<1> HIDE DEF left, r, e, sent
<1>12. SendSetup(d) \in TsState
  <2>1. [d EXCEPT !.fifo = left] \in TsState
    BY <1>6, TsFields
  <2>2. [[d EXCEPT !.fifo = left] EXCEPT !.requested = r] \in TsState
    BY <1>7, <2>1, TsFields
  <2> QED BY <1>4, <1>7, <2>2, TsFields
<1>13. /\ SendSetup(d).fifo = left /\ SendSetup(d).requested = r /\ SendSetup(d).state = e
       /\ SendSetup(d).reserves = d.reserves /\ SendSetup(d).wait = d.wait
       /\ SendSetup(d).last = d.last
  BY <1>4 DEF TsState
<1>14. Splits(d.fifo, sent, SendSetup(d).fifo)
  BY <1>11, <1>13
<1>15. Len(sent) = n
  BY <1>5
<1> QED BY <1>3, <1>9, <1>10, <1>12, <1>13, <1>14, <1>15 DEF sent, n, r

LEMMA DrawSetupIs ==
  ASSUME Typed, ts.state = "DRAWING", ts.reserves + Len(ts.fifo) <= SetupFIFO,
         Len(setup[1]) <= ts.reserves, NEW s \in TsState, s = [ts EXCEPT !.requested = @ + askSetup],
         DrawSetup(s)
  PROVE  \E group, new, sent : SetupStep(group, new, sent)
<1>1. /\ ts \in TsState /\ ts.reserves \in Nat /\ ts.wait \in 0 .. SetupStart /\ ts.requested \in Nat
      /\ ts.fifo \in Seq(Triangles) /\ Len(ts.fifo) \in Nat /\ ts.last \in BOOLEAN /\ askSetup \in Nat
  BY Sizes DEF Typed, TsState
<1>2. /\ SetupStart \in Nat /\ SetupStart > 0 /\ SetupFIFO \in Nat /\ TrianglesCycle \in Nat
      /\ SetupLatency \in Nat /\ SetupLatency > 0 /\ BusLatency \in Nat /\ BusLatency > 0
  BY Sizes
<1>3. /\ s.requested = ts.requested + askSetup /\ s.state = ts.state /\ s.reserves = ts.reserves
      /\ s.wait = ts.wait /\ s.last = ts.last /\ s.fifo = ts.fifo
  BY <1>1 DEF TsState
<1>4. /\ Head(setup) = setup[1] /\ Len(setup[1]) \in Nat /\ setup[1] \in Group
      /\ Head(bus) = bus[1] /\ bus[1] \in Group
  <2>1. setup \in Pipe(SetupLatency) /\ bus \in Pipe(BusLatency)
    BY DEF Typed
  <2>2. Head(setup) = setup[1] /\ setup[1] \in Seq(Triangles) /\ Len(setup[1]) \in 0 .. TrianglesCycle
    BY <1>2, <2>1, PipeIs
  <2>3. Head(bus) = bus[1] /\ bus[1] \in Seq(Triangles) /\ Len(bus[1]) \in 0 .. TrianglesCycle
    BY <1>2, <2>1, PipeIs
  <2> QED BY <1>2, <2>2, <2>3 DEF Group
<1> DEFINE room == RoomForSetup(s)
           group == IF StartsSetup THEN Head(bus) ELSE <<>>
           w == IF group # <<>> THEN SetupStart - 1 ELSE CountDown(ts.wait)
           l == IF group # <<>> THEN Newest(group).last ELSE ts.last
           r == ts.reserves + room
           x == [s EXCEPT !.reserves = r]
           y == [x EXCEPT !.wait = w]
           z == [y EXCEPT !.last = l]
           arrived == Head(setup)
           new == Pending!Only(arrived, Facing)
           b == ts.fifo \o new
           k == r - Len(arrived)
           e == [z EXCEPT !.fifo = b]
           d == [e EXCEPT !.reserves = k]
           n == SetupSent(d)
           sent == Take(d.fifo, n)
<1>5. /\ room \in 0 .. TrianglesCycle /\ room <= SetupFIFO - ts.reserves - Len(ts.fifo)
      /\ ts.last => room = 0
  <2>1. CASE ts.last
    BY <1>1, <1>2, <1>3, <2>1 DEF RoomForSetup
  <2>2. CASE ~ts.last
    <3>1. room = Smaller(SetupFIFO - Len(ts.fifo) - ts.reserves, TrianglesCycle)
      BY <1>3, <2>2 DEF RoomForSetup
    <3>2. SetupFIFO - Len(ts.fifo) - ts.reserves \in Nat
      BY <1>1, <1>2, SMTT(30)
    <3> HIDE DEF room
    <3>3. room \in Nat /\ room <= SetupFIFO - Len(ts.fifo) - ts.reserves /\ room <= TrianglesCycle
      BY <1>2, <3>1, <3>2, SmallerIs
    <3> QED BY <1>1, <1>2, <2>2, <3>3, SMTT(30)
  <2> QED BY <2>1, <2>2
<1>6. group \in Group /\ group = IF ts.wait = 0 THEN bus[1] ELSE <<>>
  <2>1. <<>> \in Group
    BY <1>2 DEF Group
  <2> QED BY <1>4, <2>1 DEF StartsSetup
<1>7. w \in 0 .. SetupStart /\ l \in BOOLEAN
  <2>1. w \in 0 .. SetupStart
    <3>1. ts.wait \in 0 .. SetupStart /\ SetupStart \in Nat /\ SetupStart > 0
      BY <1>1, <1>2
    <3>2. CountDown(ts.wait) \in 0 .. SetupStart /\ SetupStart - 1 \in 0 .. SetupStart
      BY <3>1 DEF CountDown
    <3> HIDE DEF group
    <3> QED BY <3>2
  <2>2. group # <<>> => Newest(group) \in Triangles
    <3> HIDE DEF group
    <3>1. group \in Seq(Triangles)
      BY <1>6 DEF Group
    <3>2. group # <<>> => Len(group) \in 1 .. Len(group)
      BY <3>1
    <3> QED BY <3>1, <3>2 DEF Newest
  <2>3. group # <<>> => Newest(group).last \in BOOLEAN
    BY <2>2, TriangleType
  <2> QED BY <1>1, <2>1, <2>3
<1>8. Leaves(arrived, new) /\ arrived = setup[1] /\ new = Pending!Only(setup[1], Facing)
  BY <1>4, LeavesOnly
<1>9. PICK f \in {EndSetup(z, arrived)} :
        /\ askClipper' = room
        /\ setup' = Carry(setup, group)
        /\ setupOut' = Carry(setupOut, Take(f.fifo, SetupSent(f)))
        /\ ts' = SendSetup(f)
  <2>1. z = [s EXCEPT !.reserves = @ + room,
                      !.wait = IF group # <<>> THEN SetupStart - 1 ELSE CountDown(@),
                      !.last = IF group # <<>> THEN Newest(group).last ELSE @]
    BY <1>3 DEF TsState
  <2> HIDE DEF z, group, room, arrived
  <2>2. \E f \in {EndSetup([s EXCEPT !.reserves = @ + room,
                      !.wait = IF group # <<>> THEN SetupStart - 1 ELSE CountDown(@),
                      !.last = IF group # <<>> THEN Newest(group).last ELSE @], arrived)} :
        /\ askClipper' = room
        /\ setup' = Carry(setup, group)
        /\ setupOut' = Carry(setupOut, Take(f.fifo, SetupSent(f)))
        /\ ts' = SendSetup(f)
    BY DEF DrawSetup, room, group, arrived
  <2> QED BY <2>1, <2>2
<1>10. r \in Nat /\ k \in Nat
  <2> HIDE DEF room
  <2> QED BY <1>1, <1>4, <1>5, SMTT(30)
<1> HIDE DEF room, w, l, r, k, group, arrived, new, b
<1>11. /\ x \in TsState /\ x.reserves = r /\ x.requested = ts.requested + askSetup
       /\ x.state = ts.state /\ x.fifo = ts.fifo
  <2>1. x \in TsState
    BY <1>10, TsFields
  <2> QED BY <1>3, <2>1 DEF TsState
<1> HIDE DEF x
<1>12. /\ y \in TsState /\ y.reserves = r /\ y.requested = ts.requested + askSetup
       /\ y.state = ts.state /\ y.fifo = ts.fifo /\ y.wait = w
  <2>1. y \in TsState
    BY <1>7, <1>11, TsFields
  <2> QED BY <1>11, <2>1 DEF TsState
<1> HIDE DEF y
<1>13. /\ z \in TsState /\ z.reserves = r /\ z.requested = ts.requested + askSetup
       /\ z.state = ts.state /\ z.fifo = ts.fifo /\ z.wait = w /\ z.last = l
  <2>1. z \in TsState
    BY <1>7, <1>12, TsFields
  <2> QED BY <1>12, <2>1 DEF TsState
<1> HIDE DEF z
<1>14. b \in Seq(Triangles)
  <2>1. new \in Seq(Triangles)
    BY <1>8 DEF Leaves, Group
  <2> QED BY <1>1, <2>1 DEF b
<1>15. /\ e \in TsState /\ e.reserves = r /\ e.requested = ts.requested + askSetup
       /\ e.state = ts.state /\ e.fifo = b /\ e.wait = w /\ e.last = l
  <2>1. e \in TsState
    BY <1>13, <1>14, TsFields
  <2> QED BY <1>13, <2>1 DEF TsState
<1>16. EndSetup(z, arrived) = d
  <2>1. z.fifo \o Pending!Only(arrived, Facing) = b
    BY <1>13 DEF b, new
  <2>2. z.reserves - Len(arrived) = k
    BY <1>13 DEF k
  <2> QED BY <1>13, <2>1, <2>2 DEF EndSetup, TsState
<1> HIDE DEF e
<1>17. /\ d \in TsState /\ d.reserves = k /\ d.requested = ts.requested + askSetup
       /\ d.state = ts.state /\ d.fifo = b /\ d.wait = w /\ d.last = l
  <2>1. d \in TsState
    BY <1>10, <1>15, TsFields
  <2> QED BY <1>15, <2>1 DEF TsState
<1> HIDE DEF d
<1>18. /\ askClipper' = room /\ setup' = Carry(setup, group)
       /\ setupOut' = Carry(setupOut, sent) /\ ts' = SendSetup(d)
  BY <1>9, <1>16
<1>19. /\ n \in 0 .. Len(d.fifo) /\ n <= d.requested /\ n <= TrianglesCycle
       /\ sent \in Group /\ Len(sent) = n /\ Splits(d.fifo, sent, SendSetup(d).fifo)
       /\ SendSetup(d) \in TsState
       /\ SendSetup(d).requested = d.requested - n
       /\ SendSetup(d).state = IF Ended(sent) THEN "END" ELSE d.state
       /\ SendSetup(d).reserves = d.reserves /\ SendSetup(d).wait = d.wait
       /\ SendSetup(d).last = d.last
  BY <1>17, SendSetupIs
<1> HIDE DEF sent, n
<1>20. /\ Splits(ts.fifo \o new, sent, ts'.fifo)
       /\ ts.reserves + Len(ts.fifo) + askClipper' <= SetupFIFO
       /\ ts'.reserves = ts.reserves + askClipper' - Len(setup[1])
  <2>1. Splits(ts.fifo \o new, sent, ts'.fifo)
    BY <1>17, <1>18, <1>19 DEF b
  <2>2. ts.reserves + Len(ts.fifo) + askClipper' <= SetupFIFO
    BY <1>1, <1>2, <1>5, <1>18, SMTT(30)
  <2>3. ts'.reserves = k
    BY <1>17, <1>18, <1>19
  <2>4. k = ts.reserves + room - Len(setup[1])
    <3>1. arrived = setup[1]
      BY <1>8
    <3>2. Len(arrived) = Len(setup[1])
      BY <3>1
    <3>3. k = (ts.reserves + room) - Len(arrived)
      BY DEF k, r
    <3>4. ts.reserves \in Nat /\ room \in Nat /\ Len(setup[1]) \in Nat
      BY <1>1, <1>4, <1>5
    <3> QED BY <3>2, <3>3, <3>4
  <2>5. ts'.reserves = ts.reserves + askClipper' - Len(setup[1])
    BY <1>18, <2>3, <2>4
  <2> QED BY <2>1, <2>2, <2>5
<1>21. /\ ts'.wait = IF group # <<>> THEN SetupStart - 1 ELSE CountDown(ts.wait)
       /\ ts'.last = IF group # <<>> THEN Newest(group).last ELSE ts.last
  BY <1>17, <1>18, <1>19 DEF w, l
<1>22. /\ ts'.requested + Len(sent) = ts.requested + askSetup
       /\ ts'.state = IF Ended(sent) THEN "END" ELSE "DRAWING"
  BY <1>1, <1>17, <1>18, <1>19
<1>23. SetupStep(group, new, sent)
  BY <1>5, <1>6, <1>8, <1>18, <1>19, <1>20, <1>21, <1>22 DEF SetupStep
<1> QED BY <1>23

LEMMA SetupCycleIs ==
  ASSUME Typed, ts.reserves + Len(ts.fifo) <= SetupFIFO,
         ts.state = "DRAWING" => Len(setup[1]) <= ts.reserves, SetupCycle
  PROVE  \E group, new, sent : SetupStep(group, new, sent)
<1> DEFINE r == ts.requested + askSetup
           s == [ts EXCEPT !.requested = r]
<1>1. /\ ts \in TsState /\ ts.requested \in Nat /\ askSetup \in Nat
  BY Sizes DEF Typed, TsState
<1>2. s = [ts EXCEPT !.requested = @ + askSetup] /\ r \in Nat
  BY <1>1 DEF TsState
<1>3. PICK z \in {s} :
        \/ /\ ts.state = "READY" /\ command.raster = "DRAW" /\ ts' = TsStart
           /\ askClipper' = 0 /\ setup' = Carry(setup, <<>>) /\ setupOut' = Carry(setupOut, <<>>)
        \/ ts.state = "DRAWING" /\ DrawSetup(z)
        \/ /\ ts.state = "END" /\ command.raster = "END" /\ ts' = Idle(z)
           /\ askClipper' = 0 /\ setup' = Carry(setup, <<>>) /\ setupOut' = Carry(setupOut, <<>>)
        \/ /\ ts.state # "DRAWING" /\ command.raster = "none" /\ ts' = z
           /\ askClipper' = 0 /\ setup' = Carry(setup, <<>>) /\ setupOut' = Carry(setupOut, <<>>)
  BY <1>2 DEF SetupCycle
<1>4. z = s
  OBVIOUS
<1> HIDE DEF r
<1>5. /\ s \in TsState /\ s.requested = r /\ s.state = ts.state /\ s.reserves = ts.reserves
      /\ s.fifo = ts.fifo /\ s.last = ts.last
  <2>1. s \in TsState
    BY <1>1, <1>2, TsFields
  <2> QED BY <1>1, <2>1 DEF TsState
<1> HIDE DEF s
<1>6. <<>> \in Group /\ 0 \in 0 .. TrianglesCycle
  BY Sizes DEF Group
<1>7. CASE ts.state = "DRAWING" /\ DrawSetup(z)
  BY <1>2, <1>4, <1>5, <1>7, DrawSetupIs
<1>8. CASE /\ ts.state = "READY" /\ command.raster = "DRAW" /\ ts' = TsStart
           /\ askClipper' = 0 /\ setup' = Carry(setup, <<>>) /\ setupOut' = Carry(setupOut, <<>>)
  <2>1. ts' \in TsState
    <3>1. SetupStart \in Nat
      BY Sizes
    <3> QED BY <1>8, <3>1 DEF TsStart, TsState, States
  <2>2. /\ ts'.state = "DRAWING" /\ ts'.reserves = 0 /\ ts'.requested = 0 /\ ts'.wait = 0
        /\ ts'.fifo = <<>> /\ ts'.last = FALSE
    BY <1>8 DEF TsStart
  <2>3. SetupStep(<<>>, <<>>, <<>>)
    BY <1>6, <1>8, <2>1, <2>2 DEF SetupStep, Ordered
  <2> QED BY <2>3
<1>9. CASE /\ ts.state = "END" /\ command.raster = "END" /\ ts' = Idle(z)
           /\ askClipper' = 0 /\ setup' = Carry(setup, <<>>) /\ setupOut' = Carry(setupOut, <<>>)
  <2>1. ts' \in TsState
    BY <1>4, <1>5, <1>9, TsFields DEF Idle, States
  <2>2. /\ ts'.state = "READY" /\ ts'.reserves = ts.reserves /\ ts'.requested = r
        /\ ts'.fifo = ts.fifo /\ ts'.last = ts.last
    BY <1>4, <1>5, <1>9 DEF Idle, TsState
  <2>3. SetupStep(<<>>, <<>>, <<>>)
    BY <1>6, <1>9, <2>1, <2>2 DEF SetupStep, Ordered, r
  <2> QED BY <2>3
<1>10. CASE /\ ts.state # "DRAWING" /\ command.raster = "none" /\ ts' = z
            /\ askClipper' = 0 /\ setup' = Carry(setup, <<>>) /\ setupOut' = Carry(setupOut, <<>>)
  <2>1. SetupStep(<<>>, <<>>, <<>>)
    BY <1>4, <1>5, <1>6, <1>10 DEF SetupStep, Ordered, r
  <2> QED BY <2>1
<1> QED BY <1>3, <1>7, <1>8, <1>9, <1>10

-----------------------------------------------------------------------------
(* Triangle Traversal.                                                     *)

LEMMA TtFields ==
  ASSUME NEW t \in TtState
  PROVE  /\ \A n \in Nat : [t EXCEPT !.requested = n] \in TtState
         /\ \A q \in Seq(Triangles) : [t EXCEPT !.queue = q] \in TtState
         /\ \A b \in BOOLEAN : [t EXCEPT !.finished = b] \in TtState
         /\ \A n \in 0 .. TriangleBatch : [t EXCEPT !.size = n] \in TtState
         /\ \A e \in States : [t EXCEPT !.state = e] \in TtState
<1>1. \A n \in Nat : [t EXCEPT !.requested = n] \in TtState
  BY DEF TtState
<1>2. \A q \in Seq(Triangles) : [t EXCEPT !.queue = q] \in TtState
  BY DEF TtState
<1>3. \A b \in BOOLEAN : [t EXCEPT !.finished = b] \in TtState
  BY DEF TtState
<1>4. \A n \in 0 .. TriangleBatch : [t EXCEPT !.size = n] \in TtState
  BY DEF TtState
<1>5. \A e \in States : [t EXCEPT !.state = e] \in TtState
  BY DEF TtState
<1> QED BY <1>1, <1>2, <1>3, <1>4, <1>5

\* The triangles that are rasterized together are the first of the queue.
Started(t) ==
  ~t.finished => /\ t.size <= Len(t.queue) /\ t.queue # <<>>
                 /\ t.queue[1].last <=> t.size = 0
                 /\ \A n \in 1 .. t.size : ~t.queue[n].last

\* The first of a queue, not more than are rasterized together.
Batched(queue, sent, left) ==
  \E n \in 0 .. TriangleBatch : n <= Len(queue) /\ sent = Take(queue, n) /\ left = Drop(queue, n)

\* A cycle of Triangle Traversal: left is not rasterized yet.
TraversalStep(left) ==
  /\ tt' \in TtState /\ askSetup' \in 0 .. TrianglesCycle
  /\ IF tt.state = "DRAWING"
     THEN /\ left \in Seq(Triangles) /\ EndsBatch(left) /\ (Ended(left) => Ended(tt.queue))
          /\ tt'.queue = left \o setupOut[1]
          /\ tt'.requested = (tt.requested + askSetup') - Len(setupOut[1])
          /\ Len(tt'.queue) + tt'.requested <= TriangleQueue
          /\ tt.queue \in Seq(Genuine) => Batched(tt.queue, out', left)
          /\ Started([tt' EXCEPT !.queue = left])
          /\ ~tt'.finished /\ tt'.size = 0 => Ended(tt.queue)
          /\ \/ tt'.state = "DRAWING"
             \/ /\ tt'.state = "END" /\ tt'.finished /\ left = <<>> /\ Ended(tt.queue)
                /\ ~tt.finished /\ tt.size = 0
     ELSE /\ tt'.state = Ordered(tt, command.raster) /\ askSetup' = 0 /\ out' = <<>>
          /\ IF tt.state = "READY" /\ command.raster = "DRAW"
             THEN tt'.requested = 0 /\ tt'.queue = <<>> /\ tt'.finished
             ELSE /\ tt'.requested = tt.requested /\ tt'.queue = tt.queue
                  /\ tt'.finished = tt.finished /\ tt'.size = tt.size

\* What is left when the triangles have been rasterized.
LEMMA RasterizeIs ==
  ASSUME NEW t \in TtState, ~t.finished, Started(t), EndsBatch(t.queue), t.state = "DRAWING"
  PROVE  /\ Rasterize(t) \in TtState /\ Rasterize(t).finished
         /\ Rasterize(t).requested = t.requested
         /\ EndsBatch(Rasterize(t).queue) /\ (Ended(Rasterize(t).queue) => Ended(t.queue))
         /\ Len(Rasterize(t).queue) <= Len(t.queue)
         /\ \/ Rasterize(t).state = "DRAWING"
            \/ /\ Rasterize(t).state = "END" /\ Rasterize(t).queue = <<>> /\ Ended(t.queue)
               /\ t.size = 0
<1>1. /\ t.queue \in Seq(Triangles) /\ Len(t.queue) \in Nat /\ t.size \in Nat /\ t.queue # <<>>
      /\ t.size <= Len(t.queue) /\ (t.queue[1].last <=> t.size = 0)
  BY Sizes DEF TtState, Started
<1>2. Head(t.queue) = t.queue[1] /\ Len(t.queue) > 0
  BY <1>1
<1>3. CASE t.queue[1].last
  <2>1. Len(t.queue) = 1
    BY <1>1, <1>3, FirstIsLast
  <2>2. Tail(t.queue) = <<>> /\ Tail(t.queue) \in Seq(Triangles)
    BY <1>1, <1>3, FirstIsLast
  <2> DEFINE q == Tail(t.queue)
             x == [t EXCEPT !.queue = q]
             y == [x EXCEPT !.finished = TRUE]
  <2>3. Rasterize(t) = [y EXCEPT !.state = "END"]
    BY <1>2, <1>3 DEF Rasterize, TtState
  <2> HIDE DEF q
  <2>4. x \in TtState
    BY <2>2, TtFields DEF q
  <2>5. x.queue = q /\ x.size = t.size /\ x.requested = t.requested
    BY <2>4 DEF TtState
  <2> HIDE DEF x
  <2>6. y \in TtState
    BY <2>4, TtFields
  <2>7. y.queue = q /\ y.finished = TRUE /\ y.requested = t.requested
    BY <2>5, <2>6, <2>4 DEF TtState
  <2> HIDE DEF y
  <2>8. Rasterize(t) \in TtState
    BY <2>3, <2>6, TtFields DEF States
  <2>9. /\ Rasterize(t).queue = <<>> /\ Rasterize(t).finished /\ Rasterize(t).requested = t.requested
        /\ Rasterize(t).state = "END"
    BY <2>2, <2>3, <2>6, <2>7 DEF TtState, q
  <2>10. Ended(t.queue)
    BY <1>1, <1>3, <2>1 DEF Ended, Newest
  <2>11. EndsBatch(<<>>) /\ ~Ended(<<>>) /\ Len(<<>>) = 0
    BY DEF EndsBatch, Ended
  <2> QED BY <1>1, <1>3, <2>8, <2>9, <2>10, <2>11
<1>4. CASE ~t.queue[1].last
  <2> DEFINE q == Drop(t.queue, t.size)
             x == [t EXCEPT !.queue = q]
  <2>1. Rasterize(t) = [x EXCEPT !.finished = TRUE]
    BY <1>2, <1>4 DEF Rasterize, TtState
  <2>2. /\ q \in Seq(Triangles) /\ Len(q) = Len(t.queue) - t.size /\ EndsBatch(q)
        /\ Ended(q) => Ended(t.queue)
    BY <1>1, DropIs, EndsTake, SMTT(30)
  <2> HIDE DEF q
  <2>3. x \in TtState
    BY <2>2, TtFields
  <2>4. x.queue = q /\ x.requested = t.requested /\ x.state = t.state
    BY <2>3 DEF TtState
  <2> HIDE DEF x
  <2>5. Rasterize(t) \in TtState
    BY <2>1, <2>3, TtFields
  <2>6. /\ Rasterize(t).queue = q /\ Rasterize(t).finished /\ Rasterize(t).requested = t.requested
        /\ Rasterize(t).state = "DRAWING"
    BY <2>1, <2>3, <2>4 DEF TtState
  <2> QED BY <1>1, <2>2, <2>5, <2>6
<1> QED BY <1>3, <1>4

\* What is rasterized leaves the queue.
LEMMA RasterizedIs ==
  ASSUME tt \in TtState, ~tt.finished, Started(tt), EndsBatch(tt.queue), tt.queue \in Seq(Genuine)
  PROVE  Batched(tt.queue, Rasterized, Rasterize(tt).queue)
<1>1. /\ tt.queue \in Seq(Triangles) /\ Len(tt.queue) \in Nat /\ tt.size \in 0 .. TriangleBatch
      /\ tt.queue # <<>> /\ tt.size <= Len(tt.queue) /\ TriangleBatch \in Nat /\ TriangleBatch > 0
  BY Sizes DEF TtState, Started
<1>2. Head(tt.queue) = tt.queue[1] /\ Len(tt.queue) > 0 /\ tt.queue[1] \in Genuine
  BY <1>1
<1>3. CASE tt.queue[1].last
  <2>1. Len(tt.queue) = 1 /\ Tail(tt.queue) = <<>>
    BY <1>1, <1>3, FirstIsLast
  <2>2. tt.queue[1] = Last
    BY <1>2, <1>3 DEF Genuine
  <2>3. Rasterized = <<Last>> /\ Rasterize(tt).queue = <<>>
    BY <1>1, <1>2, <1>3, <2>1 DEF Rasterized, Rasterize, TtState
  <2>4. Take(tt.queue, 1) = <<Last>>
    <3> QED BY <1>1, <2>1, <2>2, TakeOne
  <2>5. Drop(tt.queue, 1) = <<>>
    BY <1>1, <2>1 DEF Drop
  <2>6. 1 \in 0 .. TriangleBatch /\ 1 <= Len(tt.queue)
    BY <1>1, <2>1
  <2> QED BY <2>3, <2>4, <2>5, <2>6 DEF Batched
<1>4. CASE ~tt.queue[1].last
  <2>1. Rasterized = Take(tt.queue, tt.size) /\ Rasterize(tt).queue = Drop(tt.queue, tt.size)
    BY <1>2, <1>4 DEF Rasterized, Rasterize, TtState
  <2> QED BY <1>1, <2>1 DEF Batched
<1> QED BY <1>3, <1>4

LEMMA StartBatchIs ==
  ASSUME NEW t \in TtState, Started(t), EndsBatch(t.queue)
  PROVE  /\ StartBatch(t) \in TtState /\ Started(StartBatch(t))
         /\ \A f \in {"state", "requested", "queue"} : StartBatch(t)[f] = t[f]
         /\ t.queue = <<>> /\ t.finished => StartBatch(t).finished
<1> DEFINE n == Smaller(Len(t.queue), TriangleBatch)
           go == /\ t.finished /\ t.queue # <<>>
                 /\ Len(t.queue) >= TriangleBatch \/ Newest(t.queue).last
<1>1. CASE ~go
  <2>1. StartBatch(t) = t
    BY <1>1 DEF StartBatch
  <2> QED BY <2>1
<1>2. CASE go
  <2>1. t.queue \in Seq(Triangles) /\ Len(t.queue) \in Nat /\ Len(t.queue) > 0 /\ TriangleBatch \in Nat /\ TriangleBatch > 0
    BY <1>2, Sizes DEF TtState
  <2> DEFINE b == BatchSize(t)
             x == [t EXCEPT !.finished = FALSE]
  <2>2. StartBatch(t) = [x EXCEPT !.size = b]
    BY <1>2 DEF StartBatch, TtState
  <2>3. n \in 1 .. Len(t.queue) /\ n <= TriangleBatch
    BY <2>1 DEF Smaller
  <2>4. b = IF t.queue[n].last THEN n - 1 ELSE n
    BY DEF BatchSize
  <2> HIDE DEF b, n
  <2>5. /\ b \in 0 .. TriangleBatch /\ b <= Len(t.queue) /\ (t.queue[1].last <=> b = 0)
        /\ \A k \in 1 .. b : ~t.queue[k].last
    <3>1. CASE t.queue[n].last
      <4>1. n = Len(t.queue) /\ b = n - 1
        BY <2>1, <2>3, <2>4, <3>1 DEF EndsBatch
      <4>2. \A k \in 1 .. b : ~t.queue[k].last
        BY <2>1, <4>1 DEF EndsBatch
      <4>3. n \in Nat /\ n > 0
        BY <2>1, <2>3
      <4>4. b = 0 => n = 1
        BY <4>1, <4>3
      <4>5. b # 0 => 1 \in 1 .. b
        <5>1. b = n - 1
          BY <4>1
        <5>2. b \in Nat
          BY <4>3, <5>1
        <5> QED BY <5>2
      <4>6. b \in 0 .. TriangleBatch /\ b <= Len(t.queue)
        BY <2>1, <2>3, <4>1, <4>3
      <4> QED BY <3>1, <4>2, <4>4, <4>5, <4>6
    <3>2. CASE ~t.queue[n].last
      <4>1. b = n
        BY <2>4, <3>2
      <4>2. \A k \in 1 .. b : ~t.queue[k].last
        BY <2>1, <2>3, <3>2, <4>1 DEF EndsBatch
      <4>3. b \in 0 .. TriangleBatch /\ b <= Len(t.queue) /\ 1 \in 1 .. b
        BY <2>1, <2>3, <4>1
      <4> QED BY <4>2, <4>3
    <3> QED BY <3>1, <3>2
  <2>6. x \in TtState
    BY TtFields
  <2>7. x.queue = t.queue /\ x.state = t.state /\ x.requested = t.requested /\ x.finished = FALSE
    BY DEF TtState
  <2> HIDE DEF x
  <2>8. StartBatch(t) \in TtState
    BY <2>2, <2>5, <2>6, TtFields
  <2>9. /\ StartBatch(t).queue = t.queue /\ StartBatch(t).state = t.state
        /\ StartBatch(t).requested = t.requested /\ StartBatch(t).finished = FALSE
        /\ StartBatch(t).size = b
    BY <2>2, <2>6, <2>7 DEF TtState
  <2>10. Started(StartBatch(t))
    BY <1>2, <2>5, <2>9 DEF Started
  <2> QED BY <1>2, <2>8, <2>9, <2>10
<1> QED BY <1>1, <1>2

LEMMA DrawTraversalIs ==
  ASSUME Typed, Started(tt), EndsBatch(tt.queue), tt.state = "DRAWING",
         Len(tt.queue) + tt.requested <= TriangleQueue, Len(setupOut[1]) <= tt.requested,
         DrawTraversal
  PROVE  \E left : TraversalStep(left)
<1>1. /\ tt \in TtState /\ tt.queue \in Seq(Triangles) /\ Len(tt.queue) \in Nat /\ tt.requested \in Nat
      /\ tt.finished \in BOOLEAN
  BY DEF Typed, TtState
<1>2. /\ TriangleQueue \in Nat /\ TrianglesCycle \in Nat /\ OutputLatency \in Nat /\ OutputLatency > 0
  BY Sizes
<1>3. /\ Head(setupOut) = setupOut[1] /\ setupOut[1] \in Seq(Triangles) /\ Len(setupOut[1]) \in Nat
  <2>1. setupOut \in Pipe(OutputLatency)
    BY DEF Typed
  <2> QED BY <1>2, <2>1, PipeIs
<1>4. PICK done \in BOOLEAN :
        /\ done => ~tt.finished
        /\ \E t \in {ReceiveSetup(StartBatch(IF done THEN Rasterize(tt) ELSE tt), Head(setupOut))} :
             /\ askSetup' = RoomForTriangles(t)
             /\ tt' = [t EXCEPT !.requested = @ + RoomForTriangles(t)]
             /\ out' = IF done THEN Rasterized ELSE <<>>
  BY DEF DrawTraversal
<1> DEFINE r == IF done THEN Rasterize(tt) ELSE tt
           s == StartBatch(r)
           group == setupOut[1]
           q == s.queue \o group
           k == s.requested - Len(group)
           x == [s EXCEPT !.queue = q]
           t == [x EXCEPT !.requested = k]
           room == RoomForTriangles(t)
           m == k + room
<1>5. /\ r \in TtState /\ EndsBatch(r.queue) /\ (Ended(r.queue) => Ended(tt.queue)) /\ Started(r)
      /\ r.requested = tt.requested /\ Len(r.queue) <= Len(tt.queue)
      /\ \/ r.state = "DRAWING"
         \/ /\ r.state = "END" /\ r.queue = <<>> /\ r.finished /\ Ended(tt.queue)
            /\ ~tt.finished /\ tt.size = 0
      /\ tt.queue \in Seq(Genuine) => Batched(tt.queue, out', r.queue)
  <2>1. CASE done
    <3>1. ~tt.finished
      BY <1>4, <2>1
    <3> HIDE DEF r
    <3>2. r = Rasterize(tt)
      BY <2>1 DEF r
    <3>3. /\ Rasterize(tt) \in TtState /\ Rasterize(tt).finished
         /\ Rasterize(tt).requested = tt.requested
         /\ EndsBatch(Rasterize(tt).queue) /\ (Ended(Rasterize(tt).queue) => Ended(tt.queue))
         /\ Len(Rasterize(tt).queue) <= Len(tt.queue)
         /\ \/ Rasterize(tt).state = "DRAWING"
            \/ /\ Rasterize(tt).state = "END" /\ Rasterize(tt).queue = <<>> /\ Ended(tt.queue)
               /\ tt.size = 0
      BY <1>1, <3>1, RasterizeIs
    <3>4. tt.queue \in Seq(Genuine) => Batched(tt.queue, Rasterized, Rasterize(tt).queue)
      BY <1>1, <3>1, RasterizedIs
    <3>5. out' = Rasterized
      BY <1>4, <2>1
    <3> QED BY <3>1, <3>2, <3>3, <3>4, <3>5 DEF Started
  <2>2. CASE ~done
    <3>1. out' = <<>>
      BY <1>4, <2>2
    <3>2. Take(tt.queue, 0) = <<>> /\ Drop(tt.queue, 0) = tt.queue
      BY <1>1 DEF Take, Drop
    <3>3. Batched(tt.queue, out', tt.queue)
      BY <1>1, <3>1, <3>2, Sizes DEF Batched
    <3> QED BY <1>1, <2>2, <3>3
  <2> QED BY <2>1, <2>2
<1> HIDE DEF r
<1>6. /\ s \in TtState /\ Started(s) /\ s.state = r.state /\ s.requested = r.requested
      /\ s.queue = r.queue /\ (r.queue = <<>> /\ r.finished => s.finished)
  BY <1>5, StartBatchIs
<1> HIDE DEF s
<1>7. s.queue \in Seq(Triangles) /\ Len(s.queue) \in Nat /\ s.requested \in Nat /\ Len(group) \in Nat
  BY <1>3, <1>6 DEF TtState
<1>8. q \in Seq(Triangles) /\ Len(q) = Len(s.queue) + Len(group)
  BY <1>3, <1>7
<1>9. k \in Nat /\ Len(q) + k <= TriangleQueue /\ k = tt.requested - Len(group)
  <2> DEFINE l == Len(group)
             u == Len(s.queue)
             v == Len(tt.queue)
             w == Len(q)
  <2>1. /\ w = u + l /\ u <= v /\ l <= tt.requested /\ v + tt.requested <= TriangleQueue
        /\ s.requested = tt.requested
    BY <1>5, <1>6, <1>8
  <2>2. l \in Nat /\ u \in Nat /\ v \in Nat
    BY <1>1, <1>7
  <2>3. k = tt.requested - l
    BY <2>1
  <2> HIDE DEF l, u, v, w, k
  <2>4. k \in Nat /\ w + k <= TriangleQueue
    BY <1>1, <1>2, <2>1, <2>2, <2>3, SMTT(30)
  <2> QED BY <2>3, <2>4 DEF w, l
<1>10. tt' = [t EXCEPT !.requested = m] /\ askSetup' = room
  <2>1. ReceiveSetup(s, Head(setupOut)) = t
    BY <1>3, <1>6 DEF ReceiveSetup, TtState
  <2>2. /\ askSetup' = RoomForTriangles(t)
        /\ tt' = [t EXCEPT !.requested = @ + RoomForTriangles(t)]
    <3> HIDE DEF t
    <3> QED BY <1>4, <2>1 DEF r, s
  <2>3. t.requested = k
    BY <1>6 DEF TtState
  <2> HIDE DEF t, k
  <2> QED BY <2>2, <2>3
<1> HIDE DEF q, k, room
<1>11. x \in TtState /\ x.queue = q /\ x.state = s.state /\ x.finished = s.finished /\ x.size = s.size
  <2>1. x \in TtState
    BY <1>6, <1>8, TtFields
  <2> QED BY <1>6, <2>1 DEF TtState
<1> HIDE DEF x
<1>12. /\ t \in TtState /\ t.queue = q /\ t.state = s.state /\ t.finished = s.finished /\ t.size = s.size
       /\ t.requested = k
  <2>1. t \in TtState
    BY <1>9, <1>11, TtFields
  <2> QED BY <1>11, <2>1 DEF TtState
<1> HIDE DEF t
<1>13. room \in 0 .. TrianglesCycle /\ Len(q) + (k + room) <= TriangleQueue
  <2>1. room = IF Len(q) + k + TrianglesCycle <= TriangleQueue THEN TrianglesCycle ELSE 0
    BY <1>12 DEF RoomForTriangles, room
  <2>2. Len(q) \in Nat
    <3>1. q \in Seq(Triangles)
      BY <1>8
    <3> QED BY <3>1
  <2> DEFINE l == Len(q)
  <2> HIDE DEF l
  <2>3. /\ room = (IF l + k + TrianglesCycle <= TriangleQueue THEN TrianglesCycle ELSE 0) /\ l \in Nat
        /\ l + k <= TriangleQueue
    BY <1>9, <2>1, <2>2 DEF l
  <2>4. room \in 0 .. TrianglesCycle /\ l + (k + room) <= TriangleQueue
    BY <1>2, <1>9, <2>3
  <2> QED BY <2>4 DEF l
<1>14. m \in Nat
  BY <1>2, <1>9, <1>13
<1>15. m = (tt.requested + room) - Len(group)
  <2> DEFINE l == Len(group)
  <2>1. l \in Nat /\ k = tt.requested - l
    BY <1>7, <1>9
  <2> HIDE DEF l
  <2>2. m = (tt.requested + room) - l
    BY <1>1, <1>2, <1>13, <2>1
  <2> QED BY <2>2 DEF l
<1>16. Len(q) + m <= TriangleQueue
  BY <1>13
<1> HIDE DEF m, group
<1>17. /\ tt' \in TtState /\ tt'.queue = q /\ tt'.state = s.state /\ tt'.finished = s.finished
       /\ tt'.size = s.size /\ tt'.requested = m
  <2>1. tt' \in TtState
    BY <1>10, <1>12, <1>14, TtFields
  <2> QED BY <1>10, <1>12, <2>1 DEF TtState
<1> DEFINE left == r.queue
<1>18. left \in Seq(Triangles) /\ tt'.queue = left \o setupOut[1]
  BY <1>6, <1>7, <1>17 DEF q, group
<1>19. Started([tt' EXCEPT !.queue = left])
  <2>1. /\ [tt' EXCEPT !.queue = left].queue = left
        /\ [tt' EXCEPT !.queue = left].finished = s.finished
        /\ [tt' EXCEPT !.queue = left].size = s.size
    BY <1>17 DEF TtState
  <2> QED BY <1>6, <2>1 DEF Started
<1>20. ~tt'.finished /\ tt'.size = 0 => Ended(tt.queue)
  <2> SUFFICES ASSUME ~s.finished, s.size = 0 PROVE Ended(left)
    BY <1>5, <1>17
  <2>1. left # <<>> /\ left[1].last
    BY <1>6 DEF Started
  <2> QED BY <1>5, <1>18, <2>1, FirstIsLast
<1>21. \/ tt'.state = "DRAWING"
       \/ /\ tt'.state = "END" /\ tt'.finished /\ left = <<>> /\ Ended(tt.queue)
          /\ ~tt.finished /\ tt.size = 0
  BY <1>5, <1>6, <1>17
<1>22. TraversalStep(left)
  <2>1. tt' \in TtState /\ askSetup' \in 0 .. TrianglesCycle
    BY <1>10, <1>13, <1>17
  <2>2. EndsBatch(left) /\ (Ended(left) => Ended(tt.queue))
    BY <1>5
  <2>3. tt'.requested = (tt.requested + askSetup') - Len(setupOut[1])
    BY <1>10, <1>15, <1>17 DEF group
  <2>4. Len(tt'.queue) + tt'.requested <= TriangleQueue
    BY <1>16, <1>17
  <2>5. tt.queue \in Seq(Genuine) => Batched(tt.queue, out', left)
    BY <1>5
  <2> HIDE DEF left
  <2> QED BY <1>18, <1>19, <1>20, <1>21, <2>1, <2>2, <2>3, <2>4, <2>5 DEF TraversalStep
<1> QED BY <1>22

LEMMA TraversalCycleIs ==
  ASSUME Typed, tt.state = "DRAWING" => Started(tt) /\ EndsBatch(tt.queue),
         Len(tt.queue) + tt.requested <= TriangleQueue,
         tt.state = "DRAWING" => Len(setupOut[1]) <= tt.requested, TraversalCycle
  PROVE  \E left : TraversalStep(left)
<1>1. tt \in TtState /\ 0 \in 0 .. TrianglesCycle
  BY Sizes DEF Typed
<1>2. CASE /\ tt.state = "READY" /\ command.raster = "DRAW" /\ tt' = TtStart
           /\ askSetup' = 0 /\ out' = <<>>
  <2>1. tt' \in TtState
    <3>1. 0 \in 0 .. TriangleBatch
      BY Sizes
    <3> QED BY <1>2, <3>1 DEF TtStart, TtState, States
  <2>2. tt'.state = "DRAWING" /\ tt'.requested = 0 /\ tt'.queue = <<>> /\ tt'.finished
    BY <1>2 DEF TtStart
  <2>3. TraversalStep(<<>>)
    BY <1>1, <1>2, <2>1, <2>2 DEF TraversalStep, Ordered
  <2> QED BY <2>3
<1>3. CASE tt.state = "DRAWING" /\ DrawTraversal
  BY <1>3, DrawTraversalIs
<1>4. CASE /\ tt.state = "END" /\ command.raster = "END" /\ tt' = Idle(tt) /\ askSetup' = 0 /\ out' = <<>>
  <2>1. tt' \in TtState
    BY <1>1, <1>4, TtFields DEF Idle, States
  <2>2. /\ tt'.state = "READY" /\ tt'.requested = tt.requested /\ tt'.queue = tt.queue
        /\ tt'.finished = tt.finished /\ tt'.size = tt.size
    BY <1>1, <1>4 DEF Idle, TtState
  <2>3. TraversalStep(<<>>)
    BY <1>1, <1>4, <2>1, <2>2 DEF TraversalStep, Ordered
  <2> QED BY <2>3
<1>5. CASE tt.state # "DRAWING" /\ command.raster = "none" /\ tt' = tt /\ askSetup' = 0 /\ out' = <<>>
  <2>1. TraversalStep(<<>>)
    BY <1>1, <1>5 DEF TraversalStep, Ordered
  <2> QED BY <2>1
<1> QED BY <1>2, <1>3, <1>4, <1>5 DEF TraversalCycle

-----------------------------------------------------------------------------
(* A cycle of all boxes.                                                   *)

\* What enters a bus or a unit is the last in it.
Assembled == clipIn'[1]
Clipping == clipExec'[ClipLatency]
Clipped == bus'[BusLatency]
SettingUp == setup'[SetupLatency]
SetUp == setupOut'[OutputLatency]

Cycle ==
  /\ CommandProcessorCycle /\ AssemblyStep(Assembled)
  /\ \E new : ClipperStep(Clipping, new, Clipped)
  /\ \E new : SetupStep(SettingUp, new, SetUp)
  /\ \E left : TraversalStep(left)

\* What the phases say of the boxes and of their orders.
LEMMA PhaseFacts ==
  ASSUME Typed, Phases
  PROVE  /\ {pa.state, clp.state, ts.state, tt.state} \subseteq States
         /\ command.geometry \in {"none", "DRAW", "END"} /\ command.raster \in {"none", "DRAW", "END"}
         /\ (pa.state = "READY") <=> (clp.state = "READY")
         /\ (ts.state = "READY") <=> (tt.state = "READY")
         /\ command.geometry = "DRAW" => pa.state = "READY"
         /\ command.geometry = "END" => pa.state = "END" /\ clp.state = "END"
         /\ command.raster = "DRAW" => ts.state = "READY"
         /\ command.raster = "END" => ts.state = "END" /\ tt.state = "END"
         /\ pa.state = "DRAWING" => clp.state = "DRAWING"
         /\ ts.state = "DRAWING" => tt.state = "DRAWING"
         /\ ~Passed => cp.status = "DRAWING" /\ clp.state # "END"
         /\ ~Passed /\ ts.state # "READY" => clp.state = "DRAWING"
<1>1. /\ {pa.state, clp.state, ts.state, tt.state} \subseteq States
      /\ command.geometry \in {"none", "DRAW", "END"} /\ command.raster \in {"none", "DRAW", "END"}
      /\ cp.status \in {"READY", "DRAWING", "END_GEOMETRY", "END_FRAGMENT"}
  BY DEF Typed, PaState, ClpState, TsState, TtState
<1>2. \/ Geometry("none", {"READY"}) \/ Geometry("DRAW", {"READY"}) \/ Geometry("none", AtWork)
      \/ Geometry("END", {"END"})
  BY <1>1 DEF Phases, GeometryBegun
<1>3. \/ Raster("none", {"READY"}) \/ Raster("DRAW", {"READY"}) \/ Raster("none", AtWork)
      \/ Raster("END", {"END"})
  BY <1>1 DEF Phases, RasterBegun
<1>4. (clp.state = "END" => pa.state = "END") /\ (tt.state = "END" => ts.state = "END")
  BY DEF Phases
<1>5. /\ (pa.state = "READY") <=> (clp.state = "READY")
      /\ command.geometry = "DRAW" => pa.state = "READY"
      /\ command.geometry = "END" => pa.state = "END" /\ clp.state = "END"
      /\ pa.state = "DRAWING" => clp.state = "DRAWING"
  BY <1>1, <1>2, <1>4 DEF Geometry, AtWork, States
<1>6. /\ (ts.state = "READY") <=> (tt.state = "READY")
      /\ command.raster = "DRAW" => ts.state = "READY"
      /\ command.raster = "END" => ts.state = "END" /\ tt.state = "END"
      /\ ts.state = "DRAWING" => tt.state = "DRAWING"
  BY <1>1, <1>3, <1>4 DEF Raster, AtWork, States
<1>7. ~Passed => cp.status = "DRAWING" /\ clp.state # "END"
  BY DEF Passed
<1>8. ~Passed /\ ts.state # "READY" => clp.state = "DRAWING"
  <2> SUFFICES ASSUME ~Passed, ts.state # "READY" PROVE clp.state = "DRAWING"
    OBVIOUS
  <2>1. GeometryBegun /\ (command.geometry = "DRAW" => command.raster = "DRAW")
    BY <1>7 DEF Phases
  <2>2. command.geometry # "DRAW"
    BY <1>6, <2>1
  <2> QED BY <1>1, <1>7, <2>1, <2>2 DEF GeometryBegun, Geometry, AtWork
<1> QED BY <1>1, <1>5, <1>6, <1>7, <1>8

LEMMA FirstOf ==
  ASSUME Typed
  PROVE  /\ clipIn[1] \in Group /\ clipExec[1] \in Group /\ bus[1] \in Group /\ setup[1] \in Group
         /\ setupOut[1] \in Group
<1>1. ASSUME NEW latency \in Nat, latency > 0, NEW pipe \in Pipe(latency) PROVE pipe[1] \in Group
  BY <1>1 DEF Pipe
<1>2. /\ 1 \in Nat /\ 1 > 0 /\ ClipLatency \in Nat /\ ClipLatency > 0 /\ BusLatency \in Nat /\ BusLatency > 0
      /\ SetupLatency \in Nat /\ SetupLatency > 0 /\ OutputLatency \in Nat /\ OutputLatency > 0
  BY Sizes
<1> QED BY <1>1, <1>2 DEF Typed

LEMMA GroupIs ==
  ASSUME NEW g \in Group
  PROVE  g \in Seq(Triangles) /\ Len(g) \in Nat /\ Len(g) <= TrianglesCycle /\ (g = <<>> <=> Len(g) = 0)
BY DEF Group

\* The credits cover what arrives in this cycle.
LEMMA Covered ==
  ASSUME IInv
  PROVE  /\ clp.state = "DRAWING" => Len(clipExec[1]) <= clp.reserved
         /\ ts.state = "DRAWING" => Len(setup[1]) <= ts.reserves
         /\ tt.state = "DRAWING" => Len(setupOut[1]) <= tt.requested
<1>1. /\ clipIn \in Pipe(1) /\ clipExec \in Pipe(ClipLatency) /\ bus \in Pipe(BusLatency)
      /\ setup \in Pipe(SetupLatency) /\ setupOut \in Pipe(OutputLatency)
  BY DEF IInv, Typed
<1>2. /\ 1 \in Nat /\ 1 > 0 /\ ClipLatency \in Nat /\ ClipLatency > 0 /\ BusLatency \in Nat /\ BusLatency > 0
      /\ SetupLatency \in Nat /\ SetupLatency > 0 /\ OutputLatency \in Nat /\ OutputLatency > 0
  BY Sizes
<1>3. /\ Crossing(clipIn) \in Nat /\ Crossing(clipExec) \in Nat /\ Len(clipExec[1]) <= Crossing(clipExec)
      /\ Crossing(bus) \in Nat /\ Crossing(setup) \in Nat /\ Len(setup[1]) <= Crossing(setup)
      /\ Crossing(setupOut) \in Nat /\ Len(setupOut[1]) <= Crossing(setupOut)
  BY <1>1, <1>2, CrossingIs
<1>4. /\ pa.requests \in Nat /\ askAssembly \in Nat /\ ts.reserves \in Nat /\ ts.requested \in Nat
      /\ askSetup \in Nat
  BY Sizes DEF IInv, Typed, PaState, TsState
<1>5. Len(clipExec[1]) \in Nat /\ Len(setup[1]) \in Nat /\ Len(setupOut[1]) \in Nat
  BY FirstOf, GroupIs DEF IInv
<1>6. clp.state = "DRAWING" => Len(clipExec[1]) <= clp.reserved
  <2> SUFFICES ASSUME clp.state = "DRAWING" PROVE Len(clipExec[1]) <= clp.reserved
    OBVIOUS
  <2>1. clp.reserved = pa.requests + askAssembly + Crossing(clipIn) + Crossing(clipExec)
    BY DEF IInv, CreditsKept
  <2> QED BY <1>3, <1>4, <1>5, <2>1
<1>7. ts.state = "DRAWING" => Len(setup[1]) <= ts.reserves
  <2>1. ts.state = "DRAWING" => ts.reserves >= Crossing(bus) + Crossing(setup)
    BY DEF IInv, Room
  <2> QED BY <1>3, <1>4, <1>5, <2>1
<1>8. tt.state = "DRAWING" => Len(setupOut[1]) <= tt.requested
  <2> SUFFICES ASSUME tt.state = "DRAWING" PROVE Len(setupOut[1]) <= tt.requested
    OBVIOUS
  <2>1. ts.state # "READY"
    BY PhaseFacts DEF IInv
  <2>2. tt.requested = ts.requested + askSetup + Crossing(setupOut)
    BY <2>1 DEF IInv, CreditsKept
  <2> QED BY <1>3, <1>4, <1>5, <2>2
<1> QED BY <1>6, <1>7, <1>8

LEMMA CycleIs ==
  ASSUME IInv, Next
  PROVE  Cycle
<1>1. Typed /\ Room /\ Phases
  BY DEF IInv
<1>2. /\ clp.reserved + Len(clp.buffer) <= ClipBuffer /\ ts.reserves + Len(ts.fifo) <= SetupFIFO
      /\ Len(tt.queue) + tt.requested <= TriangleQueue
  BY DEF IInv, Room
<1>3. /\ 1 \in Nat /\ 1 > 0 /\ ClipLatency \in Nat /\ ClipLatency > 0 /\ BusLatency \in Nat /\ BusLatency > 0
      /\ SetupLatency \in Nat /\ SetupLatency > 0 /\ OutputLatency \in Nat /\ OutputLatency > 0
  BY Sizes
<1>4. /\ clipIn \in Pipe(1) /\ clipExec \in Pipe(ClipLatency) /\ bus \in Pipe(BusLatency)
      /\ setup \in Pipe(SetupLatency) /\ setupOut \in Pipe(OutputLatency)
  BY DEF IInv, Typed
<1>5. AssemblyStep(Assembled)
  <2>1. PICK sent : AssemblyStep(sent)
    BY <1>1, AssemblyCycleIs DEF Next, Boxes
  <2>2. sent \in Group /\ clipIn' = Carry(clipIn, sent)
    BY <2>1 DEF AssemblyStep
  <2>3. clipIn'[1] = sent
    BY <1>3, <1>4, <2>2, CarryIs
  <2> QED BY <2>1, <2>3 DEF Assembled
<1>6. \E new : ClipperStep(Clipping, new, Clipped)
  <2>1. PICK group, new, sent : ClipperStep(group, new, sent)
    BY <1>1, <1>2, Covered, ClipperCycleIs DEF Next, Boxes
  <2>2. /\ group \in Group /\ clipExec' = Carry(clipExec, group)
        /\ sent \in Group /\ bus' = Carry(bus, sent)
    BY <2>1 DEF ClipperStep
  <2>3. clipExec'[ClipLatency] = group /\ bus'[BusLatency] = sent
    BY <1>3, <1>4, <2>2, CarryIs
  <2> QED BY <2>1, <2>3 DEF Clipping, Clipped
<1>7. \E new : SetupStep(SettingUp, new, SetUp)
  <2>1. PICK group, new, sent : SetupStep(group, new, sent)
    BY <1>1, <1>2, Covered, SetupCycleIs DEF Next, Boxes
  <2>2. /\ group \in Group /\ setup' = Carry(setup, group)
        /\ sent \in Group /\ setupOut' = Carry(setupOut, sent)
    BY <2>1 DEF SetupStep
  <2>3. setup'[SetupLatency] = group /\ setupOut'[OutputLatency] = sent
    BY <1>3, <1>4, <2>2, CarryIs
  <2> QED BY <2>1, <2>3 DEF SettingUp, SetUp
<1>8. \E left : TraversalStep(left)
  <2>1. Started(tt) /\ EndsBatch(tt.queue)
    BY DEF IInv, TraversalOrder, Started
  <2> QED BY <1>1, <1>2, <2>1, Covered, TraversalCycleIs DEF Next, Boxes
<1> QED BY <1>5, <1>6, <1>7, <1>8 DEF Cycle, Next

LEMMA StatesAre ==
  ASSUME Cycle
  PROVE  /\ pa'.state = IF pa.state = "DRAWING" THEN IF Ended(Assembled) THEN "END" ELSE "DRAWING"
                        ELSE Ordered(pa, command.geometry)
         /\ clp'.state = IF clp.state = "DRAWING" THEN IF Ended(Clipped) THEN "END" ELSE "DRAWING"
                         ELSE Ordered(clp, command.geometry)
         /\ ts'.state = IF ts.state = "DRAWING" THEN IF Ended(SetUp) THEN "END" ELSE "DRAWING"
                        ELSE Ordered(ts, command.raster)
         /\ IF tt.state = "DRAWING"
            THEN \/ tt'.state = "DRAWING"
                 \/ /\ tt'.state = "END" /\ tt'.finished /\ Ended(tt.queue)
                    /\ ~tt.finished /\ tt.size = 0
            ELSE tt'.state = Ordered(tt, command.raster)
<1>1. pa'.state = IF pa.state = "DRAWING" THEN IF Ended(Assembled) THEN "END" ELSE "DRAWING"
                  ELSE Ordered(pa, command.geometry)
  BY DEF Cycle, AssemblyStep
<1>2. PICK new : ClipperStep(Clipping, new, Clipped)
  BY DEF Cycle
<1>3. clp'.state = IF clp.state = "DRAWING" THEN IF Ended(Clipped) THEN "END" ELSE "DRAWING"
                   ELSE Ordered(clp, command.geometry)
  BY <1>2 DEF ClipperStep
<1>4. PICK kept : SetupStep(SettingUp, kept, SetUp)
  BY DEF Cycle
<1>5. ts'.state = IF ts.state = "DRAWING" THEN IF Ended(SetUp) THEN "END" ELSE "DRAWING"
                  ELSE Ordered(ts, command.raster)
  BY <1>4 DEF SetupStep
<1>6. PICK left : TraversalStep(left)
  BY DEF Cycle
<1>7. IF tt.state = "DRAWING"
      THEN \/ tt'.state = "DRAWING"
           \/ /\ tt'.state = "END" /\ tt'.finished /\ Ended(tt.queue)
              /\ ~tt.finished /\ tt.size = 0
      ELSE tt'.state = Ordered(tt, command.raster)
  <2>1. CASE tt.state = "DRAWING"
    BY <1>6, <2>1 DEF TraversalStep
  <2>2. CASE tt.state # "DRAWING"
    BY <1>6, <2>2 DEF TraversalStep
  <2> QED BY <2>1, <2>2
<1> QED BY <1>1, <1>3, <1>5, <1>7

\* What moves in a cycle, and where to.
LEMMA Moves ==
  ASSUME Typed, Cycle
  PROVE  /\ Assembled \in Group /\ clipIn' = Carry(clipIn, Assembled) /\ EndsBatch(Assembled)
         /\ pa.state # "DRAWING" => Assembled = <<>>
         /\ Clipping \in Group /\ clipExec' = Carry(clipExec, Clipping)
         /\ Clipping = IF clp.state = "DRAWING" /\ clp.wait = 0 THEN clipIn[1] ELSE <<>>
         /\ Clipped \in Group /\ bus' = Carry(bus, Clipped)
         /\ clp.state # "DRAWING" => Clipped = <<>>
         /\ SettingUp \in Group /\ setup' = Carry(setup, SettingUp)
         /\ SettingUp = IF ts.state = "DRAWING" /\ ts.wait = 0 THEN bus[1] ELSE <<>>
         /\ SetUp \in Group /\ setupOut' = Carry(setupOut, SetUp)
         /\ ts.state # "DRAWING" => SetUp = <<>>
<1>1. /\ Assembled \in Group /\ clipIn' = Carry(clipIn, Assembled) /\ EndsBatch(Assembled)
      /\ pa.state # "DRAWING" => Assembled = <<>>
  BY DEF Cycle, AssemblyStep
<1>2. PICK new : ClipperStep(Clipping, new, Clipped)
  BY DEF Cycle
<1>3. /\ Clipping \in Group /\ clipExec' = Carry(clipExec, Clipping)
      /\ Clipped \in Group /\ bus' = Carry(bus, Clipped)
      /\ Clipping = IF clp.state = "DRAWING" /\ clp.wait = 0 THEN clipIn[1] ELSE <<>>
      /\ clp.state # "DRAWING" => Clipped = <<>>
  BY <1>2 DEF ClipperStep
<1>4. PICK kept : SetupStep(SettingUp, kept, SetUp)
  BY DEF Cycle
<1>5. /\ SettingUp \in Group /\ setup' = Carry(setup, SettingUp)
      /\ SetUp \in Group /\ setupOut' = Carry(setupOut, SetUp)
      /\ SettingUp = IF ts.state = "DRAWING" /\ ts.wait = 0 THEN bus[1] ELSE <<>>
      /\ ts.state # "DRAWING" => SetUp = <<>>
  BY <1>4 DEF SetupStep
<1> QED BY <1>1, <1>3, <1>5

LEMMA TypedNext ==
  ASSUME Typed, Cycle
  PROVE  Typed'
<1>1. /\ clipIn' \in Pipe(1) /\ clipExec' \in Pipe(ClipLatency) /\ bus' \in Pipe(BusLatency)
      /\ setup' \in Pipe(SetupLatency) /\ setupOut' \in Pipe(OutputLatency)
  <2>1. /\ 1 \in Nat /\ 1 > 0 /\ ClipLatency \in Nat /\ ClipLatency > 0 /\ BusLatency \in Nat /\ BusLatency > 0
        /\ SetupLatency \in Nat /\ SetupLatency > 0 /\ OutputLatency \in Nat /\ OutputLatency > 0
    BY Sizes
  <2>2. /\ clipIn \in Pipe(1) /\ clipExec \in Pipe(ClipLatency) /\ bus \in Pipe(BusLatency)
        /\ setup \in Pipe(SetupLatency) /\ setupOut \in Pipe(OutputLatency)
    BY DEF Typed
  <2>3. /\ clipIn' = Carry(clipIn, Assembled) /\ clipExec' = Carry(clipExec, Clipping)
        /\ bus' = Carry(bus, Clipped) /\ setup' = Carry(setup, SettingUp)
        /\ setupOut' = Carry(setupOut, SetUp)
        /\ Assembled \in Group /\ Clipping \in Group /\ Clipped \in Group /\ SettingUp \in Group /\ SetUp \in Group
    BY Moves
  <2>4. /\ Carry(clipIn, Assembled) \in Pipe(1) /\ Carry(clipExec, Clipping) \in Pipe(ClipLatency)
        /\ Carry(bus, Clipped) \in Pipe(BusLatency)
    BY <2>1, <2>2, <2>3, CarryIs
  <2>5. /\ Carry(setup, SettingUp) \in Pipe(SetupLatency) /\ Carry(setupOut, SetUp) \in Pipe(OutputLatency)
    BY <2>1, <2>2, <2>3, CarryIs
  <2> QED BY <2>3, <2>4, <2>5
<1>2. pa' \in PaState
  BY DEF Cycle, AssemblyStep
<1>3. clp' \in ClpState /\ askAssembly' \in 0 .. TrianglesCycle
  BY DEF Cycle, ClipperStep
<1>4. ts' \in TsState /\ askClipper' \in 0 .. TrianglesCycle
  BY DEF Cycle, SetupStep
<1>5. tt' \in TtState /\ askSetup' \in 0 .. TrianglesCycle
  BY DEF Cycle, TraversalStep
<1>6. /\ cp' \in [status : {"READY", "DRAWING", "END_GEOMETRY", "END_FRAGMENT"}, started : BOOLEAN]
      /\ command' \in [geometry : {"none", "DRAW", "END"}, raster : {"none", "DRAW", "END"}]
      /\ batch' \in Batches /\ culling' \in { b.culling : b \in Batches }
  <2>1. /\ cp \in [status : {"READY", "DRAWING", "END_GEOMETRY", "END_FRAGMENT"}, started : BOOLEAN]
        /\ batch \in Batches /\ culling \in { b.culling : b \in Batches }
    BY DEF Typed
  <2>2. CASE Draw
    BY <2>1, <2>2 DEF Draw, Order
  <2>3. CASE EndGeometry
    BY <2>1, <2>3 DEF EndGeometry, Order
  <2>4. CASE DrawAhead
    BY <2>1, <2>4 DEF DrawAhead, Order
  <2>5. CASE EndFragment
    BY <2>1, <2>5 DEF EndFragment, Order
  <2>6. CASE NextBatch
    BY <2>1, <2>6 DEF NextBatch, Order
  <2>7. CASE AllDrawn
    BY <2>1, <2>7 DEF AllDrawn, Order
  <2>8. CASE OtherWork
    BY <2>1, <2>8 DEF OtherWork, Order
  <2> QED BY <2>2, <2>3, <2>4, <2>5, <2>6, <2>7, <2>8 DEF Cycle, CommandProcessorCycle
<1> QED BY <1>1, <1>2, <1>3, <1>4, <1>5, <1>6 DEF Typed

\* The Clipper sends only to a Triangle Setup that waits for it.
LEMMA ClippedWhen ==
  ASSUME IInv, Cycle, Clipped # <<>>
  PROVE  /\ clp.state = "DRAWING" /\ ~Passed /\ ts.state = "DRAWING" /\ ~ts.last /\ tt.state = "DRAWING"
         /\ CountDown(clp.busWait) = 0
<1>1. clp.state = "DRAWING"
  BY Moves DEF IInv
<1>2. Listened > 0
  <2>1. PICK new : ClipperStep(Clipping, new, Clipped)
    BY DEF Cycle
  <2>2. clp'.requested + Len(Clipped) = Listened /\ clp' \in ClpState /\ Clipped \in Group
    BY <1>1, <2>1 DEF ClipperStep
  <2>3. clp'.requested \in Nat
    BY <2>2 DEF ClpState
  <2>4. Len(Clipped) \in Nat /\ Len(Clipped) # 0
    BY <2>2, GroupIs
  <2> QED BY <2>2, <2>3, <2>4
<1>3. CountDown(clp.busWait) = 0
  BY <1>1 DEF Cycle, ClipperStep
<1>4. /\ Passed => clp.window > 0 \/ askClipper = 0
      /\ Passed \/ ts.state = "READY" => clp.requested = 0
      /\ ts.state = "READY" => askClipper = 0
  BY <1>1 DEF IInv, Forgotten
<1>5. ~Passed
  BY <1>2, <1>4 DEF Listened
<1>6. ts.state # "READY"
  BY <1>2, <1>4 DEF Listened
<1>7. ts.last => Passed
  BY <1>6 DEF IInv, SetupOrder
<1>8. ts.state # "END"
  BY <1>5, <1>7 DEF IInv, SetupOrder
<1>9. ts.state = "DRAWING" /\ tt.state = "DRAWING"
  BY <1>6, <1>8, PhaseFacts DEF IInv, States
<1> QED BY <1>1, <1>3, <1>5, <1>7, <1>9

\* The batch passes with the mark of its end, and a new one is in the
\* fragment phase when Triangle Traversal has ended the one before.
LEMMA PassedNext ==
  ASSUME IInv, Cycle
  PROVE  /\ ~Passed /\ Passed' => Ended(Clipped)
         /\ Passed /\ ~Passed' => ts.state # "DRAWING" /\ tt.state # "DRAWING"
                                  /\ (ts.state = "READY" \/ ts'.state = "READY")
         /\ Passed /\ clp.state = "DRAWING" => clp'.state = "DRAWING"
<1>1. /\ {pa.state, clp.state, ts.state, tt.state} \subseteq States
      /\ (ts.state = "READY") <=> (tt.state = "READY")
      /\ command.geometry = "END" => clp.state = "END"
      /\ command.raster = "END" => ts.state = "END" /\ tt.state = "END"
      /\ ~Passed => cp.status = "DRAWING" /\ clp.state # "END"
  BY PhaseFacts DEF IInv
<1>2. clp'.state = IF clp.state = "DRAWING" THEN IF Ended(Clipped) THEN "END" ELSE "DRAWING"
                   ELSE Ordered(clp, command.geometry)
  BY StatesAre
<1>3. ts'.state = IF ts.state = "DRAWING" THEN IF Ended(SetUp) THEN "END" ELSE "DRAWING"
                  ELSE Ordered(ts, command.raster)
  BY StatesAre
<1>4. cp'.status = cp.status \/ Draw \/ EndGeometry \/ EndFragment \/ NextBatch \/ AllDrawn
  <2>1. DrawAhead => cp'.status = cp.status
    BY DEF DrawAhead, IInv, Typed
  <2>2. OtherWork => cp'.status = cp.status
    BY DEF OtherWork
  <2> QED BY <2>1, <2>2 DEF Cycle, CommandProcessorCycle
<1>5. ASSUME ~Passed, Passed' PROVE Ended(Clipped)
  <2>1. cp.status = "DRAWING" /\ clp.state # "END"
    BY <1>1, <1>5
  <2>2. cp'.status = "DRAWING"
    BY <1>4, <2>1 DEF Draw, EndGeometry, EndFragment, NextBatch, AllDrawn
  <2>3. clp'.state = "END"
    BY <1>5, <2>2 DEF Passed
  <2> QED BY <1>2, <2>1, <2>3 DEF Ordered
<1>6. ASSUME Passed, clp.state = "DRAWING" PROVE clp'.state = "DRAWING"
  <2>1. Clipped = <<>>
    BY <1>6, ClippedWhen
  <2> QED BY <1>2, <1>6, <2>1 DEF Ended
<1>7. ASSUME Passed, ~Passed'
      PROVE  ts.state # "DRAWING" /\ tt.state # "DRAWING" /\ (ts.state = "READY" \/ ts'.state = "READY")
  <2>1. cp'.status = "DRAWING" /\ clp'.state # "END"
    BY <1>7 DEF Passed
  <2>2. CASE cp.status = "DRAWING"
    <3>1. clp.state = "END"
      BY <1>7, <2>2 DEF Passed
    <3>2. command.geometry = "none"
      BY <2>2, <3>1 DEF IInv, Phases, GeometryBegun, Geometry
    <3> QED BY <1>2, <2>1, <3>1, <3>2 DEF Ordered
  <2>3. CASE cp.status # "DRAWING"
    <3>1. Draw \/ NextBatch
      BY <1>4, <2>1, <2>3 DEF EndGeometry, EndFragment, AllDrawn, IInv, Typed
    <3>2. CASE Draw
      BY <1>1, <3>2 DEF Draw, IInv, Phases, Raster
    <3>3. CASE NextBatch
      <4>1. Raster("END", {"END"}) \/ Raster("none", {"READY"})
        BY <3>3 DEF NextBatch, IInv, Phases
      <4> QED BY <1>1, <1>3, <4>1 DEF Raster, Ordered
    <3> QED BY <3>1, <3>2, <3>3
  <2> QED BY <2>2, <2>3
<1> QED BY <1>5, <1>6, <1>7

-----------------------------------------------------------------------------
(* The order of the triangles in a cycle.                                  *)

LEMMA SplitsIs ==
  ASSUME NEW s \in Seq(Triangles), EndsBatch(s), NEW sent, NEW left, Splits(s, sent, left)
  PROVE  /\ left \in Seq(Triangles) /\ Len(sent) \in Nat /\ Len(left) \in Nat
         /\ Len(sent) + Len(left) = Len(s)
         /\ EndsBatch(sent) /\ EndsBatch(left)
         /\ Ended(sent) => Ended(s) /\ left = <<>>
         /\ Ended(left) => Ended(s)
<1>1. PICK n \in 0 .. Len(s) : sent = Take(s, n) /\ left = Drop(s, n)
  BY DEF Splits
<1>2. Len(s) \in Nat /\ n \in Nat
  OBVIOUS
<1>3. sent \in Seq(Triangles) /\ Len(sent) = n
  BY <1>1, TakeIs
<1>4. left \in Seq(Triangles) /\ Len(left) = Len(s) - n
  BY <1>1, DropIs
<1>5. /\ EndsBatch(sent) /\ EndsBatch(left)
      /\ Ended(sent) => n = Len(s) /\ Ended(s)
      /\ Ended(left) => Ended(s)
  BY <1>1, EndsTake
<1>6. n = Len(s) => left = <<>>
  <2> SUFFICES ASSUME n = Len(s) PROVE left = <<>>
    OBVIOUS
  <2>1. Len(left) = 0
    BY <1>2, <1>4
  <2> QED BY <1>4, <2>1
<1>7. Len(sent) \in Nat /\ Len(left) \in Nat /\ Len(sent) + Len(left) = Len(s)
  BY <1>2, <1>3, <1>4
<1> QED BY <1>4, <1>5, <1>6, <1>7

\* What a pipe is after a cycle in which group enters it.
Carried(pipe, group, next) ==
  /\ Orderly(next)
  /\ Holds(next) => Holds(pipe) \/ Ended(group)
  /\ Ended(pipe[1]) => Vacant(next)
  /\ Ended(group) => Holds(next)
  /\ Vacant(pipe) /\ group = <<>> => Vacant(next)
  /\ Vacant(next) => group = <<>>

LEMMA CarriedOn ==
  ASSUME NEW latency \in Nat, latency > 0, NEW pipe \in Pipe(latency), NEW group \in Group,
         Orderly(pipe), EndsBatch(group), Holds(pipe) => group = <<>>
  PROVE  Carried(pipe, group, Carry(pipe, group))
<1> DEFINE next == Carry(pipe, group)
<1>1. /\ Orderly(next) /\ (Holds(next) => Holds(pipe) \/ Ended(group))
      /\ (Ended(pipe[1]) => Vacant(next)) /\ (Ended(group) => Holds(next))
      /\ (Vacant(pipe) /\ group = <<>> => Vacant(next)) /\ (Vacant(next) => group = <<>>)
  BY CarryOrder
<1> HIDE DEF next
<1>2. Carried(pipe, group, next)
  BY <1>1 DEF Carried
<1> QED BY <1>2 DEF next

LEMMA FirstIn ==
  ASSUME NEW latency \in Nat, latency > 0, NEW pipe \in Pipe(latency)
  PROVE  /\ Orderly(pipe) => EndsBatch(pipe[1])
         /\ Vacant(pipe) => pipe[1] = <<>>
         /\ Ended(pipe[1]) => Holds(pipe)
<1>1. 1 \in DOMAIN pipe
  BY PipeIs
<1> QED BY <1>1 DEF Orderly, Vacant, Holds

LEMMA NothingEnds == EndsBatch(<<>>) /\ ~Ended(<<>>) /\ <<>> \in Group /\ Len(<<>>) = 0
<1>1. EndsBatch(<<>>)
  BY DEF EndsBatch
<1>2. <<>> \in Group
  BY Sizes DEF Group
<1> QED BY <1>1, <1>2 DEF Ended

\* What enters the units ends no batch but once.
LEMMA UnitsCarry ==
  ASSUME IInv, Cycle
  PROVE  /\ EndsBatch(Clipping) /\ (Vacant(clipIn) => Clipping = <<>>)
         /\ EndsBatch(SettingUp) /\ (Vacant(bus) => SettingUp = <<>>)
         /\ Carried(clipExec, Clipping, clipExec') /\ Carried(setup, SettingUp, setup')
<1>1. /\ 1 \in Nat /\ 1 > 0 /\ ClipLatency \in Nat /\ ClipLatency > 0 /\ BusLatency \in Nat /\ BusLatency > 0
      /\ SetupLatency \in Nat /\ SetupLatency > 0
  BY Sizes
<1>2. /\ clipIn \in Pipe(1) /\ clipExec \in Pipe(ClipLatency) /\ bus \in Pipe(BusLatency)
      /\ setup \in Pipe(SetupLatency)
  BY DEF IInv, Typed
<1>3. /\ Clipping \in Group /\ clipExec' = Carry(clipExec, Clipping)
      /\ Clipping = IF clp.state = "DRAWING" /\ clp.wait = 0 THEN clipIn[1] ELSE <<>>
      /\ SettingUp \in Group /\ setup' = Carry(setup, SettingUp)
      /\ SettingUp = IF ts.state = "DRAWING" /\ ts.wait = 0 THEN bus[1] ELSE <<>>
  BY Moves DEF IInv
<1>4. /\ Orderly(clipIn) /\ Orderly(clipExec) /\ (Holds(clipExec) => Vacant(clipIn))
  BY DEF IInv, ClipperOrder
<1>5. EndsBatch(clipIn[1]) /\ (Vacant(clipIn) => clipIn[1] = <<>>)
  BY <1>1, <1>2, <1>4, FirstIn
<1>6. EndsBatch(Clipping) /\ (Vacant(clipIn) => Clipping = <<>>)
  BY <1>3, <1>5, NothingEnds
<1>7. Carried(clipExec, Clipping, clipExec')
  <2>1. Carried(clipExec, Clipping, Carry(clipExec, Clipping))
    BY <1>1, <1>2, <1>3, <1>4, <1>6, CarriedOn
  <2> QED BY <1>3, <2>1
<1>8. /\ Orderly(bus) /\ Orderly(setup) /\ (ts.state = "DRAWING" /\ Holds(setup) => Vacant(bus))
      /\ (ts.state # "DRAWING" => Vacant(bus))
  BY DEF IInv, SetupOrder
<1>9. EndsBatch(bus[1]) /\ (Vacant(bus) => bus[1] = <<>>)
  BY <1>1, <1>2, <1>8, FirstIn
<1>10. EndsBatch(SettingUp) /\ (Vacant(bus) => SettingUp = <<>>)
  BY <1>3, <1>9, NothingEnds
<1>11. Carried(setup, SettingUp, setup')
  <2>1. Carried(setup, SettingUp, Carry(setup, SettingUp))
    BY <1>1, <1>2, <1>3, <1>8, <1>10, CarriedOn
  <2> QED BY <1>3, <2>1
<1> QED BY <1>6, <1>7, <1>10, <1>11

\* The buffer of the Clipper.
LEMMA ClipperEnds ==
  ASSUME IInv, Cycle, NEW new, ClipperStep(Clipping, new, Clipped), clp.state = "DRAWING"
  PROVE  /\ new \in Group /\ clp'.buffer \in Seq(Triangles)
         /\ Len(Clipped) + Len(clp'.buffer) = Len(clp.buffer) + Len(new)
         /\ EndsBatch(Clipped) /\ EndsBatch(clp'.buffer)
         /\ Ended(Clipped) => clp'.buffer = <<>>
         /\ Ended(Clipped) \/ Ended(clp'.buffer) =>
              pa.state = "END" /\ Vacant(clipIn) /\ Clipping = <<>> /\ Vacant(clipExec')
<1>1. /\ ClipLatency \in Nat /\ ClipLatency > 0 /\ clipExec \in Pipe(ClipLatency) /\ clipExec[1] \in Group
      /\ clp.buffer \in Seq(Triangles)
  BY Sizes, FirstOf DEF IInv, Typed, ClpState
<1>2. /\ Orderly(clipExec) /\ EndsBatch(clp.buffer)
      /\ Holds(clipExec) => pa.state = "END" /\ Vacant(clipIn)
      /\ Ended(clp.buffer) => pa.state = "END" /\ Vacant(clipIn) /\ Vacant(clipExec)
  BY DEF IInv, ClipperOrder
<1>3. /\ EndsBatch(clipExec[1]) /\ (Vacant(clipExec) => clipExec[1] = <<>>)
      /\ (Ended(clipExec[1]) => Holds(clipExec))
  BY <1>1, <1>2, FirstIn
<1>4. /\ Leaves(clipExec[1], new) /\ Splits(clp.buffer \o new, Clipped, clp'.buffer)
  BY DEF ClipperStep
<1>5. /\ new \in Group /\ Len(new) <= Len(clipExec[1]) /\ EndsBatch(new)
      /\ (Ended(new) => Ended(clipExec[1])) /\ new \in Seq(Triangles)
  BY <1>3, <1>4, GroupIs DEF Leaves
<1>6. Ended(clp.buffer) => new = <<>>
  <2> SUFFICES ASSUME clipExec[1] = <<>> PROVE new = <<>>
    BY <1>2, <1>3
  <2>1. Len(new) <= 0 /\ Len(new) \in Nat
    BY <1>1, <1>5, GroupIs
  <2>2. Len(new) = 0
    BY <2>1
  <2> QED BY <1>5, <2>2, GroupIs
<1> DEFINE s == clp.buffer \o new
<1>7. /\ s \in Seq(Triangles) /\ Len(s) = Len(clp.buffer) + Len(new) /\ EndsBatch(s)
      /\ Ended(s) => Ended(clp.buffer) \/ Ended(new)
  BY <1>1, <1>2, <1>5, <1>6, EndsConcat
<1>8. Splits(s, Clipped, clp'.buffer)
  BY <1>4
<1> HIDE DEF s
<1>9. /\ clp'.buffer \in Seq(Triangles) /\ Len(Clipped) + Len(clp'.buffer) = Len(s)
      /\ EndsBatch(Clipped) /\ EndsBatch(clp'.buffer)
      /\ Ended(Clipped) => Ended(s) /\ clp'.buffer = <<>>
      /\ Ended(clp'.buffer) => Ended(s)
  BY <1>7, <1>8, SplitsIs, SMTT(30)
<1>10. ASSUME Ended(s)
       PROVE  pa.state = "END" /\ Vacant(clipIn) /\ Clipping = <<>> /\ Vacant(clipExec')
  <2>1. \/ Ended(clp.buffer) \/ Ended(clipExec[1])
    BY <1>5, <1>7, <1>10
  <2>2. pa.state = "END" /\ Vacant(clipIn)
    BY <1>2, <1>3, <2>1
  <2>3. Clipping = <<>> /\ Carried(clipExec, Clipping, clipExec')
    BY <2>2, UnitsCarry
  <2>4. Vacant(clipExec')
    BY <1>2, <2>1, <2>3 DEF Carried
  <2> QED BY <2>2, <2>3, <2>4
<1> QED BY <1>5, <1>7, <1>9, <1>10

\* The FIFO of Triangle Setup.
LEMMA SetupEnds ==
  ASSUME IInv, Cycle, NEW new, SetupStep(SettingUp, new, SetUp), ts.state = "DRAWING"
  PROVE  /\ new \in Group /\ ts'.fifo \in Seq(Triangles)
         /\ Len(SetUp) + Len(ts'.fifo) = Len(ts.fifo) + Len(new)
         /\ EndsBatch(SetUp) /\ EndsBatch(ts'.fifo)
         /\ Ended(SetUp) => ts'.fifo = <<>>
         /\ Ended(SetUp) \/ Ended(ts'.fifo) =>
              ts.last /\ Passed /\ Vacant(bus) /\ SettingUp = <<>> /\ Vacant(setup')
<1>1. /\ SetupLatency \in Nat /\ SetupLatency > 0 /\ setup \in Pipe(SetupLatency) /\ setup[1] \in Group
      /\ ts.fifo \in Seq(Triangles)
  BY Sizes, FirstOf DEF IInv, Typed, TsState
<1>2. /\ Orderly(setup) /\ EndsBatch(ts.fifo)
      /\ ts.last => Passed /\ Vacant(bus)
      /\ Holds(setup) => ts.last
      /\ Ended(ts.fifo) => ts.last /\ Vacant(setup)
  BY DEF IInv, SetupOrder
<1>3. /\ EndsBatch(setup[1]) /\ (Vacant(setup) => setup[1] = <<>>)
      /\ (Ended(setup[1]) => Holds(setup))
  BY <1>1, <1>2, FirstIn
<1>4. /\ Leaves(setup[1], new) /\ Splits(ts.fifo \o new, SetUp, ts'.fifo)
  BY DEF SetupStep
<1>5. /\ new \in Group /\ Len(new) <= Len(setup[1]) /\ EndsBatch(new)
      /\ (Ended(new) => Ended(setup[1])) /\ new \in Seq(Triangles)
  BY <1>3, <1>4, GroupIs DEF Leaves
<1>6. Ended(ts.fifo) => new = <<>>
  <2> SUFFICES ASSUME setup[1] = <<>> PROVE new = <<>>
    BY <1>2, <1>3
  <2>1. Len(new) <= 0 /\ Len(new) \in Nat
    BY <1>1, <1>5, GroupIs
  <2>2. Len(new) = 0
    BY <2>1
  <2> QED BY <1>5, <2>2, GroupIs
<1> DEFINE s == ts.fifo \o new
<1>7. /\ s \in Seq(Triangles) /\ Len(s) = Len(ts.fifo) + Len(new) /\ EndsBatch(s)
      /\ Ended(s) => Ended(ts.fifo) \/ Ended(new)
  BY <1>1, <1>2, <1>5, <1>6, EndsConcat
<1>8. Splits(s, SetUp, ts'.fifo)
  BY <1>4
<1> HIDE DEF s
<1>9. /\ ts'.fifo \in Seq(Triangles) /\ Len(SetUp) + Len(ts'.fifo) = Len(s)
      /\ EndsBatch(SetUp) /\ EndsBatch(ts'.fifo)
      /\ Ended(SetUp) => Ended(s) /\ ts'.fifo = <<>>
      /\ Ended(ts'.fifo) => Ended(s)
  BY <1>7, <1>8, SplitsIs, SMTT(30)
<1>10. ASSUME Ended(s)
       PROVE  ts.last /\ Passed /\ Vacant(bus) /\ SettingUp = <<>> /\ Vacant(setup')
  <2>1. \/ Ended(ts.fifo) \/ Ended(setup[1])
    BY <1>5, <1>7, <1>10
  <2>2. ts.last /\ Passed /\ Vacant(bus)
    BY <1>2, <1>3, <2>1
  <2>3. SettingUp = <<>> /\ Carried(setup, SettingUp, setup')
    BY <2>2, UnitsCarry
  <2>4. Vacant(setup')
    BY <1>2, <2>1, <2>3 DEF Carried
  <2> QED BY <2>2, <2>3, <2>4
<1> QED BY <1>5, <1>7, <1>9, <1>10

\* What enters the buses ends no batch but once.
LEMMA BusesCarry ==
  ASSUME IInv, Cycle
  PROVE  /\ EndsBatch(Clipped) /\ EndsBatch(SetUp)
         /\ Carried(clipIn, Assembled, clipIn') /\ Carried(bus, Clipped, bus')
         /\ Carried(setupOut, SetUp, setupOut')
<1>1. /\ 1 \in Nat /\ 1 > 0 /\ BusLatency \in Nat /\ BusLatency > 0 /\ OutputLatency \in Nat /\ OutputLatency > 0
  BY Sizes
<1>2. /\ clipIn \in Pipe(1) /\ bus \in Pipe(BusLatency) /\ setupOut \in Pipe(OutputLatency)
  BY DEF IInv, Typed
<1>3. /\ Assembled \in Group /\ clipIn' = Carry(clipIn, Assembled) /\ EndsBatch(Assembled)
      /\ pa.state # "DRAWING" => Assembled = <<>>
      /\ Clipped \in Group /\ bus' = Carry(bus, Clipped)
      /\ clp.state # "DRAWING" => Clipped = <<>>
      /\ SetUp \in Group /\ setupOut' = Carry(setupOut, SetUp)
      /\ ts.state # "DRAWING" => SetUp = <<>>
  BY Moves DEF IInv
<1>4. Carried(clipIn, Assembled, clipIn')
  <2>1. Orderly(clipIn) /\ (Holds(clipIn) => pa.state = "END")
    BY DEF IInv, ClipperOrder
  <2>2. Carried(clipIn, Assembled, Carry(clipIn, Assembled))
    BY <1>1, <1>2, <1>3, <2>1, CarriedOn
  <2> QED BY <1>3, <2>2
<1>5. EndsBatch(Clipped)
  <2>1. CASE clp.state = "DRAWING"
    <3>1. PICK new : ClipperStep(Clipping, new, Clipped)
      BY DEF Cycle
    <3> QED BY <2>1, <3>1, ClipperEnds
  <2>2. CASE clp.state # "DRAWING"
    BY <1>3, <2>2, NothingEnds
  <2> QED BY <2>1, <2>2
<1>6. EndsBatch(SetUp)
  <2>1. CASE ts.state = "DRAWING"
    <3>1. PICK new : SetupStep(SettingUp, new, SetUp)
      BY DEF Cycle
    <3> QED BY <2>1, <3>1, SetupEnds
  <2>2. CASE ts.state # "DRAWING"
    BY <1>3, <2>2, NothingEnds
  <2> QED BY <2>1, <2>2
<1>7. Carried(bus, Clipped, bus')
  <2>1. Orderly(bus) /\ (Holds(bus) => Passed)
    BY DEF IInv, SetupOrder
  <2>2. Holds(bus) => Clipped = <<>>
    BY <2>1, ClippedWhen
  <2>3. Carried(bus, Clipped, Carry(bus, Clipped))
    BY <1>1, <1>2, <1>3, <1>5, <2>1, <2>2, CarriedOn
  <2> QED BY <1>3, <2>3
<1>8. Carried(setupOut, SetUp, setupOut')
  <2>1. Orderly(setupOut) /\ (Holds(setupOut) => ts.state = "END")
    BY DEF IInv, TraversalOrder
  <2>2. Carried(setupOut, SetUp, Carry(setupOut, SetUp))
    BY <1>1, <1>2, <1>3, <1>6, <2>1, CarriedOn
  <2> QED BY <1>3, <2>2
<1> QED BY <1>4, <1>5, <1>6, <1>7, <1>8

-----------------------------------------------------------------------------
(* The cycle keeps the phases.                                             *)

\* Where the states of the boxes go.
LEMMA StatesNext ==
  ASSUME IInv, Cycle
  PROVE  /\ Geometry("none", {"READY"}) \/ Geometry("END", {"END"}) => {pa'.state, clp'.state} \subseteq {"READY"}
         /\ GeometryBegun => {pa'.state, clp'.state} \subseteq AtWork
         /\ GeometryBegun /\ clp.state # "END" /\ Passed => clp'.state = "DRAWING"
         /\ Geometry("none", AtWork) /\ clp.state = "END" => {pa'.state, clp'.state} \subseteq {"END"}
         /\ Raster("none", {"READY"}) \/ Raster("END", {"END"}) => {ts'.state, tt'.state} \subseteq {"READY"}
         /\ RasterBegun => {ts'.state, tt'.state} \subseteq AtWork
         /\ Raster("none", AtWork) /\ ts.state = "END" /\ tt.state = "END" => {ts'.state, tt'.state} \subseteq {"END"}
<1>1. pa'.state = IF pa.state = "DRAWING" THEN IF Ended(Assembled) THEN "END" ELSE "DRAWING"
                  ELSE Ordered(pa, command.geometry)
  BY StatesAre
<1>2. clp'.state = IF clp.state = "DRAWING" THEN IF Ended(Clipped) THEN "END" ELSE "DRAWING"
                   ELSE Ordered(clp, command.geometry)
  BY StatesAre
<1>3. ts'.state = IF ts.state = "DRAWING" THEN IF Ended(SetUp) THEN "END" ELSE "DRAWING"
                  ELSE Ordered(ts, command.raster)
  BY StatesAre
<1>4. IF tt.state = "DRAWING" THEN tt'.state \in AtWork ELSE tt'.state = Ordered(tt, command.raster)
  BY StatesAre DEF AtWork
<1>5. Geometry("none", {"READY"}) \/ Geometry("END", {"END"}) => {pa'.state, clp'.state} \subseteq {"READY"}
  BY <1>1, <1>2 DEF Geometry, Ordered
<1>6. GeometryBegun => {pa'.state, clp'.state} \subseteq AtWork
  BY <1>1, <1>2 DEF GeometryBegun, Geometry, AtWork, Ordered
<1>7. GeometryBegun /\ clp.state # "END" /\ Passed => clp'.state = "DRAWING"
  BY <1>2, PassedNext DEF GeometryBegun, Geometry, AtWork, Ordered
<1>8. Geometry("none", AtWork) /\ clp.state = "END" => {pa'.state, clp'.state} \subseteq {"END"}
  <2>1. clp.state = "END" => pa.state = "END"
    BY DEF IInv, Phases
  <2> QED BY <1>1, <1>2, <2>1 DEF Geometry, Ordered
<1>9. Raster("none", {"READY"}) \/ Raster("END", {"END"}) => {ts'.state, tt'.state} \subseteq {"READY"}
  BY <1>3, <1>4 DEF Raster, Ordered
<1>10. RasterBegun => {ts'.state, tt'.state} \subseteq AtWork
  BY <1>3, <1>4 DEF RasterBegun, Raster, AtWork, Ordered
<1>11. Raster("none", AtWork) /\ ts.state = "END" /\ tt.state = "END" => {ts'.state, tt'.state} \subseteq {"END"}
  BY <1>3, <1>4 DEF Raster, Ordered
<1> QED BY <1>5, <1>6, <1>7, <1>8, <1>9, <1>10, <1>11

LEMMA PhasesNext ==
  ASSUME IInv, Cycle
  PROVE  Phases'
<1>1. /\ Geometry("none", {"READY"}) \/ Geometry("END", {"END"}) => {pa'.state, clp'.state} \subseteq {"READY"}
      /\ GeometryBegun => {pa'.state, clp'.state} \subseteq AtWork
      /\ GeometryBegun /\ clp.state # "END" /\ Passed => clp'.state = "DRAWING"
      /\ Geometry("none", AtWork) /\ clp.state = "END" => {pa'.state, clp'.state} \subseteq {"END"}
  BY StatesNext
<1>2. /\ Raster("none", {"READY"}) \/ Raster("END", {"END"}) => {ts'.state, tt'.state} \subseteq {"READY"}
      /\ RasterBegun => {ts'.state, tt'.state} \subseteq AtWork
      /\ Raster("none", AtWork) /\ ts.state = "END" /\ tt.state = "END" => {ts'.state, tt'.state} \subseteq {"END"}
  BY StatesNext
<1>3. Phases /\ cp \in [status : {"READY", "DRAWING", "END_GEOMETRY", "END_FRAGMENT"}, started : BOOLEAN]
  BY DEF IInv, Typed
<1>4. cp.status # "DRAWING" => Passed
  BY DEF Passed
<1>5. (clp'.state = "END" => pa'.state = "END") /\ (tt'.state = "END" => ts'.state = "END")
  <2>1. pa'.state = IF pa.state = "DRAWING" THEN IF Ended(Assembled) THEN "END" ELSE "DRAWING"
                    ELSE Ordered(pa, command.geometry)
    BY StatesAre
  <2>2. clp'.state = IF clp.state = "DRAWING" THEN IF Ended(Clipped) THEN "END" ELSE "DRAWING"
                     ELSE Ordered(clp, command.geometry)
    BY StatesAre
  <2>3. ts'.state = IF ts.state = "DRAWING" THEN IF Ended(SetUp) THEN "END" ELSE "DRAWING"
                    ELSE Ordered(ts, command.raster)
    BY StatesAre
  <2>4. IF tt.state = "DRAWING" THEN tt'.state = "DRAWING" \/ (tt'.state = "END" /\ Ended(tt.queue))
        ELSE tt'.state = Ordered(tt, command.raster)
    BY StatesAre
  <2>5. /\ command.geometry = "END" => clp.state = "END"
        /\ command.geometry = "DRAW" => pa.state = "READY"
        /\ command.raster = "END" => tt.state = "END"
        /\ command.raster = "DRAW" => ts.state = "READY"
        /\ clp.state = "END" => pa.state = "END"
        /\ tt.state = "END" => ts.state = "END"
    BY <1>3, PhaseFacts DEF IInv, Phases
  <2>6. clp.state = "DRAWING" /\ Ended(Clipped) => pa.state = "END"
    <3> SUFFICES ASSUME clp.state = "DRAWING", Ended(Clipped) PROVE pa.state = "END"
      OBVIOUS
    <3>1. PICK new : ClipperStep(Clipping, new, Clipped)
      BY DEF Cycle
    <3> QED BY <3>1, ClipperEnds
  <2>7. Ended(tt.queue) => ts.state = "END"
    BY DEF IInv, TraversalOrder
  <2>8. clp'.state = "END" => pa'.state = "END"
    BY <2>1, <2>2, <2>5, <2>6 DEF Ordered
  <2>9. tt'.state = "END" => ts'.state = "END"
    <3>1. tt.state = "DRAWING" => command.raster # "END"
      BY <2>5
    <3>2. tt'.state = "END" => ts.state = "END" /\ command.raster # "END" /\ command.raster # "DRAW"
      BY <2>4, <2>5, <2>7, <3>1 DEF Ordered
    <3> QED BY <2>3, <3>2 DEF Ordered
  <2> QED BY <2>8, <2>9
<1> DEFINE Of(status, started, geometry, raster) ==
             /\ cp' = [status |-> status, started |-> started]
             /\ command' = [geometry |-> geometry, raster |-> raster]
<1>6. CASE Draw
  <2>1. Of("DRAWING", TRUE, "DRAW", "DRAW") /\ Geometry("none", {"READY"}) /\ Raster("none", {"READY"})
    BY <1>3, <1>6 DEF Draw, Order, Phases
  <2>2. {pa'.state, clp'.state} \subseteq {"READY"} /\ {ts'.state, tt'.state} \subseteq {"READY"}
    BY <1>1, <1>2, <2>1
  <2> QED BY <1>5, <2>1, <2>2 DEF Phases, GeometryBegun, Geometry, RasterBegun, Raster
<1>7. CASE EndGeometry
  <2>1. Of("END_GEOMETRY", FALSE, "END", "none") /\ GeometryBegun /\ RasterBegun
    BY <1>3, <1>7 DEF EndGeometry, Order, Phases
  <2>2. Geometry("none", AtWork) /\ clp.state = "END"
    BY <1>7, <2>1 DEF EndGeometry, GeometryBegun, Geometry
  <2>3. {pa'.state, clp'.state} \subseteq {"END"} /\ {ts'.state, tt'.state} \subseteq AtWork
    BY <1>1, <1>2, <2>1, <2>2
  <2> QED BY <1>5, <2>1, <2>3 DEF Phases, Geometry, Raster, AtWork
<1>8. CASE DrawAhead
  <2>1. /\ Of("END_GEOMETRY", TRUE, "DRAW", "none") /\ Raster("none", AtWork)
        /\ Geometry("none", {"READY"}) \/ Geometry("END", {"END"})
    BY <1>3, <1>8 DEF DrawAhead, Order, Phases
  <2>2. {pa'.state, clp'.state} \subseteq {"READY"} /\ {ts'.state, tt'.state} \subseteq AtWork
    BY <1>1, <1>2, <2>1 DEF RasterBegun
  <2> QED BY <1>5, <2>1, <2>2 DEF Phases, GeometryBegun, Geometry, Raster
<1>9. CASE EndFragment
  <2>1. Of("END_FRAGMENT", cp.started, "none", "END") /\ Raster("none", AtWork)
    BY <1>3, <1>9 DEF EndFragment, Order, Phases
  <2>2. {ts'.state, tt'.state} \subseteq {"END"}
    BY <1>2, <1>9, <2>1 DEF EndFragment
  <2>3. IF cp.started THEN {pa'.state, clp'.state} \subseteq AtWork /\ clp'.state = "DRAWING"
        ELSE {pa'.state, clp'.state} \subseteq {"READY"}
    BY <1>1, <1>3, <1>4, <1>9 DEF EndFragment, Phases
  <2> QED BY <1>5, <2>1, <2>2, <2>3 DEF Phases, Geometry, Raster
<1>10. CASE NextBatch
  <2>1. /\ Of("DRAWING", TRUE, "none", "DRAW") /\ Geometry("none", AtWork) /\ clp.state # "END" /\ Passed
        /\ Raster("END", {"END"}) \/ Raster("none", {"READY"})
    BY <1>3, <1>4, <1>10 DEF NextBatch, Order, Phases
  <2>2. /\ {pa'.state, clp'.state} \subseteq AtWork /\ clp'.state = "DRAWING"
        /\ {ts'.state, tt'.state} \subseteq {"READY"}
    BY <1>1, <1>2, <2>1 DEF GeometryBegun
  <2> QED BY <1>5, <2>1, <2>2 DEF Phases, GeometryBegun, Geometry, RasterBegun, Raster
<1>11. CASE AllDrawn
  <2>1. /\ Of("READY", FALSE, "none", "none") /\ Geometry("none", {"READY"})
        /\ Raster("END", {"END"}) \/ Raster("none", {"READY"})
    BY <1>3, <1>11 DEF AllDrawn, Order, Phases
  <2>2. {pa'.state, clp'.state} \subseteq {"READY"} /\ {ts'.state, tt'.state} \subseteq {"READY"}
    BY <1>1, <1>2, <2>1
  <2> QED BY <1>5, <2>1, <2>2 DEF Phases, Geometry, Raster
<1>12. CASE OtherWork
  <2>1. cp' = cp /\ command' = [geometry |-> "none", raster |-> "none"]
    BY <1>12 DEF OtherWork, Order
  <2>2. CASE cp.status = "READY"
    <3>1. {pa'.state, clp'.state} \subseteq {"READY"} /\ {ts'.state, tt'.state} \subseteq {"READY"}
      BY <1>1, <1>2, <1>3, <2>2 DEF Phases
    <3> QED BY <1>3, <2>1, <2>2, <3>1 DEF Phases, Geometry, Raster
  <2>3. CASE cp.status = "DRAWING"
    <3>1. {pa'.state, clp'.state} \subseteq AtWork /\ {ts'.state, tt'.state} \subseteq AtWork /\ cp.started
      BY <1>1, <1>2, <1>3, <2>3 DEF Phases
    <3> QED BY <1>3, <1>5, <2>1, <2>3, <3>1 DEF Phases, GeometryBegun, Geometry, RasterBegun, Raster
  <2>4. CASE cp.status = "END_GEOMETRY"
    <3>1. {ts'.state, tt'.state} \subseteq AtWork
      BY <1>2, <1>3, <2>4 DEF Phases, RasterBegun
    <3>2. IF cp.started THEN {pa'.state, clp'.state} \subseteq AtWork /\ clp'.state = "DRAWING"
          ELSE {pa'.state, clp'.state} \subseteq {"READY"}
      BY <1>1, <1>3, <1>4, <2>4 DEF Phases
    <3> QED BY <1>3, <1>5, <2>1, <2>4, <3>1, <3>2 DEF Phases, GeometryBegun, Geometry, Raster
  <2>5. CASE cp.status = "END_FRAGMENT"
    <3>1. {ts'.state, tt'.state} \subseteq {"READY"}
      BY <1>2, <1>3, <2>5 DEF Phases
    <3>2. IF cp.started THEN {pa'.state, clp'.state} \subseteq AtWork /\ clp'.state = "DRAWING"
          ELSE {pa'.state, clp'.state} \subseteq {"READY"}
      BY <1>1, <1>3, <1>4, <2>5 DEF Phases, GeometryBegun
    <3> QED BY <1>3, <1>5, <2>1, <2>5, <3>1, <3>2 DEF Phases, Geometry, Raster
  <2> QED BY <1>3, <2>2, <2>3, <2>4, <2>5
<1> QED BY <1>6, <1>7, <1>8, <1>9, <1>10, <1>11, <1>12 DEF Cycle, CommandProcessorCycle

-----------------------------------------------------------------------------
(* The cycle keeps the order of the triangles.                             *)

LEMMA NoneHeld ==
  ASSUME NEW pipe, Vacant(pipe)
  PROVE  ~Holds(pipe)
BY DEF Vacant, Holds, Ended

\* The bus into the Clipper holds what has just been assembled.
LEMMA ClipInIs ==
  ASSUME Typed, Cycle
  PROVE  /\ Vacant(clipIn') <=> Assembled = <<>>
         /\ Holds(clipIn') <=> Ended(Assembled)
<1>1. clipIn' \in Pipe(1)
  BY TypedNext DEF Typed
<1>2. DOMAIN clipIn' = {1}
  BY <1>1 DEF Pipe
<1> QED BY <1>2 DEF Vacant, Holds, Assembled

LEMMA ClipperOrderNext ==
  ASSUME IInv, Cycle
  PROVE  ClipperOrder'
<1>1. /\ {pa.state, clp.state} \subseteq States
      /\ command.geometry \in {"none", "DRAW", "END"}
      /\ command.geometry = "DRAW" => pa.state = "READY"
      /\ command.geometry = "END" => clp.state = "END"
      /\ pa.state = "DRAWING" => clp.state = "DRAWING"
  BY PhaseFacts DEF IInv
<1>2. pa'.state = IF pa.state = "DRAWING" THEN IF Ended(Assembled) THEN "END" ELSE "DRAWING"
                  ELSE Ordered(pa, command.geometry)
  BY StatesAre
<1>3. clp'.state = IF clp.state = "DRAWING" THEN IF Ended(Clipped) THEN "END" ELSE "DRAWING"
                   ELSE Ordered(clp, command.geometry)
  BY StatesAre
<1>4. Carried(clipIn, Assembled, clipIn') /\ Carried(clipExec, Clipping, clipExec')
  BY UnitsCarry, BusesCarry
<1>5. (Vacant(clipIn') <=> Assembled = <<>>) /\ (Holds(clipIn') <=> Ended(Assembled))
  BY ClipInIs DEF IInv
<1>6. /\ pa.state # "DRAWING" => Assembled = <<>>
      /\ Clipping = IF clp.state = "DRAWING" /\ clp.wait = 0 THEN clipIn[1] ELSE <<>>
  BY Moves DEF IInv
<1>7. ~Ended(<<>>)
  BY NothingEnds
<1>8. /\ Holds(clipIn) => pa.state = "END"
      /\ Holds(clipExec) => pa.state = "END"
      /\ clp.state # "DRAWING" => Vacant(clipExec) /\ clp.buffer = <<>>
  BY DEF IInv, ClipperOrder
<1>9. ASSUME pa.state = "END", clp.state = "DRAWING"
      PROVE  pa'.state = "END" /\ Vacant(clipIn')
  BY <1>1, <1>2, <1>5, <1>6, <1>9 DEF Ordered
<1>10. Holds(clipIn') => pa'.state = "END"
  BY <1>2, <1>5, <1>6, <1>7
<1>11. ASSUME Holds(clipExec') PROVE pa'.state = "END" /\ Vacant(clipIn')
  <2>1. Holds(clipExec) \/ Ended(Clipping)
    BY <1>4, <1>11 DEF Carried
  <2>2. CASE Holds(clipExec)
    BY <1>8, <1>9, <2>2, NoneHeld
  <2>3. CASE Ended(Clipping)
    <3>1. clp.state = "DRAWING" /\ Ended(clipIn[1])
      BY <1>6, <1>7, <2>3
    <3>2. 1 \in Nat /\ 1 > 0 /\ clipIn \in Pipe(1)
      BY DEF IInv, Typed
    <3>3. Holds(clipIn)
      BY <3>1, <3>2, FirstIn
    <3> QED BY <1>8, <1>9, <3>1, <3>3
  <2> QED BY <2>1, <2>2, <2>3
<1>12. PICK new : ClipperStep(Clipping, new, Clipped)
  BY DEF Cycle
<1>13. CASE clp.state = "DRAWING"
  <2>1. /\ EndsBatch(clp'.buffer)
        /\ Ended(Clipped) => clp'.buffer = <<>>
        /\ Ended(Clipped) \/ Ended(clp'.buffer) => pa.state = "END" /\ Vacant(clipExec')
    BY <1>12, <1>13, ClipperEnds
  <2>2. Ended(clp'.buffer) => pa'.state = "END" /\ Vacant(clipIn') /\ Vacant(clipExec')
    BY <1>9, <1>13, <2>1
  <2>3. clp'.state # "DRAWING" => Vacant(clipIn') /\ Vacant(clipExec') /\ clp'.buffer = <<>>
    BY <1>3, <1>9, <1>13, <2>1
  <2> QED BY <1>4, <1>10, <1>11, <2>1, <2>2, <2>3 DEF ClipperOrder, Carried
<1>14. CASE clp.state # "DRAWING"
  <2>1. clp'.buffer = <<>>
    BY <1>8, <1>12, <1>14 DEF ClipperStep
  <2>2. EndsBatch(clp'.buffer) /\ ~Ended(clp'.buffer)
    BY <2>1, NothingEnds
  <2>3. Vacant(clipIn') /\ Vacant(clipExec')
    BY <1>1, <1>4, <1>5, <1>6, <1>8, <1>14 DEF Carried
  <2> QED BY <1>4, <1>10, <1>11, <2>1, <2>2, <2>3 DEF ClipperOrder, Carried
<1> QED BY <1>13, <1>14

LEMMA SetupOrderNext ==
  ASSUME IInv, Cycle
  PROVE  SetupOrder'
<1>1. /\ {ts.state, tt.state} \subseteq States
      /\ command.raster \in {"none", "DRAW", "END"}
      /\ command.raster = "DRAW" => ts.state = "READY"
      /\ command.raster = "END" => ts.state = "END"
  BY PhaseFacts DEF IInv
<1>2. ts'.state = IF ts.state = "DRAWING" THEN IF Ended(SetUp) THEN "END" ELSE "DRAWING"
                  ELSE Ordered(ts, command.raster)
  BY StatesAre
<1>3. Carried(bus, Clipped, bus') /\ Carried(setup, SettingUp, setup') /\ EndsBatch(SettingUp)
  BY UnitsCarry, BusesCarry
<1>4. /\ SettingUp = IF ts.state = "DRAWING" /\ ts.wait = 0 THEN bus[1] ELSE <<>>
      /\ SettingUp \in Group
  BY Moves DEF IInv
<1>5. ~Ended(<<>>)
  BY NothingEnds
<1>6. /\ Holds(bus) => Passed /\ ~ts.last
      /\ ts.last /\ ts.state # "READY" => Passed /\ Vacant(bus)
      /\ Holds(setup) => ts.last
      /\ ts.state # "DRAWING" => Vacant(bus) /\ Vacant(setup) /\ ts.fifo = <<>>
      /\ ts.state = "END" => ts.last
  BY DEF IInv, SetupOrder
<1>7. BusLatency \in Nat /\ BusLatency > 0 /\ bus \in Pipe(BusLatency)
  BY Sizes DEF IInv, Typed
<1>8. ts.state # "DRAWING" => Clipped = <<>>
  BY ClippedWhen
<1>9. ts.state # "READY" /\ ts'.state # "READY" /\ Passed => Passed'
  BY PassedNext
<1>10. PICK new : SetupStep(SettingUp, new, SetUp)
  BY DEF Cycle
<1>11. CASE ts.state = "DRAWING"
  <2>1. /\ EndsBatch(ts'.fifo)
        /\ Ended(SetUp) => ts'.fifo = <<>>
        /\ Ended(SetUp) \/ Ended(ts'.fifo) =>
             ts.last /\ Passed /\ Vacant(bus) /\ SettingUp = <<>> /\ Vacant(setup')
    BY <1>10, <1>11, SetupEnds
  <2>2. ts'.last = IF SettingUp # <<>> THEN Newest(SettingUp).last ELSE ts.last
    BY <1>10, <1>11 DEF SetupStep
  <2>3. ts'.state # "READY"
    BY <1>2, <1>11
  <2>4. ASSUME Ended(SettingUp) PROVE ts'.last /\ Passed /\ Vacant(bus')
    <3>1. Ended(bus[1])
      BY <1>4, <1>5, <2>4
    <3>2. Holds(bus) /\ Vacant(bus')
      BY <1>3, <1>7, <3>1, FirstIn DEF Carried
    <3> QED BY <1>6, <2>2, <2>4, <3>2 DEF Ended
  <2>5. ASSUME Holds(bus') PROVE Passed' /\ ~ts'.last
    <3>1. Vacant(bus) => SettingUp = <<>>
      BY UnitsCarry
    <3>2. CASE Holds(bus)
      <4>1. Passed /\ ~ts.last
        BY <1>6, <3>2
      <4>2. ~Ended(SettingUp)
        BY <2>4, <2>5, NoneHeld
      <4> QED BY <1>9, <1>11, <2>2, <2>3, <4>1, <4>2 DEF Ended
    <3>3. CASE ~Holds(bus)
      <4>1. Ended(Clipped)
        BY <1>3, <2>5, <3>3 DEF Carried
      <4>2. clp.state = "DRAWING" /\ ~ts.last
        BY <1>5, <4>1, ClippedWhen
      <4>3. clp'.state = "END"
        BY <4>1, <4>2, StatesAre
      <4>4. ~Ended(SettingUp)
        BY <1>4, <1>5, <1>7, <3>3, FirstIn
      <4> QED BY <2>2, <4>2, <4>3, <4>4 DEF Ended, Passed
    <3> QED BY <3>2, <3>3
  <2>6. ts'.last => Passed' /\ Vacant(bus')
    <3> SUFFICES ASSUME ts'.last PROVE Passed' /\ Vacant(bus')
      OBVIOUS
    <3>1. CASE SettingUp # <<>>
      <4>1. Ended(SettingUp)
        BY <2>2, <3>1 DEF Ended
      <4> QED BY <1>9, <1>11, <2>3, <2>4, <4>1
    <3>2. CASE SettingUp = <<>>
      <4>1. ts.last
        BY <2>2, <3>2
      <4>2. Passed /\ Vacant(bus)
        BY <1>6, <1>11, <4>1
      <4>3. Clipped = <<>>
        BY <4>2, ClippedWhen
      <4> QED BY <1>3, <1>9, <1>11, <2>3, <4>2, <4>3 DEF Carried
    <3> QED BY <3>1, <3>2
  <2>7. Holds(setup') => ts'.last
    <3> SUFFICES ASSUME Holds(setup') PROVE ts'.last
      OBVIOUS
    <3>1. Holds(setup) \/ Ended(SettingUp)
      BY <1>3 DEF Carried
    <3>2. CASE Holds(setup)
      <4>1. ts.last /\ Vacant(bus)
        BY <1>6, <1>11, <3>2
      <4>2. SettingUp = <<>>
        BY <4>1, UnitsCarry
      <4> QED BY <2>2, <4>1, <4>2
    <3> QED BY <2>4, <3>1, <3>2
  <2>8. Ended(ts'.fifo) => ts'.last /\ Vacant(setup')
    BY <2>1, <2>2
  <2>9. ts'.state # "DRAWING" => Vacant(bus') /\ Vacant(setup') /\ ts'.fifo = <<>> /\ ts'.last
    <3> SUFFICES ASSUME ts'.state # "DRAWING"
                 PROVE  Vacant(bus') /\ Vacant(setup') /\ ts'.fifo = <<>> /\ ts'.last
      OBVIOUS
    <3>1. Ended(SetUp)
      BY <1>2, <1>11
    <3>2. ts'.last
      BY <2>1, <2>2, <3>1
    <3> QED BY <2>1, <2>6, <3>1, <3>2
  <2> QED BY <1>3, <2>1, <2>5, <2>6, <2>7, <2>8, <2>9 DEF SetupOrder, Carried
<1>12. CASE ts.state # "DRAWING"
  <2>1. Vacant(bus') /\ Vacant(setup')
    BY <1>3, <1>4, <1>6, <1>8, <1>12 DEF Carried
  <2>2. ts'.fifo = <<>>
    BY <1>6, <1>10, <1>12 DEF SetupStep
  <2>3. EndsBatch(ts'.fifo) /\ ~Ended(ts'.fifo)
    BY <2>2, NothingEnds
  <2>4. ~Holds(bus') /\ ~Holds(setup')
    BY <2>1, NoneHeld
  <2>5. ts'.last /\ ts'.state # "READY" => Passed'
    <3> SUFFICES ASSUME ts'.last, ts'.state # "READY" PROVE Passed'
      OBVIOUS
    <3>1. ts.state # "READY" \/ command.raster = "DRAW"
      BY <1>1, <1>2, <1>12 DEF Ordered
    <3>2. ~(ts.state = "READY" /\ command.raster = "DRAW")
      BY <1>10, <1>12 DEF SetupStep
    <3>3. ts.state # "READY" /\ ts'.last = ts.last
      BY <1>10, <1>12, <3>1, <3>2 DEF SetupStep
    <3> QED BY <1>6, <1>9, <3>3
  <2>6. ts'.state = "END" => ts'.last
    <3> SUFFICES ASSUME ts'.state = "END" PROVE ts'.last
      OBVIOUS
    <3>1. ts.state = "END" /\ command.raster # "DRAW"
      BY <1>2, <1>12 DEF Ordered
    <3> QED BY <1>6, <1>10, <1>12, <3>1 DEF SetupStep
  <2> QED BY <1>3, <2>1, <2>2, <2>3, <2>4, <2>5, <2>6 DEF SetupOrder, Carried
<1> QED BY <1>11, <1>12

LEMMA TraversalOrderNext ==
  ASSUME IInv, Cycle
  PROVE  TraversalOrder'
<1>1. /\ {ts.state, tt.state} \subseteq States
      /\ command.raster \in {"none", "DRAW", "END"}
      /\ command.raster = "DRAW" => ts.state = "READY"
      /\ command.raster = "END" => tt.state = "END"
      /\ ts.state = "DRAWING" => tt.state = "DRAWING"
      /\ (ts.state = "READY") <=> (tt.state = "READY")
  BY PhaseFacts DEF IInv
<1>2. ts'.state = IF ts.state = "DRAWING" THEN IF Ended(SetUp) THEN "END" ELSE "DRAWING"
                  ELSE Ordered(ts, command.raster)
  BY StatesAre
<1>3. /\ OutputLatency \in Nat /\ OutputLatency > 0 /\ setupOut \in Pipe(OutputLatency)
      /\ setupOut[1] \in Group /\ tt \in TtState
  BY Sizes, FirstOf DEF IInv, Typed
<1>4. Carried(setupOut, SetUp, setupOut') /\ (ts.state # "DRAWING" => SetUp = <<>>)
  BY BusesCarry, Moves DEF IInv
<1>5. ~Ended(<<>>)
  BY NothingEnds
<1>6. /\ Orderly(setupOut) /\ EndsBatch(tt.queue) /\ Started(tt)
      /\ Holds(setupOut) => ts.state = "END"
      /\ Ended(tt.queue) => ts.state = "END" /\ Vacant(setupOut)
      /\ tt.state # "DRAWING" => Vacant(setupOut) /\ tt.queue = <<>> /\ tt.finished
  BY DEF IInv, TraversalOrder, Started
<1>7. /\ EndsBatch(setupOut[1]) /\ (Vacant(setupOut) => setupOut[1] = <<>>)
      /\ (Ended(setupOut[1]) => Holds(setupOut)) /\ setupOut[1] \in Seq(Triangles)
  BY <1>3, <1>6, FirstIn, GroupIs
<1>8. ASSUME tt.state = "DRAWING", ts.state = "END" PROVE ts'.state = "END" /\ SetUp = <<>>
  BY <1>1, <1>2, <1>4, <1>8 DEF Ordered
<1>9. Holds(setupOut') => ts'.state = "END"
  <2> SUFFICES ASSUME Holds(setupOut') PROVE ts'.state = "END"
    OBVIOUS
  <2>1. Holds(setupOut) \/ Ended(SetUp)
    BY <1>4 DEF Carried
  <2>2. CASE Holds(setupOut)
    BY <1>6, <1>8, <2>2, NoneHeld
  <2>3. CASE Ended(SetUp)
    BY <1>2, <1>4, <1>5, <2>3
  <2> QED BY <2>1, <2>2, <2>3
<1>10. PICK left : TraversalStep(left)
  BY DEF Cycle
<1>11. tt' \in TtState
  BY <1>10 DEF TraversalStep
<1>12. CASE tt.state = "DRAWING"
  <2>1. /\ left \in Seq(Triangles) /\ EndsBatch(left) /\ (Ended(left) => Ended(tt.queue))
        /\ tt'.queue = left \o setupOut[1] /\ Started([tt' EXCEPT !.queue = left])
        /\ \/ tt'.state = "DRAWING"
           \/ tt'.state = "END" /\ tt'.finished /\ left = <<>> /\ Ended(tt.queue)
    BY <1>10, <1>12 DEF TraversalStep
  <2> DEFINE group == setupOut[1]
             s == left \o group
  <2>2. Ended(left) => group = <<>>
    BY <1>6, <1>7, <2>1
  <2>3. /\ s \in Seq(Triangles) /\ Len(s) = Len(left) + Len(group) /\ EndsBatch(s)
        /\ Ended(s) => Ended(left) \/ Ended(group)
    <3> HIDE DEF group
    <3> QED BY <1>7, <2>1, <2>2, EndsConcat DEF group
  <2>4. tt'.queue = s
    BY <2>1
  <2>5. Ended(s) => ts'.state = "END" /\ Vacant(setupOut')
    <3> SUFFICES ASSUME Ended(s) PROVE ts'.state = "END" /\ Vacant(setupOut')
      OBVIOUS
    <3>1. Ended(tt.queue) \/ Ended(setupOut[1])
      BY <2>1, <2>3
    <3>2. ts.state = "END"
      BY <1>6, <1>7, <3>1
    <3>3. ts'.state = "END" /\ SetUp = <<>>
      BY <1>8, <1>12, <3>2
    <3> QED BY <1>4, <1>6, <3>1, <3>3 DEF Carried
  <2>6. tt'.state # "DRAWING" => Vacant(setupOut') /\ s = <<>> /\ tt'.finished
    <3> SUFFICES ASSUME tt'.state # "DRAWING" PROVE Vacant(setupOut') /\ s = <<>> /\ tt'.finished
      OBVIOUS
    <3>1. tt'.finished /\ left = <<>> /\ Ended(tt.queue)
      BY <2>1
    <3>2. Vacant(setupOut) /\ ts.state = "END" /\ group = <<>>
      BY <1>6, <1>7, <3>1
    <3>3. Vacant(setupOut')
      BY <1>4, <1>8, <1>12, <3>2 DEF Carried
    <3> QED BY <3>1, <3>2, <3>3
  <2>7. ~tt'.finished => /\ tt'.size <= Len(s) /\ s # <<>>
                         /\ s[1].last <=> tt'.size = 0
                         /\ \A n \in 1 .. tt'.size : ~s[n].last
    <3> SUFFICES ASSUME ~tt'.finished
                 PROVE  /\ tt'.size <= Len(s) /\ s # <<>>
                        /\ s[1].last <=> tt'.size = 0
                        /\ \A n \in 1 .. tt'.size : ~s[n].last
      OBVIOUS
    <3> DEFINE t == [tt' EXCEPT !.queue = left]
    <3>1. t.queue = left /\ t.finished = tt'.finished /\ t.size = tt'.size
      BY <1>11 DEF TtState
    <3> HIDE DEF t
    <3>2. /\ tt'.size <= Len(left) /\ left # <<>>
          /\ left[1].last <=> tt'.size = 0
          /\ \A n \in 1 .. tt'.size : ~left[n].last
      BY <2>1, <3>1 DEF Started, t
    <3> DEFINE k == tt'.size
    <3>3. k \in Nat /\ Len(left) \in Nat /\ Len(group) \in Nat /\ Len(left) # 0
      <4>1. k \in Nat
        BY <1>11, Sizes DEF TtState
      <4>2. Len(left) \in Nat /\ Len(left) # 0
        BY <2>1, <3>2
      <4>3. Len(group) \in Nat
        BY <1>7
      <4> QED BY <4>1, <4>2, <4>3
    <3>4. \A n \in 1 .. Len(left) : s[n] = left[n]
      <4> HIDE DEF group
      <4>1. group \in Seq(Triangles)
        BY <1>7 DEF group
      <4> QED BY <2>1, <3>3, <4>1
    <3>5. Len(s) >= Len(left) /\ s # <<>>
      <4>1. Len(s) = Len(left) + Len(group)
        BY <2>3
      <4> HIDE DEF s, group
      <4>2. Len(s) >= Len(left) /\ Len(s) # 0
        BY <3>3, <4>1
      <4> QED BY <2>3, <4>2
    <3> HIDE DEF s, group
    <3>6. k <= Len(left)
      BY <3>2
    <3>7. s[1] = left[1] /\ \A n \in 1 .. k : s[n] = left[n]
      <4> HIDE DEF k
      <4>1. 1 \in 1 .. Len(left) /\ \A n \in 1 .. k : n \in 1 .. Len(left)
        BY <3>3, <3>6
      <4> QED BY <3>4, <4>1
    <3>8. k <= Len(s)
      <4>1. Len(s) \in Nat
        BY <2>3
      <4> HIDE DEF k
      <4> QED BY <3>3, <3>5, <3>6, <4>1
    <3> QED BY <3>2, <3>5, <3>7, <3>8
  <2> HIDE DEF s
  <2> QED BY <1>4, <1>9, <2>3, <2>4, <2>5, <2>6, <2>7 DEF TraversalOrder, Carried
<1>13. CASE tt.state # "DRAWING"
  <2>1. ts.state # "DRAWING"
    BY <1>1, <1>13
  <2>2. Vacant(setupOut')
    BY <1>4, <1>6, <1>13, <2>1 DEF Carried
  <2>3. tt'.queue = <<>> /\ tt'.finished
    BY <1>6, <1>10, <1>13 DEF TraversalStep
  <2>4. EndsBatch(tt'.queue) /\ ~Ended(tt'.queue)
    BY <2>3, NothingEnds
  <2> QED BY <1>4, <1>9, <2>2, <2>3, <2>4 DEF TraversalOrder, Carried
<1> QED BY <1>12, <1>13

-----------------------------------------------------------------------------
(* The cycle keeps the time in which Triangle Setup is not listened to.    *)

\* The queue of Triangle Traversal ends with the mark it had, or that arrived.
LEMMA TraversalEnds ==
  ASSUME IInv, Cycle, Ended(tt'.queue)
  PROVE  tt.state = "DRAWING" /\ ts.state = "END" /\ (Ended(tt.queue) \/ Ended(setupOut[1]))
<1>1. PICK left : TraversalStep(left)
  BY DEF Cycle
<1>2. /\ OutputLatency \in Nat /\ OutputLatency > 0 /\ setupOut \in Pipe(OutputLatency)
      /\ setupOut[1] \in Group
  BY Sizes, FirstOf DEF IInv, Typed
<1>3. /\ Orderly(setupOut)
      /\ Holds(setupOut) => ts.state = "END"
      /\ Ended(tt.queue) => ts.state = "END" /\ Vacant(setupOut)
      /\ tt.state # "DRAWING" => tt.queue = <<>>
  BY DEF IInv, TraversalOrder
<1>4. tt.state = "DRAWING"
  <2> SUFFICES ASSUME tt.state # "DRAWING" PROVE tt'.queue = <<>>
    BY DEF Ended
  <2> QED BY <1>1, <1>3 DEF TraversalStep
<1>5. /\ left \in Seq(Triangles) /\ EndsBatch(left) /\ (Ended(left) => Ended(tt.queue))
      /\ tt'.queue = left \o setupOut[1]
  BY <1>1, <1>4 DEF TraversalStep
<1>6. /\ EndsBatch(setupOut[1]) /\ (Vacant(setupOut) => setupOut[1] = <<>>)
      /\ (Ended(setupOut[1]) => Holds(setupOut)) /\ setupOut[1] \in Seq(Triangles)
  BY <1>2, <1>3, FirstIn, GroupIs
<1> DEFINE group == setupOut[1]
<1>7. Ended(left \o group) => Ended(left) \/ Ended(group)
  <2>1. Ended(left) => group = <<>>
    BY <1>3, <1>5, <1>6
  <2>2. group \in Seq(Triangles) /\ EndsBatch(group)
    BY <1>6
  <2> HIDE DEF group
  <2> QED BY <1>5, <2>1, <2>2, EndsConcat
<1>8. Ended(tt.queue) \/ Ended(setupOut[1])
  BY <1>5, <1>7
<1> QED BY <1>3, <1>4, <1>6, <1>8

LEMMA ForgottenNext ==
  ASSUME IInv, Cycle
  PROVE  Forgotten'
<1>1. /\ {pa.state, clp.state, ts.state, tt.state} \subseteq States
      /\ command.raster \in {"none", "DRAW", "END"}
      /\ command.geometry = "DRAW" => pa.state = "READY"
      /\ (pa.state = "READY") <=> (clp.state = "READY")
      /\ (ts.state = "READY") <=> (tt.state = "READY")
      /\ ts.state = "DRAWING" => tt.state = "DRAWING"
      /\ command.raster = "DRAW" => ts.state = "READY"
      /\ command.raster = "END" => ts.state = "END" /\ tt.state = "END"
  BY PhaseFacts DEF IInv
<1>2. /\ clp'.state = IF clp.state = "DRAWING" THEN IF Ended(Clipped) THEN "END" ELSE "DRAWING"
                      ELSE Ordered(clp, command.geometry)
      /\ ts'.state = IF ts.state = "DRAWING" THEN IF Ended(SetUp) THEN "END" ELSE "DRAWING"
                     ELSE Ordered(ts, command.raster)
  BY StatesAre
<1>3. /\ BusLatency \in Nat /\ BusLatency > 0 /\ bus \in Pipe(BusLatency) /\ bus' \in Pipe(BusLatency)
      /\ clp.window \in 0 .. BusLatency + 4 /\ clp.requested \in Nat /\ askClipper \in Nat
      /\ ts.wait \in Nat
  <2>1. Typed'
    BY TypedNext DEF IInv
  <2> QED BY <2>1, Sizes DEF IInv, Typed, ClpState, TsState
<1>4. clp.window \in Nat /\ CountDown(clp.window) \in Nat
  BY <1>3 DEF CountDown
<1>5. /\ ~Ended(<<>>)
      /\ Ended(Clipped) => /\ clp.state = "DRAWING" /\ ~Passed /\ ts.state = "DRAWING" /\ ~ts.last
                           /\ tt.state = "DRAWING"
  <2>1. ~Ended(<<>>)
    BY NothingEnds
  <2> QED BY <2>1, ClippedWhen
<1>6. clp'.window = IF Ended(Clipped) THEN BusLatency + 4 ELSE CountDown(clp.window)
  <2>1. PICK new : ClipperStep(Clipping, new, Clipped)
    BY DEF Cycle
  <2>2. CASE clp.state = "DRAWING"
    BY <2>1, <2>2 DEF ClipperStep
  <2>3. CASE clp.state # "DRAWING"
    BY <1>5, <2>1, <2>3 DEF ClipperStep
  <2> QED BY <2>2, <2>3
<1>7. /\ ~Passed => clp.window = 0
      /\ Passed /\ ts.state = "DRAWING" =>
           \/ \E n \in DOMAIN bus : Ended(bus[n]) /\ clp.window = n + 4
           \/ ts.last /\ clp.window <= 4
      /\ ts.state = "END" => clp.window <= 3
      /\ Ended(tt.queue) => clp.window <= 2
      /\ ~tt.finished /\ tt.size = 0 => clp.window <= 1
      /\ tt.state # "DRAWING" => clp.window = 0
      /\ Passed => clp.window > 0 \/ askClipper = 0
      /\ Passed \/ ts.state = "READY" => (clp.state = "DRAWING" => clp.requested = 0)
      /\ ts.state = "READY" => askClipper = 0
  BY DEF IInv, Forgotten
<1>8. /\ Ended(tt.queue) => ts.state = "END"
      /\ tt.state # "DRAWING" => tt.finished
      /\ ts.last /\ ts.state # "READY" => Passed /\ Vacant(bus)
      /\ ts.state = "END" => ts.last
  BY DEF IInv, TraversalOrder, SetupOrder
<1>9. /\ ~Passed /\ Passed' => Ended(Clipped)
      /\ Passed /\ ~Passed' => tt.state # "DRAWING"
  BY PassedNext
<1>10. PICK kept : SetupStep(SettingUp, kept, SetUp)
  BY DEF Cycle
<1>11. PICK left : TraversalStep(left)
  BY DEF Cycle
<1>12. ~Passed' => clp'.window = 0
  <2> SUFFICES ASSUME ~Passed' PROVE clp'.window = 0
    OBVIOUS
  <2>1. clp.window = 0
    BY <1>7, <1>9
  <2>2. ~Ended(Clipped)
    <3> SUFFICES ASSUME Ended(Clipped) PROVE Passed'
      OBVIOUS
    <3>1. clp'.state = "END"
      BY <1>2, <1>5
    <3> QED BY <3>1 DEF Passed
  <2> QED BY <1>6, <2>1, <2>2 DEF CountDown
<1>13. Passed' /\ ts'.state = "DRAWING" =>
         \/ \E n \in DOMAIN bus' : Ended(bus'[n]) /\ clp'.window = n + 4
         \/ ts'.last /\ clp'.window <= 4
  <2> SUFFICES ASSUME Passed', ts'.state = "DRAWING"
               PROVE  \/ \E n \in DOMAIN bus' : Ended(bus'[n]) /\ clp'.window = n + 4
                      \/ ts'.last /\ clp'.window <= 4
    OBVIOUS
  <2>0. DOMAIN bus' = 1 .. BusLatency /\ DOMAIN bus = 1 .. BusLatency
    BY <1>3, PipeIs
  <2>1. CASE Ended(Clipped)
    <3>1. BusLatency \in DOMAIN bus' /\ Ended(bus'[BusLatency]) /\ clp'.window = BusLatency + 4
      BY <1>3, <1>6, <2>0, <2>1 DEF Clipped
    <3> QED BY <3>1
  <2>2. CASE ~Ended(Clipped)
    <3>1. Passed /\ clp'.window = CountDown(clp.window)
      BY <1>6, <1>9, <2>2
    <3>2. ts.state = "DRAWING"
      <4>1. command.raster = "DRAW" => ~Passed
        BY DEF IInv, Phases, Raster, Typed, Passed
      <4> QED BY <1>1, <1>2, <3>1, <4>1 DEF Ordered, States
    <3>3. /\ SettingUp = IF ts.wait = 0 THEN bus[1] ELSE <<>>
          /\ ts'.last = IF SettingUp # <<>> THEN Newest(SettingUp).last ELSE ts.last
      BY <1>10, <3>2 DEF SetupStep
    <3>4. CASE ts.last /\ clp.window <= 4
      <4>1. SettingUp = <<>>
        BY <1>8, <3>2, <3>4, UnitsCarry
      <4>2. CountDown(clp.window) <= 4
        BY <1>4, <3>4 DEF CountDown
      <4> QED BY <3>1, <3>3, <3>4, <4>1, <4>2
    <3>5. ASSUME NEW n \in DOMAIN bus, Ended(bus[n]), clp.window = n + 4
          PROVE  \/ \E m \in DOMAIN bus' : Ended(bus'[m]) /\ clp'.window = m + 4
                 \/ ts'.last /\ clp'.window <= 4
      <4>1. n \in 1 .. BusLatency /\ n \in Nat /\ clp'.window = n + 3
        BY <1>3, <2>0, <3>1, <3>5 DEF CountDown
      <4>2. CASE n = 1
        <5>1. bus[n] # <<>>
          BY <1>5, <3>5
        <5>2. ts.wait <= n - 1
          BY <5>1 DEF IInv, InTime
        <5>3. ts.wait = 0
          BY <1>3, <4>2, <5>2
        <5>4. SettingUp = bus[n] /\ ts'.last = Newest(bus[n]).last
          BY <3>3, <4>2, <5>1, <5>3
        <5> QED BY <3>5, <4>1, <4>2, <5>4 DEF Ended
      <4>3. CASE n # 1
        <5> DEFINE m == n - 1
        <5>1. m \in 1 .. BusLatency - 1 /\ m + 1 = n /\ m \in 1 .. BusLatency /\ clp'.window = m + 4
          BY <1>3, <4>1, <4>3
        <5>2. bus' = Carry(bus, Clipped) /\ Clipped \in Group
          BY Moves DEF IInv
        <5> HIDE DEF m
        <5>3. Carry(bus, Clipped)[m] = bus[m + 1]
          BY <1>3, <5>1, <5>2, CarryIs
        <5>4. bus'[m] = bus[n]
          BY <5>1, <5>2, <5>3
        <5> QED BY <2>0, <3>5, <5>1, <5>4
      <4> QED BY <4>2, <4>3
    <3> QED BY <1>7, <3>1, <3>2, <3>4, <3>5
  <2> QED BY <2>1, <2>2
<1>14. ts'.state = "END" => clp'.window <= 3
  <2> SUFFICES ASSUME ts'.state = "END" PROVE clp'.window <= 3
    OBVIOUS
  <2>1. CASE ts.state = "DRAWING"
    <3>1. ts.last /\ Passed /\ Vacant(bus)
      BY <1>2, <1>10, <2>1, SetupEnds
    <3>2. clp.window <= 4
      <4>1. ASSUME NEW n \in DOMAIN bus PROVE ~Ended(bus[n])
        BY <1>5, <3>1 DEF Vacant
      <4> QED BY <1>7, <2>1, <3>1, <4>1
    <3>3. clp'.window = CountDown(clp.window)
      BY <1>5, <1>6, <3>1
    <3> QED BY <1>4, <3>2, <3>3 DEF CountDown
  <2>2. CASE ts.state # "DRAWING"
    <3>1. ts.state = "END"
      BY <1>2, <2>2 DEF Ordered
    <3>2. clp'.window = CountDown(clp.window)
      BY <1>5, <1>6, <3>1
    <3> QED BY <1>4, <1>7, <3>1, <3>2 DEF CountDown
  <2> QED BY <2>1, <2>2
<1>15. Ended(tt'.queue) => clp'.window <= 2
  <2> SUFFICES ASSUME Ended(tt'.queue) PROVE clp'.window <= 2
    OBVIOUS
  <2>1. ts.state = "END" 
    BY TraversalEnds
  <2>2. clp'.window = CountDown(clp.window) /\ clp.window <= 3
    BY <1>5, <1>6, <1>7, <2>1
  <2> QED BY <1>4, <2>2 DEF CountDown
<1>16. ~tt'.finished /\ tt'.size = 0 => clp'.window <= 1
  <2> SUFFICES ASSUME ~tt'.finished, tt'.size = 0 PROVE clp'.window <= 1
    OBVIOUS
  <2>1. Ended(tt.queue)
    <3>1. tt.state = "DRAWING"
      BY <1>8, <1>11 DEF TraversalStep
    <3> QED BY <1>11, <3>1 DEF TraversalStep
  <2>2. clp'.window = CountDown(clp.window) /\ clp.window <= 2
    BY <1>5, <1>6, <1>7, <1>8, <2>1
  <2> QED BY <1>4, <2>2 DEF CountDown
<1>17. tt'.state # "DRAWING" => clp'.window = 0
  <2> SUFFICES ASSUME tt'.state # "DRAWING" PROVE clp'.window = 0
    OBVIOUS
  <2>1. CASE tt.state = "DRAWING"
    <3>1. Ended(tt.queue) /\ ~tt.finished /\ tt.size = 0
      BY <2>1, StatesAre
    <3>2. clp'.window = CountDown(clp.window) /\ clp.window <= 1
      BY <1>5, <1>6, <1>7, <1>8, <3>1
    <3> QED BY <1>4, <3>2 DEF CountDown
  <2>2. CASE tt.state # "DRAWING"
    BY <1>5, <1>6, <1>7, <2>2 DEF CountDown
  <2> QED BY <2>1, <2>2
<1>18. Passed' => clp'.window > 0 \/ askClipper' = 0
  <2> SUFFICES ASSUME Passed', askClipper' # 0 PROVE clp'.window > 0
    OBVIOUS
  <2>1. CASE Ended(Clipped)
    BY <1>3, <1>6, <2>1
  <2>2. CASE ~Ended(Clipped)
    <3>1. ts.state = "DRAWING" /\ ~ts.last
      BY <1>10 DEF SetupStep
    <3>2. Passed /\ clp'.window = CountDown(clp.window)
      BY <1>6, <1>9, <2>2
    <3>3. PICK n \in DOMAIN bus : clp.window = n + 4
      BY <1>7, <3>1, <3>2
    <3>4. n \in Nat
      BY <1>3, PipeIs
    <3> QED BY <3>2, <3>3, <3>4 DEF CountDown
  <2> QED BY <2>1, <2>2
<1>19. Passed' \/ ts'.state = "READY" => (clp'.state = "DRAWING" => clp'.requested = 0)
  <2> SUFFICES ASSUME Passed' \/ ts'.state = "READY", clp'.state = "DRAWING"
               PROVE  clp'.requested = 0
    OBVIOUS
  <2>1. PICK new : ClipperStep(Clipping, new, Clipped)
    BY DEF Cycle
  <2>2. CASE clp.state = "DRAWING"
    <3>1. ~Ended(Clipped)
      BY <1>2, <2>2
    <3>2. Passed \/ ts.state = "READY"
      <4>1. ASSUME ts'.state = "READY" PROVE Passed \/ ts.state = "READY"
        <5>1. ts.state # "DRAWING"
          BY <1>2, <4>1
        <5> QED BY <1>1, <1>8, <5>1 DEF States
      <4> QED BY <1>9, <3>1, <4>1
    <3>3. Listened = 0
      BY <1>4, <1>7, <2>2, <3>2, <1>3 DEF Listened
    <3>4. clp'.requested + Len(Clipped) = 0 /\ Clipped \in Group /\ clp' \in ClpState
      BY <2>1, <2>2, <3>3 DEF ClipperStep
    <3>5. clp'.requested \in Nat /\ Len(Clipped) \in Nat
      BY <3>4, GroupIs DEF ClpState
    <3> QED BY <3>4, <3>5
  <2>3. CASE clp.state # "DRAWING"
    <3>1. clp.state = "READY" /\ command.geometry = "DRAW"
      BY <1>1, <1>2, <2>3 DEF Ordered, States
    <3> QED BY <2>1, <2>3, <3>1 DEF ClipperStep
  <2> QED BY <2>2, <2>3
<1>20. ts'.state = "READY" => askClipper' = 0
  BY <1>2, <1>10 DEF SetupStep
<1> QED BY <1>12, <1>13, <1>14, <1>15, <1>16, <1>17, <1>18, <1>19, <1>20 DEF Forgotten

-----------------------------------------------------------------------------
(* The cycle keeps the credits.                                            *)

\* The triangles in a pipe after a cycle in which group enters it.
Counted(pipe, group, next) ==
  /\ Crossing(pipe) \in Nat /\ Crossing(next) \in Nat /\ Len(pipe[1]) \in Nat /\ Len(group) \in Nat
  /\ Crossing(next) + Len(pipe[1]) = Crossing(pipe) + Len(group)
  /\ Len(pipe[1]) <= Crossing(pipe)
  /\ Vacant(next) => Crossing(next) = 0

LEMMA CountedOn ==
  ASSUME NEW latency \in Nat, latency > 0, NEW pipe \in Pipe(latency), NEW group \in Group
  PROVE  Counted(pipe, group, Carry(pipe, group))
<1> DEFINE next == Carry(pipe, group)
<1>1. next \in Pipe(latency)
  BY CarryIs
<1>2. Crossing(next) = Crossing(pipe) - Len(pipe[1]) + Len(group)
  BY CrossingCarry
<1>3. pipe[1] \in Group
  BY PipeIs DEF Pipe
<1>4. Crossing(pipe) \in Nat /\ Len(pipe[1]) <= Crossing(pipe)
  BY CrossingIs
<1> HIDE DEF next
<1>5. Crossing(next) \in Nat /\ (Vacant(next) => Crossing(next) = 0)
  BY <1>1, CrossingIs
<1>6. Len(pipe[1]) \in Nat /\ Len(group) \in Nat
  BY <1>3, GroupIs
<1>7. Crossing(next) + Len(pipe[1]) = Crossing(pipe) + Len(group)
  BY <1>2, <1>4, <1>5, <1>6
<1>8. Counted(pipe, group, next)
  BY <1>4, <1>5, <1>6, <1>7 DEF Counted
<1> QED BY <1>8 DEF next

LEMMA AllCounted ==
  ASSUME IInv, Cycle
  PROVE  /\ Counted(clipIn, Assembled, clipIn') /\ Counted(clipExec, Clipping, clipExec')
         /\ Counted(bus, Clipped, bus') /\ Counted(setup, SettingUp, setup')
         /\ Counted(setupOut, SetUp, setupOut')
<1>1. /\ 1 \in Nat /\ 1 > 0 /\ ClipLatency \in Nat /\ ClipLatency > 0 /\ BusLatency \in Nat /\ BusLatency > 0
      /\ SetupLatency \in Nat /\ SetupLatency > 0 /\ OutputLatency \in Nat /\ OutputLatency > 0
  BY Sizes
<1>2. /\ clipIn \in Pipe(1) /\ clipExec \in Pipe(ClipLatency) /\ bus \in Pipe(BusLatency)
      /\ setup \in Pipe(SetupLatency) /\ setupOut \in Pipe(OutputLatency)
  BY DEF IInv, Typed
<1>3. /\ Assembled \in Group /\ clipIn' = Carry(clipIn, Assembled)
      /\ Clipping \in Group /\ clipExec' = Carry(clipExec, Clipping)
      /\ Clipped \in Group /\ bus' = Carry(bus, Clipped)
      /\ SettingUp \in Group /\ setup' = Carry(setup, SettingUp)
      /\ SetUp \in Group /\ setupOut' = Carry(setupOut, SetUp)
  BY Moves DEF IInv
<1>4. Counted(clipIn, Assembled, Carry(clipIn, Assembled)) /\ Counted(clipExec, Clipping, Carry(clipExec, Clipping))
  BY <1>1, <1>2, <1>3, CountedOn
<1>5. Counted(bus, Clipped, Carry(bus, Clipped)) /\ Counted(setup, SettingUp, Carry(setup, SettingUp))
  BY <1>1, <1>2, <1>3, CountedOn
<1>6. Counted(setupOut, SetUp, Carry(setupOut, SetUp))
  BY <1>1, <1>2, <1>3, CountedOn
<1> QED BY <1>3, <1>4, <1>5, <1>6

\* What arrives at a unit enters it.
LEMMA TakenIn ==
  ASSUME IInv, Cycle
  PROVE  /\ clp.state = "DRAWING" => Clipping = clipIn[1]
         /\ ts.state = "DRAWING" => SettingUp = bus[1]
<1>1. /\ Clipping = IF clp.state = "DRAWING" /\ clp.wait = 0 THEN clipIn[1] ELSE <<>>
      /\ SettingUp = IF ts.state = "DRAWING" /\ ts.wait = 0 THEN bus[1] ELSE <<>>
  BY Moves DEF IInv
<1>2. clipIn[1] # <<>> => clp.wait = 0
  BY DEF IInv, InTime
<1>3. bus[1] # <<>> => ts.wait = 0
  <2>1. /\ BusLatency \in Nat /\ BusLatency > 0 /\ bus \in Pipe(BusLatency) /\ ts.wait \in Nat
    BY Sizes DEF IInv, Typed, TsState
  <2>2. 1 \in DOMAIN bus
    BY <2>1, PipeIs
  <2>3. bus[1] # <<>> => ts.wait <= 1 - 1
    BY <2>2 DEF IInv, InTime
  <2> QED BY <2>1, <2>3
<1> QED BY <1>1, <1>2, <1>3

LEMMA CreditsKeptNext ==
  ASSUME IInv, Cycle
  PROVE  CreditsKept'
<1>1. /\ {pa.state, clp.state, ts.state, tt.state} \subseteq States
      /\ command.geometry \in {"none", "DRAW", "END"} /\ command.raster \in {"none", "DRAW", "END"}
      /\ (pa.state = "READY") <=> (clp.state = "READY")
      /\ (ts.state = "READY") <=> (tt.state = "READY")
      /\ command.geometry = "DRAW" => pa.state = "READY"
      /\ command.raster = "DRAW" => ts.state = "READY"
      /\ ~Passed => clp.state # "END"
      /\ ~Passed /\ ts.state # "READY" => clp.state = "DRAWING"
      /\ pa.state = "DRAWING" => clp.state = "DRAWING"
      /\ ts.state = "DRAWING" => tt.state = "DRAWING"
  BY PhaseFacts DEF IInv
<1>2. /\ clp'.state = IF clp.state = "DRAWING" THEN IF Ended(Clipped) THEN "END" ELSE "DRAWING"
                      ELSE Ordered(clp, command.geometry)
      /\ ts'.state = IF ts.state = "DRAWING" THEN IF Ended(SetUp) THEN "END" ELSE "DRAWING"
                     ELSE Ordered(ts, command.raster)
      /\ tt.state # "DRAWING" => tt'.state = Ordered(tt, command.raster)
  BY StatesAre
<1>3. /\ Counted(clipIn, Assembled, clipIn') /\ Counted(clipExec, Clipping, clipExec')
      /\ Counted(bus, Clipped, bus') /\ Counted(setup, SettingUp, setup')
      /\ Counted(setupOut, SetUp, setupOut')
  BY AllCounted
<1>4. /\ pa.requests \in Nat /\ clp.reserved \in Nat /\ clp.requested \in Nat /\ ts.reserves \in Nat
      /\ ts.requested \in Nat /\ tt.requested \in Nat
      /\ askAssembly \in Nat /\ askClipper \in Nat /\ askSetup \in Nat
  BY Sizes DEF IInv, Typed, PaState, ClpState, TsState, TtState
<1>5. /\ pa'.requests \in Nat /\ clp'.reserved \in Nat /\ clp'.requested \in Nat /\ ts'.reserves \in Nat
      /\ ts'.requested \in Nat /\ tt'.requested \in Nat
      /\ askAssembly' \in Nat /\ askClipper' \in Nat /\ askSetup' \in Nat
  <2>1. Typed'
    BY TypedNext DEF IInv
  <2> QED BY <2>1, Sizes DEF Typed, PaState, ClpState, TsState, TtState
<1>6. AssemblyStep(Assembled)
  BY DEF Cycle
<1>7. PICK new : ClipperStep(Clipping, new, Clipped)
  BY DEF Cycle
<1>8. PICK kept : SetupStep(SettingUp, kept, SetUp)
  BY DEF Cycle
<1>9. PICK left : TraversalStep(left)
  BY DEF Cycle
<1>10. ASSUME clp'.state = "DRAWING"
       PROVE  clp'.reserved = pa'.requests + askAssembly' + Crossing(clipIn') + Crossing(clipExec')
  <2>1. CASE clp.state = "DRAWING"
    <3>1. clp.reserved = pa.requests + askAssembly + Crossing(clipIn) + Crossing(clipExec)
      BY <2>1 DEF IInv, CreditsKept
    <3>2. clp'.reserved = clp.reserved + askAssembly' - Len(clipExec[1])
      BY <1>7, <2>1 DEF ClipperStep
    <3>3. pa'.requests + Len(Assembled) = pa.requests + askAssembly
      BY <1>1, <1>6, <2>1 DEF AssemblyStep
    <3>4. Clipping = clipIn[1]
      BY <2>1, TakenIn
    <3>5. /\ Crossing(clipIn) \in Nat /\ Crossing(clipIn') \in Nat /\ Len(clipIn[1]) \in Nat
          /\ Len(Assembled) \in Nat /\ Crossing(clipIn') + Len(clipIn[1]) = Crossing(clipIn) + Len(Assembled)
      BY <1>3 DEF Counted
    <3>6. /\ Crossing(clipExec) \in Nat /\ Crossing(clipExec') \in Nat /\ Len(clipExec[1]) \in Nat
          /\ Crossing(clipExec') + Len(clipExec[1]) = Crossing(clipExec) + Len(clipIn[1])
      BY <1>3, <3>4 DEF Counted
    <3> DEFINE r == clp.reserved
               q == pa.requests
               k == askAssembly
               x == Crossing(clipIn)
               y == Crossing(clipExec)
               i == Len(clipIn[1])
               e == Len(clipExec[1])
               a == Len(Assembled)
               r1 == clp'.reserved
               q1 == pa'.requests
               k1 == askAssembly'
               x1 == Crossing(clipIn')
               y1 == Crossing(clipExec')
    <3>7. /\ r \in Nat /\ q \in Nat /\ k \in Nat /\ x \in Nat /\ y \in Nat /\ i \in Nat /\ e \in Nat
          /\ a \in Nat /\ q1 \in Nat /\ k1 \in Nat /\ x1 \in Nat /\ y1 \in Nat
      BY <1>4, <1>5, <3>5, <3>6
    <3>8. /\ r = q + k + x + y /\ r1 = r + k1 - e /\ q1 + a = q + k
          /\ x1 + i = x + a /\ y1 + e = y + i
      BY <3>1, <3>2, <3>3, <3>5, <3>6
    <3> HIDE DEF r, q, k, x, y, i, e, a, r1, q1, k1, x1, y1
    <3>9. r1 = q1 + k1 + x1 + y1
      BY <3>7, <3>8
    <3> QED BY <3>9 DEF r, q, k, x, y, r1, q1, k1, x1, y1
  <2>2. CASE clp.state # "DRAWING"
    <3>1. clp.state = "READY" /\ pa.state = "READY" /\ command.geometry = "DRAW"
      BY <1>1, <1>2, <1>10, <2>2 DEF Ordered, States
    <3>2. clp'.reserved = 0 /\ askAssembly' = 0
      BY <1>7, <2>2, <3>1 DEF ClipperStep
    <3>3. pa'.requests = 0 /\ Assembled = <<>>
      BY <1>6, <3>1 DEF AssemblyStep
    <3>4. Vacant(clipExec) /\ Clipping = <<>>
      BY <1>7, <2>2 DEF ClipperStep, IInv, ClipperOrder
    <3>5. Vacant(clipIn') /\ Vacant(clipExec')
      BY <3>3, <3>4, ClipInIs, UnitsCarry DEF IInv, Carried
    <3>6. Crossing(clipIn') = 0 /\ Crossing(clipExec') = 0
      BY <1>3, <3>5 DEF Counted
    <3> QED BY <3>2, <3>3, <3>6
  <2> QED BY <2>1, <2>2
<1>11. ASSUME ts'.state = "DRAWING", clp'.state = "DRAWING", cp'.status = "DRAWING"
       PROVE  ts'.reserves = clp'.requested + askClipper' + Crossing(bus') + Crossing(setup')
  <2>1. ~Passed
    <3> SUFFICES ASSUME Passed PROVE FALSE
      OBVIOUS
    <3>1. ~Passed'
      BY <1>11 DEF Passed
    <3>2. ts.state # "DRAWING" /\ ts.state = "READY"
      BY <1>11, <3>1, PassedNext
    <3>3. command.raster = "DRAW"
      BY <1>2, <1>11, <3>2 DEF Ordered
    <3> QED BY <3>3 DEF IInv, Phases, Raster, Typed, Passed
  <2>2. clp.window = 0
    BY <2>1 DEF IInv, Forgotten
  <2>3. Listened = clp.requested + askClipper
    BY <2>2 DEF Listened
  <2>4. CASE ts.state = "DRAWING"
    <3>1. clp.state = "DRAWING" /\ cp.status = "DRAWING"
      BY <1>1, <2>1, <2>4 DEF Passed
    <3>2. ts.reserves = clp.requested + askClipper + Crossing(bus) + Crossing(setup)
      BY <2>4, <3>1 DEF IInv, CreditsKept
    <3>3. ts'.reserves = ts.reserves + askClipper' - Len(setup[1])
      BY <1>8, <2>4 DEF SetupStep
    <3>4. clp'.requested + Len(Clipped) = clp.requested + askClipper
      BY <1>7, <2>3, <3>1 DEF ClipperStep
    <3>5. SettingUp = bus[1]
      BY <2>4, TakenIn
    <3>6. /\ Crossing(bus) \in Nat /\ Crossing(bus') \in Nat /\ Len(bus[1]) \in Nat
          /\ Len(Clipped) \in Nat /\ Crossing(bus') + Len(bus[1]) = Crossing(bus) + Len(Clipped)
      BY <1>3 DEF Counted
    <3>7. /\ Crossing(setup) \in Nat /\ Crossing(setup') \in Nat /\ Len(setup[1]) \in Nat
          /\ Crossing(setup') + Len(setup[1]) = Crossing(setup) + Len(bus[1])
      BY <1>3, <3>5 DEF Counted
    <3> DEFINE r == ts.reserves
               q == clp.requested
               k == askClipper
               x == Crossing(bus)
               y == Crossing(setup)
               i == Len(bus[1])
               e == Len(setup[1])
               a == Len(Clipped)
               r1 == ts'.reserves
               q1 == clp'.requested
               k1 == askClipper'
               x1 == Crossing(bus')
               y1 == Crossing(setup')
    <3>8. /\ r \in Nat /\ q \in Nat /\ k \in Nat /\ x \in Nat /\ y \in Nat /\ i \in Nat /\ e \in Nat
          /\ a \in Nat /\ q1 \in Nat /\ k1 \in Nat /\ x1 \in Nat /\ y1 \in Nat
      BY <1>4, <1>5, <3>6, <3>7
    <3>9. /\ r = q + k + x + y /\ r1 = r + k1 - e /\ q1 + a = q + k
          /\ x1 + i = x + a /\ y1 + e = y + i
      BY <3>2, <3>3, <3>4, <3>6, <3>7
    <3> HIDE DEF r, q, k, x, y, i, e, a, r1, q1, k1, x1, y1
    <3>10. r1 = q1 + k1 + x1 + y1
      BY <3>8, <3>9
    <3> QED BY <3>10 DEF r, q, k, x, y, r1, q1, k1, x1, y1
  <2>5. CASE ts.state # "DRAWING"
    <3>1. ts.state = "READY" /\ command.raster = "DRAW"
      BY <1>1, <1>2, <1>11, <2>5 DEF Ordered, States
    <3>2. ts'.reserves = 0 /\ askClipper' = 0 /\ SettingUp = <<>>
      BY <1>8, <2>5, <3>1 DEF SetupStep
    <3>3. Clipped = <<>>
      BY <2>5, ClippedWhen
    <3>4. Vacant(bus) /\ Vacant(setup)
      BY <2>5 DEF IInv, SetupOrder
    <3>5. Vacant(bus') /\ Vacant(setup')
      BY <3>2, <3>3, <3>4, UnitsCarry, BusesCarry DEF Carried
    <3>6. Crossing(bus') = 0 /\ Crossing(setup') = 0
      BY <1>3, <3>5 DEF Counted
    <3>7. clp'.requested = 0
      <4>1. CASE clp.state = "DRAWING"
        <5>1. Listened = 0
          BY <2>3, <3>1, <4>1 DEF IInv, Forgotten
        <5>2. clp'.requested + Len(Clipped) = 0
          BY <1>7, <4>1, <5>1 DEF ClipperStep
        <5> QED BY <1>5, <3>3, <5>2, NothingEnds
      <4>2. CASE clp.state # "DRAWING"
        <5>1. clp.state = "READY" /\ command.geometry = "DRAW"
          BY <1>1, <1>2, <1>11, <4>2 DEF Ordered, States
        <5> QED BY <1>7, <4>2, <5>1 DEF ClipperStep
      <4> QED BY <4>1, <4>2
    <3> QED BY <3>2, <3>6, <3>7
  <2> QED BY <2>4, <2>5
<1>12. ASSUME tt'.state = "DRAWING", ts'.state # "READY"
       PROVE  tt'.requested = ts'.requested + askSetup' + Crossing(setupOut')
  <2>1. CASE tt.state = "DRAWING"
    <3>1. ts.state # "READY"
      BY <1>1, <2>1
    <3>2. tt.requested = ts.requested + askSetup + Crossing(setupOut)
      BY <2>1, <3>1 DEF IInv, CreditsKept
    <3>3. tt'.requested = (tt.requested + askSetup') - Len(setupOut[1])
      BY <1>9, <2>1 DEF TraversalStep
    <3>4. /\ Crossing(setupOut) \in Nat /\ Crossing(setupOut') \in Nat /\ Len(setupOut[1]) \in Nat
          /\ Len(SetUp) \in Nat /\ Crossing(setupOut') + Len(setupOut[1]) = Crossing(setupOut) + Len(SetUp)
      BY <1>3 DEF Counted
    <3>5. ts'.requested + Len(SetUp) = ts.requested + askSetup
      <4>1. CASE ts.state = "DRAWING"
        BY <1>8, <4>1 DEF SetupStep
      <4>2. CASE ts.state # "DRAWING"
        <5>1. ts'.requested = ts.requested + askSetup /\ SetUp = <<>>
          BY <1>8, <3>1, <4>2 DEF SetupStep
        <5> QED BY <1>4, <5>1, NothingEnds
      <4> QED BY <4>1, <4>2
    <3> DEFINE r == tt.requested
               q == ts.requested
               k == askSetup
               x == Crossing(setupOut)
               i == Len(setupOut[1])
               a == Len(SetUp)
               r1 == tt'.requested
               q1 == ts'.requested
               k1 == askSetup'
               x1 == Crossing(setupOut')
    <3>6. /\ r \in Nat /\ q \in Nat /\ k \in Nat /\ x \in Nat /\ i \in Nat
          /\ a \in Nat /\ q1 \in Nat /\ k1 \in Nat /\ x1 \in Nat
      BY <1>4, <1>5, <3>4
    <3>7. /\ r = q + k + x /\ r1 = (r + k1) - i /\ q1 + a = q + k /\ x1 + i = x + a
      BY <3>2, <3>3, <3>4, <3>5
    <3> HIDE DEF r, q, k, x, i, a, r1, q1, k1, x1
    <3>8. r1 = q1 + k1 + x1
      BY <3>6, <3>7
    <3> QED BY <3>8 DEF r, q, k, x, r1, q1, k1, x1
  <2>2. CASE tt.state # "DRAWING"
    <3>1. tt.state = "READY" /\ ts.state = "READY" /\ command.raster = "DRAW"
      BY <1>1, <1>2, <1>12, <2>2 DEF Ordered, States
    <3>2. tt'.requested = 0 /\ askSetup' = 0
      BY <1>9, <2>2, <3>1 DEF TraversalStep
    <3>3. ts'.requested = 0 /\ SetUp = <<>>
      BY <1>8, <3>1 DEF SetupStep
    <3>4. Vacant(setupOut)
      BY <2>2 DEF IInv, TraversalOrder
    <3>5. Vacant(setupOut')
      BY <3>3, <3>4, BusesCarry DEF Carried
    <3>6. Crossing(setupOut') = 0
      BY <1>3, <3>5 DEF Counted
    <3> QED BY <3>2, <3>3, <3>6
  <2> QED BY <2>1, <2>2
<1> QED BY <1>10, <1>11, <1>12 DEF CreditsKept

-----------------------------------------------------------------------------
(* The cycle keeps the room.                                               *)

LEMMA RoomNext ==
  ASSUME IInv, Cycle
  PROVE  Room'
<1>1. /\ {pa.state, clp.state, ts.state, tt.state} \subseteq States
      /\ command.geometry \in {"none", "DRAW", "END"} /\ command.raster \in {"none", "DRAW", "END"}
      /\ (pa.state = "READY") <=> (clp.state = "READY")
      /\ command.geometry = "DRAW" => pa.state = "READY"
      /\ pa.state = "DRAWING" => clp.state = "DRAWING"
      /\ command.raster = "DRAW" => ts.state = "READY"
  BY PhaseFacts DEF IInv
<1>2. /\ pa'.state = IF pa.state = "DRAWING" THEN IF Ended(Assembled) THEN "END" ELSE "DRAWING"
                     ELSE Ordered(pa, command.geometry)
      /\ ts'.state = IF ts.state = "DRAWING" THEN IF Ended(SetUp) THEN "END" ELSE "DRAWING"
                     ELSE Ordered(ts, command.raster)
  BY StatesAre
<1>3. /\ Counted(clipExec, Clipping, clipExec') /\ Counted(clipIn, Assembled, clipIn')
      /\ Counted(bus, Clipped, bus') /\ Counted(setup, SettingUp, setup')
  BY AllCounted
<1>4. Typed'
  BY TypedNext DEF IInv
<1>5. /\ pa.requests \in Nat /\ clp.reserved \in Nat /\ clp.requested \in Nat /\ ts.reserves \in Nat
      /\ Len(clp.buffer) \in Nat /\ Len(ts.fifo) \in Nat
      /\ askAssembly \in Nat /\ askClipper \in Nat /\ clp.buffer \in Seq(Triangles)
      /\ Len(tt.queue) \in Nat /\ tt.requested \in Nat
  <2>1. clp.buffer \in Seq(Triangles) /\ ts.fifo \in Seq(Triangles) /\ tt.queue \in Seq(Triangles)
    BY DEF IInv, Typed, ClpState, TsState, TtState
  <2>2. Len(clp.buffer) \in Nat /\ Len(ts.fifo) \in Nat /\ Len(tt.queue) \in Nat
    BY <2>1
  <2>3. /\ pa.requests \in Nat /\ clp.reserved \in Nat /\ clp.requested \in Nat /\ ts.reserves \in Nat
        /\ askAssembly \in Nat /\ askClipper \in Nat /\ tt.requested \in Nat
    BY Sizes DEF IInv, Typed, PaState, ClpState, TsState, TtState
  <2> QED BY <2>1, <2>2, <2>3
<1>6. /\ pa'.requests \in Nat /\ clp'.reserved \in Nat /\ clp'.requested \in Nat /\ ts'.reserves \in Nat
      /\ Len(clp'.buffer) \in Nat /\ Len(ts'.fifo) \in Nat
      /\ askAssembly' \in Nat /\ askClipper' \in Nat
  <2>1. clp'.buffer \in Seq(Triangles) /\ ts'.fifo \in Seq(Triangles)
    BY <1>4 DEF Typed, ClpState, TsState
  <2>2. Len(clp'.buffer) \in Nat /\ Len(ts'.fifo) \in Nat
    BY <2>1
  <2>3. /\ pa'.requests \in Nat /\ clp'.reserved \in Nat /\ clp'.requested \in Nat
        /\ ts'.reserves \in Nat /\ askAssembly' \in Nat /\ askClipper' \in Nat
    BY <1>4, Sizes DEF Typed, PaState, ClpState, TsState
  <2> QED BY <2>2, <2>3
<1>7. ClipBuffer \in Nat /\ SetupFIFO \in Nat /\ TriangleQueue \in Nat
  BY Sizes
<1>8. /\ clp.reserved + Len(clp.buffer) <= ClipBuffer
      /\ pa.requests + askAssembly <= ClipBuffer
      /\ ts.reserves + Len(ts.fifo) <= SetupFIFO
      /\ ts.state = "DRAWING" => ts.reserves >= Crossing(bus) + Crossing(setup)
      /\ Len(tt.queue) + tt.requested <= TriangleQueue
  BY DEF IInv, Room
<1>9. AssemblyStep(Assembled)
  BY DEF Cycle
<1>10. PICK new : ClipperStep(Clipping, new, Clipped)
  BY DEF Cycle
<1>11. PICK kept : SetupStep(SettingUp, kept, SetUp)
  BY DEF Cycle
<1>12. PICK left : TraversalStep(left)
  BY DEF Cycle
<1>13. Len(<<>>) = 0
  BY NothingEnds
<1>14. clp'.reserved + Len(clp'.buffer) <= ClipBuffer
  <2>1. CASE clp.state = "DRAWING"
    <3>1. /\ Len(new) \in Nat /\ Len(new) <= Len(clipExec[1]) /\ Len(clipExec[1]) \in Nat
          /\ Len(Clipped) + Len(clp'.buffer) = Len(clp.buffer) + Len(new) /\ Len(Clipped) \in Nat
      <4>1. new \in Group /\ Len(Clipped) + Len(clp'.buffer) = Len(clp.buffer) + Len(new)
        BY <1>10, <2>1, ClipperEnds
      <4>2. Len(new) <= Len(clipExec[1])
        BY <1>10, <2>1 DEF ClipperStep, Leaves
      <4>3. Len(clipExec[1]) \in Nat /\ Len(Clipped) \in Nat
        BY <1>3 DEF Counted
      <4> QED BY <4>1, <4>2, <4>3, GroupIs
    <3>2. /\ clp.reserved + Len(clp.buffer) + askAssembly' <= ClipBuffer
          /\ clp'.reserved = clp.reserved + askAssembly' - Len(clipExec[1])
      BY <1>10, <2>1 DEF ClipperStep
    <3> DEFINE r == clp.reserved
               b == Len(clp.buffer)
               k1 == askAssembly'
               e == Len(clipExec[1])
               n == Len(new)
               s == Len(Clipped)
               r1 == clp'.reserved
               b1 == Len(clp'.buffer)
    <3>3. /\ r \in Nat /\ b \in Nat /\ k1 \in Nat /\ e \in Nat /\ n \in Nat /\ s \in Nat /\ r1 \in Nat /\ b1 \in Nat
          /\ n <= e /\ s + b1 = b + n /\ r + b + k1 <= ClipBuffer /\ r1 = r + k1 - e
      BY <1>5, <1>6, <3>1, <3>2
    <3> HIDE DEF r, b, k1, e, n, s, r1, b1
    <3>4. r1 + b1 <= ClipBuffer
      BY <1>7, <3>3
    <3> QED BY <3>4 DEF r1, b1
  <2>2. CASE clp.state # "DRAWING"
    <3>1. \/ clp'.reserved = 0 /\ clp'.buffer = <<>>
          \/ clp'.reserved = clp.reserved /\ clp'.buffer = clp.buffer
      BY <1>10, <2>2 DEF ClipperStep
    <3>2. 0 + 0 <= ClipBuffer
      BY <1>7
    <3> QED BY <1>8, <1>13, <3>1, <3>2
  <2> QED BY <2>1, <2>2
<1>15. pa'.requests + askAssembly' <= ClipBuffer
  <2>0. Len(Assembled) \in Nat
    BY <1>3 DEF Counted
  <2>1. CASE clp.state = "DRAWING"
    <3>1. pa'.requests + Len(Assembled) = pa.requests + askAssembly
      BY <1>1, <1>9, <2>1 DEF AssemblyStep
    <3>2. clp.reserved = pa.requests + askAssembly + Crossing(clipIn) + Crossing(clipExec)
      BY <2>1 DEF IInv, CreditsKept
    <3>3. clp.reserved + Len(clp.buffer) + askAssembly' <= ClipBuffer
      BY <1>10, <2>1 DEF ClipperStep
    <3>4. Crossing(clipIn) \in Nat /\ Crossing(clipExec) \in Nat
      BY <1>3 DEF Counted
    <3> DEFINE r == clp.reserved
               b == Len(clp.buffer)
               k1 == askAssembly'
               a == Len(Assembled)
               q == pa.requests
               k == askAssembly
               q1 == pa'.requests
               x == Crossing(clipIn)
               y == Crossing(clipExec)
    <3>5. /\ r \in Nat /\ b \in Nat /\ k1 \in Nat /\ a \in Nat /\ q \in Nat /\ k \in Nat /\ q1 \in Nat
          /\ x \in Nat /\ y \in Nat
          /\ q1 + a = q + k /\ r = q + k + x + y /\ r + b + k1 <= ClipBuffer
      BY <1>5, <1>6, <2>0, <3>1, <3>2, <3>3, <3>4
    <3> HIDE DEF r, b, k1, a, q, k, q1, x, y
    <3>6. q1 + k1 <= ClipBuffer
      BY <1>7, <3>5
    <3> QED BY <3>6 DEF q1, k1
  <2>2. CASE clp.state # "DRAWING"
    <3>1. askAssembly' = 0
      BY <1>10, <2>2 DEF ClipperStep
    <3>2. CASE pa.state = "READY" /\ command.geometry = "DRAW"
      <4>1. pa'.requests = 0
        BY <1>9, <3>2 DEF AssemblyStep
      <4> QED BY <1>7, <3>1, <4>1
    <3>3. CASE ~(pa.state = "READY" /\ command.geometry = "DRAW")
      <4>1. pa'.requests + Len(Assembled) = pa.requests + askAssembly
        BY <1>9, <3>3 DEF AssemblyStep
      <4> DEFINE a == Len(Assembled)
                 q == pa.requests
                 k == askAssembly
                 q1 == pa'.requests
      <4>2. /\ a \in Nat /\ q \in Nat /\ k \in Nat /\ q1 \in Nat
            /\ q1 + a = q + k /\ q + k <= ClipBuffer
        BY <1>5, <1>6, <1>8, <2>0, <4>1
      <4> HIDE DEF a, q, k, q1
      <4>3. q1 + 0 <= ClipBuffer
        BY <1>7, <4>2
      <4> QED BY <3>1, <4>3 DEF q1
    <3> QED BY <3>2, <3>3
  <2> QED BY <2>1, <2>2
<1>16. ts'.reserves + Len(ts'.fifo) <= SetupFIFO
  <2>1. CASE ts.state = "DRAWING"
    <3>1. /\ Len(kept) \in Nat /\ Len(kept) <= Len(setup[1]) /\ Len(setup[1]) \in Nat
          /\ Len(SetUp) + Len(ts'.fifo) = Len(ts.fifo) + Len(kept) /\ Len(SetUp) \in Nat
      <4>1. kept \in Group /\ Len(SetUp) + Len(ts'.fifo) = Len(ts.fifo) + Len(kept)
        BY <1>11, <2>1, SetupEnds
      <4>2. Len(kept) <= Len(setup[1])
        BY <1>11, <2>1 DEF SetupStep, Leaves
      <4>3. Len(setup[1]) \in Nat
        BY <1>3 DEF Counted
      <4>4. Len(SetUp) \in Nat
        BY Moves, GroupIs DEF IInv
      <4> QED BY <4>1, <4>2, <4>3, <4>4, GroupIs
    <3>2. /\ ts.reserves + Len(ts.fifo) + askClipper' <= SetupFIFO
          /\ ts'.reserves = ts.reserves + askClipper' - Len(setup[1])
      BY <1>11, <2>1 DEF SetupStep
    <3> DEFINE r == ts.reserves
               b == Len(ts.fifo)
               k1 == askClipper'
               e == Len(setup[1])
               n == Len(kept)
               s == Len(SetUp)
               r1 == ts'.reserves
               b1 == Len(ts'.fifo)
    <3>3. /\ r \in Nat /\ b \in Nat /\ k1 \in Nat /\ e \in Nat /\ n \in Nat /\ s \in Nat /\ r1 \in Nat /\ b1 \in Nat
          /\ n <= e /\ s + b1 = b + n /\ r + b + k1 <= SetupFIFO /\ r1 = r + k1 - e
      BY <1>5, <1>6, <3>1, <3>2
    <3> HIDE DEF r, b, k1, e, n, s, r1, b1
    <3>4. r1 + b1 <= SetupFIFO
      BY <1>7, <3>3
    <3> QED BY <3>4 DEF r1, b1
  <2>2. CASE ts.state # "DRAWING"
    <3>1. \/ ts'.reserves = 0 /\ ts'.fifo = <<>>
          \/ ts'.reserves = ts.reserves /\ ts'.fifo = ts.fifo
      BY <1>11, <2>2 DEF SetupStep
    <3>2. 0 + 0 <= SetupFIFO
      BY <1>7
    <3> QED BY <1>8, <1>13, <3>1, <3>2
  <2> QED BY <2>1, <2>2
<1>17. ts'.state = "DRAWING" => ts'.reserves >= Crossing(bus') + Crossing(setup')
  <2> SUFFICES ASSUME ts'.state = "DRAWING" PROVE ts'.reserves >= Crossing(bus') + Crossing(setup')
    OBVIOUS
  <2>1. CASE ts.state = "DRAWING"
    <3>1. ts'.reserves = ts.reserves + askClipper' - Len(setup[1])
      BY <1>11, <2>1 DEF SetupStep
    <3>2. SettingUp = bus[1]
      BY <2>1, TakenIn
    <3> DEFINE r == ts.reserves
               k1 == askClipper'
               r1 == ts'.reserves
               x == Crossing(bus)
               y == Crossing(setup)
               x1 == Crossing(bus')
               y1 == Crossing(setup')
               i == Len(bus[1])
               e == Len(setup[1])
               a == Len(Clipped)
    <3>3. /\ r \in Nat /\ k1 \in Nat /\ r1 \in Nat /\ x \in Nat /\ y \in Nat /\ x1 \in Nat /\ y1 \in Nat
          /\ i \in Nat /\ e \in Nat /\ a \in Nat
          /\ r1 = r + k1 - e /\ x1 + i = x + a /\ y1 + e = y + i
      BY <1>3, <1>5, <1>6, <3>1, <3>2 DEF Counted
    <3>4. r >= x + y + a
      <4>1. CASE Clipped = <<>>
        <5>1. a = 0 /\ r >= x + y
          BY <1>8, <1>13, <2>1, <4>1
        <5> HIDE DEF r, x, y, a
        <5> QED BY <3>3, <5>1
      <4>2. CASE Clipped # <<>>
        <5>1. ~Passed /\ clp.state = "DRAWING"
          BY <4>2, ClippedWhen
        <5>2. clp.window = 0 /\ cp.status = "DRAWING"
          BY <5>1 DEF IInv, Forgotten, Passed
        <5>3. clp'.requested + Len(Clipped) = clp.requested + askClipper
          BY <1>10, <5>1, <5>2 DEF ClipperStep, Listened
        <5>4. ts.reserves = clp.requested + askClipper + Crossing(bus) + Crossing(setup)
          BY <2>1, <5>1, <5>2 DEF IInv, CreditsKept
        <5> DEFINE q == clp.requested
                   q1 == clp'.requested
                   k == askClipper
        <5>5. q \in Nat /\ q1 \in Nat /\ k \in Nat /\ q1 + a = q + k /\ r = q + k + x + y
          BY <1>5, <1>6, <5>3, <5>4
        <5> HIDE DEF r, x, y, a, q, q1, k
        <5> QED BY <3>3, <5>5
      <4> QED BY <4>1, <4>2
    <3> HIDE DEF r, k1, r1, x, y, x1, y1, i, e, a
    <3>5. r1 >= x1 + y1
      BY <3>3, <3>4
    <3> QED BY <3>5 DEF r1, x1, y1
  <2>2. CASE ts.state # "DRAWING"
    <3>1. ts.state = "READY" /\ command.raster = "DRAW"
      BY <1>1, <1>2, <2>2 DEF Ordered, States
    <3>2. ts'.reserves = 0 /\ SettingUp = <<>>
      BY <1>11, <2>2, <3>1 DEF SetupStep
    <3>3. Clipped = <<>>
      BY <2>2, ClippedWhen
    <3>4. Vacant(bus) /\ Vacant(setup)
      BY <2>2 DEF IInv, SetupOrder
    <3>5. Vacant(bus') /\ Vacant(setup')
      BY <3>2, <3>3, <3>4, UnitsCarry, BusesCarry DEF Carried
    <3>6. Crossing(bus') = 0 /\ Crossing(setup') = 0
      BY <1>3, <3>5 DEF Counted
    <3> QED BY <3>2, <3>6
  <2> QED BY <2>1, <2>2
<1>18. Len(tt'.queue) + tt'.requested <= TriangleQueue
  <2>1. CASE tt.state = "DRAWING"
    BY <1>12, <2>1 DEF TraversalStep
  <2>2. CASE tt.state # "DRAWING"
    <3>1. \/ tt'.requested = 0 /\ tt'.queue = <<>>
          \/ tt'.requested = tt.requested /\ tt'.queue = tt.queue
      BY <1>12, <2>2 DEF TraversalStep
    <3>2. 0 + 0 <= TriangleQueue
      BY <1>7
    <3> QED BY <1>8, <1>13, <3>1, <3>2
  <2> QED BY <2>1, <2>2
<1>19. pa'.stored + pa'.asked <= AssemblyQueue
  BY <1>9 DEF AssemblyStep
<1>20. pa'.state = "DRAWING" => pa'.received <= VertexCount'
  <2> SUFFICES ASSUME pa'.state = "DRAWING" PROVE pa'.received <= VertexCount'
    OBVIOUS
  <2>1. CASE pa.state = "DRAWING"
    <3>1. batch' = batch
      <4>1. ~Draw
        BY <1>1, <2>1 DEF Draw, IInv, Phases, Geometry
      <4>2. ~DrawAhead
        BY <1>1, <2>1 DEF DrawAhead, IInv, Phases, Geometry
      <4> QED BY <4>1, <4>2
          DEF Cycle, CommandProcessorCycle, EndGeometry, EndFragment, NextBatch, AllDrawn, OtherWork
    <3>2. pa'.received <= VertexCount
      BY <1>9, <2>1 DEF AssemblyStep
    <3>3. VertexCount' = VertexCount
      BY <3>1 DEF VertexCount
    <3> QED BY <3>2, <3>3
  <2>2. CASE pa.state # "DRAWING"
    <3>1. pa.state = "READY" /\ command.geometry = "DRAW"
      BY <1>1, <1>2, <2>2 DEF Ordered, States
    <3>2. pa'.received = 0
      BY <1>9, <3>1 DEF AssemblyStep
    <3>3. batch' \in Batches
      BY <1>4 DEF Typed
    <3>4. batch'.indices \in Seq(Nat)
      BY <3>3, BatchAssumption
    <3>5. VertexCount' \in Nat
      BY <3>4 DEF VertexCount
    <3> QED BY <3>2, <3>5
  <2> QED BY <2>1, <2>2
<1> QED BY <1>14, <1>15, <1>16, <1>17, <1>18, <1>19, <1>20 DEF Room

-----------------------------------------------------------------------------
(* The cycle keeps the time of the buses.                                  *)

LEMMA CountDownIs ==
  ASSUME NEW n \in Nat
  PROVE  /\ CountDown(n) \in Nat /\ CountDown(n) <= n /\ n <= CountDown(n) + 1
         /\ CountDown(n) = 0 <=> n <= 1
         /\ \A m \in Nat : m <= n => CountDown(m) <= CountDown(n)
BY DEF CountDown

LEMMA InTimeNext ==
  ASSUME IInv, Cycle
  PROVE  InTime'
<1>1. /\ {pa.state, clp.state, ts.state, tt.state} \subseteq States
      /\ command.geometry \in {"none", "DRAW", "END"} /\ command.raster \in {"none", "DRAW", "END"}
      /\ (pa.state = "READY") <=> (clp.state = "READY")
      /\ command.geometry = "DRAW" => pa.state = "READY"
      /\ pa.state = "DRAWING" => clp.state = "DRAWING"
      /\ command.raster = "DRAW" => ts.state = "READY"
      /\ ~Passed /\ ts.state # "READY" => clp.state = "DRAWING"
  BY PhaseFacts DEF IInv
<1>2. /\ pa'.state = IF pa.state = "DRAWING" THEN IF Ended(Assembled) THEN "END" ELSE "DRAWING"
                     ELSE Ordered(pa, command.geometry)
      /\ ts'.state = IF ts.state = "DRAWING" THEN IF Ended(SetUp) THEN "END" ELSE "DRAWING"
                     ELSE Ordered(ts, command.raster)
  BY StatesAre
<1>3. Typed'
  BY TypedNext DEF IInv
<1>4. /\ ClipStart \in Nat /\ ClipStart > 0 /\ SetupStart \in Nat /\ SetupStart > 0
      /\ BusLatency \in Nat /\ BusLatency > 0
  BY Sizes
<1>5. /\ pa.wait \in 0 .. ClipStart /\ clp.wait \in 0 .. ClipStart /\ clp.busWait \in 0 .. SetupStart
      /\ ts.wait \in 0 .. SetupStart /\ bus \in Pipe(BusLatency)
  BY DEF IInv, Typed, PaState, ClpState, TsState
<1>6. /\ pa'.wait \in 0 .. ClipStart /\ clp'.wait \in 0 .. ClipStart /\ clp'.busWait \in 0 .. SetupStart
      /\ ts'.wait \in 0 .. SetupStart /\ bus' \in Pipe(BusLatency)
  BY <1>3 DEF Typed, PaState, ClpState, TsState
<1>7. AssemblyStep(Assembled)
  BY DEF Cycle
<1>8. PICK new : ClipperStep(Clipping, new, Clipped)
  BY DEF Cycle
<1>9. PICK kept : SetupStep(SettingUp, kept, SetUp)
  BY DEF Cycle
<1>10. /\ clipIn[1] # <<>> => clp.wait = 0
       /\ pa.state = "DRAWING" => clp.wait <= pa.wait
       /\ pa.state = "DRAWING" /\ clipIn[1] # <<>> => pa.wait = ClipStart
  BY DEF IInv, InTime
<1>11. /\ \A n \in DOMAIN bus : bus[n] # <<>> => ts.wait <= n - 1
       /\ \A m, n \in DOMAIN bus : m < n /\ bus[m] # <<>> /\ bus[n] # <<>> => n - m >= SetupStart
       /\ ~Passed /\ ts.state = "DRAWING" =>
            /\ ts.wait <= clp.busWait + BusLatency - 1
            /\ \A n \in DOMAIN bus : bus[n] # <<>> => clp.busWait + BusLatency - n >= SetupStart
  BY DEF IInv, InTime
<1>12. DOMAIN bus = 1 .. BusLatency /\ DOMAIN bus' = 1 .. BusLatency
  BY <1>4, <1>5, <1>6, PipeIs
<1>13. \A n \in 1 .. BusLatency - 1 : bus'[n] = bus[n + 1] /\ n + 1 \in 1 .. BusLatency
  <2>1. bus' = Carry(bus, Clipped) /\ Clipped \in Group
    BY Moves DEF IInv
  <2>2. \A n \in 1 .. BusLatency - 1 : Carry(bus, Clipped)[n] = bus[n + 1]
    BY <1>4, <1>5, <2>1, CarryIs
  <2>3. \A n \in 1 .. BusLatency - 1 : n + 1 \in 1 .. BusLatency
    BY <1>4
  <2> QED BY <2>1, <2>2, <2>3
<1>14. clp.state = "DRAWING" =>
         /\ Clipping = clipIn[1]
         /\ clp'.wait = IF Clipping # <<>> THEN ClipStart - 1 ELSE CountDown(clp.wait)
         /\ clp'.busWait = IF Clipped # <<>> THEN SetupStart ELSE CountDown(clp.busWait)
  BY <1>8, TakenIn DEF ClipperStep
<1>15. ts.state = "DRAWING" =>
         /\ SettingUp = bus[1]
         /\ ts'.wait = IF SettingUp # <<>> THEN SetupStart - 1 ELSE CountDown(ts.wait)
  BY <1>9, TakenIn DEF SetupStep
<1>16. ASSUME Clipped # <<>>
       PROVE  ~Passed /\ ts.state = "DRAWING" /\ clp.state = "DRAWING" /\ clp.busWait <= 1
  <2>1. CountDown(clp.busWait) = 0
    BY <1>16, ClippedWhen
  <2>2. clp.busWait \in Nat
    BY <1>4, <1>5
  <2>3. clp.busWait <= 1
    BY <2>1, <2>2, CountDownIs
  <2> QED BY <1>16, <2>3, ClippedWhen
<1>17. ts.state # "DRAWING" => \A n \in DOMAIN bus' : bus'[n] = <<>>
  <2> SUFFICES ASSUME ts.state # "DRAWING" PROVE Vacant(bus')
    BY DEF Vacant
  <2>1. Vacant(bus)
    BY DEF IInv, SetupOrder
  <2>2. Clipped = <<>>
    BY ClippedWhen
  <2> QED BY <2>1, <2>2, BusesCarry DEF Carried
<1>18. ASSUME Assembled # <<>>
       PROVE  pa.state = "DRAWING" /\ pa.wait <= 1 /\ pa'.wait = ClipStart
  <2>1. pa.state = "DRAWING"
    BY <1>7, <1>18 DEF AssemblyStep
  <2>2. CountDown(pa.wait) = 0 /\ pa'.wait = ClipStart
    BY <1>7, <1>18, <2>1 DEF AssemblyStep
  <2>3. pa.wait \in Nat
    BY <1>4, <1>5
  <2> QED BY <2>1, <2>2, <2>3, CountDownIs
<1>19. clipIn'[1] # <<>> => clp'.wait = 0
  <2> SUFFICES ASSUME Assembled # <<>> PROVE clp'.wait = 0
    BY DEF Assembled
  <2>1. pa.state = "DRAWING" /\ clp.state = "DRAWING" /\ pa.wait <= 1
    BY <1>1, <1>18
  <2>2. CASE Clipping # <<>>
    <3>1. pa.wait = ClipStart /\ clp'.wait = ClipStart - 1
      BY <1>10, <1>14, <2>1, <2>2
    <3> QED BY <1>4, <2>1, <3>1
  <2>3. CASE Clipping = <<>>
    <3>1. clp.wait <= pa.wait /\ clp'.wait = CountDown(clp.wait)
      BY <1>10, <1>14, <2>1, <2>3
    <3>2. clp.wait \in Nat /\ clp.wait <= 1
      BY <1>4, <1>5, <2>1, <3>1
    <3> QED BY <3>1, <3>2, CountDownIs
  <2> QED BY <2>2, <2>3
<1>20. pa'.state = "DRAWING" => clp'.wait <= pa'.wait
  <2> SUFFICES ASSUME pa'.state = "DRAWING" PROVE clp'.wait <= pa'.wait
    OBVIOUS
  <2>1. CASE pa.state = "DRAWING"
    <3>1. CASE Assembled # <<>>
      BY <1>4, <1>6, <1>18, <3>1
    <3>2. CASE Assembled = <<>>
      <4>1. pa'.wait = CountDown(pa.wait)
        BY <1>7, <2>1, <3>2 DEF AssemblyStep
      <4>2. CASE Clipping # <<>>
        <5>1. pa.wait = ClipStart /\ clp'.wait = ClipStart - 1
          BY <1>1, <1>10, <1>14, <2>1, <4>2
        <5> QED BY <1>4, <4>1, <5>1 DEF CountDown
      <4>3. CASE Clipping = <<>>
        <5>1. clp.wait <= pa.wait /\ clp'.wait = CountDown(clp.wait)
          BY <1>1, <1>10, <1>14, <2>1, <4>3
        <5>2. clp.wait \in Nat /\ pa.wait \in Nat
          BY <1>4, <1>5
        <5> QED BY <4>1, <5>1, <5>2, CountDownIs
      <4> QED BY <4>2, <4>3
    <3> QED BY <3>1, <3>2
  <2>2. CASE pa.state # "DRAWING"
    <3>1. pa.state = "READY" /\ clp.state = "READY" /\ command.geometry = "DRAW"
      BY <1>1, <1>2, <2>2 DEF Ordered, States
    <3>2. clp'.wait = 0
      BY <1>8, <3>1 DEF ClipperStep
    <3> QED BY <1>4, <1>6, <3>2
  <2> QED BY <2>1, <2>2
<1>21. pa'.state = "DRAWING" /\ clipIn'[1] # <<>> => pa'.wait = ClipStart
  BY <1>18 DEF Assembled
<1>22. \A n \in DOMAIN bus' : bus'[n] # <<>> => ts'.wait <= n - 1
  <2> SUFFICES ASSUME NEW n \in 1 .. BusLatency, bus'[n] # <<>> PROVE ts'.wait <= n - 1
    BY <1>12
  <2>1. ts.state = "DRAWING"
    BY <1>12, <1>17
  <2>2. CASE n = BusLatency
    <3>1. Clipped # <<>>
      BY <2>2 DEF Clipped
    <3>2. ~Passed /\ clp.busWait <= 1
      BY <1>16, <3>1
    <3>3. CASE SettingUp # <<>>
      <4>1. ts'.wait = SetupStart - 1 /\ bus[1] # <<>> /\ 1 \in DOMAIN bus
        BY <1>4, <1>12, <1>15, <2>1, <3>3
      <4>2. clp.busWait + BusLatency - 1 >= SetupStart
        BY <1>11, <2>1, <3>2, <4>1
      <4> QED BY <1>4, <1>5, <2>2, <3>2, <4>1, <4>2
    <3>4. CASE SettingUp = <<>>
      <4>1. ts'.wait = CountDown(ts.wait) /\ ts.wait <= clp.busWait + BusLatency - 1
        BY <1>11, <1>15, <2>1, <3>2, <3>4
      <4>2. ts.wait \in Nat /\ ts.wait <= BusLatency
        BY <1>4, <1>5, <3>2, <4>1
      <4> QED BY <1>4, <2>2, <4>1, <4>2 DEF CountDown
    <3> QED BY <3>3, <3>4
  <2>3. CASE n # BusLatency
    <3>1. n \in 1 .. BusLatency - 1 /\ n \in Nat
      BY <1>4, <2>3
    <3>2. bus[n + 1] # <<>> /\ n + 1 \in DOMAIN bus
      BY <1>12, <1>13, <3>1
    <3>3. CASE SettingUp # <<>>
      <4>1. ts'.wait = SetupStart - 1 /\ bus[1] # <<>> /\ 1 \in DOMAIN bus
        BY <1>4, <1>12, <1>15, <2>1, <3>3
      <4>2. 1 < n + 1
        BY <3>1
      <4>3. (n + 1) - 1 >= SetupStart
        BY <1>11, <3>2, <4>1, <4>2
      <4> QED BY <1>4, <3>1, <4>1, <4>3
    <3>4. CASE SettingUp = <<>>
      <4>1. ts'.wait = CountDown(ts.wait) /\ ts.wait <= (n + 1) - 1
        BY <1>11, <1>15, <2>1, <3>2, <3>4
      <4>2. ts.wait \in Nat
        BY <1>4, <1>5
      <4> QED BY <3>1, <4>1, <4>2 DEF CountDown
    <3> QED BY <3>3, <3>4
  <2> QED BY <2>2, <2>3
<1>23. \A m, n \in DOMAIN bus' : m < n /\ bus'[m] # <<>> /\ bus'[n] # <<>> => n - m >= SetupStart
  <2> SUFFICES ASSUME NEW m \in 1 .. BusLatency, NEW n \in 1 .. BusLatency, m < n,
                      bus'[m] # <<>>, bus'[n] # <<>>
               PROVE  n - m >= SetupStart
    BY <1>12
  <2>1. m \in 1 .. BusLatency - 1 /\ m \in Nat /\ n \in Nat
    BY <1>4
  <2>2. bus[m + 1] # <<>> /\ m + 1 \in DOMAIN bus
    BY <1>12, <1>13, <2>1
  <2>3. CASE n = BusLatency
    <3>1. Clipped # <<>>
      BY <2>3 DEF Clipped
    <3>2. ~Passed /\ clp.busWait <= 1 /\ ts.state = "DRAWING"
      BY <1>16, <3>1
    <3>3. clp.busWait + BusLatency - (m + 1) >= SetupStart
      BY <1>11, <2>2, <3>2
    <3> QED BY <1>4, <1>5, <2>1, <2>3, <3>2, <3>3
  <2>4. CASE n # BusLatency
    <3>1. n \in 1 .. BusLatency - 1
      BY <1>4, <2>4
    <3>2. bus[n + 1] # <<>> /\ n + 1 \in DOMAIN bus
      BY <1>12, <1>13, <3>1
    <3>3. m + 1 < n + 1
      BY <2>1
    <3>4. (n + 1) - (m + 1) >= SetupStart
      BY <1>11, <2>2, <3>2, <3>3
    <3> QED BY <1>4, <2>1, <3>4
  <2> QED BY <2>3, <2>4
<1>24. ASSUME ~Passed', ts'.state = "DRAWING"
       PROVE  /\ ts'.wait <= clp'.busWait + BusLatency - 1
              /\ \A n \in DOMAIN bus' : bus'[n] # <<>> => clp'.busWait + BusLatency - n >= SetupStart
  <2>1. ~Passed
    <3> SUFFICES ASSUME Passed PROVE FALSE
      OBVIOUS
    <3>1. ts.state = "READY"
      BY <1>24, PassedNext
    <3>2. command.raster = "DRAW"
      BY <1>2, <1>24, <3>1 DEF Ordered
    <3> QED BY <3>2 DEF IInv, Phases, Raster, Typed, Passed
  <2>2. clp'.busWait \in Nat /\ clp.busWait \in Nat /\ ts.wait \in Nat
    BY <1>4, <1>5, <1>6
  <2>3. CASE ts.state # "DRAWING"
    <3>1. ts.state = "READY" /\ command.raster = "DRAW"
      BY <1>1, <1>2, <1>24, <2>3 DEF Ordered, States
    <3>2. ts'.wait = 0
      BY <1>9, <3>1 DEF SetupStep
    <3>3. ts'.wait <= clp'.busWait + BusLatency - 1
      BY <1>4, <2>2, <3>2
    <3> QED BY <1>17, <2>3, <3>3
  <2>4. CASE ts.state = "DRAWING"
    <3>1. clp.state = "DRAWING"
      BY <1>1, <2>1, <2>4
    <3>2. /\ ts.wait <= clp.busWait + BusLatency - 1
          /\ \A n \in DOMAIN bus : bus[n] # <<>> => clp.busWait + BusLatency - n >= SetupStart
      BY <1>11, <2>1, <2>4
    <3>3. /\ clp'.busWait = IF Clipped # <<>> THEN SetupStart ELSE CountDown(clp.busWait)
          /\ SettingUp = bus[1]
          /\ ts'.wait = IF SettingUp # <<>> THEN SetupStart - 1 ELSE CountDown(ts.wait)
      BY <1>14, <1>15, <2>4, <3>1
    <3>4. clp.busWait <= CountDown(clp.busWait) + 1 /\ CountDown(clp.busWait) \in Nat
      BY <2>2, CountDownIs
    <3>5. ts'.wait <= clp'.busWait + BusLatency - 1
      <4>1. CASE Clipped # <<>>
        BY <1>4, <1>6, <3>3, <4>1
      <4>2. CASE Clipped = <<>> /\ SettingUp # <<>>
        <5>1. 1 \in DOMAIN bus /\ bus[1] # <<>>
          BY <1>4, <1>12, <3>3, <4>2
        <5>2. clp.busWait + BusLatency - 1 >= SetupStart
          BY <3>2, <5>1
        <5> QED BY <1>4, <2>2, <3>3, <3>4, <4>2, <5>2
      <4>3. CASE Clipped = <<>> /\ SettingUp = <<>>
        <5>1. ts'.wait = CountDown(ts.wait) /\ clp'.busWait = CountDown(clp.busWait)
          BY <3>3, <4>3
        <5> QED BY <1>4, <2>2, <3>2, <5>1 DEF CountDown
      <4> QED BY <4>1, <4>2, <4>3
    <3>6. ASSUME NEW n \in 1 .. BusLatency, bus'[n] # <<>>
          PROVE  clp'.busWait + BusLatency - n >= SetupStart
      <4>1. CASE Clipped # <<>>
        BY <1>4, <3>3, <4>1
      <4>2. CASE Clipped = <<>>
        <5>1. n # BusLatency
          BY <3>6, <4>2 DEF Clipped
        <5>2. n \in 1 .. BusLatency - 1
          BY <1>4, <5>1
        <5>3. bus[n + 1] # <<>> /\ n + 1 \in DOMAIN bus
          BY <1>12, <1>13, <3>6, <5>2
        <5>4. clp.busWait + BusLatency - (n + 1) >= SetupStart
          BY <3>2, <5>3
        <5>5. clp'.busWait = CountDown(clp.busWait)
          BY <3>3, <4>2
        <5> QED BY <1>4, <2>2, <3>4, <5>4, <5>5
      <4> QED BY <4>1, <4>2
    <3> QED BY <1>12, <3>5, <3>6
  <2> QED BY <2>3, <2>4
<1> QED BY <1>19, <1>20, <1>21, <1>22, <1>23, <1>24 DEF InTime

-----------------------------------------------------------------------------
(* The invariant.                                                          *)

LEMMA AtFirst == Init => IInv
<1> SUFFICES ASSUME Init PROVE IInv
  OBVIOUS
<1>1. /\ cp = [status |-> "READY", started |-> FALSE]
      /\ command = [geometry |-> "none", raster |-> "none"]
      /\ batch \in Batches /\ culling = batch.culling
      /\ pa = Idle(PaStart) /\ clp = Idle(ClpStart(0)) /\ ts = Idle(TsStart) /\ tt = Idle(TtStart)
      /\ askAssembly = 0 /\ askClipper = 0 /\ askSetup = 0
  BY DEF Init
<1>2. /\ clipIn = Empty(1) /\ clipExec = Empty(ClipLatency) /\ bus = Empty(BusLatency)
      /\ setup = Empty(SetupLatency) /\ setupOut = Empty(OutputLatency)
  BY DEF Init
<1>3. /\ clipIn \in Pipe(1) /\ clipExec \in Pipe(ClipLatency) /\ bus \in Pipe(BusLatency)
      /\ setup \in Pipe(SetupLatency) /\ setupOut \in Pipe(OutputLatency)
      /\ Vacant(clipIn) /\ Vacant(clipExec) /\ Vacant(bus) /\ Vacant(setup) /\ Vacant(setupOut)
  <2>1. ASSUME NEW latency \in Nat, latency > 0
        PROVE  Empty(latency) \in Pipe(latency) /\ Vacant(Empty(latency))
    BY <2>1, EmptyPipe
  <2>2. /\ 1 \in Nat /\ 1 > 0 /\ ClipLatency \in Nat /\ ClipLatency > 0 /\ BusLatency \in Nat /\ BusLatency > 0
        /\ SetupLatency \in Nat /\ SetupLatency > 0 /\ OutputLatency \in Nat /\ OutputLatency > 0
    BY Sizes
  <2>3. /\ Empty(1) \in Pipe(1) /\ Empty(ClipLatency) \in Pipe(ClipLatency)
        /\ Empty(BusLatency) \in Pipe(BusLatency) /\ Empty(SetupLatency) \in Pipe(SetupLatency)
        /\ Empty(OutputLatency) \in Pipe(OutputLatency)
        /\ Vacant(Empty(1)) /\ Vacant(Empty(ClipLatency)) /\ Vacant(Empty(BusLatency))
        /\ Vacant(Empty(SetupLatency)) /\ Vacant(Empty(OutputLatency))
    BY <2>1, <2>2
  <2> QED BY <1>2, <2>3
<1>4. /\ pa.state = "READY" /\ pa.received = 0 /\ pa.asked = 0 /\ pa.stored = 0 /\ pa.requests = 0
  BY <1>1 DEF Idle, PaStart
<1>5. /\ clp.state = "READY" /\ clp.requested = 0 /\ clp.window = 0 /\ clp.reserved = 0 /\ clp.wait = 0
      /\ clp.busWait = 0 /\ clp.buffer = <<>>
  BY <1>1 DEF Idle, ClpStart
<1>6. /\ ts.state = "READY" /\ ts.requested = 0 /\ ts.reserves = 0 /\ ts.wait = 0 /\ ~ts.last /\ ts.fifo = <<>>
  BY <1>1 DEF Idle, TsStart
<1>7. /\ tt.state = "READY" /\ tt.requested = 0 /\ tt.queue = <<>> /\ tt.finished /\ tt.size = 0
  BY <1>1 DEF Idle, TtStart
<1>8. EndsBatch(<<>>) /\ ~Ended(<<>>) /\ Len(<<>>) = 0
  BY NothingEnds
<1>9. Typed
  <2>1. pa \in PaState
    <3>1. /\ 0 \in 0 .. AssemblyQueue /\ 0 \in 0 .. AssemblyQueue - 1 /\ 2 \in 0 .. AssemblyQueue - 1
          /\ 3 \in 0 .. AssemblyQueue - 1 /\ 0 \in 0 .. ClipStart
      BY Sizes
    <3>2. [n \in 0 .. AssemblyQueue - 1 |-> 0] \in [0 .. AssemblyQueue - 1 -> Nat]
      OBVIOUS
    <3>3. PaStart \in PaState
      BY <3>1, <3>2 DEF PaStart, PaState, States
    <3> QED BY <1>1, <3>3, PaFields DEF Idle, States
  <2>2. clp \in ClpState
    <3>1. 0 \in 0 .. BusLatency + 4 /\ 0 \in 0 .. ClipStart /\ 0 \in 0 .. SetupStart
      BY Sizes
    <3>2. ClpStart(0) \in ClpState
      BY <3>1 DEF ClpStart, ClpState, States
    <3> QED BY <1>1, <3>2, ClpFields DEF Idle, States
  <2>3. ts \in TsState
    <3>1. 0 \in 0 .. SetupStart
      BY Sizes
    <3>2. TsStart \in TsState
      BY <3>1 DEF TsStart, TsState, States
    <3> QED BY <1>1, <3>2, TsFields DEF Idle, States
  <2>4. tt \in TtState
    <3>1. 0 \in 0 .. TriangleBatch
      BY Sizes
    <3>2. TtStart \in TtState
      BY <3>1 DEF TtStart, TtState, States
    <3> QED BY <1>1, <3>2, TtFields DEF Idle, States
  <2>5. {askAssembly, askClipper, askSetup} \subseteq 0 .. TrianglesCycle
    BY <1>1, Sizes
  <2>6. /\ cp \in [status : {"READY", "DRAWING", "END_GEOMETRY", "END_FRAGMENT"}, started : BOOLEAN]
        /\ command \in [geometry : {"none", "DRAW", "END"}, raster : {"none", "DRAW", "END"}]
        /\ batch \in Batches /\ culling \in { b.culling : b \in Batches }
    BY <1>1
  <2> QED BY <1>3, <2>1, <2>2, <2>3, <2>4, <2>5, <2>6 DEF Typed
<1>10. Phases
  BY <1>1, <1>4, <1>5, <1>6, <1>7 DEF Phases, Geometry, Raster
<1>11. ~Holds(clipIn) /\ ~Holds(clipExec) /\ ~Holds(bus) /\ ~Holds(setup) /\ ~Holds(setupOut)
  BY <1>3, NoneHeld
<1>12. Orderly(clipIn) /\ Orderly(clipExec) /\ Orderly(bus) /\ Orderly(setup) /\ Orderly(setupOut)
  BY <1>3, <1>8 DEF Orderly, Vacant
<1>13. ClipperOrder
  BY <1>3, <1>5, <1>8, <1>11, <1>12 DEF ClipperOrder
<1>14. SetupOrder
  BY <1>3, <1>6, <1>8, <1>11, <1>12 DEF SetupOrder
<1>15. TraversalOrder
  BY <1>3, <1>7, <1>8, <1>11, <1>12 DEF TraversalOrder
<1>16. Forgotten
  BY <1>1, <1>5, <1>6, <1>7, <1>8 DEF Forgotten, Passed
<1>17. CreditsKept
  BY <1>5, <1>6, <1>7 DEF CreditsKept
<1>18. Room
  <2>1. 0 <= ClipBuffer /\ 0 <= SetupFIFO /\ 0 <= TriangleQueue /\ 0 <= AssemblyQueue
    BY Sizes
  <2>2. 0 + 0 = 0
    OBVIOUS
  <2> QED BY <1>1, <1>4, <1>5, <1>6, <1>7, <1>8, <2>1, <2>2 DEF Room
<1>19. InTime
  <2>1. clipIn[1] = <<>>
    <3>1. 1 \in Nat /\ 1 > 0
      OBVIOUS
    <3> QED BY <1>3, <3>1, FirstIn
  <2> QED BY <1>1, <1>3, <1>4, <1>6, <2>1 DEF InTime, Vacant, Passed
<1> QED BY <1>9, <1>10, <1>13, <1>14, <1>15, <1>16, <1>17, <1>18, <1>19 DEF IInv

LEMMA Stutters ==
  ASSUME IInv, UNCHANGED vars
  PROVE  IInv'
<1>1. /\ cp' = cp /\ command' = command /\ batch' = batch /\ culling' = culling /\ pa' = pa /\ clp' = clp
      /\ ts' = ts /\ tt' = tt /\ askAssembly' = askAssembly /\ askClipper' = askClipper /\ askSetup' = askSetup
      /\ clipIn' = clipIn /\ clipExec' = clipExec /\ bus' = bus /\ setup' = setup /\ setupOut' = setupOut
  BY DEF vars, links
<1>2. Typed'
  BY <1>1 DEF IInv, Typed
<1>3. Phases'
  BY <1>1 DEF IInv, Phases, GeometryBegun, Geometry, RasterBegun, Raster
<1>4. Passed' <=> Passed
  BY <1>1 DEF Passed
<1>5. ClipperOrder' /\ SetupOrder' /\ TraversalOrder'
  BY <1>1, <1>4 DEF IInv, ClipperOrder, SetupOrder, TraversalOrder
<1>6. Forgotten'
  BY <1>1, <1>4 DEF IInv, Forgotten
<1>7. CreditsKept'
  BY <1>1 DEF IInv, CreditsKept
<1>8. Room'
  BY <1>1 DEF IInv, Room, VertexCount
<1>9. InTime'
  BY <1>1, <1>4 DEF IInv, InTime
<1> QED BY <1>2, <1>3, <1>5, <1>6, <1>7, <1>8, <1>9 DEF IInv

LEMMA Invariant == Spec => []IInv
<1>1. Init => IInv
  BY AtFirst
<1>2. IInv /\ [Next]_vars => IInv'
  <2>1. ASSUME IInv, Next PROVE IInv'
    <3>1. Cycle
      BY <2>1, CycleIs
    <3>2. Typed' /\ Phases'
      BY <2>1, <3>1, TypedNext, PhasesNext DEF IInv
    <3>3. ClipperOrder' /\ SetupOrder' /\ TraversalOrder'
      BY <2>1, <3>1, ClipperOrderNext, SetupOrderNext, TraversalOrderNext
    <3>4. Forgotten' /\ CreditsKept'
      BY <2>1, <3>1, ForgottenNext, CreditsKeptNext
    <3>5. Room' /\ InTime'
      BY <2>1, <3>1, RoomNext, InTimeNext
    <3> QED BY <3>2, <3>3, <3>4, <3>5 DEF IInv
  <2>2. ASSUME IInv, UNCHANGED vars PROVE IInv'
    BY <2>2, Stutters
  <2> QED BY <2>1, <2>2
<1> QED BY <1>1, <1>2, PTL DEF Spec

\* The fields of the boxes stay in their types, their queues within their
\* sizes, and no group on a bus is larger than the bus.
THEOREM PipeTyped == Spec => []TypeOK
<1>1. IInv => TypeOK
  <2> SUFFICES ASSUME IInv PROVE TypeOK
    OBVIOUS
  <2>1. Typed /\ Room
    BY DEF IInv
  <2>2. /\ cp \in [status : {"READY", "DRAWING", "END_GEOMETRY", "END_FRAGMENT"}, started : BOOLEAN]
        /\ command \in [geometry : {"none", "DRAW", "END"}, raster : {"none", "DRAW", "END"}]
        /\ batch \in Batches /\ culling \in { b.culling : b \in Batches }
        /\ {pa.state, clp.state, ts.state, tt.state} \subseteq States
    BY <2>1 DEF Typed, PaState, ClpState, TsState, TtState
  <2>3. /\ pa.received \in Nat /\ (pa.state = "DRAWING" => pa.received <= VertexCount)
        /\ pa.stored \in 0 .. AssemblyQueue /\ pa.asked \in 0 .. AssemblyQueue
        /\ pa.free \in 0 .. AssemblyQueue - 1 /\ pa.lastVertex \in 0 .. AssemblyQueue - 1
        /\ pa.wait \in 0 .. ClipStart /\ pa.requests \in Nat /\ askAssembly \in Nat
    BY <2>1, Sizes DEF Typed, PaState, Room
  <2>4. pa.requests \in 0 .. ClipBuffer
    BY <2>1, <2>3, Sizes, SMTT(30) DEF Room
  <2>5. /\ clp.reserved \in Nat /\ clp.wait \in 0 .. ClipStart
        /\ clp.requested \in Nat /\ clp.window \in 0 .. BusLatency + 4
        /\ clp.buffer \in Seq(Triangles) /\ clp.busWait \in 0 .. SetupStart
    BY <2>1 DEF Typed, ClpState
  <2>6. clp.reserved \in 0 .. ClipBuffer
    <3>1. Len(clp.buffer) \in Nat
      BY <2>5
    <3>2. clp.reserved + Len(clp.buffer) <= ClipBuffer
      BY <2>1 DEF Room
    <3> QED BY <2>5, <3>1, <3>2, Sizes
  <2>7. /\ ts.requested \in Nat /\ ts.reserves \in Nat /\ ts.wait \in 0 .. SetupStart
        /\ ts.fifo \in Seq(Triangles) /\ ts.last \in BOOLEAN
    BY <2>1 DEF Typed, TsState
  <2>8. ts.reserves \in 0 .. SetupFIFO
    <3>1. Len(ts.fifo) \in Nat
      BY <2>7
    <3>2. ts.reserves + Len(ts.fifo) <= SetupFIFO
      BY <2>1 DEF Room
    <3> QED BY <2>7, <3>1, <3>2, Sizes
  <2>9. /\ tt.requested \in Nat /\ tt.queue \in Seq(Triangles)
        /\ tt.finished \in BOOLEAN /\ tt.size \in 0 .. TriangleBatch
    BY <2>1 DEF Typed, TtState
  <2>10. tt.requested \in 0 .. TriangleQueue
    <3>1. Len(tt.queue) \in Nat
      BY <2>9
    <3>2. Len(tt.queue) + tt.requested <= TriangleQueue
      BY <2>1 DEF Room
    <3> QED BY <2>9, <3>1, <3>2, Sizes
  <2>11. \A pipe \in {clipIn, clipExec, bus, setup, setupOut} : Groups(pipe)
    <3>1. ASSUME NEW latency, NEW pipe \in Pipe(latency) PROVE Groups(pipe)
      BY <3>1 DEF Groups, Pipe, Group
    <3> QED BY <2>1, <3>1 DEF Typed
  <2> QED BY <2>2, <2>3, <2>4, <2>5, <2>6, <2>7, <2>8, <2>9, <2>10, <2>11 DEF TypeOK
<1> QED BY <1>1, Invariant, PTL

\* Orders find the boxes in the states they are for, a triangle that arrives
\* is read in that cycle, every queue has room for what was asked for, and
\* nothing follows the mark of the end of a batch: no assertion of the boxes
\* fails.
THEOREM NoneUnexpected == Spec => []AssertionsHold
<1>1. IInv => AssertionsHold
  <2> SUFFICES ASSUME IInv PROVE AssertionsHold
    OBVIOUS
  <2>1. /\ command.geometry = "DRAW" => pa.state = "READY" /\ clp.state = "READY"
        /\ command.geometry = "END" => pa.state = "END" /\ clp.state = "END"
        /\ command.raster = "DRAW" => ts.state = "READY" /\ tt.state = "READY"
        /\ command.raster = "END" => ts.state = "END" /\ tt.state = "END"
    BY PhaseFacts DEF IInv
  <2>2. /\ 1 \in Nat /\ 1 > 0 /\ ClipLatency \in Nat /\ ClipLatency > 0 /\ BusLatency \in Nat /\ BusLatency > 0
        /\ SetupLatency \in Nat /\ SetupLatency > 0 /\ OutputLatency \in Nat /\ OutputLatency > 0
    BY Sizes
  <2>3. /\ clipIn \in Pipe(1) /\ clipExec \in Pipe(ClipLatency) /\ bus \in Pipe(BusLatency)
        /\ setup \in Pipe(SetupLatency) /\ setupOut \in Pipe(OutputLatency) /\ ts.wait \in Nat
    BY Sizes DEF IInv, Typed, TsState
  <2>4. /\ Head(clipIn) = clipIn[1] /\ Head(clipExec) = clipExec[1] /\ Head(bus) = bus[1]
        /\ Head(setup) = setup[1] /\ Head(setupOut) = setupOut[1] /\ 1 \in DOMAIN bus
    BY <2>2, <2>3, PipeIs
  <2>5. /\ Vacant(clipIn) => clipIn[1] = <<>>
        /\ Vacant(clipExec) => clipExec[1] = <<>>
        /\ Vacant(bus) => bus[1] = <<>>
        /\ Vacant(setup) => setup[1] = <<>>
        /\ Vacant(setupOut) => setupOut[1] = <<>>
    BY <2>2, <2>3, FirstIn
  <2>6. /\ clp.state # "DRAWING" => Vacant(clipIn) /\ Vacant(clipExec)
        /\ ts.state # "DRAWING" => Vacant(bus) /\ Vacant(setup)
        /\ tt.state # "DRAWING" => Vacant(setupOut)
        /\ EndsBatch(clp.buffer) /\ EndsBatch(ts.fifo) /\ EndsBatch(tt.queue)
    BY DEF IInv, ClipperOrder, SetupOrder, TraversalOrder
  <2>7. clipIn[1] # <<>> => clp.wait = 0
    BY DEF IInv, InTime
  <2>8. bus[1] # <<>> => ts.wait = 0
    <3>1. bus[1] # <<>> => ts.wait <= 1 - 1
      BY <2>4 DEF IInv, InTime
    <3> QED BY <2>3, <3>1
  <2>9. /\ Head(clipIn) # <<>> => StartsClipping
        /\ Head(clipExec) # <<>> => clp.state = "DRAWING"
        /\ Head(bus) # <<>> => StartsSetup
        /\ Head(setup) # <<>> => ts.state = "DRAWING"
        /\ Head(setupOut) # <<>> => tt.state = "DRAWING"
    BY <2>4, <2>5, <2>6, <2>7, <2>8 DEF StartsClipping, StartsSetup
  <2>10. /\ clp.reserved + Len(clp.buffer) <= ClipBuffer
         /\ ts.reserves + Len(ts.fifo) <= SetupFIFO
         /\ Len(tt.queue) + tt.requested <= TriangleQueue
         /\ pa.stored + pa.asked <= AssemblyQueue
    BY DEF IInv, Room
  <2> QED BY <2>1, <2>6, <2>9, <2>10 DEF AssertionsHold
<1> QED BY <1>1, Invariant, PTL

\* Every entry that is reserved is a triangle asked for, or on its way.
THEOREM NoCreditLost == Spec => []CreditsKept
<1>1. IInv => CreditsKept
  BY DEF IInv
<1> QED BY <1>1, Invariant, PTL

-----------------------------------------------------------------------------
(* The refinement: what enters a box leaves it in order, but for the       *)
(* triangles that cannot be seen, so that what is in all boxes passes like *)
(* the triangles that TriangleStream calls pending.                        *)

LEMMA Nothing ==
  ASSUME NEW T
  PROVE  <<>> \in Seq(T) /\ \A s \in Seq(T) : s \o <<>> = s /\ <<>> \o s = s
<1>1. <<>> \in Seq(T)
  OBVIOUS
<1> QED BY <1>1, Concat

\* What is first is what leaves.
LEMMA FirstLeaves ==
  ASSUME NEW T, NEW a \in Seq(T), NEW b \in Seq(T), NEW s, s = a \o b
  PROVE  /\ Len(a) <= Len(s) /\ Len(a) \in Nat
         /\ a = Take(s, Len(a)) /\ b = Drop(s, Len(a))
<1>1. /\ Len(a) \in Nat /\ Len(b) \in Nat /\ s \in Seq(T) /\ Len(s) = Len(a) + Len(b)
      /\ \A n \in 1 .. Len(a) : s[n] = a[n]
      /\ \A n \in 1 .. Len(b) : s[Len(a) + n] = b[n]
  OBVIOUS
<1> DEFINE n == Len(a)
           m == Len(s)
           p == Take(s, n)
           q == Drop(s, n)
<1>2. ASSUME NEW k \in 0 .. Len(s), s \in Seq(T)
      PROVE  /\ Drop(s, k) \in Seq(T) /\ Len(Drop(s, k)) = Len(s) - k
             /\ \A j \in 1 .. Len(s) - k : Drop(s, k)[j] = s[j + k]
  BY <1>2, DropIs
<1>3. n \in 0 .. m /\ n \in Nat /\ m \in Nat /\ m - n = Len(b)
  BY <1>1
<1>4. p \in Seq(T) /\ Len(p) = n /\ \A k \in 1 .. n : p[k] = s[k]
  <2> HIDE DEF n
  <2> QED BY <1>1, <1>3, TakeIs
<1>5. q \in Seq(T) /\ Len(q) = m - n /\ \A k \in 1 .. m - n : q[k] = s[k + n]
  <2> HIDE DEF n
  <2> QED BY <1>1, <1>3, <1>2
<1>6. a = p
  <2> HIDE DEF p
  <2> QED BY <1>1, <1>4, SameSequence
<1>7. b = q
  <2>1. Len(q) = Len(b)
    BY <1>3, <1>5
  <2>2. ASSUME NEW k \in 1 .. Len(b) PROVE q[k] = b[k]
    <3>1. k + n = n + k /\ k \in 1 .. m - n
      BY <1>3
    <3>2. s[n + k] = b[k]
      BY <1>1
    <3> QED BY <1>5, <3>1, <3>2
  <2> HIDE DEF q
  <2> QED BY <1>5, <2>1, <2>2, SameSequence
<1> QED BY <1>1, <1>3, <1>6, <1>7

\* What is seen of two sequences, one after the other, whatever is culled.
LEMMA SeenConcat ==
  ASSUME NEW c, NEW r \in Seq(Drawn), NEW s \in Seq(Drawn)
  PROVE  /\ r \o s \in Seq(Drawn) /\ Pending!Seen(r, c) \in Seq(Drawn)
         /\ Pending!Seen(r \o s, c) = Pending!Seen(r, c) \o Pending!Seen(s, c)
         /\ Pending!Seen(<<>>, c) = <<>>
<1> DEFINE V == Pending!Visible(c)
           T == Drawn
<1>1. \A x : Pending!Seen(x, c) = Only(x, V)
  BY OnlyIs DEF Pending!Seen
<1> HIDE DEF V, T
<1>2. r \in Seq(T) /\ s \in Seq(T)
  BY DEF T
<1>3. r \o s \in Seq(T) /\ Only(r, V) \in Seq(T) /\ Only(<<>>, V) = <<>>
  BY <1>2, Concat, OnlyAppend
<1>4. Only(r \o s, V) = Only(r, V) \o Only(s, V)
  BY <1>2, OnlyConcat
<1> QED BY <1>1, <1>3, <1>4 DEF T

\* Triangles in view, or the mark.
Plain == Genuine \cap InView
MadeOf(pipe, T) == \A n \in DOMAIN pipe : pipe[n] \in Seq(T)

\* What the triangles on their way are, that the assembly queue holds the
\* vertices of the batch, and that the batch in the fragment phase is drawn
\* with the registers of Triangle Setup.
Content ==
  /\ pa.state = "DRAWING" => Gathered(pa)
  /\ cp.status = "DRAWING" => culling = batch.culling
  /\ tt.queue \in Seq(Genuine) /\ ts.fifo \in Seq(Genuine) /\ clp.buffer \in Seq(Plain)
  /\ MadeOf(setupOut, Genuine) /\ MadeOf(setup, Plain) /\ MadeOf(bus, Plain)
  /\ MadeOf(clipExec, Genuine) /\ MadeOf(clipIn, Genuine)

LEMMA PlainGenuine == \A s \in Seq(Plain) : s \in Seq(Genuine)
<1> TAKE s \in Seq(Plain)
<1>1. s \in [1 .. Len(s) -> Plain] /\ Len(s) \in Nat /\ Plain \subseteq Genuine
  BY DEF Plain
<1> HIDE DEF Plain
<1>2. s \in [1 .. Len(s) -> Genuine]
  BY <1>1
<1> QED BY <1>1, <1>2

\* Triangle Setup keeps what can be seen, and so does the Clipper, and more.
LEMMA KeptIs ==
  /\ \A s \in Seq(Plain) : /\ Pending!Only(s, Facing) = Pending!Seen(s, culling)
                           /\ Pending!Only(s, Facing) \in Seq(Plain)
  /\ \A s \in Seq(Genuine) : /\ Shown(Pending!Only(s, InView)) = Shown(s)
                             /\ Pending!Only(s, InView) \in Seq(Plain)
<1> DEFINE V == Pending!Visible(culling)
           W == Pending!Visible(batch.culling)
<1>1. \A x \in Plain : x \in Facing <=> x \in V
  BY DEF Plain, Genuine, Triangles, InView, Facing, Pending!Visible
<1>2. \A x \in Genuine : x \in W => x \in InView
  BY DEF Genuine, Triangles, InView, Pending!Visible
<1>3. /\ \A x : Pending!Only(x, Facing) = Only(x, Facing) /\ Pending!Only(x, InView) = Only(x, InView)
      /\ \A x : Pending!Seen(x, culling) = Only(x, V) /\ Shown(x) = Only(x, W)
  BY OnlyIs DEF Pending!Seen, Shown
<1> DEFINE P == Plain
           G == Genuine
           F == Facing
           I == InView
<1> HIDE DEF V, W
<1>4. \A s \in Seq(P) : Only(s, F) = Only(s, V)
  <2> HIDE DEF P, F
  <2>1. \A x \in P : x \in F <=> x \in V
    BY <1>1 DEF P, F
  <2> QED BY <2>1, OnlySame
<1>5. \A s \in Seq(G) : Only(Only(s, I), W) = Only(s, W)
  <2> HIDE DEF G, I
  <2>1. \A x \in G : x \in W => x \in I
    BY <1>2 DEF G, I
  <2> QED BY <2>1, OnlyTwice
<1>6. \A s \in Seq(P) : Only(s, F) \in Seq(P)
  <2> HIDE DEF P, F
  <2> QED BY OnlyAppend
<1>7. \A s \in Seq(G) : Only(s, I) \in Seq(G \cap I)
  <2> HIDE DEF G, I
  <2> QED BY OnlyKept
<1>8. G \cap I = Plain
  BY DEF Plain
<1> HIDE DEF F, I
<1> QED BY <1>3, <1>4, <1>5, <1>6, <1>7, <1>8 DEF F, I

-----------------------------------------------------------------------------
\* What a group that enters and a pipe that holds it are made of.
LEMMA OfCarry ==
  ASSUME NEW latency \in Nat, latency > 0, NEW pipe \in Pipe(latency), NEW group \in Group, NEW T,
         MadeOf(pipe, T), group \in Seq(T)
  PROVE  /\ MadeOf(Carry(pipe, group), T) /\ pipe[1] \in Seq(T)
         /\ Flat(pipe) \in Seq(T) /\ Flat(Carry(pipe, group)) \in Seq(T)
         /\ Flat(pipe) \o group = pipe[1] \o Flat(Carry(pipe, group))
<1> DEFINE next == Carry(pipe, group)
<1>1. /\ pipe \in [1 .. latency -> Seq(T)] /\ 1 \in 1 .. latency /\ pipe \in Seq(Group) /\ Len(pipe) = latency
      /\ Head(pipe) = pipe[1]
  <2>1. DOMAIN pipe = 1 .. latency /\ 1 \in DOMAIN pipe /\ pipe \in Seq(Group) /\ Len(pipe) = latency
        /\ Head(pipe) = pipe[1]
    BY PipeIs
  <2>2. pipe = [n \in 1 .. latency |-> pipe[n]]
    BY DEF Pipe
  <2> QED BY <2>1, <2>2 DEF MadeOf
<1>2. /\ next \in Pipe(latency) /\ next[latency] = group
      /\ \A n \in 1 .. latency - 1 : next[n] = pipe[n + 1]
  BY CarryIs
<1> DEFINE G == Seq(T)
<1>3. next \in [1 .. latency -> G]
  <2>1. next = [n \in 1 .. latency |-> next[n]]
    BY <1>2 DEF Pipe
  <2>2. ASSUME NEW n \in 1 .. latency PROVE next[n] \in G
    <3>1. CASE n = latency
      BY <1>2, <3>1
    <3>2. CASE n # latency
      <4>1. n \in 1 .. latency - 1 /\ n + 1 \in 1 .. latency
        BY <3>2
      <4> HIDE DEF G
      <4>2. pipe[n + 1] \in G
        BY <1>1, <4>1 DEF G
      <4> QED BY <1>2, <4>1, <4>2
    <3> QED BY <3>1, <3>2
  <2> HIDE DEF next, G
  <2> QED BY <2>1, <2>2
<1>4. pipe \in Seq(G) /\ next \in Seq(G) /\ pipe # <<>> /\ group \in G /\ pipe[1] \in G
  <2>1. pipe \in [1 .. latency -> G] /\ group \in G
    BY <1>1
  <2> HIDE DEF G, next
  <2> QED BY <1>1, <1>3, <2>1
<1>5. MadeOf(next, T)
  <2> HIDE DEF next
  <2> QED BY <1>3 DEF MadeOf
<1>6. Flat(pipe) \in Seq(T) /\ Flat(next) \in Seq(T)
  <2>1. \A p \in Seq(Seq(T)) : Flat(p) \in Seq(T)
    BY FlatAppend
  <2> HIDE DEF next
  <2> QED BY <1>4, <2>1
<1>7. Flat(pipe) \o group = Head(pipe) \o Flat(Carry(pipe, group))
  BY <1>4, FlatCarry
<1> QED BY <1>1, <1>4, <1>5, <1>6, <1>7

\* Triangle Traversal: what leaves the queue is rasterized.
LEMMA TraversalPasses ==
  ASSUME IInv, Content, Cycle
  PROVE  /\ out' \in Seq(Genuine) /\ tt'.queue \in Seq(Genuine) /\ setupOut[1] \in Seq(Genuine)
         /\ tt.queue \o setupOut[1] = out' \o tt'.queue
         /\ Len(out') \in 0 .. TriangleBatch
<1>1. PICK left : TraversalStep(left)
  BY DEF Cycle
<1>2. OutputLatency \in Nat /\ OutputLatency > 0 /\ setupOut \in Pipe(OutputLatency)
  BY Sizes DEF IInv, Typed
<1>3. tt.queue \in Seq(Genuine) /\ setupOut[1] \in Seq(Genuine)
  <2>1. 1 \in DOMAIN setupOut
    BY <1>2, PipeIs
  <2> QED BY <2>1 DEF Content, MadeOf
<1>4. CASE tt.state = "DRAWING"
  <2>1. Batched(tt.queue, out', left) /\ tt'.queue = left \o setupOut[1]
    BY <1>1, <1>3, <1>4 DEF TraversalStep
  <2>2. PICK n \in 0 .. TriangleBatch : n <= Len(tt.queue) /\ out' = Take(tt.queue, n) /\ left = Drop(tt.queue, n)
    BY <2>1 DEF Batched
  <2> DEFINE G == Genuine
             q == tt.queue
             o == out'
             s == setupOut[1]
  <2>3. q \in Seq(G) /\ n \in 0 .. Len(q) /\ o = Take(q, n) /\ left = Drop(q, n) /\ s \in Seq(G)
    <3>1. n \in Nat /\ Len(tt.queue) \in Nat
      BY <1>3, Sizes
    <3> QED BY <1>3, <2>2, <3>1
  <2>4. tt'.queue = left \o s
    BY <2>1
  <2> HIDE DEF G, q, o, s
  <2>5. o \in Seq(G) /\ Len(o) = n /\ left \in Seq(G) /\ o \o left = q
    <3>1. o \in Seq(G) /\ Len(o) = n
      BY <2>3, TakeIs
    <3>2. left \in Seq(G)
      BY <2>3, DropIs
    <3>3. o \o left = q
      BY <2>3, TakeDrop
    <3> QED BY <3>1, <3>2, <3>3
  <2>6. (o \o left) \o s = o \o (left \o s) /\ left \o s \in Seq(G)
    <3>1. left \in Seq(G) /\ o \in Seq(G) /\ s \in Seq(G)
      BY <2>3, <2>5
    <3>2. (o \o left) \o s = o \o (left \o s)
      BY <3>1, Associative
    <3>3. left \o s \in Seq(G)
      BY <3>1
    <3> QED BY <3>2, <3>3
  <2> QED BY <1>3, <2>4, <2>5, <2>6 DEF G, q, o, s
<1>5. CASE tt.state # "DRAWING"
  <2>1. tt.queue = <<>> /\ Vacant(setupOut)
    BY <1>5 DEF IInv, TraversalOrder
  <2>2. setupOut[1] = <<>>
    BY <1>2, <2>1, FirstIn
  <2>3. tt'.queue = <<>> /\ out' = <<>>
    BY <1>1, <1>5, <2>1 DEF TraversalStep
  <2>4. <<>> \o <<>> = <<>> /\ Len(<<>>) = 0 /\ 0 \in 0 .. TriangleBatch
    BY Sizes
  <2>5. <<>> \in Seq(Genuine)
    BY Nothing
  <2> QED BY <2>1, <2>2, <2>3, <2>4, <2>5
<1> QED BY <1>4, <1>5

\* Triangle Setup: what can be seen passes.
LEMMA SetupPasses ==
  ASSUME IInv, Content, Cycle
  PROVE  /\ SetUp \in Seq(Genuine) /\ ts'.fifo \in Seq(Genuine) /\ setup[1] \in Seq(Plain)
         /\ ts.fifo \o Pending!Seen(setup[1], culling) = SetUp \o ts'.fifo
<1>1. PICK new : SetupStep(SettingUp, new, SetUp)
  BY DEF Cycle
<1>2. SetupLatency \in Nat /\ SetupLatency > 0 /\ setup \in Pipe(SetupLatency)
  BY Sizes DEF IInv, Typed
<1>3. ts.fifo \in Seq(Genuine) /\ setup[1] \in Seq(Plain)
  <2>1. 1 \in DOMAIN setup
    BY <1>2, PipeIs
  <2> QED BY <2>1 DEF Content, MadeOf
<1>4. CASE ts.state = "DRAWING"
  <2>1. new = Pending!Only(setup[1], Facing) /\ Splits(ts.fifo \o new, SetUp, ts'.fifo)
    BY <1>1, <1>4 DEF SetupStep
  <2>2. new = Pending!Seen(setup[1], culling) /\ new \in Seq(Plain)
    BY <1>3, <2>1, KeptIs
  <2> DEFINE G == Genuine
             q == ts.fifo \o new
  <2>3. q \in Seq(G)
    <3>1. new \in Seq(Genuine)
      BY <2>2, PlainGenuine
    <3> QED BY <1>3, <3>1
  <2>4. PICK n \in 0 .. Len(q) : SetUp = Take(q, n) /\ ts'.fifo = Drop(q, n)
    BY <2>1 DEF Splits
  <2> HIDE DEF q, G
  <2>5. Take(q, n) \in Seq(G) /\ Drop(q, n) \in Seq(G) /\ Take(q, n) \o Drop(q, n) = q
    BY <2>3, TakeIs, DropIs, TakeDrop
  <2> QED BY <1>3, <2>2, <2>4, <2>5 DEF q, G
<1>5. CASE ts.state # "DRAWING"
  <2>1. ts.fifo = <<>> /\ Vacant(setup)
    BY <1>5 DEF IInv, SetupOrder
  <2>2. setup[1] = <<>>
    BY <1>2, <2>1, FirstIn
  <2>3. SetUp = <<>> /\ ts'.fifo = <<>>
    BY <1>1, <1>5, <2>1 DEF SetupStep
  <2>4. <<>> \in Seq(Genuine) /\ <<>> \in Seq(Drawn)
    BY Nothing
  <2>5. Pending!Seen(<<>>, culling) = <<>>
    BY <2>4, SeenConcat
  <2>6. <<>> \o <<>> = <<>>
    OBVIOUS
  <2> QED BY <1>3, <2>1, <2>2, <2>3, <2>4, <2>5, <2>6
<1> QED BY <1>4, <1>5

\* The Clipper: what is in view passes.
LEMMA ClipperPasses ==
  ASSUME IInv, Content, Cycle
  PROVE  /\ Clipped \in Seq(Plain) /\ clp'.buffer \in Seq(Plain) /\ clipExec[1] \in Seq(Genuine)
         /\ Shown(clp.buffer) \o Shown(clipExec[1]) = Shown(Clipped) \o Shown(clp'.buffer)
<1>1. PICK new : ClipperStep(Clipping, new, Clipped)
  BY DEF Cycle
<1>2. ClipLatency \in Nat /\ ClipLatency > 0 /\ clipExec \in Pipe(ClipLatency)
  BY Sizes DEF IInv, Typed
<1>3. clp.buffer \in Seq(Plain) /\ clipExec[1] \in Seq(Genuine)
  <2>1. 1 \in DOMAIN clipExec
    BY <1>2, PipeIs
  <2> QED BY <2>1 DEF Content, MadeOf
<1>4. CASE clp.state = "DRAWING"
  <2>1. new = Pending!Only(clipExec[1], InView) /\ Splits(clp.buffer \o new, Clipped, clp'.buffer)
    BY <1>1, <1>4 DEF ClipperStep
  <2>2. Shown(new) = Shown(clipExec[1]) /\ new \in Seq(Plain)
    BY <1>3, <2>1, KeptIs
  <2> DEFINE P == Plain
             b == clp.buffer
             q == b \o new
             l == clp'.buffer
             s == Clipped
  <2>3. q \in Seq(P) /\ b \in Seq(P) /\ new \in Seq(P)
    <3>1. b \in Seq(P) /\ new \in Seq(P)
      BY <1>3, <2>2
    <3> HIDE DEF b, P
    <3> QED BY <3>1
  <2>4. PICK n \in 0 .. Len(q) : s = Take(q, n) /\ l = Drop(q, n)
    BY <2>1 DEF Splits
  <2> HIDE DEF q, P, s, l
  <2>5. s \in Seq(P) /\ l \in Seq(P) /\ s \o l = q
    BY <2>3, <2>4, TakeIs, DropIs, TakeDrop
  <2> HIDE DEF b
  <2>6. \A r \in Seq(P) : r \in Seq(Drawn)
    BY GenuineDrawn, PlainGenuine DEF P
  <2>7. b \in Seq(Drawn) /\ new \in Seq(Drawn) /\ s \in Seq(Drawn) /\ l \in Seq(Drawn)
    BY <2>3, <2>5, <2>6
  <2>8. Shown(b \o new) = Shown(b) \o Shown(new)
    BY <2>7, ShownConcat
  <2>9. Shown(s \o l) = Shown(s) \o Shown(l)
    BY <2>7, ShownConcat
  <2>10. b \o new = s \o l
    BY <2>5 DEF q
  <2>11. Shown(b) \o Shown(new) = Shown(s) \o Shown(l)
    BY <2>8, <2>9, <2>10, Zenon
  <2> QED BY <1>3, <2>2, <2>5, <2>11 DEF b, s, l, P
<1>5. CASE clp.state # "DRAWING"
  <2>1. clp.buffer = <<>> /\ Vacant(clipExec)
    BY <1>5 DEF IInv, ClipperOrder
  <2>2. clipExec[1] = <<>>
    BY <1>2, <2>1, FirstIn
  <2>3. Clipped = <<>> /\ clp'.buffer = <<>>
    BY <1>1, <1>5, <2>1 DEF ClipperStep
  <2>4. <<>> \in Seq(Plain)
    BY Nothing
  <2> QED BY <1>3, <2>1, <2>2, <2>3, <2>4
<1> QED BY <1>4, <1>5

-----------------------------------------------------------------------------
\* A batch is drawn by boxes that have none; but for that the registers stay
\* as they are, or Triangle Setup has none.
LEMMA RegistersIs ==
  ASSUME IInv, IInv', Cycle
  PROVE  /\ Draw \/ DrawAhead =>
              /\ command'.geometry = "DRAW" /\ batch' \in Batches
              /\ command.geometry # "DRAW" /\ pa.state # "DRAWING"
              /\ pa'.state = "READY" /\ clp'.state = "READY"
         /\ ~(Draw \/ DrawAhead) => command'.geometry # "DRAW" /\ batch' = batch
         /\ culling' # culling => ts'.state = "READY"
         /\ (cp.status = "DRAWING" => culling = batch.culling) =>
              (cp'.status = "DRAWING" => culling' = batch'.culling)
<1>1. /\ Phases /\ cp \in [status : {"READY", "DRAWING", "END_GEOMETRY", "END_FRAGMENT"}, started : BOOLEAN]
      /\ pa.state \in States
  BY DEF IInv, Typed, PaState
<1>2. /\ cp'.status = "DRAWING" => GeometryBegun' /\ RasterBegun'
      /\ cp'.status = "END_GEOMETRY" /\ cp'.started => GeometryBegun'
  BY DEF IInv, Phases
<1>3. /\ GeometryBegun' /\ command'.geometry = "DRAW" => pa'.state = "READY" /\ clp'.state = "READY"
      /\ RasterBegun' /\ command'.raster = "DRAW" => ts'.state = "READY"
  BY DEF GeometryBegun, Geometry, RasterBegun, Raster
<1>4. CASE Draw
  <2>1. /\ cp'.status = "DRAWING" /\ command'.geometry = "DRAW" /\ command'.raster = "DRAW"
        /\ batch' \in Batches /\ culling' = batch'.culling /\ cp.status = "READY"
    BY <1>4 DEF Draw, Order
  <2>2. command.geometry # "DRAW" /\ pa.state # "DRAWING"
    BY <1>1, <2>1 DEF Phases, Geometry
  <2> QED BY <1>2, <1>3, <1>4, <2>1, <2>2
<1>5. CASE DrawAhead
  <2>1. /\ cp'.status = "END_GEOMETRY" /\ cp'.started /\ command'.geometry = "DRAW"
        /\ batch' \in Batches /\ culling' = culling /\ cp.status = "END_GEOMETRY" /\ ~cp.started
    BY <1>1, <1>5 DEF DrawAhead, Order
  <2>2. command.geometry # "DRAW" /\ pa.state # "DRAWING"
    BY <1>1, <2>1 DEF Phases, Geometry
  <2> QED BY <1>2, <1>3, <1>5, <2>1, <2>2
<1>6. CASE NextBatch
  <2>1. /\ cp'.status = "DRAWING" /\ command'.geometry = "none" /\ command'.raster = "DRAW"
        /\ batch' = batch /\ culling' = batch.culling
    BY <1>1, <1>6 DEF NextBatch, Order
  <2>2. ~Draw /\ ~DrawAhead
    BY <2>1 DEF Draw, DrawAhead, Order
  <2> QED BY <1>2, <1>3, <2>1, <2>2
<1>7. CASE EndGeometry \/ EndFragment \/ AllDrawn \/ OtherWork
  <2>1. /\ command'.geometry # "DRAW" /\ batch' = batch /\ culling' = culling
        /\ cp'.status = "DRAWING" => cp.status = "DRAWING"
    BY <1>1, <1>7 DEF EndGeometry, EndFragment, AllDrawn, OtherWork, Order
  <2>2. ~Draw /\ ~DrawAhead
    BY <2>1 DEF Draw, DrawAhead, Order
  <2> QED BY <2>1, <2>2
<1> QED BY <1>4, <1>5, <1>6, <1>7 DEF Cycle, CommandProcessorCycle

\* The vertices are gathered of the batch that the registers describe.
LEMMA GatheredIs ==
  ASSUME batch' = batch
  PROVE  Gathered(pa') => Gathered(pa)'
<1>1. /\ Needed' = Needed /\ VertexCount' = VertexCount /\ InBatch' = InBatch
      /\ \A k : Consumed(k)' = Consumed(k) /\ Slot(k)' = Slot(k)
  BY DEF Needed, VertexCount, InBatch, Consumed, Slot
<1>2. Held(pa)' = Held(pa') /\ NoneLeft(pa)' = NoneLeft(pa')
  BY <1>1 DEF Held, NoneLeft, VertexCount, Needed, Consumed
<1> QED BY <1>1, <1>2 DEF Gathered, VertexCount, InBatch, Consumed, Slot, Needed

\* What enters the pipes, and that all that is in them arrives in order.
PipePasses(pipe, group, next, T) ==
  /\ MadeOf(next, T) /\ group \in Seq(T) /\ pipe[1] \in Seq(T) /\ Flat(pipe) \in Seq(T) /\ Flat(next) \in Seq(T)
  /\ Flat(pipe) \o group = pipe[1] \o Flat(next)

LEMMA PipesPass ==
  ASSUME IInv, Content, Cycle
  PROVE  /\ PipePasses(clipIn, Assembled, clipIn', Genuine)
         /\ PipePasses(clipExec, Clipping, clipExec', Genuine)
         /\ PipePasses(bus, Clipped, bus', Plain)
         /\ PipePasses(setup, SettingUp, setup', Plain)
         /\ PipePasses(setupOut, SetUp, setupOut', Genuine)
         /\ Clipping = clipIn[1] /\ SettingUp = bus[1]
<1>1. AssemblyStep(Assembled)
  BY DEF Cycle
<1>2. Assembled \in Seq(Genuine)
  <2>1. pa.state # "DRAWING" => Assembled = <<>>
    BY <1>1 DEF AssemblyStep
  <2>2. pa.state = "DRAWING" => Assembled \in Seq(Genuine)
    BY <1>1 DEF AssemblyStep, Content
  <2>3. <<>> \in Seq(Genuine)
    BY Nothing
  <2> QED BY <2>1, <2>2, <2>3
<1>3. /\ 1 \in Nat /\ 1 > 0 /\ ClipLatency \in Nat /\ ClipLatency > 0 /\ BusLatency \in Nat /\ BusLatency > 0
      /\ SetupLatency \in Nat /\ SetupLatency > 0 /\ OutputLatency \in Nat /\ OutputLatency > 0
  BY Sizes
<1>4. /\ clipIn \in Pipe(1) /\ clipExec \in Pipe(ClipLatency) /\ bus \in Pipe(BusLatency)
      /\ setup \in Pipe(SetupLatency) /\ setupOut \in Pipe(OutputLatency)
  BY DEF IInv, Typed
<1>5. /\ MadeOf(setupOut, Genuine) /\ MadeOf(setup, Plain) /\ MadeOf(bus, Plain)
      /\ MadeOf(clipExec, Genuine) /\ MadeOf(clipIn, Genuine)
  BY DEF Content
<1>6. /\ Assembled \in Group /\ clipIn' = Carry(clipIn, Assembled)
      /\ Clipping \in Group /\ clipExec' = Carry(clipExec, Clipping)
      /\ Clipping = IF clp.state = "DRAWING" /\ clp.wait = 0 THEN clipIn[1] ELSE <<>>
      /\ Clipped \in Group /\ bus' = Carry(bus, Clipped)
      /\ SettingUp \in Group /\ setup' = Carry(setup, SettingUp)
      /\ SettingUp = IF ts.state = "DRAWING" /\ ts.wait = 0 THEN bus[1] ELSE <<>>
      /\ SetUp \in Group /\ setupOut' = Carry(setupOut, SetUp)
  BY Moves DEF IInv
<1>7. Clipping = clipIn[1]
  <2>1. clipIn[1] # <<>> => clp.wait = 0
    BY DEF IInv, InTime
  <2>2. clp.state # "DRAWING" => clipIn[1] = <<>>
    <3>1. clp.state # "DRAWING" => Vacant(clipIn)
      BY DEF IInv, ClipperOrder
    <3> QED BY <1>3, <1>4, <3>1, FirstIn
  <2> QED BY <1>6, <2>1, <2>2
<1>8. SettingUp = bus[1]
  <2>1. bus[1] # <<>> => ts.wait = 0
    <3>1. 1 \in DOMAIN bus
      BY <1>3, <1>4, PipeIs
    <3>2. bus[1] # <<>> => ts.wait <= 1 - 1
      BY <3>1 DEF IInv, InTime
    <3>3. ts.wait \in Nat
      BY Sizes DEF IInv, Typed, TsState
    <3> QED BY <3>2, <3>3
  <2>2. ts.state # "DRAWING" => bus[1] = <<>>
    <3>1. ts.state # "DRAWING" => Vacant(bus)
      BY DEF IInv, SetupOrder
    <3> QED BY <1>3, <1>4, <3>1, FirstIn
  <2> QED BY <1>6, <2>1, <2>2
<1>9. Clipping \in Seq(Genuine) /\ Clipped \in Seq(Plain) /\ SettingUp \in Seq(Plain) /\ SetUp \in Seq(Genuine)
  <2>1. clipIn[1] \in Seq(Genuine) /\ bus[1] \in Seq(Plain)
    <3>1. 1 \in DOMAIN clipIn /\ 1 \in DOMAIN bus
      BY <1>3, <1>4, PipeIs
    <3> QED BY <1>5, <3>1 DEF MadeOf
  <2>2. Clipped \in Seq(Plain)
    BY ClipperPasses
  <2>3. SetUp \in Seq(Genuine)
    BY SetupPasses
  <2> QED BY <1>7, <1>8, <2>1, <2>2, <2>3
<1>10. ASSUME NEW latency \in Nat, latency > 0, NEW pipe \in Pipe(latency), NEW group \in Group, NEW T,
              MadeOf(pipe, T), group \in Seq(T)
       PROVE  PipePasses(pipe, group, Carry(pipe, group), T)
  BY <1>10, OfCarry DEF PipePasses
<1>11. PipePasses(clipIn, Assembled, clipIn', Genuine)
  BY <1>2, <1>3, <1>4, <1>5, <1>6, <1>10
<1>12. PipePasses(clipExec, Clipping, clipExec', Genuine)
  BY <1>3, <1>4, <1>5, <1>6, <1>9, <1>10
<1>13. PipePasses(bus, Clipped, bus', Plain)
  BY <1>3, <1>4, <1>5, <1>6, <1>9, <1>10
<1>14. PipePasses(setup, SettingUp, setup', Plain)
  BY <1>3, <1>4, <1>5, <1>6, <1>9, <1>10
<1>15. PipePasses(setupOut, SetUp, setupOut', Genuine)
  BY <1>3, <1>4, <1>5, <1>6, <1>9, <1>10
<1> QED BY <1>7, <1>8, <1>11, <1>12, <1>13, <1>14, <1>15

\* Every cycle keeps it.
LEMMA ContentNext ==
  ASSUME IInv, IInv', Content, Cycle
  PROVE  Content'
<1>1. AssemblyStep(Assembled)
  BY DEF Cycle
<1>2. /\ pa'.state = IF pa.state = "DRAWING" THEN IF Ended(Assembled) THEN "END" ELSE "DRAWING"
                    ELSE Ordered(pa, command.geometry)
      /\ pa.state \in States /\ batch \in Batches
      /\ command.geometry = "DRAW" => pa.state = "READY"
  BY StatesAre, PhaseFacts DEF IInv, Typed
<1>3. /\ Draw \/ DrawAhead => pa'.state = "READY"
      /\ ~(Draw \/ DrawAhead) => batch' = batch
      /\ cp'.status = "DRAWING" => culling' = batch'.culling
  BY RegistersIs DEF Content
<1>4. pa'.state = "DRAWING" => Gathered(pa')
  <2>1. CASE pa.state = "DRAWING"
    BY <1>1, <2>1 DEF AssemblyStep, Content
  <2>2. CASE pa.state # "DRAWING" /\ command.geometry = "DRAW"
    <3>1. pa' = PaStart
      BY <1>1, <1>2, <2>2 DEF AssemblyStep
    <3> QED BY <1>2, <3>1, StartGathered
  <2>3. CASE pa.state # "DRAWING" /\ command.geometry # "DRAW"
    BY <1>2, <2>3 DEF Ordered
  <2> QED BY <2>1, <2>2, <2>3
<1>5. pa'.state = "DRAWING" => Gathered(pa)'
  <2> SUFFICES ASSUME pa'.state = "DRAWING" PROVE Gathered(pa)'
    OBVIOUS
  <2>1. batch' = batch
    BY <1>3
  <2> QED BY <1>4, <2>1, GatheredIs
<1>6. tt'.queue \in Seq(Genuine) /\ ts'.fifo \in Seq(Genuine) /\ clp'.buffer \in Seq(Plain)
  BY TraversalPasses, SetupPasses, ClipperPasses
<1>7. /\ MadeOf(setupOut', Genuine) /\ MadeOf(setup', Plain) /\ MadeOf(bus', Plain)
      /\ MadeOf(clipExec', Genuine) /\ MadeOf(clipIn', Genuine)
  BY PipesPass DEF PipePasses
<1>8. Seq(Genuine)' = Seq(Genuine) /\ Seq(Plain)' = Seq(Plain)
  BY DEF Genuine, Plain, InView
<1> QED BY <1>3, <1>5, <1>6, <1>7, <1>8 DEF Content, MadeOf, Genuine, Plain, InView

\* What is left of the batch: of one that is drawn, all of it.
LEMMA UnassembledIs ==
  ASSUME IInv, IInv', Content, Cycle
  PROVE  /\ Unassembled \in Seq(Drawn)
         /\ Draw \/ DrawAhead =>
              /\ Unassembled = <<>> /\ Assembled = <<>>
              /\ Unassembled' = Pending!From(batch', 0) \o <<Last>>
         /\ ~(Draw \/ DrawAhead) =>
              Shown(Unassembled) = Shown(Assembled) \o Pending!Seen(Unassembled', batch'.culling)
<1>1. AssemblyStep(Assembled)
  BY DEF Cycle
<1>2. /\ pa'.state = IF pa.state = "DRAWING" THEN IF Ended(Assembled) THEN "END" ELSE "DRAWING"
                    ELSE Ordered(pa, command.geometry)
      /\ pa.state \in States /\ batch \in Batches /\ pa \in PaState
      /\ command.geometry = "DRAW" => pa.state = "READY"
      /\ command.geometry \in {"none", "DRAW", "END"}
  BY StatesAre, PhaseFacts DEF IInv, Typed
<1>3. /\ Draw \/ DrawAhead => /\ command'.geometry = "DRAW" /\ pa.state # "DRAWING" /\ command.geometry # "DRAW"
      /\ ~(Draw \/ DrawAhead) => batch' = batch /\ command'.geometry # "DRAW"
  BY RegistersIs
<1>4. PaStart.count = 0 /\ PaStart.state = "DRAWING"
  BY DEF PaStart
<1> DEFINE D == Drawn
           whole == Pending!From(batch, 0) \o <<Last>>
           u == Unassembled
<1>5. whole \in Seq(D) /\ <<Last>> \in Seq(D) /\ <<>> \in Seq(D)
  <2>1. 0 \in Nat /\ 0 <= InBatch
    BY <1>2, <1>4, StartGathered DEF Gathered
  <2> DEFINE f == Pending!From(batch, 0)
             l == <<Last>>
  <2>2. f \in Seq(D) /\ l \in Seq(D)
    BY <1>2, <2>1, FromIs, LastShown
  <2> HIDE DEF f, l, D
  <2>3. f \o l \in Seq(D) /\ <<>> \in Seq(D)
    BY <2>2
  <2> QED BY <2>2, <2>3 DEF f, l
<1>6. u = IF command.geometry = "DRAW" THEN whole
          ELSE IF pa.state = "DRAWING" THEN Rest(pa) \o <<Last>> ELSE <<>>
  BY DEF Unassembled, Rest
<1>7. pa.state = "DRAWING" => Rest(pa) \o <<Last>> \in Seq(D)
  <2> SUFFICES ASSUME pa.state = "DRAWING" PROVE Rest(pa) \o <<Last>> \in Seq(D)
    OBVIOUS
  <2> DEFINE r == Rest(pa)
             l == <<Last>>
  <2>1. r \in Seq(D)
    BY <1>2, RestShown DEF Content
  <2>2. l \in Seq(D)
    BY <1>5
  <2> HIDE DEF r, l, D
  <2>3. r \o l \in Seq(D)
    BY <2>1, <2>2
  <2> QED BY <2>3 DEF r, l
<1>8. u \in Seq(D)
  <2> HIDE DEF u, whole, D
  <2> QED BY <1>5, <1>6, <1>7
<1>9. Shown(<<>>) = <<>> /\ <<>> \o Shown(whole) = Shown(whole) /\ <<>> \o <<>> = <<>>
  <2> HIDE DEF whole
  <2>1. whole \in Seq(Drawn) /\ <<>> \in Seq(Drawn)
    BY <1>5
  <2>2. Shown(<<>>) = <<>> /\ <<>> \o Shown(whole) = Shown(whole)
    BY <2>1, ShownConcat
  <2>3. <<>> \o <<>> = <<>>
    OBVIOUS
  <2> QED BY <2>2, <2>3
<1>10. ASSUME Draw \/ DrawAhead
       PROVE  u = <<>> /\ Assembled = <<>> /\ Unassembled' = Pending!From(batch', 0) \o <<Last>>
  <2>1. u = <<>>
    BY <1>3, <1>6, <1>10
  <2>2. Assembled = <<>>
    BY <1>1, <1>3, <1>10 DEF AssemblyStep
  <2>3. Unassembled' = Pending!From(batch', 0) \o <<Last>>
    BY <1>3, <1>10 DEF Unassembled, Last, Pending!Last
  <2> QED BY <2>1, <2>2, <2>3
<1>11. ASSUME ~(Draw \/ DrawAhead)
       PROVE  Shown(u) = Shown(Assembled) \o Pending!Seen(Unassembled', batch'.culling)
  <2>1. Pending!Seen(Unassembled', batch'.culling) = Unsent(pa')
    <3>1. batch' = batch /\ command'.geometry # "DRAW"
      BY <1>3, <1>11
    <3>2. Unassembled' = IF pa'.state = "DRAWING" THEN Rest(pa') \o <<Last>> ELSE <<>>
      BY <3>1 DEF Unassembled, Rest, Last, Pending!Last
    <3>3. Pending!Seen(Unassembled', batch'.culling) = Shown(Unassembled')
      BY <3>1 DEF Shown
    <3> QED BY <1>9, <3>2, <3>3 DEF Unsent
  <2>2. CASE command.geometry = "DRAW"
    <3>1. pa' = PaStart /\ Assembled = <<>> /\ u = whole
      BY <1>1, <1>2, <1>6, <2>2 DEF AssemblyStep
    <3>2. Unsent(pa') = Shown(whole)
      BY <1>4, <3>1 DEF Unsent, Rest
    <3> HIDE DEF whole, u
    <3> QED BY <1>9, <2>1, <3>1, <3>2
  <2>3. CASE pa.state = "DRAWING"
    <3>1. command.geometry # "DRAW"
      BY <1>2, <2>3
    <3>2. u = Rest(pa) \o <<Last>>
      BY <1>6, <2>3, <3>1
    <3>3. Unsent(pa) = Shown(Assembled) \o Unsent(pa')
      BY <1>1, <2>3 DEF AssemblyStep, Content
    <3>4. Unsent(pa) = Shown(u)
      BY <2>3, <3>2 DEF Unsent
    <3> QED BY <2>1, <3>3, <3>4
  <2>4. CASE command.geometry # "DRAW" /\ pa.state # "DRAWING"
    <3>1. u = <<>> /\ Assembled = <<>> /\ pa'.state # "DRAWING"
      BY <1>1, <1>2, <1>6, <2>4 DEF AssemblyStep, Ordered
    <3>2. Unsent(pa') = <<>>
      BY <3>1 DEF Unsent
    <3> QED BY <1>9, <2>1, <3>1, <3>2
  <2> QED BY <2>2, <2>3, <2>4
<1> QED BY <1>8, <1>10, <1>11

-----------------------------------------------------------------------------
\* A part of the pipe that some enter and some leave.
Passes(part, enter, leave, next) ==
  /\ part \in Seq(Drawn) /\ enter \in Seq(Drawn) /\ leave \in Seq(Drawn) /\ next \in Seq(Drawn)
  /\ part \o enter = leave \o next

\* What leaves one part enters the part before it.
LEMMA PassesThrough ==
  ASSUME NEW a, NEW b, NEW c, NEW d, NEW m, NEW x, NEW y, Passes(a, m, y, c), Passes(b, x, m, d)
  PROVE  Passes(a \o b, x, y, c \o d)
<1> DEFINE T == Drawn
<1>1. /\ a \in Seq(T) /\ b \in Seq(T) /\ c \in Seq(T) /\ d \in Seq(T) /\ m \in Seq(T) /\ x \in Seq(T)
      /\ y \in Seq(T) /\ a \o m = y \o c /\ b \o x = m \o d
  BY DEF Passes
<1> HIDE DEF T
<1>2. (a \o b) \o x = y \o (c \o d)
  <2>1. \A p, q, r \in Seq(T) : (p \o q) \o r = p \o (q \o r)
    OBVIOUS
  <2>2. (a \o b) \o x = a \o (b \o x)
    <3>1. a \in Seq(T) /\ b \in Seq(T) /\ x \in Seq(T)
      BY <1>1
    <3> QED BY <2>1, <3>1, Zenon
  <2>3. (a \o m) \o d = a \o (m \o d)
    <3>1. a \in Seq(T) /\ m \in Seq(T) /\ d \in Seq(T)
      BY <1>1
    <3> QED BY <2>1, <3>1, Zenon
  <2>4. (y \o c) \o d = y \o (c \o d)
    <3>1. y \in Seq(T) /\ c \in Seq(T) /\ d \in Seq(T)
      BY <1>1
    <3> QED BY <2>1, <3>1, Zenon
  <2>5. a \o m = y \o c /\ b \o x = m \o d
    BY <1>1
  <2> QED BY <2>2, <2>3, <2>4, <2>5, Zenon
<1>3. a \o b \in Seq(T) /\ c \o d \in Seq(T)
  BY <1>1, Concat
<1> QED BY <1>1, <1>2, <1>3 DEF T, Passes

\* What can be seen of it passes in the same way.
LEMMA PassesSeen ==
  ASSUME NEW a, NEW b, NEW m, NEW y, NEW c, Passes(a, m, y, b)
  PROVE  Passes(Pending!Seen(a, c), Pending!Seen(m, c), Pending!Seen(y, c), Pending!Seen(b, c))
<1> DEFINE T == Drawn
           S(s) == Pending!Seen(s, c)
<1>1. /\ a \in Seq(T) /\ b \in Seq(T) /\ m \in Seq(T) /\ y \in Seq(T) /\ a \o m = y \o b
  BY DEF Passes
<1>2. \A r, s \in Seq(T) : S(r) \in Seq(T) /\ S(r \o s) = S(r) \o S(s)
  BY SeenConcat
<1> HIDE DEF T, S
<1>3. S(a \o m) = S(a) \o S(m) /\ S(y \o b) = S(y) \o S(b)
  BY <1>1, <1>2
<1>4. S(a \o m) = S(y \o b)
  BY <1>1
<1>5. S(a) \in Seq(T) /\ S(m) \in Seq(T) /\ S(y) \in Seq(T) /\ S(b) \in Seq(T)
  BY <1>1, <1>2
<1>6. S(a) \o S(m) = S(y) \o S(b)
  BY <1>3, <1>4, Zenon
<1> QED BY <1>5, <1>6 DEF T, S, Passes

\* A batch that is drawn: what is seen of it, and the mark.
LEMMA WholeIs ==
  batch \in Batches =>
    /\ Pending!From(batch, 0) \in Seq(Drawn) /\ Pending!From(batch, 0) \o <<Last>> \in Seq(Drawn)
    /\ Pending!Seen(Pending!From(batch, 0) \o <<Last>>, batch.culling)
         = Pending!Seen(Pending!From(batch, 0), batch.culling) \o <<Last>>
<1> SUFFICES ASSUME batch \in Batches
             PROVE  /\ Pending!From(batch, 0) \in Seq(Drawn) /\ Pending!From(batch, 0) \o <<Last>> \in Seq(Drawn)
                    /\ Shown(Pending!From(batch, 0) \o <<Last>>) = Shown(Pending!From(batch, 0)) \o <<Last>>
  BY DEF Shown
<1> DEFINE f == Pending!From(batch, 0)
           l == <<Last>>
<1>1. 0 \in Nat /\ 0 <= InBatch
  <2>1. PaStart.count = 0 /\ Gathered(PaStart)
    BY StartGathered DEF PaStart
  <2> QED BY <2>1 DEF Gathered
<1>2. f \in Seq(Drawn) /\ l \in Seq(Drawn) /\ Shown(l) = l
  BY <1>1, FromIs, LastShown
<1> HIDE DEF f, l
<1>3. f \o l \in Seq(Drawn) /\ Shown(f \o l) = Shown(f) \o Shown(l)
  BY <1>2, ShownConcat
<1> QED BY <1>2, <1>3 DEF f, l

LEMMA UnassembledType == IInv /\ Content => Unassembled \in Seq(Drawn)
<1> SUFFICES ASSUME IInv, Content PROVE Unassembled \in Seq(Drawn)
  OBVIOUS
<1> DEFINE D == Drawn
           whole == Pending!From(batch, 0) \o <<Last>>
<1>1. batch \in Batches /\ pa \in PaState
  BY DEF IInv, Typed
<1>2. whole \in Seq(D)
  BY <1>1, WholeIs
<1>3. <<>> \in Seq(D)
  BY Nothing
<1>4. pa.state = "DRAWING" => Rest(pa) \o <<Last>> \in Seq(D)
  <2> SUFFICES ASSUME pa.state = "DRAWING" PROVE Rest(pa) \o <<Last>> \in Seq(D)
    OBVIOUS
  <2> DEFINE r == Rest(pa)
             l == <<Last>>
  <2>1. r \in Seq(D) /\ l \in Seq(D)
    BY <1>1, RestShown, LastShown DEF Content
  <2> HIDE DEF r, l, D
  <2>2. r \o l \in Seq(D)
    BY <2>1
  <2> QED BY <2>2 DEF r, l
<1>5. Unassembled = IF command.geometry = "DRAW" THEN whole
                    ELSE IF pa.state = "DRAWING" THEN Rest(pa) \o <<Last>> ELSE <<>>
  BY DEF Unassembled, Rest
<1> HIDE DEF whole, D
<1>6. Unassembled \in Seq(D)
  BY <1>2, <1>3, <1>4, <1>5
<1> QED BY <1>6 DEF D

\* The same after a cycle.
LEMMA NextTypes ==
  ASSUME IInv', Content'
  PROVE  /\ Unassembled' \in Seq(Drawn)
         /\ Pending!From(batch', 0) \in Seq(Drawn)
         /\ Pending!Seen(Pending!From(batch', 0) \o <<Last>>, batch'.culling)
              = Pending!Seen(Pending!From(batch', 0), batch'.culling) \o <<Last>>
<1>1. (IInv /\ Content => Unassembled \in Seq(Drawn))'
  BY UnassembledType, PTL
<1>2. (batch \in Batches =>
        /\ Pending!From(batch, 0) \in Seq(Drawn) /\ Pending!From(batch, 0) \o <<Last>> \in Seq(Drawn)
        /\ Pending!Seen(Pending!From(batch, 0) \o <<Last>>, batch.culling)
             = Pending!Seen(Pending!From(batch, 0), batch.culling) \o <<Last>>)'
  BY WholeIs, PTL
<1>3. batch' \in Batches
  BY DEF IInv, Typed
<1>4. Unassembled' \in Seq(Drawn)
  BY <1>1
<1>5. /\ Pending!From(batch', 0) \in Seq(Drawn)
      /\ Pending!Seen(Pending!From(batch', 0) \o <<Last>>, batch'.culling)
           = Pending!Seen(Pending!From(batch', 0), batch'.culling) \o <<Last>>
  BY <1>2, <1>3
<1> QED BY <1>4, <1>5

-----------------------------------------------------------------------------
\* What is on its way to Triangle Setup, and to the end of the Clipper.
ToSetup == Flat(setup) \o Flat(bus)
ToClipped == (clp.buffer \o Flat(clipExec)) \o Flat(clipIn)

LEMMA AreDrawn ==
  /\ \A s : s \in Seq(Plain) => s \in Seq(Genuine)
  /\ \A s : s \in Seq(Genuine) => s \in Seq(Drawn)
BY PlainGenuine, GenuineDrawn

\* From the Clipper's bus to the triangles that are rasterized.
LEMMA RasterPasses ==
  ASSUME IInv, Content, Cycle
  PROVE  Passes(((tt.queue \o Flat(setupOut)) \o ts.fifo) \o Pending!Seen(ToSetup, culling),
                Pending!Seen(Clipped, culling), out',
                ((tt'.queue \o Flat(setupOut')) \o ts'.fifo) \o Pending!Seen(Flat(setup') \o Flat(bus'), culling))
<1> DEFINE S(s) == Pending!Seen(s, culling)
<1>1. Passes(tt.queue, setupOut[1], out', tt'.queue)
  <2>1. tt.queue \in Seq(Genuine)
    BY DEF Content
  <2> QED BY <2>1, TraversalPasses, AreDrawn DEF Passes
<1>2. Passes(Flat(setupOut), SetUp, setupOut[1], Flat(setupOut'))
  BY PipesPass, AreDrawn DEF PipePasses, Passes
<1>3. Passes(ts.fifo, S(setup[1]), SetUp, ts'.fifo)
  <2>1. ts.fifo \in Seq(Genuine)
    BY DEF Content
  <2>2. /\ SetUp \in Seq(Genuine) /\ ts'.fifo \in Seq(Genuine) /\ setup[1] \in Seq(Plain)
        /\ ts.fifo \o S(setup[1]) = SetUp \o ts'.fifo
    BY SetupPasses
  <2>3. setup[1] \in Seq(Drawn)
    BY <2>2, AreDrawn
  <2>4. S(setup[1]) \in Seq(Drawn)
    BY <2>3, SeenConcat
  <2> QED BY <2>1, <2>2, <2>4, AreDrawn DEF Passes
<1>4. Passes(Flat(setup), SettingUp, setup[1], Flat(setup'))
  BY PipesPass, AreDrawn DEF PipePasses, Passes
<1>5. Passes(Flat(bus), Clipped, SettingUp, Flat(bus'))
  BY PipesPass, AreDrawn DEF PipePasses, Passes
<1>6. Passes(ToSetup, Clipped, setup[1], Flat(setup') \o Flat(bus'))
  BY <1>4, <1>5, PassesThrough DEF ToSetup
<1>7. Passes(S(ToSetup), S(Clipped), S(setup[1]), S(Flat(setup') \o Flat(bus')))
  BY <1>6, PassesSeen
<1>8. Passes(tt.queue \o Flat(setupOut), SetUp, out', tt'.queue \o Flat(setupOut'))
  BY <1>1, <1>2, PassesThrough
<1>9. Passes((tt.queue \o Flat(setupOut)) \o ts.fifo, S(setup[1]), out', (tt'.queue \o Flat(setupOut')) \o ts'.fifo)
  BY <1>3, <1>8, PassesThrough
<1> HIDE DEF S
<1>10. Passes(((tt.queue \o Flat(setupOut)) \o ts.fifo) \o S(ToSetup), S(Clipped), out',
              ((tt'.queue \o Flat(setupOut')) \o ts'.fifo) \o S(Flat(setup') \o Flat(bus')))
  BY <1>7, <1>9, PassesThrough
<1> QED BY <1>10 DEF S

\* From Primitive Assembly to the Clipper's bus.
LEMMA ClipPasses ==
  ASSUME IInv, Content, Cycle
  PROVE  Passes(Shown(ToClipped), Shown(Assembled), Shown(Clipped),
                Shown((clp'.buffer \o Flat(clipExec')) \o Flat(clipIn')))
<1>1. Passes(Shown(clp.buffer), Shown(clipExec[1]), Shown(Clipped), Shown(clp'.buffer))
  <2>1. clp.buffer \in Seq(Plain)
    BY DEF Content
  <2>2. /\ Clipped \in Seq(Plain) /\ clp'.buffer \in Seq(Plain) /\ clipExec[1] \in Seq(Genuine)
        /\ Shown(clp.buffer) \o Shown(clipExec[1]) = Shown(Clipped) \o Shown(clp'.buffer)
    BY ClipperPasses
  <2>3. /\ clp.buffer \in Seq(Drawn) /\ Clipped \in Seq(Drawn) /\ clp'.buffer \in Seq(Drawn)
        /\ clipExec[1] \in Seq(Drawn)
    BY <2>1, <2>2, AreDrawn
  <2>4. \A s \in Seq(Drawn) : Shown(s) \in Seq(Drawn)
    BY ShownConcat
  <2> QED BY <2>2, <2>3, <2>4 DEF Passes
<1>2. Passes(Flat(clipExec), Clipping, clipExec[1], Flat(clipExec'))
  BY PipesPass, AreDrawn DEF PipePasses, Passes
<1>3. Passes(Flat(clipIn), Assembled, Clipping, Flat(clipIn'))
  BY PipesPass, AreDrawn DEF PipePasses, Passes
<1>4. /\ Passes(Shown(Flat(clipExec)), Shown(Clipping), Shown(clipExec[1]), Shown(Flat(clipExec')))
      /\ Passes(Shown(Flat(clipIn)), Shown(Assembled), Shown(Clipping), Shown(Flat(clipIn')))
  BY <1>2, <1>3, PassesSeen DEF Shown
<1>5. Passes((Shown(clp.buffer) \o Shown(Flat(clipExec))) \o Shown(Flat(clipIn)), Shown(Assembled), Shown(Clipped),
             (Shown(clp'.buffer) \o Shown(Flat(clipExec'))) \o Shown(Flat(clipIn')))
  <2>1. Passes(Shown(clp.buffer) \o Shown(Flat(clipExec)), Shown(Clipping), Shown(Clipped),
               Shown(clp'.buffer) \o Shown(Flat(clipExec')))
    BY <1>1, <1>4, PassesThrough
  <2> QED BY <1>4, <2>1, PassesThrough
<1>6. \A a, b, c \in Seq(Drawn) : Shown((a \o b) \o c) = (Shown(a) \o Shown(b)) \o Shown(c)
  <2> TAKE a, b, c \in Seq(Drawn)
  <2>1. a \o b \in Seq(Drawn) /\ Shown(a \o b) = Shown(a) \o Shown(b)
    BY ShownConcat
  <2>2. Shown((a \o b) \o c) = Shown(a \o b) \o Shown(c)
    BY <2>1, ShownConcat
  <2> QED BY <2>1, <2>2
<1>7. /\ clp.buffer \in Seq(Drawn) /\ clp'.buffer \in Seq(Drawn)
      /\ Flat(clipExec) \in Seq(Drawn) /\ Flat(clipExec') \in Seq(Drawn)
      /\ Flat(clipIn) \in Seq(Drawn) /\ Flat(clipIn') \in Seq(Drawn)
  <2>1. clp.buffer \in Seq(Drawn) /\ clp'.buffer \in Seq(Drawn)
    BY ClipperPasses, AreDrawn DEF Content
  <2> QED BY <1>2, <1>3, <2>1 DEF Passes
<1>8. /\ Shown(ToClipped) = (Shown(clp.buffer) \o Shown(Flat(clipExec))) \o Shown(Flat(clipIn))
      /\ Shown((clp'.buffer \o Flat(clipExec')) \o Flat(clipIn'))
           = (Shown(clp'.buffer) \o Shown(Flat(clipExec'))) \o Shown(Flat(clipIn'))
  <2>1. Shown((clp.buffer \o Flat(clipExec)) \o Flat(clipIn))
          = (Shown(clp.buffer) \o Shown(Flat(clipExec))) \o Shown(Flat(clipIn))
    <3>1. clp.buffer \in Seq(Drawn) /\ Flat(clipExec) \in Seq(Drawn) /\ Flat(clipIn) \in Seq(Drawn)
      BY <1>7
    <3> QED BY <1>6, <3>1, Zenon
  <2>2. Shown((clp'.buffer \o Flat(clipExec')) \o Flat(clipIn'))
          = (Shown(clp'.buffer) \o Shown(Flat(clipExec'))) \o Shown(Flat(clipIn'))
    <3>1. clp'.buffer \in Seq(Drawn) /\ Flat(clipExec') \in Seq(Drawn) /\ Flat(clipIn') \in Seq(Drawn)
      BY <1>7
    <3> QED BY <1>6, <3>1, Zenon
  <2> QED BY <2>1, <2>2 DEF ToClipped
<1> QED BY <1>5, <1>8

\* The parts of the pipe.
LEMMA InPipeIs ==
  ASSUME IInv, Content
  PROVE  InPipe =
           (((tt.queue \o Flat(setupOut)) \o ts.fifo) \o Pending!Seen(Flat(setup) \o Flat(bus), culling))
             \o (Pending!Seen((clp.buffer \o Flat(clipExec)) \o Flat(clipIn), batch.culling)
                   \o Pending!Seen(Unassembled, batch.culling))
<1>1. clp.buffer \in Seq(Drawn)
  BY AreDrawn DEF Content
<1>2. /\ 1 \in Nat /\ 1 > 0 /\ ClipLatency \in Nat /\ ClipLatency > 0
      /\ clipIn \in Pipe(1) /\ clipExec \in Pipe(ClipLatency)
      /\ MadeOf(clipExec, Genuine) /\ MadeOf(clipIn, Genuine)
  BY Sizes DEF IInv, Typed, Content
<1>3. Flat(clipExec) \in Seq(Drawn) /\ Flat(clipIn) \in Seq(Drawn)
  <2>1. <<>> \in Group /\ <<>> \in Seq(Genuine)
    BY NothingEnds, Nothing
  <2>2. Flat(clipExec) \in Seq(Genuine)
    BY <1>2, <2>1, OfCarry
  <2>3. Flat(clipIn) \in Seq(Genuine)
    BY <1>2, <2>1, OfCarry
  <2> QED BY <2>2, <2>3, AreDrawn
<1>4. Unassembled \in Seq(Drawn)
  BY UnassembledType
<1>5. (clp.buffer \o Flat(clipExec)) \o Flat(clipIn) \in Seq(Drawn)
  <2>1. \A r, s \in Seq(Drawn) : r \o s \in Seq(Drawn)
    BY SeenConcat
  <2>2. clp.buffer \o Flat(clipExec) \in Seq(Drawn)
    BY <1>1, <1>3, <2>1
  <2> QED BY <1>3, <2>1, <2>2
<1> DEFINE H == (clp.buffer \o Flat(clipExec)) \o Flat(clipIn)
<1>6. Pending!Seen(H \o Unassembled, batch.culling)
        = Pending!Seen(H, batch.culling) \o Pending!Seen(Unassembled, batch.culling)
  <2> HIDE DEF H
  <2> QED BY <1>4, <1>5, SeenConcat DEF H
<1> QED BY <1>6 DEF InPipe

\* There is nothing in a vacant pipe.
LEMMA VacantFlat ==
  ASSUME NEW latency \in Nat, latency > 0, NEW pipe \in Pipe(latency), Vacant(pipe)
  PROVE  Flat(pipe) = <<>>
<1> DEFINE T == Triangles
           G == Seq(T)
<1>1. pipe \in Seq(Group)
  BY PipeIs
<1>2. \A g \in Group : g \in G
  BY DEF Group
<1>3. pipe \in [1 .. Len(pipe) -> Group] /\ Len(pipe) \in Nat
  BY <1>1
<1> HIDE DEF G
<1>4. pipe \in [1 .. Len(pipe) -> G]
  BY <1>2, <1>3
<1>5. pipe \in Seq(G)
  BY <1>3, <1>4
<1>6. \A n \in DOMAIN pipe : pipe[n] = <<>>
  BY DEF Vacant
<1> HIDE DEF T
<1> QED BY <1>5, <1>6, FlatVacant DEF G

\* A register that changes is one that nothing in its box is seen through.
LEMMA RegistersPass ==
  ASSUME IInv, IInv', Content, Cycle
  PROVE  /\ Pending!Seen(Clipped, culling) = Shown(Clipped)
         /\ Pending!Seen(Flat(setup') \o Flat(bus'), culling) = Pending!Seen(Flat(setup') \o Flat(bus'), culling')
         /\ Shown((clp'.buffer \o Flat(clipExec')) \o Flat(clipIn'))
              = Pending!Seen((clp'.buffer \o Flat(clipExec')) \o Flat(clipIn'), batch'.culling)
<1>1. \A c : Pending!Seen(<<>>, c) = <<>>
  BY SeenConcat, Nothing
<1>2. <<>> \o <<>> = <<>>
  OBVIOUS
<1>3. /\ 1 \in Nat /\ 1 > 0 /\ ClipLatency \in Nat /\ ClipLatency > 0 /\ BusLatency \in Nat /\ BusLatency > 0
      /\ SetupLatency \in Nat /\ SetupLatency > 0
  BY Sizes
<1>4. /\ clipIn' \in Pipe(1) /\ clipExec' \in Pipe(ClipLatency)
      /\ bus' \in Pipe(BusLatency) /\ setup' \in Pipe(SetupLatency)
  BY DEF IInv, Typed
<1>5. Pending!Seen(Clipped, culling) = Shown(Clipped)
  <2>1. CASE Clipped = <<>>
    BY <1>1, <2>1 DEF Shown
  <2>2. CASE Clipped # <<>>
    <3>1. culling = batch.culling
      BY <2>2, ClippedWhen DEF Passed, Content
    <3> QED BY <3>1 DEF Shown
  <2> QED BY <2>1, <2>2
<1> DEFINE F == Flat(setup') \o Flat(bus')
           H == (clp'.buffer \o Flat(clipExec')) \o Flat(clipIn')
<1>6. Pending!Seen(F, culling) = Pending!Seen(F, culling')
  <2>1. CASE culling' = culling
    BY <2>1
  <2>2. CASE culling' # culling
    <3>1. ts'.state # "DRAWING"
      BY <2>2, RegistersIs
    <3>2. Vacant(bus') /\ Vacant(setup')
      BY <3>1 DEF IInv, SetupOrder, Vacant
    <3>3. Flat(setup') = <<>> /\ Flat(bus') = <<>>
      BY <1>3, <1>4, <3>2, VacantFlat
    <3>4. F = <<>>
      BY <1>2, <3>3
    <3> QED BY <1>1, <3>4
  <2> QED BY <2>1, <2>2
<1>7. Shown(H) = Pending!Seen(H, batch'.culling)
  <2>1. CASE Draw \/ DrawAhead
    <3>1. clp'.state # "DRAWING"
      BY <2>1, RegistersIs
    <3>2. Vacant(clipIn') /\ Vacant(clipExec') /\ clp'.buffer = <<>>
      BY <3>1 DEF IInv, ClipperOrder, Vacant
    <3>3. Flat(clipIn') = <<>> /\ Flat(clipExec') = <<>>
      BY <1>3, <1>4, <3>2, VacantFlat
    <3>4. H = <<>>
      BY <1>2, <3>2, <3>3
    <3> QED BY <1>1, <3>4 DEF Shown
  <2>2. CASE ~(Draw \/ DrawAhead)
    <3>1. batch' = batch
      BY <2>2, RegistersIs
    <3> QED BY <3>1 DEF Shown
  <2> QED BY <2>1, <2>2
<1> QED BY <1>5, <1>6, <1>7

\* The rest of the batch passes through the boxes, or a batch is drawn and
\* follows all that is in them.
LEMMA StreamPasses ==
  ASSUME IInv, IInv', Content, Content', Cycle
  PROVE  \E left :
           /\ Passes(InPipe, <<>>, out', left)
           /\ ~(Draw \/ DrawAhead) => InPipe' = left
           /\ Draw \/ DrawAhead =>
                InPipe' = (left \o Pending!Seen(Pending!From(batch', 0), batch'.culling)) \o <<Last>>
<1> DEFINE K == (tt.queue \o Flat(setupOut)) \o ts.fifo
           K1 == (tt'.queue \o Flat(setupOut')) \o ts'.fifo
           F == ToSetup
           F1 == Flat(setup') \o Flat(bus')
           H == ToClipped
           H1 == (clp'.buffer \o Flat(clipExec')) \o Flat(clipIn')
           drawn == Draw \/ DrawAhead
           S1(s) == Pending!Seen(s, batch'.culling)
           V == IF drawn THEN <<>> ELSE S1(Unassembled')
           A == K \o Pending!Seen(F, culling)
           A1 == K1 \o Pending!Seen(F1, culling')
           B == Shown(H)
           B1 == S1(H1)
           T == Drawn
           left == A1 \o (B1 \o V)
<1>1. Passes(A, Shown(Clipped), out', A1)
  <2>1. Passes(A, Pending!Seen(Clipped, culling), out', K1 \o Pending!Seen(F1, culling))
    BY RasterPasses
  <2> QED BY <2>1, RegistersPass
<1>2. Passes(B, Shown(Assembled), Shown(Clipped), B1)
  <2>1. Passes(B, Shown(Assembled), Shown(Clipped), Shown(H1))
    BY ClipPasses
  <2> QED BY <2>1, RegistersPass
<1>3. /\ Unassembled \in Seq(T) /\ Unassembled' \in Seq(T) /\ S1(Unassembled') \in Seq(T)
      /\ Shown(Unassembled) \in Seq(T) /\ <<>> \in Seq(T)
  <2>1. Unassembled \in Seq(Drawn) /\ Unassembled' \in Seq(Drawn)
    BY UnassembledType, NextTypes
  <2>2. \A c : \A s \in Seq(Drawn) : Pending!Seen(s, c) \in Seq(Drawn)
    BY SeenConcat
  <2> QED BY <2>1, <2>2, Nothing DEF Shown
<1>4. Shown(<<>>) = <<>> /\ \A s \in Seq(T) : s \o <<>> = s /\ <<>> \o s = s
  <2>1. Shown(<<>>) = <<>>
    BY <1>3, SeenConcat DEF Shown
  <2> QED BY <2>1, Nothing
<1>5. Passes(Shown(Unassembled), <<>>, Shown(Assembled), V)
  <2>1. /\ drawn => Unassembled = <<>> /\ Assembled = <<>>
        /\ ~drawn => Shown(Unassembled) = Shown(Assembled) \o S1(Unassembled')
    BY UnassembledIs
  <2>2. Shown(Assembled) \in Seq(T)
    BY <1>2 DEF Passes
  <2> DEFINE u == Shown(Unassembled)
             w == Shown(Assembled)
  <2>3. V \in Seq(T) /\ u \in Seq(T) /\ w \in Seq(T)
    BY <1>3, <2>2
  <2>4. u \o <<>> = u
    BY <1>4, <2>3
  <2>5. u = w \o V
    <3>1. CASE drawn
      <4>1. u = <<>> /\ w = <<>> /\ V = <<>>
        BY <1>4, <2>1, <3>1
      <4>2. <<>> \o <<>> = <<>>
        OBVIOUS
      <4> HIDE DEF u, w, V
      <4> QED BY <4>1, <4>2
    <3>2. CASE ~drawn
      <4>1. V = S1(Unassembled')
        BY <3>2
      <4> HIDE DEF V
      <4> QED BY <2>1, <3>2, <4>1
    <3> QED BY <3>1, <3>2
  <2> HIDE DEF u, w, V
  <2> QED BY <1>3, <2>3, <2>4, <2>5 DEF Passes, u, w
<1>6. InPipe = A \o (B \o Shown(Unassembled))
  BY InPipeIs DEF Shown, ToSetup, ToClipped
<1>7. InPipe' = A1 \o (B1 \o S1(Unassembled'))
  <2>1. (IInv /\ Content => InPipe =
           (((tt.queue \o Flat(setupOut)) \o ts.fifo) \o Pending!Seen(Flat(setup) \o Flat(bus), culling))
             \o (Pending!Seen((clp.buffer \o Flat(clipExec)) \o Flat(clipIn), batch.culling)
                   \o Pending!Seen(Unassembled, batch.culling)))'
    BY InPipeIs, PTL
  <2> QED BY <2>1
<1>8. Passes(InPipe, <<>>, out', left)
  <2> HIDE DEF A, A1, B, B1, V
  <2>1. Passes(B \o Shown(Unassembled), <<>>, Shown(Clipped), B1 \o V)
    BY <1>2, <1>5, PassesThrough
  <2>2. Passes(A \o (B \o Shown(Unassembled)), <<>>, out', A1 \o (B1 \o V))
    BY <1>1, <2>1, PassesThrough
  <2> QED BY <1>6, <2>2
<1>9. ASSUME ~drawn PROVE InPipe' = left
  <2>1. V = S1(Unassembled')
    BY <1>9
  <2> HIDE DEF A1, B1, V
  <2> QED BY <1>7, <2>1
<1>10. ASSUME drawn
       PROVE  InPipe' = (left \o S1(Pending!From(batch', 0))) \o <<Last>>
  <2> DEFINE X == S1(Pending!From(batch', 0))
             L == <<Last>>
             Y == S1(Unassembled')
  <2>1. Unassembled' = Pending!From(batch', 0) \o <<Last>>
    BY <1>10, UnassembledIs
  <2>2. Y = X \o L
    BY <2>1, NextTypes
  <2>3. X \in Seq(T)
    BY NextTypes, SeenConcat
  <2>4. L \in Seq(T)
    BY LastShown
  <2>5. A1 \in Seq(T) /\ B1 \in Seq(T)
    BY <1>1, <1>2 DEF Passes
  <2>6. left = A1 \o B1
    <3>1. V = <<>>
      BY <1>10
    <3> HIDE DEF A1, B1, V, T
    <3>2. B1 \o V = B1
      BY <1>4, <2>5, <3>1
    <3> QED BY <3>2
  <2> HIDE DEF A1, B1, X, L, Y, T, left
  <2>7. A1 \o (B1 \o (X \o L)) = ((A1 \o B1) \o X) \o L
    <3>1. X \o L \in Seq(T) /\ A1 \o B1 \in Seq(T)
      BY <2>3, <2>4, <2>5
    <3>2. A1 \o (B1 \o (X \o L)) = (A1 \o B1) \o (X \o L)
      <4> DEFINE Z == X \o L
      <4>1. A1 \in Seq(T) /\ B1 \in Seq(T) /\ Z \in Seq(T)
        BY <2>5, <3>1
      <4> HIDE DEF Z
      <4>2. A1 \o (B1 \o Z) = (A1 \o B1) \o Z
        BY <4>1
      <4> QED BY <4>2 DEF Z
    <3>3. (A1 \o B1) \o (X \o L) = ((A1 \o B1) \o X) \o L
      <4> DEFINE Z == A1 \o B1
      <4>1. Z \in Seq(T) /\ X \in Seq(T) /\ L \in Seq(T)
        BY <2>3, <2>4, <3>1
      <4> HIDE DEF Z
      <4>2. Z \o (X \o L) = (Z \o X) \o L
        BY <4>1
      <4> QED BY <4>2 DEF Z
    <3> QED BY <3>2, <3>3, Zenon
  <2> QED BY <1>7, <2>2, <2>6, <2>7 DEF X, L, Y
<1> HIDE DEF A1, B1, V, left
<1> QED BY <1>8, <1>9, <1>10

\* What TriangleStream calls as Pending does.
LEMMA StreamIs ==
  /\ Stream!Last = Last
  /\ \A s, c : Stream!Seen(s, c) = Pending!Seen(s, c)
  /\ \A b, k : Stream!From(b, k) = Pending!From(b, k)
<1>1. Stream!Last = Last
  BY DEF Last, Stream!Last, Pending!Last
<1>2. \A s, c : Stream!Seen(s, c) = Pending!Seen(s, c)
  <2>1. \A c : Stream!Visible(c) = Pending!Visible(c)
    BY DEF Stream!Visible, Pending!Visible, Stream!Items, Pending!Items, Stream!Degenerate, Pending!Degenerate,
           Stream!Rejected, Pending!Rejected, Stream!Culled, Pending!Culled, Stream!Front, Pending!Front
  <2>2. \A s, kept : Stream!Only(s, kept) = Pending!Only(s, kept)
    BY DEF Stream!Only, Pending!Only
  <2> QED BY <2>1, <2>2 DEF Stream!Seen, Pending!Seen
<1>3. \A b, k : Stream!From(b, k) = Pending!From(b, k)
  <2>1. \A p, n : Stream!Triangles(p, n) = Pending!Triangles(p, n)
    BY DEF Stream!Triangles, Pending!Triangles
  <2>2. \A p, k : Stream!Corners(p, k) = Pending!Corners(p, k)
    BY DEF Stream!Corners, Pending!Corners
  <2>3. \A b, k : Stream!TriangleAt(b, k) = Pending!TriangleAt(b, k)
    BY <2>2 DEF Stream!TriangleAt, Pending!TriangleAt, Stream!Triangle, Pending!Triangle
  <2> QED BY <2>1, <2>3 DEF Stream!From, Pending!From
<1> QED BY <1>1, <1>2, <1>3

\* Every cycle is a step of the stream.
LEMMA StreamNext ==
  ASSUME IInv, IInv', Content, Content', Cycle
  PROVE  Stream!Next
<1>1. PICK left :
        /\ Passes(InPipe, <<>>, out', left)
        /\ ~(Draw \/ DrawAhead) => InPipe' = left
        /\ Draw \/ DrawAhead =>
             InPipe' = (left \o Pending!Seen(Pending!From(batch', 0), batch'.culling)) \o <<Last>>
  BY StreamPasses
<1> DEFINE D == Drawn
           p == InPipe
           o == out'
           n == Len(o)
<1>2. /\ p \in Seq(D) /\ o \in Seq(D) /\ left \in Seq(D) /\ p \o <<>> = o \o left
  BY <1>1 DEF Passes
<1>3. n \in 0 .. TriangleBatch
  BY TraversalPasses
<1>4. /\ n <= Len(p) /\ o = Take(p, n) /\ left = Drop(p, n)
  <2>1. p \o <<>> = p
    BY <1>2, Nothing
  <2>2. p = o \o left
    BY <1>2, <2>1
  <2> HIDE DEF p, o, D
  <2> QED BY <1>2, <2>2, FirstLeaves
<1>5. o = SubSeq(p, 1, n) /\ left = SubSeq(p, n + 1, Len(p))
  BY <1>4 DEF Take, Drop
<1>6. \/ p' = left
      \/ \E b \in Batches : p' = left \o Stream!Seen(Stream!From(b, 0), b.culling) \o <<Stream!Last>>
  <2>1. CASE Draw \/ DrawAhead
    <3>1. batch' \in Batches
      BY <2>1, RegistersIs
    <3>2. p' = left \o Stream!Seen(Stream!From(batch', 0), batch'.culling) \o <<Stream!Last>>
      BY <1>1, <2>1, StreamIs
    <3> QED BY <3>1, <3>2
  <2>2. CASE ~(Draw \/ DrawAhead)
    BY <1>1, <2>2
  <2> QED BY <2>1, <2>2
<1> QED BY <1>3, <1>4, <1>5, <1>6 DEF Stream!Next

LEMMA StreamFirst ==
  ASSUME Init
  PROVE  Content /\ Stream!Init
<1>1. IInv
  BY AtFirst
<1>2. /\ 1 \in Nat /\ 1 > 0 /\ ClipLatency \in Nat /\ ClipLatency > 0 /\ BusLatency \in Nat /\ BusLatency > 0
      /\ SetupLatency \in Nat /\ SetupLatency > 0 /\ OutputLatency \in Nat /\ OutputLatency > 0
  BY Sizes
<1>3. /\ clipIn = Empty(1) /\ clipExec = Empty(ClipLatency) /\ bus = Empty(BusLatency)
      /\ setup = Empty(SetupLatency) /\ setupOut = Empty(OutputLatency)
      /\ tt.queue = <<>> /\ ts.fifo = <<>> /\ clp.buffer = <<>> /\ out = <<>>
      /\ pa.state = "READY" /\ cp.status = "READY" /\ command.geometry = "none"
  BY DEF Init, Idle, PaStart, ClpStart, TsStart, TtStart
<1>4. <<>> \in Seq(Genuine) /\ <<>> \in Seq(Plain)
  BY Nothing
<1>5. ASSUME NEW latency \in Nat, NEW T, <<>> \in Seq(T) PROVE MadeOf(Empty(latency), T)
  BY <1>5 DEF MadeOf, Empty
<1>6. Content
  BY <1>2, <1>3, <1>4, <1>5 DEF Content
<1>7. /\ Flat(clipIn) = <<>> /\ Flat(clipExec) = <<>> /\ Flat(bus) = <<>>
      /\ Flat(setup) = <<>> /\ Flat(setupOut) = <<>>
  BY <1>2, <1>3, EmptyPipe, VacantFlat
<1>8. Unassembled = <<>>
  BY <1>3 DEF Unassembled
<1>9. \A c : Pending!Seen(<<>>, c) = <<>>
  BY SeenConcat, Nothing
<1>10. <<>> \o <<>> = <<>>
  OBVIOUS
<1>11. InPipe = <<>>
  BY <1>3, <1>7, <1>8, <1>9, <1>10 DEF InPipe
<1> QED BY <1>3, <1>6, <1>11 DEF Stream!Init

LEMMA StreamStutters ==
  ASSUME Content, UNCHANGED vars
  PROVE  Content' /\ UNCHANGED Stream!vars
<1>1. /\ cp' = cp /\ command' = command /\ batch' = batch /\ culling' = culling /\ pa' = pa /\ clp' = clp
      /\ ts' = ts /\ tt' = tt /\ clipIn' = clipIn /\ clipExec' = clipExec /\ bus' = bus
      /\ setup' = setup /\ setupOut' = setupOut /\ out' = out
  BY DEF vars, links
<1>2. Gathered(pa') => Gathered(pa)'
  BY <1>1, GatheredIs
<1>3. Content'
  BY <1>1, <1>2 DEF Content, MadeOf, Genuine, Plain, InView
<1>4. Unassembled' = Unassembled
  BY <1>1 DEF Unassembled
<1>5. InPipe' = InPipe
  BY <1>1, <1>4 DEF InPipe
<1> QED BY <1>1, <1>3, <1>5 DEF Stream!vars

LEMMA ContentInvariant == Spec => [](IInv /\ Content)
<1>1. Init => Content
  BY StreamFirst
<1>2. IInv /\ IInv' /\ Content /\ [Next]_vars => Content'
  <2>1. ASSUME IInv, IInv', Content, Next PROVE Content'
    BY <2>1, CycleIs, ContentNext
  <2>2. ASSUME Content, UNCHANGED vars PROVE Content'
    BY <2>2, StreamStutters
  <2> QED BY <2>1, <2>2
<1> QED BY <1>1, <1>2, Invariant, PTL DEF Spec

\* Of every batch exactly the triangles that can be seen are rasterized, in
\* the order of their vertices, with the vertices of the batch and their
\* facing, and then the mark of its end: whatever the sizes of the queues, the
\* latencies and the batches, the boxes implement TriangleStream.
THEOREM PipeIsTriangleStream == Spec => IsTriangleStream
<1>1. IInv /\ IInv' /\ Content /\ Content' /\ [Next]_vars => [Stream!Next]_Stream!vars
  <2>1. ASSUME IInv, IInv', Content, Content', Next PROVE Stream!Next
    BY <2>1, CycleIs, StreamNext
  <2>2. ASSUME Content, UNCHANGED vars PROVE UNCHANGED Stream!vars
    BY <2>2, StreamStutters
  <2> QED BY <2>1, <2>2
<1>2. Init => Stream!Init
  BY StreamFirst
<1> QED BY <1>1, <1>2, ContentInvariant, PTL DEF Spec, IsTriangleStream, Stream!Spec
=============================================================================
