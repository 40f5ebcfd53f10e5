----------------------- MODULE ChannelScheduler_proofs -----------------------
(***************************************************************************)
(* Every scheduler of a memory channel, with queues of any size and any    *)
(* set of transactions, keeps its assertions, is fair where its policy     *)
(* says so, and implements the memory of ChannelMemory.                    *)
(***************************************************************************)
EXTENDS ChannelScheduler, FiniteSetTheorems, WellFoundedInduction, TLAPS

-----------------------------------------------------------------------------
(* Least and greatest numbers.                                             *)

LEMMA LeastNat ==
  ASSUME NEW T, T \subseteq Nat, T # {}
  PROVE  \E m \in T : \A k \in T : m <= k
<1>1. \E m \in T : \A k \in T : ~ (<<k, m>> \in OpToRel(<, Nat))
  BY NatLessThanWellFounded, WFMin
<1>2. PICK m \in T : \A k \in T : ~ (<<k, m>> \in OpToRel(<, Nat))
  BY <1>1
<1>3. \A k \in T : m <= k
  <2> SUFFICES ASSUME NEW k \in T PROVE m <= k
    OBVIOUS
  <2>1. ~ (k < m)
    BY <1>2 DEF OpToRel
  <2> QED BY <2>1
<1> QED BY <1>3

LEMMA GreatestNat ==
  ASSUME NEW b \in Nat, NEW T, T \subseteq 0 .. b, T # {}
  PROVE  \E m \in T : \A k \in T : k <= m
<1> DEFINE D == { b - k : k \in T }
<1>1. D \subseteq Nat /\ D # {}
  OBVIOUS
<1>2. PICK d \in D : \A e \in D : d <= e
  BY <1>1, LeastNat
<1>3. PICK m \in T : d = b - m
  OBVIOUS
<1>4. \A k \in T : k <= m
  <2> SUFFICES ASSUME NEW k \in T PROVE k <= m
    OBVIOUS
  <2>1. b - m <= b - k
    BY <1>2, <1>3
  <2> QED BY <2>1
<1> QED BY <1>4

-----------------------------------------------------------------------------
(* Sequences without repetition.                                           *)

Once(s) == \A i, j \in 1 .. Len(s) : s[i] = s[j] => i = j

LEMMA TailOnce ==
  ASSUME NEW S, NEW s \in Seq(S), s # <<>>, Once(s)
  PROVE  /\ Tail(s) \in Seq(S) /\ Once(Tail(s))
         /\ Head(s) \in S /\ Head(s) \in RangeOf(s)
         /\ RangeOf(Tail(s)) = RangeOf(s) \ {Head(s)}
<1>1. /\ Tail(s) \in Seq(S) /\ Len(Tail(s)) = Len(s) - 1 /\ Len(s) \in Nat
      /\ Len(s) > 0 /\ Head(s) = s[1] /\ Head(s) \in S
      /\ \A i \in 1 .. Len(Tail(s)) : Tail(s)[i] = s[i + 1]
  OBVIOUS
<1>2. DOMAIN s = 1 .. Len(s) /\ DOMAIN Tail(s) = 1 .. Len(s) - 1
  BY <1>1
<1>3. Once(Tail(s))
  <2> SUFFICES ASSUME NEW i \in 1 .. Len(s) - 1, NEW j \in 1 .. Len(s) - 1,
                      Tail(s)[i] = Tail(s)[j]
               PROVE  i = j
    BY <1>1 DEF Once
  <2>1. s[i + 1] = s[j + 1] /\ i + 1 \in 1 .. Len(s) /\ j + 1 \in 1 .. Len(s)
    BY <1>1
  <2> QED BY <2>1, <1>1 DEF Once
<1>4. RangeOf(Tail(s)) = RangeOf(s) \ {Head(s)}
  <2>1. ASSUME NEW x \in RangeOf(Tail(s)) PROVE x \in RangeOf(s) \ {Head(s)}
    <3>1. PICK i \in 1 .. Len(s) - 1 : x = Tail(s)[i]
      BY <1>2, <2>1 DEF RangeOf
    <3>2. x = s[i + 1] /\ i + 1 \in 1 .. Len(s) /\ 1 \in 1 .. Len(s) /\ i + 1 # 1
      BY <1>1, <3>1
    <3>3. s[i + 1] # s[1]
      BY <3>2 DEF Once
    <3> QED BY <1>1, <1>2, <3>2, <3>3 DEF RangeOf
  <2>2. ASSUME NEW x \in RangeOf(s) \ {Head(s)} PROVE x \in RangeOf(Tail(s))
    <3>1. PICK i \in 1 .. Len(s) : x = s[i]
      BY <1>2, <2>2 DEF RangeOf
    <3>2. i # 1
      BY <1>1, <2>2, <3>1
    <3>3. i - 1 \in 1 .. Len(s) - 1 /\ Tail(s)[i - 1] = s[i]
      BY <1>1, <3>2
    <3> QED BY <1>2, <3>1, <3>3 DEF RangeOf
  <2> QED BY <2>1, <2>2
<1>5. Head(s) \in RangeOf(s)
  <2>1. 1 \in DOMAIN s
    BY <1>1, <1>2
  <2> QED BY <1>1, <2>1 DEF RangeOf
<1> QED BY <1>1, <1>3, <1>4, <1>5

LEMMA AppendOnce ==
  ASSUME NEW S, NEW s \in Seq(S), NEW x \in S, Once(s), x \notin RangeOf(s)
  PROVE  /\ Append(s, x) \in Seq(S) /\ Once(Append(s, x)) /\ Append(s, x) # <<>>
         /\ RangeOf(Append(s, x)) = RangeOf(s) \cup {x}
<1> DEFINE a == Append(s, x)
<1>1. /\ a \in Seq(S) /\ Len(a) = Len(s) + 1 /\ Len(s) \in Nat /\ a[Len(s) + 1] = x
      /\ \A i \in 1 .. Len(s) : a[i] = s[i]
      /\ a # <<>>
  OBVIOUS
<1>2. DOMAIN s = 1 .. Len(s) /\ DOMAIN a = 1 .. Len(s) + 1
  BY <1>1
<1> HIDE DEF a
<1>3. \A i \in 1 .. Len(s) : s[i] # x
  BY <1>2 DEF RangeOf
<1>4. Once(a)
  BY <1>1, <1>3 DEF Once
<1>5. RangeOf(a) = RangeOf(s) \cup {x}
  <2>1. \A i \in 1 .. Len(s) + 1 : i \in 1 .. Len(s) \/ i = Len(s) + 1
    BY <1>1
  <2>2. \A i \in 1 .. Len(s) : i \in 1 .. Len(s) + 1
    BY <1>1
  <2>3. Len(s) + 1 \in 1 .. Len(s) + 1
    BY <1>1
  <2> QED BY <1>1, <1>2, <2>1, <2>2, <2>3 DEF RangeOf
<1> QED BY <1>1, <1>4, <1>5 DEF a

LEMMA EmptyOnce == Once(<<>>) /\ RangeOf(<<>>) = {}
  BY DEF Once, RangeOf

-----------------------------------------------------------------------------
(* The inductive invariant.                                                *)

\* No two transactions have a number, and the newest is on the link.
Numbered ==
  /\ \A t, u \in queue : t.n = u.n => t = u
  /\ \A t \in request, u \in queue : u.n < t.n

\* Who waits, waits for an earlier transaction.
WaitsBack == \A p \in waits : p[2].n < p[1].n

\* The dependency of a transaction is as new as all that it overlaps with: they
\* have left the other queue when the dependency has.
DependencyKept(s, w) ==
  config.kind = "RWFifo" =>
    \A t, u \in s :
      t.read # u.read /\ Overlap(t.block, u.block) /\ u.n < t.n =>
        \E v \in s : v.read = u.read /\ u.n <= v.n /\ <<t, v>> \in w

\* A queue that is told to accept has room for what is on the link as well.
RoomKept ==
  \A q \in QueueNames(config.kind) :
    Cardinality(Queued(q, Arrived)) + (IF q \in accept THEN 1 ELSE 0) <= config.size[q]

\* What the policy counts covers what has been passed over.
CountsKept ==
  config.kind # "Fifo" /\ config.policy = "TwoCounters" =>
    /\ mode.ops <= MaxConsecutive[mode.reading]
    /\ passed[mode.reading] = 0 /\ passed[~mode.reading] <= mode.ops

\* A transaction is in one place.
Apart ==
  /\ Once(reads) /\ Once(replies)
  /\ Arrived \cap (current \cup RangeOf(reads) \cup RangeOf(replies)) = {}
  /\ current \cap (RangeOf(reads) \cup RangeOf(replies)) = {}
  /\ RangeOf(reads) \cap RangeOf(replies) = {}

IInv ==
  /\ TypeOK /\ IsFiniteSet(queue)
  /\ Numbered /\ WaitsBack /\ DependencyKept(queue, waits)
  /\ RoomKept /\ CountsKept /\ Apart

-----------------------------------------------------------------------------
(* The queues when the request has been received.                          *)

LEMMA ArrivedType ==
  ASSUME IInv
  PROVE  /\ Arrived \subseteq Transactions(sent) /\ IsFiniteSet(Arrived)
         /\ sent \in Nat /\ config \in Schedulers
         /\ \A t \in Arrived : t.n \in Nat /\ t.read \in BOOLEAN /\ t.block \in Blocks
         /\ \A t, u \in Arrived : t.n = u.n => t = u
<1>1. /\ Arrived \subseteq Transactions(sent) /\ sent \in Nat /\ config \in Schedulers
      /\ AtMostOne(request)
  BY CountAssumption DEF IInv, TypeOK, Arrived
<1>2. \A t \in Arrived : t.n \in Nat /\ t.read \in BOOLEAN /\ t.block \in Blocks
  BY <1>1 DEF Transactions
<1>3. IsFiniteSet(Arrived)
  <2>1. CASE request = {}
    BY <2>1 DEF IInv, Arrived
  <2>2. CASE request # {}
    <3>1. PICK t : request = {t}
      BY <1>1, <2>2 DEF AtMostOne
    <3> QED BY <3>1, FS_AddElement DEF IInv, Arrived
  <2> QED BY <2>1, <2>2
<1>4. \A t, u \in Arrived : t.n = u.n => t = u
  <2> SUFFICES ASSUME NEW t \in Arrived, NEW u \in Arrived, t.n = u.n PROVE t = u
    OBVIOUS
  <2> QED BY <1>1, <1>2 DEF IInv, Numbered, Arrived, AtMostOne
<1> QED BY <1>1, <1>2, <1>3, <1>4

\* The newest of some queued transactions exists.
LEMMA NewestExists ==
  ASSUME IInv, NEW s, s \subseteq queue, s # {}
  PROVE  \E t \in s : t \in Newest(s)
<1>1. sent \in Nat /\ \A t \in s : t.n \in 0 .. sent
  BY CountAssumption DEF IInv, TypeOK, Transactions
<1> DEFINE T == { t.n : t \in s }
<1>2. T \subseteq 0 .. sent /\ T # {}
  BY <1>1
<1>3. PICK m \in T : \A k \in T : k <= m
  BY <1>1, <1>2, GreatestNat
<1>4. PICK t \in s : t.n = m
  OBVIOUS
<1> QED BY <1>3, <1>4 DEF Newest

LEMMA WaitingBack ==
  ASSUME IInv
  PROVE  /\ Waiting \subseteq Arrived \X Arrived
         /\ \A p \in Waiting : p[2].n < p[1].n
<1>1. /\ waits \subseteq queue \X queue /\ \A p \in waits : p[2].n < p[1].n
      /\ \A t \in request, u \in queue : u.n < t.n
  BY DEF IInv, TypeOK, WaitsBack, Numbered
<1>2. \A p \in Waiting : p \in waits \/ (p \in request \X queue)
  BY DEF Waiting
<1> QED BY <1>1, <1>2 DEF Arrived

LEMMA ArrivedDependencyKept ==
  ASSUME IInv
  PROVE  DependencyKept(Arrived, Waiting)
<1> SUFFICES ASSUME config.kind = "RWFifo", NEW t \in Arrived, NEW u \in Arrived,
                    t.read # u.read, Overlap(t.block, u.block), u.n < t.n
             PROVE  \E v \in Arrived :
                      v.read = u.read /\ u.n <= v.n /\ <<t, v>> \in Waiting
  BY DEF DependencyKept
<1>1. \A v \in Arrived : v.n \in Nat /\ v.read \in BOOLEAN
  BY ArrivedType
<1>2. Waiting = waits \cup { p \in request \X queue : p[2] \in Dependency(p[1]) }
  BY DEF Waiting
<1>3. CASE t \in queue /\ u \in queue
  <2>1. PICK v \in queue : v.read = u.read /\ u.n <= v.n /\ <<t, v>> \in waits
    BY <1>3 DEF IInv, DependencyKept
  <2> QED BY <1>2, <2>1 DEF Arrived
<1>4. CASE t \in request /\ u \in queue
  <2> DEFINE s == { v \in queue : v.read # t.read /\ Overlap(t.block, v.block) }
  <2>1. u \in s
    BY <1>4
  <2>2. PICK v \in s : v \in Newest(s)
    BY <2>1, NewestExists
  <2>3. u.n <= v.n
    BY <2>1, <2>2 DEF Newest
  <2>4. v.read = u.read
    BY <1>1, <2>1, <2>2 DEF Arrived
  <2>5. <<t, v>> \in Waiting
    BY <1>2, <1>4, <2>2 DEF Dependency
  <2> QED BY <2>2, <2>3, <2>4, <2>5 DEF Arrived
<1>5. CASE u \in request
  <2>1. \A v \in queue : v.n < u.n
    BY <1>5 DEF IInv, Numbered
  <2>2. t \in request
    BY <1>1, <2>1 DEF Arrived
  <2>3. t = u
    BY <1>5, <2>2 DEF IInv, TypeOK, AtMostOne
  <2> QED BY <1>1, <2>3
<1> QED BY <1>3, <1>4, <1>5 DEF Arrived

-----------------------------------------------------------------------------
(* The choice of the next transaction.                                     *)

\* The oldest of all is never kept waiting.
LEMMA SomeReady ==
  ASSUME IInv, Arrived # {}
  PROVE  Ready(Arrived) # {}
<1>1. \A t \in Arrived : t.n \in Nat
  BY ArrivedType
<1> DEFINE T == { t.n : t \in Arrived }
<1>2. T \subseteq Nat /\ T # {}
  BY <1>1
<1>3. PICK m \in T : \A k \in T : m <= k
  BY <1>2, LeastNat
<1>4. PICK t \in Arrived : t.n = m
  OBVIOUS
<1>5. \A u \in Arrived : t.n <= u.n
  BY <1>3, <1>4
<1>6. \A p \in Waiting : p[1] # t
  <2> SUFFICES ASSUME NEW p \in Waiting, p[1] = t PROVE FALSE
    OBVIOUS
  <2>1. p[2] \in Arrived /\ p[2].n < p[1].n
    BY WaitingBack
  <2> QED BY <1>1, <1>5, <2>1
<1> QED BY <1>4, <1>5, <1>6 DEF Ready, Fronts

\* A mode has a transaction for it, whatever the policy.
LEMMA ModeHasOne ==
  ASSUME IInv, Arrived # {}
  PROVE  \A m \in Modes(Arrived) : Candidates(m, Arrived) # {}
<1> SUFFICES ASSUME NEW m \in Modes(Arrived) PROVE Candidates(m, Arrived) # {}
  OBVIOUS
<1>1. \A t \in Ready(Arrived) : t.read \in BOOLEAN
  BY ArrivedType DEF Ready, Fronts
<1>2. Exists(TRUE, Arrived) \/ Exists(FALSE, Arrived)
  BY <1>1, SomeReady DEF Exists
<1>3. mode.reading \in BOOLEAN /\ mode \in [reading : BOOLEAN, ops : Nat]
  BY DEF IInv, TypeOK
<1>4. CASE config.kind = "Fifo"
  BY <1>4, SomeReady DEF Candidates
<1>5. CASE config.kind # "Fifo"
  <2>1. Exists(m.reading, Arrived)
    <3>1. CASE config.policy = "TwoCounters"
      <4>1. m = TwoCounters(Arrived)
        BY <1>5, <3>1 DEF Modes
      <4> DEFINE full == mode.ops >= MaxConsecutive[mode.reading]
                 switch == ~Exists(mode.reading, Arrived) \/ (full /\ Exists(~mode.reading, Arrived))
      <4>2. m.reading = IF switch THEN ~mode.reading ELSE mode.reading
        BY <4>1 DEF TwoCounters
      <4>3. switch => Exists(~mode.reading, Arrived)
        <5>1. CASE mode.reading = TRUE
          BY <1>2, <5>1
        <5>2. CASE mode.reading = FALSE
          BY <1>2, <5>2
        <5> QED BY <1>3, <5>1, <5>2
      <4> QED BY <4>2, <4>3
    <3>2. CASE config.policy # "TwoCounters"
      <4>1. m \in LoadsOverStores(Arrived)
        BY <1>5, <3>2 DEF Modes
      <4>2. PICK hit \in BOOLEAN :
              /\ hit => Exists(FALSE, Arrived)
              /\ m.reading = IF mode.reading
                             THEN Exists(TRUE, Arrived) \/ ~Exists(FALSE, Arrived)
                             ELSE Exists(TRUE, Arrived) /\ ~hit
        BY <1>3, <4>1 DEF LoadsOverStores
      <4>3. m.reading \in BOOLEAN
        BY <4>2 DEF Exists
      <4>4. CASE m.reading = TRUE
        BY <1>2, <4>2, <4>4
      <4>5. CASE m.reading = FALSE
        BY <1>2, <4>2, <4>5
      <4> QED BY <4>3, <4>4, <4>5
    <3> QED BY <3>1, <3>2
  <2> QED BY <1>5, <2>1 DEF Exists, Candidates
<1> QED BY <1>4, <1>5

\* Different blocks that touch a byte overlap for the scheduler.
LEMMA BytesOverlap ==
  ASSUME NEW b \in Blocks, NEW c \in Blocks, Memory!Bytes(b) \cap Memory!Bytes(c) # {}
  PROVE  b.bank = c.bank /\ Overlap(b, c)
<1>1. /\ b.start \in Nat /\ b.size \in Nat \ {0}
      /\ c.start \in Nat /\ c.size \in Nat \ {0}
  BY BlockAssumption
<1>2. PICK x : x \in Memory!Bytes(b) /\ x \in Memory!Bytes(c)
  OBVIOUS
<1>3. PICK i \in b.start .. b.start + b.size - 1 : x = <<b.bank, b.row, i>>
  BY <1>2 DEF Memory!Bytes
<1>4. PICK j \in c.start .. c.start + c.size - 1 : x = <<c.bank, c.row, j>>
  BY <1>2 DEF Memory!Bytes
<1>5. b.bank = c.bank /\ b.row = c.row /\ i = j
  BY <1>3, <1>4
<1>6. b.start + b.size >= c.start /\ c.start + c.size >= b.start
  BY <1>1, <1>5
<1> QED BY <1>1, <1>5, <1>6 DEF Overlap

\* Nothing is chosen before an earlier transaction it conflicts with.
LEMMA ReadyIsOldest ==
  ASSUME IInv, NEW t \in Ready(Arrived)
  PROVE  Memory!OldestOf(t, Arrived)
<1> SUFFICES ASSUME NEW u \in Arrived, Memory!Conflict(t, u)
             PROVE  t.n <= u.n
  BY DEF Memory!OldestOf
<1>1. /\ t \in Arrived /\ t.n \in Nat /\ u.n \in Nat
      /\ t.read \in BOOLEAN /\ u.read \in BOOLEAN
      /\ t.block \in Blocks /\ u.block \in Blocks
  BY ArrivedType DEF Ready, Fronts
<1>2. t.block.bank = u.block.bank /\ Overlap(t.block, u.block) /\ ~(t.read /\ u.read)
  BY <1>1, BytesOverlap DEF Memory!Conflict
<1>3. CASE QueueOf(t) = QueueOf(u)
  BY <1>3 DEF Ready, Fronts
<1>4. CASE QueueOf(t) # QueueOf(u)
  <2>1. config.kind = "RWFifo" /\ t.read # u.read
    BY <1>2, <1>4 DEF QueueOf
  <2>2. ASSUME u.n < t.n PROVE FALSE
    <3>1. PICK v \in Arrived : <<t, v>> \in Waiting
      BY <1>1, <1>2, <2>1, <2>2, ArrivedDependencyKept DEF DependencyKept
    <3> QED BY <3>1 DEF Ready
  <2> QED BY <1>1, <2>2
<1> QED BY <1>3, <1>4

-----------------------------------------------------------------------------
(* A cycle.                                                                *)

\* What the Memory Controller sends.
LEMMA RequestStep ==
  ASSUME IInv, SendRequest
  PROVE  /\ sent' \in 0 .. MaxTransactions /\ Transactions(sent) \subseteq Transactions(sent')
         /\ request' \subseteq Transactions(sent') /\ AtMostOne(request')
         /\ \A t \in request' : QueueOf(t) \in accept /\ t \notin Transactions(sent)
         /\ \A t \in request', u \in Transactions(sent) : u.n < t.n
<1>1. sent \in 0 .. MaxTransactions /\ MaxTransactions \in Nat
  BY CountAssumption DEF IInv, TypeOK
<1>2. CASE request' = {} /\ sent' = sent
  BY <1>1, <1>2 DEF AtMostOne
<1>3. ASSUME sent < MaxTransactions, sent' = sent + 1,
             NEW read \in BOOLEAN, NEW block \in Blocks, NEW t,
             t = [n |-> sent + 1, read |-> read, block |-> block],
             QueueOf(t) \in accept, request' = {t}
      PROVE  /\ sent' \in 0 .. MaxTransactions
             /\ Transactions(sent) \subseteq Transactions(sent')
             /\ request' \subseteq Transactions(sent') /\ AtMostOne(request')
             /\ \A x \in request' : QueueOf(x) \in accept /\ x \notin Transactions(sent)
             /\ \A x \in request', u \in Transactions(sent) : u.n < x.n
  <2>1. sent' \in 0 .. MaxTransactions
    BY <1>1, <1>3
  <2>2. t \in Transactions(sent')
    BY <1>1, <1>3 DEF Transactions
  <2>3. \A u \in Transactions(sent) : u.n \in 1 .. sent
    BY DEF Transactions
  <2>4. t.n = sent + 1
    BY <1>3
  <2>5. t \notin Transactions(sent) /\ \A u \in Transactions(sent) : u.n < t.n
    BY <1>1, <2>3, <2>4
  <2>6. Transactions(sent) \subseteq Transactions(sent')
    BY <1>1, <1>3 DEF Transactions
  <2> QED BY <1>3, <2>1, <2>2, <2>5, <2>6 DEF AtMostOne
<1> QED BY <1>2, <1>3 DEF SendRequest

\* What a selection does to the queues.
LEMMA SelectCases ==
  ASSUME NEW now, Select(now)
  PROVE  \/ /\ current # {} \/ Arrived = {}
            /\ now = current /\ queue' = Arrived /\ waits' = Waiting
         \/ /\ current = {} /\ Arrived # {}
            /\ \E t \in Ready(Arrived) :
                 now = {t} /\ queue' = Arrived \ {t} /\ waits' = Woken(t)
  BY DEF Select, Candidates

\* The queues keep their order and their dependencies.
LEMMA QueueStep ==
  ASSUME IInv, NEW now, Select(now), SendRequest, UNCHANGED config
  PROVE  /\ queue' \subseteq Arrived /\ IsFiniteSet(queue') /\ waits' \subseteq queue' \X queue'
         /\ Numbered' /\ WaitsBack' /\ DependencyKept(queue, waits)'
<1>1. queue' \subseteq Arrived
  BY SelectCases
<1>2. IsFiniteSet(queue')
  BY <1>1, ArrivedType, FS_Subset
<1>3. waits' \subseteq Waiting
  BY SelectCases DEF Woken
<1>4. WaitsBack'
  BY <1>3, WaitingBack DEF WaitsBack
<1>5. Numbered'
  <2>1. \A t, u \in queue' : t.n = u.n => t = u
    BY <1>1, ArrivedType
  <2>2. \A t \in request', u \in queue' : u.n < t.n
    BY <1>1, ArrivedType, RequestStep
  <2> QED BY <2>1, <2>2 DEF Numbered
<1>6. CASE queue' = Arrived /\ waits' = Waiting
  <2>1. DependencyKept(queue, waits)'
    BY <1>6, ArrivedDependencyKept DEF DependencyKept
  <2> QED BY <1>1, <1>2, <1>4, <1>5, <1>6, <2>1, WaitingBack
<1>7. ASSUME NEW x \in Ready(Arrived), queue' = Arrived \ {x}, waits' = Woken(x)
      PROVE  waits' \subseteq queue' \X queue' /\ DependencyKept(queue, waits)'
  <2>1. waits' \subseteq queue' \X queue'
    <3>1. \A p \in Waiting : p[1] # x
      BY <1>7 DEF Ready
    <3> QED BY <1>7, <3>1, WaitingBack DEF Woken
  <2>2. DependencyKept(queue, waits)'
    <3> SUFFICES ASSUME config.kind = "RWFifo", NEW t \in queue', NEW u \in queue',
                        t.read # u.read, Overlap(t.block, u.block), u.n < t.n
                 PROVE  \E v \in queue' :
                          v.read = u.read /\ u.n <= v.n /\ <<t, v>> \in waits'
      BY DEF DependencyKept
    <3>1. PICK v \in Arrived : v.read = u.read /\ u.n <= v.n /\ <<t, v>> \in Waiting
      BY <1>7, ArrivedDependencyKept DEF DependencyKept
    <3>2. v # x
      <4> SUFFICES ASSUME v = x PROVE FALSE
        OBVIOUS
      <4>1. QueueOf(u) = QueueOf(v)
        BY <3>1 DEF QueueOf
      <4>2. v.n <= u.n
        BY <1>7, <4>1 DEF Ready, Fronts
      <4>3. v = u
        BY <1>7, <3>1, <4>2, ArrivedType
      <4> QED BY <1>7, <4>3
    <3> QED BY <1>7, <3>1, <3>2 DEF Woken
  <2> QED BY <2>1, <2>2
<1> QED BY <1>1, <1>2, <1>4, <1>5, <1>6, <1>7, SelectCases

\* A queue still has room for what is on the link.
LEMMA RoomStep ==
  ASSUME IInv, queue' \subseteq Arrived, SendState, SendRequest, UNCHANGED config
  PROVE  RoomKept' /\ accept' \subseteq QueueNames(config.kind)
<1>1. /\ accept' \subseteq QueueNames(config.kind)
      /\ \A q \in accept' : Cardinality(Queued(q, queue')) + 1 < config.size[q]
  BY DEF SendState, RoomIn
<1>2. config.size \in [QueueNames(config.kind) -> Nat \ {0}] /\ IsFiniteSet(Arrived)
  BY SchedulerAssumption, ArrivedType
<1>3. ASSUME NEW q \in QueueNames(config.kind)
      PROVE  Cardinality(Queued(q, queue' \cup request'))
               + (IF q \in accept' THEN 1 ELSE 0) <= config.size[q]
  <2> DEFINE A == Queued(q, Arrived)
             B == Queued(q, queue')
             C == Queued(q, queue' \cup request')
  <2>1. /\ IsFiniteSet(A) /\ IsFiniteSet(B) /\ B \subseteq A
        /\ Cardinality(A) \in Nat /\ Cardinality(B) \in Nat
        /\ Cardinality(B) <= Cardinality(A)
    <3>1. A \subseteq Arrived /\ B \subseteq A
      BY DEF Queued
    <3>2. IsFiniteSet(A)
      BY <1>2, <3>1, FS_Subset
    <3> QED BY <3>1, <3>2, FS_Subset, FS_CardinalityType
  <2>2. Cardinality(A) + (IF q \in accept THEN 1 ELSE 0) <= config.size[q]
    BY DEF IInv, RoomKept
  <2>3. config.size[q] \in Nat
    BY <1>2
  <2>4. q \in accept' => Cardinality(B) + 1 < config.size[q]
    BY <1>1
  <2>5. CASE C = B
    BY <2>1, <2>2, <2>3, <2>4, <2>5
  <2>6. CASE C # B
    <3>1. PICK r \in request' : QueueOf(r) = q
      BY <2>6 DEF Queued
    <3>2. q \in accept /\ request' = {r}
      BY <3>1, RequestStep DEF AtMostOne
    <3>3. C = B \cup {r}
      BY <3>1, <3>2 DEF Queued
    <3> HIDE DEF A, B, C
    <3>4. /\ IsFiniteSet(B \cup {r})
          /\ Cardinality(B \cup {r}) =
               IF r \in B THEN Cardinality(B) ELSE Cardinality(B) + 1
      BY <2>1, FS_AddElement
    <3>5. Cardinality(C) \in Nat /\ Cardinality(C) <= Cardinality(B) + 1
      BY <2>1, <3>3, <3>4
    <3> QED BY <2>1, <2>2, <2>3, <2>4, <3>2, <3>5 DEF C
  <2> QED BY <2>5, <2>6
<1>4. \A q, s : Queued(q, s)' = Queued(q, s')
  BY DEF Queued, QueueOf
<1>5. Arrived' = queue' \cup request'
  BY DEF Arrived
<1> QED BY <1>1, <1>3, <1>5 DEF RoomKept, Queued, QueueOf

\* The counters of the policy and what it passes over.
LEMMA CountsStep ==
  ASSUME IInv, NEW now, Select(now), UNCHANGED config
  PROVE  /\ mode' \in [reading : BOOLEAN, ops : Nat] /\ passed' \in [BOOLEAN -> Nat]
         /\ CountsKept'
<1>1. /\ mode \in [reading : BOOLEAN, ops : Nat] /\ passed \in [BOOLEAN -> Nat]
      /\ MaxConsecutive \in [BOOLEAN -> Nat \ {0}]
  BY CountAssumption DEF IInv, TypeOK
<1>2. CASE UNCHANGED <<mode, passed>>
  BY <1>1, <1>2 DEF IInv, CountsKept
<1>3. ASSUME NEW m \in Modes(Arrived), NEW t \in Candidates(m, Arrived), mode' = m,
             passed' = [read \in BOOLEAN |->
                          IF t.read # read /\ Exists(read, Arrived)
                          THEN passed[read] + 1 ELSE 0]
      PROVE  /\ mode' \in [reading : BOOLEAN, ops : Nat] /\ passed' \in [BOOLEAN -> Nat]
             /\ CountsKept'
  <2> DEFINE r == mode.reading
             full == mode.ops >= MaxConsecutive[mode.reading]
             switch == ~Exists(mode.reading, Arrived) \/ (full /\ Exists(~mode.reading, Arrived))
  <2>1. passed' \in [BOOLEAN -> Nat]
    BY <1>1, <1>3
  <2>2. ASSUME config.kind # "Fifo", config.policy = "TwoCounters"
        PROVE  /\ m = [reading |-> IF switch THEN ~r ELSE r,
                       ops |-> (IF switch \/ full THEN 0 ELSE mode.ops) + 1]
               /\ t.read = m.reading
    BY <2>2 DEF Modes, TwoCounters, Candidates
  <2>3. m \in [reading : BOOLEAN, ops : Nat]
    <3>1. CASE config.kind = "Fifo"
      BY <1>1, <3>1 DEF Modes
    <3>2. CASE config.kind # "Fifo" /\ config.policy = "TwoCounters"
      <4>1. (IF switch THEN ~r ELSE r) \in BOOLEAN
        BY <1>1
      <4>2. (IF switch \/ full THEN 0 ELSE mode.ops) + 1 \in Nat
        BY <1>1
      <4> QED BY <2>2, <3>2, <4>1, <4>2
    <3>3. CASE config.kind # "Fifo" /\ config.policy # "TwoCounters"
      <4>1. \A hit \in BOOLEAN :
              (IF r THEN Exists(TRUE, Arrived) \/ ~Exists(FALSE, Arrived)
                    ELSE Exists(TRUE, Arrived) /\ ~hit) \in BOOLEAN
        BY DEF Exists
      <4>2. m \in LoadsOverStores(Arrived)
        BY <3>3 DEF Modes
      <4> QED BY <1>1, <4>1, <4>2 DEF LoadsOverStores
    <3> QED BY <3>1, <3>2, <3>3
  <2>4. CountsKept'
    <3> SUFFICES ASSUME config.kind # "Fifo", config.policy = "TwoCounters"
                 PROVE  /\ m.ops <= MaxConsecutive[m.reading]
                        /\ passed'[m.reading] = 0 /\ passed'[~m.reading] <= m.ops
      BY <1>3 DEF CountsKept
    <3>1. /\ mode.ops <= MaxConsecutive[r] /\ passed[r] = 0 /\ passed[~r] <= mode.ops
          /\ r \in BOOLEAN /\ mode.ops \in Nat /\ passed[~r] \in Nat
      <4>1. r \in BOOLEAN /\ mode.ops \in Nat
        BY <1>1
      <4>2. (~r) \in BOOLEAN
        OBVIOUS
      <4>3. passed[~r] \in Nat
        BY <1>1, <4>2
      <4>4. /\ mode.ops <= MaxConsecutive[r]
            /\ passed[r] = 0 /\ passed[~r] <= mode.ops
        BY DEF IInv, CountsKept
      <4> QED BY <4>1, <4>3, <4>4
    <3>2. m.reading \in BOOLEAN /\ (~m.reading) \in BOOLEAN /\ MaxConsecutive[m.reading] >= 1
      <4>1. m.reading \in BOOLEAN
        BY <2>3
      <4>2. (~m.reading) \in BOOLEAN
        OBVIOUS
      <4>3. MaxConsecutive[m.reading] \in Nat \ {0}
        BY <1>1, <4>1
      <4> QED BY <4>1, <4>2, <4>3
    <3>3. passed'[m.reading] = 0
      BY <1>3, <2>2, <3>2
    <3>4. passed'[~m.reading] = IF Exists(~m.reading, Arrived)
                                THEN passed[~m.reading] + 1 ELSE 0
      <4>1. t.read # ~m.reading
        BY <2>2, <3>2
      <4> QED BY <1>3, <3>2, <4>1
    <3>5. CASE switch
      <4>1. m.ops = 1 /\ m.reading = ~r
        BY <2>2, <3>5
      <4>2. (~m.reading) = r
        BY <3>1, <4>1
      <4>3. passed'[~m.reading] <= 1
        <5>1. passed[~m.reading] = 0
          BY <3>1, <4>2, Zenon
        <5> QED BY <3>4, <5>1
      <4> QED BY <3>2, <3>3, <4>1, <4>3
    <3>6. CASE ~switch /\ full
      <4>1. m.ops = 1 /\ m.reading = r
        BY <2>2, <3>6
      <4>2. ~Exists(~r, Arrived)
        BY <3>6
      <4>3. passed'[~m.reading] = 0
        BY <3>4, <4>1, <4>2
      <4> QED BY <3>2, <3>3, <4>1, <4>3
    <3>7. CASE ~switch /\ ~full
      <4>1. m.ops = mode.ops + 1 /\ m.reading = r
        BY <2>2, <3>7
      <4>2. mode.ops + 1 <= MaxConsecutive[r]
        BY <1>1, <3>1, <3>7
      <4>3. passed'[~m.reading] <= mode.ops + 1
        BY <3>1, <3>4, <4>1
      <4> QED BY <3>3, <4>1, <4>2, <4>3
    <3> QED BY <3>5, <3>6, <3>7
  <2> QED BY <1>3, <2>1, <2>3, <2>4
<1> QED BY <1>2, <1>3 DEF Select

\* The next answer leaves the queue of answers.
LEMMA ReplyStep ==
  ASSUME NEW S, NEW r \in Seq(S), Once(r), SendReply(r)
  PROVE  /\ reply' \subseteq RangeOf(r) /\ AtMostOne(reply')
         /\ replies' \in Seq(S) /\ Once(replies') /\ RangeOf(replies') = RangeOf(r) \ reply'
<1>1. CASE r = <<>> /\ reply' = {} /\ replies' = r
  BY <1>1 DEF AtMostOne
<1>2. CASE r # <<>> /\ reply' = {Head(r)} /\ replies' = Tail(r)
  BY <1>2, TailOnce DEF AtMostOne
<1> QED BY <1>1, <1>2 DEF SendReply

\* Receiving the data of a read moves it from one queue to the other.
LEMMA DataStep ==
  ASSUME IInv, NEW data \in BOOLEAN, data => reads # <<>>
  PROVE  /\ ReadsAfter(data) \in Seq(Transactions(sent)) /\ Once(ReadsAfter(data))
         /\ RepliesAfter(data) \in Seq(Transactions(sent)) /\ Once(RepliesAfter(data))
         /\ RangeOf(ReadsAfter(data)) \cap RangeOf(RepliesAfter(data)) = {}
         /\ RangeOf(ReadsAfter(data)) \cup RangeOf(RepliesAfter(data))
              = RangeOf(reads) \cup RangeOf(replies)
<1>1. /\ reads \in Seq(Transactions(sent)) /\ replies \in Seq(Transactions(sent))
      /\ Once(reads) /\ Once(replies) /\ RangeOf(reads) \cap RangeOf(replies) = {}
  BY DEF IInv, TypeOK, Apart
<1>2. CASE data = FALSE
  BY <1>1, <1>2 DEF ReadsAfter, RepliesAfter
<1>3. CASE data = TRUE
  <2>1. /\ Tail(reads) \in Seq(Transactions(sent)) /\ Once(Tail(reads))
        /\ Head(reads) \in Transactions(sent) /\ Head(reads) \in RangeOf(reads)
        /\ RangeOf(Tail(reads)) = RangeOf(reads) \ {Head(reads)}
    BY <1>1, <1>3, TailOnce
  <2>2. Head(reads) \notin RangeOf(replies)
    BY <1>1, <2>1
  <2>3. /\ Append(replies, Head(reads)) \in Seq(Transactions(sent))
        /\ Once(Append(replies, Head(reads)))
        /\ RangeOf(Append(replies, Head(reads))) = RangeOf(replies) \cup {Head(reads)}
    BY <1>1, <2>1, <2>2, AppendOnce
  <2>4. ReadsAfter(data) = Tail(reads) /\ RepliesAfter(data) = Append(replies, Head(reads))
    BY <1>3 DEF ReadsAfter, RepliesAfter
  <2> QED BY <1>1, <2>1, <2>3, <2>4
<1> QED BY <1>2, <1>3

\* A transaction that is performed moves on, and leaves with its answer.
LEMMA CommandsStep ==
  ASSUME IInv, NEW now, Select(now), NEW data \in BOOLEAN, NEW last \in BOOLEAN,
         data => reads # <<>>, SendCommands(now, data, last)
  PROVE  /\ current' \subseteq now /\ AtMostOne(current')
         /\ now \subseteq Transactions(sent) /\ AtMostOne(now)
         /\ now = current \cup (Arrived \ queue')
         /\ reads' \in Seq(Transactions(sent)) /\ replies' \in Seq(Transactions(sent))
         /\ Once(reads') /\ Once(replies') /\ AtMostOne(reply')
         /\ current' \cap (RangeOf(reads') \cup RangeOf(replies')) = {}
         /\ RangeOf(reads') \cap RangeOf(replies') = {}
         /\ reply' \subseteq now \cup RangeOf(reads) \cup RangeOf(replies)
         /\ current' \cup RangeOf(reads') \cup RangeOf(replies')
              = (now \cup RangeOf(reads) \cup RangeOf(replies)) \ reply'
<1> DEFINE rd == ReadsAfter(data)
           rp == RepliesAfter(data)
           T == Transactions(sent)
<1>1. /\ rd \in Seq(T) /\ Once(rd) /\ rp \in Seq(T) /\ Once(rp)
      /\ RangeOf(rd) \cap RangeOf(rp) = {}
      /\ RangeOf(rd) \cup RangeOf(rp) = RangeOf(reads) \cup RangeOf(replies)
  BY DataStep
<1>2. /\ now \subseteq T /\ AtMostOne(now) /\ now = current \cup (Arrived \ queue')
      /\ now \cap (RangeOf(reads) \cup RangeOf(replies)) = {}
  <2>1. current \subseteq T /\ AtMostOne(current) /\ Arrived \subseteq T
    BY ArrivedType DEF IInv, TypeOK
  <2>2. (Arrived \cup current) \cap (RangeOf(reads) \cup RangeOf(replies)) = {}
    BY DEF IInv, Apart
  <2>3. CASE now = current /\ queue' = Arrived
    BY <2>1, <2>2, <2>3
  <2>4. ASSUME current = {}, NEW t \in Ready(Arrived), now = {t}, queue' = Arrived \ {t}
        PROVE  /\ now \subseteq T /\ AtMostOne(now) /\ now = current \cup (Arrived \ queue')
               /\ now \cap (RangeOf(reads) \cup RangeOf(replies)) = {}
    <3>1. t \in Arrived
      BY DEF Ready, Fronts
    <3> QED BY <2>1, <2>2, <2>4, <3>1 DEF AtMostOne
  <2> QED BY <2>3, <2>4, SelectCases
<1>3. now \cap (RangeOf(rd) \cup RangeOf(rp)) = {}
  BY <1>1, <1>2
<1>4. CASE current' = now /\ reads' = rd /\ SendReply(rp)
  <2>1. /\ reply' \subseteq RangeOf(rp) /\ AtMostOne(reply')
        /\ replies' \in Seq(T) /\ Once(replies') /\ RangeOf(replies') = RangeOf(rp) \ reply'
    BY <1>1, <1>4, ReplyStep
  <2> HIDE DEF rd, rp, T
  <2> QED BY <1>1, <1>2, <1>3, <1>4, <2>1 DEF T
<1>5. ASSUME current' = {}, NEW t \in now, reads' = Append(rd, t), SendReply(rp)
      PROVE  /\ now = {t}
             /\ reads' \in Seq(T) /\ Once(reads') /\ RangeOf(reads') = RangeOf(rd) \cup {t}
             /\ reply' \subseteq RangeOf(rp) /\ AtMostOne(reply')
             /\ replies' \in Seq(T) /\ Once(replies') /\ RangeOf(replies') = RangeOf(rp) \ reply'
  <2>1. now = {t} /\ t \in T /\ t \notin RangeOf(rd)
    BY <1>2, <1>3, <1>5 DEF AtMostOne
  <2> QED BY <1>1, <1>5, <2>1, AppendOnce, ReplyStep
<1>6. ASSUME current' = {}, NEW t \in now, reads' = rd, SendReply(Append(rp, t))
      PROVE  /\ now = {t}
             /\ reply' \subseteq RangeOf(rp) \cup {t} /\ AtMostOne(reply')
             /\ replies' \in Seq(T) /\ Once(replies')
             /\ RangeOf(replies') = (RangeOf(rp) \cup {t}) \ reply'
  <2>1. now = {t} /\ t \in T /\ t \notin RangeOf(rp)
    BY <1>2, <1>3, <1>6 DEF AtMostOne
  <2>2. /\ Append(rp, t) \in Seq(T) /\ Once(Append(rp, t))
        /\ RangeOf(Append(rp, t)) = RangeOf(rp) \cup {t}
    BY <1>1, <2>1, AppendOnce
  <2> QED BY <1>6, <2>1, <2>2, ReplyStep
<1> HIDE DEF rd, rp, T
<1>7. CASE \E t \in now : current' = {} /\ reads' = Append(rd, t) /\ SendReply(rp)
  BY <1>1, <1>2, <1>3, <1>5, <1>7 DEF AtMostOne, T
<1>8. CASE \E t \in now : current' = {} /\ reads' = rd /\ SendReply(Append(rp, t))
  BY <1>1, <1>2, <1>3, <1>6, <1>8 DEF AtMostOne, T
<1> QED BY <1>4, <1>7, <1>8 DEF SendCommands, rd, rp

-----------------------------------------------------------------------------
(* The invariant.                                                          *)

LEMMA InitHolds == Init => IInv
<1> SUFFICES ASSUME Init PROVE IInv
  OBVIOUS
<1>1. /\ config \in Schedulers /\ sent = 0 /\ answered = 0
      /\ request = {} /\ queue = {} /\ waits = {} /\ accept = {}
      /\ current = {} /\ reads = <<>> /\ replies = <<>> /\ reply = {}
      /\ mode = [reading |-> TRUE, ops |-> 0] /\ passed = [read \in BOOLEAN |-> 0]
  BY DEF Init
<1>2. TypeOK
  <2>1. mode \in [reading : BOOLEAN, ops : Nat] /\ passed \in [BOOLEAN -> Nat]
    BY <1>1
  <2> QED BY <1>1, <2>1, CountAssumption DEF TypeOK, AtMostOne
<1>3. IsFiniteSet(queue) /\ Cardinality({}) = 0
  BY <1>1, FS_EmptySet
<1>4. RoomKept
  <2> SUFFICES ASSUME NEW q \in QueueNames(config.kind)
               PROVE  Cardinality(Queued(q, Arrived)) + (IF q \in accept THEN 1 ELSE 0)
                        <= config.size[q]
    BY DEF RoomKept
  <2>1. Queued(q, Arrived) = {}
    BY <1>1 DEF Queued, Arrived
  <2>2. config.size \in [QueueNames(config.kind) -> Nat \ {0}]
    BY <1>1, SchedulerAssumption
  <2> QED BY <1>1, <1>3, <2>1, <2>2
<1>5. CountsKept
  <2>1. mode.reading = TRUE /\ mode.ops = 0 /\ \A b \in BOOLEAN : passed[b] = 0
    BY <1>1
  <2>2. MaxConsecutive[mode.reading] \in Nat
    BY <2>1, CountAssumption
  <2>3. (~mode.reading) \in BOOLEAN /\ mode.reading \in BOOLEAN
    BY <2>1
  <2>4. passed[mode.reading] = 0 /\ passed[~mode.reading] = 0
    BY <2>1, <2>3
  <2> QED BY <2>1, <2>2, <2>4 DEF CountsKept
<1>6. Apart
  BY <1>1, EmptyOnce DEF Apart, Arrived
<1>7. Numbered /\ WaitsBack /\ DependencyKept(queue, waits)
  BY <1>1 DEF Numbered, WaitsBack, DependencyKept
<1> QED BY <1>2, <1>3, <1>4, <1>5, <1>6, <1>7 DEF IInv

LEMMA ClockKeeps ==
  ASSUME IInv, NEW data \in BOOLEAN, NEW last \in BOOLEAN, Clock(data, last)
  PROVE  IInv'
<1>1. PICK now : Select(now) /\ SendCommands(now, data, last)
  BY DEF Clock
<1>2. (data => reads # <<>>) /\ SendState /\ SendRequest /\ UNCHANGED config
  BY DEF Clock
<1> DEFINE T == Transactions(sent)
           U == Transactions(sent')
<1>3. /\ queue' \subseteq Arrived /\ IsFiniteSet(queue')
      /\ waits' \subseteq queue' \X queue'
      /\ Numbered' /\ WaitsBack' /\ DependencyKept(queue, waits)'
  BY <1>1, <1>2, QueueStep
<1>4. RoomKept' /\ accept' \subseteq QueueNames(config.kind)
  BY <1>2, <1>3, RoomStep
<1>5. /\ mode' \in [reading : BOOLEAN, ops : Nat] /\ passed' \in [BOOLEAN -> Nat]
      /\ CountsKept'
  BY <1>1, <1>2, CountsStep
<1>6. /\ current' \subseteq now /\ AtMostOne(current')
      /\ now \subseteq T /\ now = current \cup (Arrived \ queue')
      /\ reads' \in Seq(T) /\ replies' \in Seq(T)
      /\ Once(reads') /\ Once(replies') /\ AtMostOne(reply')
      /\ current' \cap (RangeOf(reads') \cup RangeOf(replies')) = {}
      /\ RangeOf(reads') \cap RangeOf(replies') = {}
      /\ reply' \subseteq now \cup RangeOf(reads) \cup RangeOf(replies)
      /\ current' \cup RangeOf(reads') \cup RangeOf(replies')
           = (now \cup RangeOf(reads) \cup RangeOf(replies)) \ reply'
  BY <1>1, <1>2, CommandsStep
<1>7. /\ sent' \in 0 .. MaxTransactions /\ T \subseteq U /\ request' \subseteq U
      /\ AtMostOne(request') /\ \A t \in request' : t \notin T
  BY <1>2, RequestStep
<1>8. RangeOf(reads) \subseteq T /\ RangeOf(replies) \subseteq T
  BY DEF IInv, TypeOK, RangeOf
<1>9. Arrived \subseteq T
  BY ArrivedType
<1>10. TypeOK'
  <2>1. queue' \subseteq U /\ request' \subseteq U /\ current' \subseteq U /\ reply' \subseteq U
    BY <1>3, <1>6, <1>7, <1>8, <1>9
  <2>2. reads' \in Seq(U) /\ replies' \in Seq(U)
    <3> HIDE DEF T, U
    <3>1. ASSUME NEW s \in Seq(T) PROVE s \in Seq(U)
      BY <1>7
    <3> QED BY <1>6, <3>1
  <2>3. answered' \in Nat
    <3>1. answered' = answered \/ answered' = answered + 1
      BY <1>1 DEF SendCommands, SendReply
    <3> QED BY <3>1 DEF IInv, TypeOK
  <2>4. config' \in Schedulers /\ config' = config
    BY <1>2 DEF IInv, TypeOK
  <2>5. (queue \cup request \cup current \cup reply)' \subseteq U
    BY <2>1
  <2> QED BY <1>3, <1>4, <1>5, <1>6, <1>7, <2>2, <2>3, <2>4, <2>5 DEF TypeOK, AtMostOne
<1>11. Apart'
  <2>1. (Arrived \cup current) \cap (RangeOf(reads) \cup RangeOf(replies)) = {}
        /\ Arrived \cap current = {}
    BY DEF IInv, Apart
  <2>2. Arrived' = queue' \cup request'
    BY DEF Arrived
  <2>3. queue' \cap (now \cup RangeOf(reads) \cup RangeOf(replies)) = {}
    BY <1>3, <1>6, <2>1
  <2>4. request' \cap (now \cup RangeOf(reads) \cup RangeOf(replies)) = {}
    BY <1>6, <1>7, <1>8
  <2>5. Arrived' \cap (current' \cup RangeOf(reads') \cup RangeOf(replies')) = {}
    BY <1>6, <2>2, <2>3, <2>4
  <2>6. RangeOf(reads)' = RangeOf(reads') /\ RangeOf(replies)' = RangeOf(replies')
    BY DEF RangeOf
  <2> QED BY <1>6, <2>5, <2>6 DEF Apart, Once
<1> QED BY <1>3, <1>4, <1>5, <1>10, <1>11 DEF IInv

LEMMA StepKeeps == IInv /\ [Next]_vars => IInv'
<1> SUFFICES ASSUME IInv, [Next]_vars PROVE IInv'
  OBVIOUS
<1>1. CASE Next
  BY <1>1, ClockKeeps DEF Next
<1>2. CASE UNCHANGED vars
  <2> USE <1>2 DEF vars
  <2>1. TypeOK'
    BY DEF IInv, TypeOK, AtMostOne
  <2>2. Numbered' /\ WaitsBack' /\ IsFiniteSet(queue')
    BY DEF IInv, Numbered, WaitsBack
  <2>3. DependencyKept(queue, waits)'
    BY DEF IInv, DependencyKept
  <2>4. Arrived' = Arrived
    BY DEF Arrived
  <2>5. RoomKept'
    BY <2>4 DEF IInv, RoomKept, Queued, QueueOf
  <2>6. CountsKept'
    BY DEF IInv, CountsKept
  <2>7. Apart'
    BY <2>4 DEF IInv, Apart, Once, RangeOf
  <2> QED BY <2>1, <2>2, <2>3, <2>5, <2>6, <2>7 DEF IInv
<1> QED BY <1>1, <1>2

LEMMA Invariance == Spec => []IInv
<1> QED BY InitHolds, StepKeeps, PTL DEF Spec

-----------------------------------------------------------------------------
(* The theorems.                                                           *)

\* Every scheduler keeps its type, whatever it is sent and when.
THEOREM SchedulerType == Spec => []TypeOK
<1>1. IInv => TypeOK
  BY DEF IInv
<1> QED BY <1>1, Invariance, PTL

\* No transaction finds its queue full, for queues of every size: what is on its
\* way in the two cycles between the decision to accept no more and the last
\* transaction sent before it is known has its place.
THEOREM NeverFull == Spec => []RoomForRequest
<1>1. IInv => RoomForRequest
  <2> SUFFICES ASSUME IInv, NEW t \in request
               PROVE  Cardinality(Queued(QueueOf(t), queue)) < config.size[QueueOf(t)]
    BY DEF RoomForRequest
  <2> DEFINE q == QueueOf(t)
             B == Queued(q, queue)
  <2>1. config \in Schedulers /\ t \in Arrived /\ t.read \in BOOLEAN /\ t.block \in Blocks
    BY ArrivedType DEF Arrived
  <2>2. q \in QueueNames(config.kind)
    BY <2>1, SchedulerAssumption DEF QueueOf, QueueNames, Kinds
  <2>3. config.size[q] \in Nat
    BY <2>1, <2>2, SchedulerAssumption
  <2>4. IsFiniteSet(B)
    <3>1. B \subseteq queue
      BY DEF Queued
    <3> QED BY <3>1, FS_Subset DEF IInv
  <2>5. t \notin B
    <3>1. \A u \in queue : u.n < t.n
      BY DEF IInv, Numbered
    <3>2. t.n \in Nat
      BY <2>1, ArrivedType
    <3> QED BY <3>1, <3>2 DEF Queued
  <2>6. Queued(q, Arrived) = B \cup {t}
    BY DEF Arrived, Queued, IInv, TypeOK, AtMostOne
  <2>7. Cardinality(Queued(q, Arrived)) + (IF q \in accept THEN 1 ELSE 0) <= config.size[q]
    BY <2>2 DEF IInv, RoomKept
  <2> HIDE DEF B, q
  <2>8. Cardinality(B \cup {t}) = Cardinality(B) + 1 /\ Cardinality(B) \in Nat
    BY <2>4, <2>5, FS_AddElement, FS_CardinalityType
  <2> QED BY <2>3, <2>6, <2>7, <2>8 DEF B, q
<1> QED BY <1>1, Invariance, PTL

\* The scheduler never deadlocks on its dependencies, and its policy never
\* turns to a kind of which nothing is ready.
THEOREM NoDeadlock == Spec => []AssertionsHold
<1>1. IInv => AssertionsHold
  BY ModeHasOne DEF AssertionsHold
<1> QED BY <1>1, Invariance, PTL

\* Under TwoCounters no ready read or write is passed over more often than the
\* other kind may have its turn, for all limits and all arrivals.
THEOREM BothServed == Spec => []FairToBoth
<1>1. IInv => FairToBoth
  <2> SUFFICES ASSUME IInv, config.policy = "TwoCounters", config.kind # "Fifo",
                      NEW read \in BOOLEAN
               PROVE  passed[read] <= MaxConsecutive[~read]
    BY DEF FairToBoth
  <2>1. /\ mode.ops <= MaxConsecutive[mode.reading] /\ passed[mode.reading] = 0
        /\ passed[~mode.reading] <= mode.ops
    BY DEF IInv, CountsKept
  <2>2. mode.reading \in BOOLEAN /\ mode.ops \in Nat /\ passed \in [BOOLEAN -> Nat]
    BY DEF IInv, TypeOK
  <2>3. (~read) \in BOOLEAN
    OBVIOUS
  <2>4. MaxConsecutive[~read] \in Nat /\ passed[read] \in Nat
    BY <2>2, <2>3, CountAssumption
  <2>5. CASE read = mode.reading
    BY <2>1, <2>4, <2>5
  <2>6. CASE read = ~mode.reading
    <3>1. (~read) = mode.reading
      BY <2>2, <2>6
    <3>2. passed[read] <= mode.ops /\ mode.ops <= MaxConsecutive[~read]
      BY <2>1, <2>6, <3>1, Zenon
    <3> QED BY <2>2, <2>4, <3>2
  <2> QED BY <2>2, <2>5, <2>6
<1> QED BY <1>1, Invariance, PTL

-----------------------------------------------------------------------------
(* The refinement.                                                         *)

LEMMA RefinesInit == Init => Memory!Init
<1> SUFFICES ASSUME Init PROVE Memory!Init
  OBVIOUS
<1>1. RangeOf(reads) = {} /\ RangeOf(replies) = {}
  BY EmptyOnce DEF Init
<1> QED BY <1>1 DEF Init, Memory!Init

LEMMA RefinesStep ==
  ASSUME IInv, NEW data \in BOOLEAN, NEW last \in BOOLEAN, Clock(data, last)
  PROVE  Memory!Next
<1>1. PICK now : Select(now) /\ SendCommands(now, data, last)
  BY DEF Clock
<1>2. (data => reads # <<>>) /\ SendRequest /\ UNCHANGED config
  BY DEF Clock
<1> DEFINE chosen == Arrived \ queue'
           performed == current \cup RangeOf(reads) \cup RangeOf(replies)
<1>3. /\ now = current \cup chosen /\ AtMostOne(reply')
      /\ reply' \subseteq performed \cup chosen
      /\ current' \cup RangeOf(reads') \cup RangeOf(replies')
           = (performed \cup chosen) \ reply'
  BY <1>1, <1>2, CommandsStep
<1>4. queue' \subseteq Arrived
  BY <1>1, SelectCases
<1>5. chosen \in Memory!AtMostOne({ t \in Arrived : Memory!OldestOf(t, Arrived) })
  <2>1. CASE queue' = Arrived
    BY <2>1 DEF Memory!AtMostOne
  <2>2. ASSUME NEW t \in Ready(Arrived), queue' = Arrived \ {t}
        PROVE  chosen \in Memory!AtMostOne({ u \in Arrived : Memory!OldestOf(u, Arrived) })
    <3>1. t \in Arrived /\ Memory!OldestOf(t, Arrived)
      BY ReadyIsOldest DEF Ready, Fronts
    <3>2. chosen = {t}
      BY <2>2, <3>1
    <3> QED BY <3>1, <3>2 DEF Memory!AtMostOne
  <2> QED BY <1>1, <2>1, <2>2, SelectCases
<1>6. reply' \in Memory!AtMostOne(performed \cup chosen)
  <2>1. CASE reply' = {}
    BY <2>1 DEF Memory!AtMostOne
  <2>2. CASE reply' # {}
    <3>1. PICK t : t \in reply'
      BY <2>2
    <3>2. reply' = {t}
      BY <1>3, <3>1 DEF AtMostOne
    <3>3. t \in performed \cup chosen
      BY <1>3, <3>1
    <3> QED BY <3>2, <3>3 DEF Memory!AtMostOne
  <2> QED BY <2>1, <2>2
<1>7. /\ request' \in Memory!AtMostOne(Memory!Transaction(sent + 1))
      /\ sent' = IF request' = {} THEN sent ELSE sent + 1
  <2>1. CASE request' = {} /\ sent' = sent
    BY <2>1 DEF Memory!AtMostOne
  <2>2. ASSUME sent' = sent + 1, NEW read \in BOOLEAN, NEW block \in Blocks,
               request' = {[n |-> sent + 1, read |-> read, block |-> block]}
        PROVE  /\ request' \in Memory!AtMostOne(Memory!Transaction(sent + 1))
               /\ sent' = IF request' = {} THEN sent ELSE sent + 1
    <3>1. [n |-> sent + 1, read |-> read, block |-> block] \in Memory!Transaction(sent + 1)
      BY DEF Memory!Transaction
    <3> QED BY <2>2, <3>1 DEF Memory!AtMostOne
  <2> QED BY <1>2, <2>1, <2>2 DEF SendRequest
<1>8. (queue \cup request)' = (Arrived \ chosen) \cup request'
  BY <1>4
<1>9. (current \cup RangeOf(reads) \cup RangeOf(replies))' = (performed \cup chosen) \ reply'
  BY <1>3 DEF RangeOf
<1> HIDE DEF chosen, performed
<1>10. Arrived = queue \cup request
  BY DEF Arrived
<1> QED
  BY <1>5, <1>6, <1>7, <1>8, <1>9, <1>10 DEF Memory!Next, performed

\* Every scheduler implements the memory of ChannelMemory, whatever its queues,
\* its policy, its blocks and the time the DDR module takes: each transaction is
\* performed once and then answered once, and of two that touch a common byte,
\* one of them a write, the earlier one is performed first.
THEOREM ImplementsMemory == Spec => IsChannelMemory
<1>1. IInv /\ [Next]_vars => [Memory!Next]_Memory!vars
  <2> SUFFICES ASSUME IInv, [Next]_vars PROVE [Memory!Next]_Memory!vars
    OBVIOUS
  <2>1. CASE Next
    BY <2>1, RefinesStep DEF Next
  <2>2. CASE UNCHANGED vars
    BY <2>2 DEF vars, Memory!vars, RangeOf
  <2> QED BY <2>1, <2>2
<1> QED BY <1>1, RefinesInit, Invariance, PTL DEF Spec, IsChannelMemory, Memory!Spec
=============================================================================
