-------------------------- MODULE Streamer_proofs --------------------------
(***************************************************************************)
(* Proofs about the Stream Controller: type correctness, the accounts of   *)
(* inputs, entries and lines, and what is left when a batch is over.       *)
(***************************************************************************)
EXTENDS Streamer, ModArith, FiniteSetTheorems, TLAPS

Distinct(s) == \A m, n \in DOMAIN s : s[m] = s[n] => m = n
LinesOf(s) == [n \in DOMAIN s |-> s[n].line]

NewIndices == [index : Index, entry : Entries, last : BOOLEAN]
Answers == [index : Index, entry : Entries, last : BOOLEAN, hit : BOOLEAN, line : Lines]
Inputs == [index : Index, entry : Entries, killed : BOOLEAN]
Freed == [index : Index, line : Lines]

\* TypeOK, with sequences.
ControlTyped ==
  /\ main \in States /\ fetch \in States /\ commit \in States
  /\ command \in {"none", "START", "END"}
  /\ stream \in Seq(Index)
FetchTyped ==
  /\ fetched \in Nat /\ newIndex \in Seq(NewIndices)
  /\ freeLines \in 0 .. OutputMemory /\ freeEntries \in 0 .. OutputFIFO
  /\ freeInputs \in 0 .. InputQueue
CacheTyped ==
  /\ tag \in [Lines -> Index \cup {NoIndex}] /\ valid \subseteq Lines
  /\ freeList \in Seq(Lines) /\ Distinct(freeList)
  /\ update \subseteq [line : Lines, index : Index]
  /\ unconfirmed \in Seq(Lines) /\ answer \in Seq(Answers)
LoaderTyped ==
  irq \in Seq(Inputs) /\ inputFreed \in Nat /\ shading \subseteq Inputs
CommitTyped ==
  /\ {sent, requests, request, already, entryFreed} \subseteq Nat
  /\ fifo \in [Entries -> Outputs \cup {NoOutput}]
  /\ lastUse \in [Lines -> Entries \cup {NoEntry}]
  /\ memory \in [Lines -> Index \cup {NoIndex}]
  /\ bus \in [Buses -> 0 .. TransCycles]
  /\ freed \in Seq(Freed) /\ Distinct(LinesOf(freed))
  /\ dealloc \in Seq(Lines) /\ Distinct(dealloc)
  /\ confirm \in Seq(Lines) /\ Distinct(confirm)
Typed == ControlTyped /\ FetchTyped /\ CacheTyped /\ LoaderTyped /\ CommitTyped

\* The boxes start and end together.
Control ==
  /\ command = "START" => main = "STREAMING" /\ fetch = "READY" /\ commit = "READY"
  /\ command = "END" => main = "READY" /\ fetch = "FINISHED" /\ commit = "FINISHED"
  /\ command = "none" =>
       /\ main = "READY" => fetch = "READY" /\ commit = "READY"
       /\ main = "STREAMING" => fetch # "READY" /\ commit # "READY"
       /\ main = "FINISHED" => fetch = "FINISHED" /\ commit = "FINISHED"

\* Indices that are in the output FIFO, or have been.
Received == (fetched - Len(answer)) - Len(newIndex)

\* The entries in use are those of the indices that were received and not
\* sent; those on their way will take the next ones.
Ring ==
  /\ sent <= Received /\ fetched - sent <= OutputFIFO
  /\ Streaming => fetched <= Len(stream)
  /\ fetch = "FINISHED" => fetched = Len(stream)
  /\ commit = "FINISHED" => sent = Len(stream)
  /\ Streaming => \A e \in Entries :
       fifo[e] # NoOutput <=> \E k \in sent .. Received - 1 : e = k % OutputFIFO
  /\ \A n \in DOMAIN answer : answer[n].entry = (Received + n - 1) % OutputFIFO
  /\ \A n \in DOMAIN newIndex :
       newIndex[n].entry = (Received + Len(answer) + n - 1) % OutputFIFO

\* An input that is loaded or shaded has an entry of its own, which waits for it.
Waits(i) == fifo[i.entry] # NoOutput /\ ~fifo[i.entry].shaded
OwnEntries ==
  /\ \A n \in DOMAIN irq : Waits(irq[n])
  /\ \A i \in shading : Waits(i)
  /\ \A m, n \in DOMAIN irq : irq[m].entry = irq[n].entry => m = n
  /\ \A i, j \in shading : i.entry = j.entry => i = j
  /\ \A n \in DOMAIN irq, j \in shading : irq[n].entry # j.entry

UsedLines == { l \in Lines : lastUse[l] # NoEntry }

Accounts ==
  /\ Streaming => /\ freeInputs + inputFreed + Len(irq) + Len(answer) + Len(newIndex) = InputQueue
                  /\ freeEntries + entryFreed + (fetched - sent) = OutputFIFO
  /\ commit = "STREAMING" =>
       freeLines + already + Cardinality(Confirmed) + Len(dealloc)
         + Cardinality(UsedLines) + Len(answer) + Len(newIndex) = OutputMemory
  /\ Streaming => LinesNow <= OutputMemory

\* Lines are confirmed a cycle after they were given back, but for those of the
\* batch before, which nobody waits for.
FreedKept ==
  commit = "STREAMING" =>
    \/ dealloc = LinesOf(freed)
    \/ answer = <<>> /\ dealloc = <<>> /\ confirm = <<>> /\ unconfirmed = <<>>

\* What is gone when the boxes end, one cycle after the other.
Gone ==
  /\ answer = <<>> => update = {}
  /\ main = "FINISHED" \/ command = "END" \/ ~Streaming =>
       /\ dealloc = <<>> /\ confirm = <<>>
       /\ already = 0 /\ entryFreed = 0 /\ inputFreed = 0
  /\ command = "END" \/ ~Streaming => unconfirmed = <<>>
  /\ ~Streaming => /\ fetched = sent /\ answer = <<>> /\ newIndex = <<>>
                   /\ irq = <<>> /\ shading = {}

IInv == Typed /\ Control /\ Ring /\ OwnEntries /\ Accounts /\ FreedKept /\ Gone

-----------------------------------------------------------------------------
(* Sequences, sets and rings.                                              *)

LEMMA Sizes ==
  /\ IndicesCycle \in Nat /\ VerticesCycle \in Nat /\ TransCycles \in Nat
  /\ InputQueue \in Nat /\ OutputFIFO \in Nat /\ OutputMemory \in Nat
  /\ OutputFIFO > 0 /\ OutputMemory > 0 /\ MaxRequest \in Nat /\ Shaders \in Nat
  /\ NoIndex \notin Index /\ NoEntry = OutputFIFO
  /\ Entries = 0 .. OutputFIFO - 1 /\ Lines = 0 .. OutputMemory - 1
BY SizeAssumption DEF NoEntry, Entries, Lines

LEMMA LeastIs ==
  ASSUME NEW m \in Int, NEW n \in Int
  PROVE  Least(m, n) <= m /\ Least(m, n) <= n /\ Least(m, n) \in {m, n}
BY DEF Least

LEMMA SmallestIs ==
  ASSUME NEW S, S \subseteq Nat, S # {}
  PROVE  Smallest(S) \in S /\ \A y \in S : Smallest(S) <= y
<1>1. \E x \in S : \A y \in S : x <= y
  BY LeastElement
<1> QED BY <1>1 DEF Smallest

\* A bounded set of numbers has a greatest element.
LEMMA GreatestElement ==
  ASSUME NEW S, NEW b \in Nat, S \subseteq 0 .. b, S # {}
  PROVE  \E x \in S : \A y \in S : y <= x
<1> DEFINE R == { n \in 0 .. b : b - n \in S }
<1>1. R \subseteq Nat /\ R # {}
  <2>1. PICK x \in S : TRUE
    OBVIOUS
  <2>2. b - x \in 0 .. b /\ b - (b - x) = x
    BY <2>1
  <2> QED BY <2>2
<1>2. PICK m \in R : \A n \in R : m <= n
  <2> HIDE DEF R
  <2> QED BY <1>1, LeastElement
<1>3. ASSUME NEW y \in S PROVE y <= b - m
  <2>1. y \in 0 .. b /\ b - y \in 0 .. b /\ b - (b - y) = y
    OBVIOUS
  <2>2. b - y \in R
    BY <2>1
  <2>3. m <= b - y /\ m \in 0 .. b
    BY <1>2, <2>2
  <2> QED BY <2>1, <2>3
<1> QED BY <1>2, <1>3

\* Sets between which there is a bijection.
LEMMA SameSize ==
  ASSUME NEW S, NEW T, IsFiniteSet(S), NEW f \in [S -> T],
         \A x, y \in S : f[x] = f[y] => x = y, \A t \in T : \E x \in S : f[x] = t
  PROVE  IsFiniteSet(T) /\ Cardinality(T) = Cardinality(S)
<1>1. f \in Bijection(S, T)
  BY DEF Bijection, Injection, IsInjective, Surjection
<1>2. ExistsBijection(S, T)
  BY <1>1 DEF ExistsBijection
<1> QED BY <1>2, FS_Bijection

LEMMA DomainIs ==
  ASSUME NEW T, NEW s \in Seq(T)
  PROVE  /\ Len(s) \in Nat /\ DOMAIN s = 1 .. Len(s) /\ IsFiniteSet(DOMAIN s)
         /\ Cardinality(DOMAIN s) = Len(s)
         /\ (s = <<>> <=> Len(s) = 0)
         /\ Elements(s) \subseteq T
<1>1. Len(s) \in Nat /\ DOMAIN s = 1 .. Len(s) /\ (s = <<>> <=> Len(s) = 0)
  OBVIOUS
<1>2. IsFiniteSet(1 .. Len(s)) /\ Cardinality(1 .. Len(s)) = Len(s)
  BY <1>1, FS_Interval
<1>3. Elements(s) \subseteq T
  BY DEF Elements
<1> QED BY <1>1, <1>2, <1>3

LEMMA DistinctSize ==
  ASSUME NEW T, NEW s \in Seq(T), Distinct(s)
  PROVE  IsFiniteSet(Elements(s)) /\ Cardinality(Elements(s)) = Len(s)
<1> DEFINE E == Elements(s)
           D == DOMAIN s
<1>1. IsFiniteSet(D) /\ Cardinality(D) = Len(s)
  BY DomainIs
<1>2. /\ s \in [D -> E] /\ \A x, y \in D : s[x] = s[y] => x = y
      /\ \A t \in E : \E x \in D : s[x] = t
  BY DEF Elements, Distinct
<1> HIDE DEF D, E
<1>3. IsFiniteSet(E) /\ Cardinality(E) = Cardinality(D)
  BY <1>1, <1>2, SameSize
<1> QED BY <1>1, <1>3 DEF E

\* Two numbers of a ring that are less than its size apart.
LEMMA ModApart ==
  ASSUME NEW c \in Nat, c > 0, NEW a \in Int, NEW b \in Int, a % c = b % c, a < b + c, b < a + c
  PROVE  a = b
<1> DEFINE p == a \div c
           q == b \div c
           r == a % c
<1>1. p \in Int /\ r \in 0 .. c - 1 /\ a = c * p + r
  BY DivMod
<1>2. q \in Int /\ b = c * q + r
  BY DivMod
<1> HIDE DEF p, q, r
<1>0. \A x, y \in Nat : x > 0 /\ y > 0 => x * y >= x
  OBVIOUS
<1>3. ~(p > q)
  <2> SUFFICES ASSUME p > q PROVE FALSE
    OBVIOUS
  <2>1. p - q \in Nat /\ p - q > 0
    BY <1>1, <1>2
  <2>2. c * (p - q) >= c
    BY <1>0, <2>1
  <2>3. c * (p - q) = a - b
    BY <1>1, <1>2
  <2> QED BY <2>2, <2>3
<1>4. ~(q > p)
  <2> SUFFICES ASSUME q > p PROVE FALSE
    OBVIOUS
  <2>1. q - p \in Nat /\ q - p > 0
    BY <1>1, <1>2
  <2>2. c * (q - p) >= c
    BY <1>0, <2>1
  <2>3. c * (q - p) = b - a
    BY <1>1, <1>2
  <2> QED BY <2>2, <2>3
<1>5. p = q
  BY <1>1, <1>2, <1>3, <1>4
<1> QED BY <1>1, <1>2, <1>5

LEMMA EntryIs == \A n \in Int : n % OutputFIFO \in Entries
BY Sizes, DivMod

\* What Only keeps: the elements that are wanted, each as often as before.
LEMMA OnlyIs ==
  ASSUME NEW T, NEW s \in Seq(T), NEW kept
  PROVE  /\ Only(s, kept) \in Seq(T)
         /\ \A x : x \in Elements(Only(s, kept)) <=> x \in Elements(s) /\ x \in kept
         /\ Len(Only(s, kept)) = Cardinality({ n \in DOMAIN s : s[n] \in kept })
         /\ Distinct(s) => Distinct(Only(s, kept))
<1>0. Len(s) \in Nat /\ DOMAIN s = 1 .. Len(s)
  OBVIOUS
<1>1. PICK f : /\ \A n \in 0 .. Len(s) :
                     f[n] = IF n = 0 THEN <<>>
                            ELSE IF s[n] \in kept THEN Append(f[n - 1], s[n]) ELSE f[n - 1]
               /\ Only(s, kept) = f[Len(s)]
  BY OnlyComputed
<1> DEFINE Places(n) == { j \in 1 .. n : s[j] \in kept }
           Holds(q, P) ==
             /\ q \in Seq(T) /\ IsFiniteSet(P) /\ Len(q) = Cardinality(P)
             /\ \A k \in 1 .. Len(q) : \E j \in P : q[k] = s[j]
             /\ \A j \in P : \E k \in 1 .. Len(q) : q[k] = s[j]
             /\ Distinct(s) => \A k, m \in 1 .. Len(q) : q[k] = q[m] => k = m
           Left(n) == Holds(f[n], Places(n))
           R == { n \in Nat : n <= Len(s) => Left(n) }
<1>2. 0 \in R
  <2>1. f[0] = <<>> /\ Places(0) = {}
    BY <1>0, <1>1
  <2>2. Holds(<<>>, {})
    BY FS_EmptySet
  <2> HIDE DEF Places, Holds
  <2>3. Left(0)
    BY <2>1, <2>2
  <2> HIDE DEF Left
  <2> QED BY <2>3
<1>3. ASSUME NEW n \in Nat, n \in R PROVE n + 1 \in R
  <2> SUFFICES ASSUME n + 1 <= Len(s) PROVE Left(n + 1)
    OBVIOUS
  <2> DEFINE q == f[n]
             r == f[n + 1]
             x == s[n + 1]
             P == Places(n)
             Q == Places(n + 1)
  <2>1. Left(n) /\ n + 1 \in 0 .. Len(s) /\ n + 1 # 0 /\ (n + 1) - 1 = n /\ n + 1 \in DOMAIN s
    BY <1>0, <1>3
  <2>2. r = IF x \in kept THEN Append(q, x) ELSE q
    BY <1>1, <2>1
  <2>3. /\ n + 1 \notin P /\ P \subseteq 1 .. n
        /\ Q = IF x \in kept THEN P \cup {n + 1} ELSE P
    <3>1. \A j : j \in 1 .. n + 1 <=> j \in 1 .. n \/ j = n + 1
      OBVIOUS
    <3> QED BY <3>1
  <2>4. CASE x \notin kept
    <3>1. r = q /\ Q = P
      BY <2>2, <2>3, <2>4
    <3> HIDE DEF Holds, Places
    <3> QED BY <2>1, <3>1
  <2>5. CASE x \in kept
    <3>1. r = Append(q, x) /\ Q = P \cup {n + 1} /\ x \in T
      BY <1>0, <2>1, <2>2, <2>3, <2>5
    <3>2. /\ q \in Seq(T) /\ IsFiniteSet(P) /\ Len(q) = Cardinality(P)
          /\ \A k \in 1 .. Len(q) : \E j \in P : q[k] = s[j]
          /\ \A j \in P : \E k \in 1 .. Len(q) : q[k] = s[j]
          /\ Distinct(s) => \A k, m \in 1 .. Len(q) : q[k] = q[m] => k = m
      BY <2>1
    <3> HIDE DEF q, r, P, Q
    <3>3. /\ r \in Seq(T) /\ Len(r) = Len(q) + 1 /\ r[Len(q) + 1] = x
          /\ \A k \in 1 .. Len(q) : r[k] = q[k]
      BY <3>1, <3>2
    <3>4. IsFiniteSet(Q) /\ Cardinality(Q) = Cardinality(P) + 1
      <4> DEFINE m == n + 1
      <4>1. m \notin P /\ Q = P \cup {m} /\ IsFiniteSet(P)
        BY <2>3, <3>1, <3>2
      <4> HIDE DEF m
      <4> QED BY <4>1, FS_AddElement
    <3>5. \A k \in 1 .. Len(r) : k \in 1 .. Len(q) \/ k = Len(q) + 1
      BY <3>2, <3>3
    <3>6. \A k \in 1 .. Len(r) : \E j \in Q : r[k] = s[j]
      <4> TAKE k \in 1 .. Len(r)
      <4>1. CASE k \in 1 .. Len(q)
        BY <3>1, <3>2, <3>3, <4>1
      <4>2. CASE k = Len(q) + 1
        BY <3>1, <3>3, <4>2
      <4> QED BY <3>5, <4>1, <4>2
    <3>7. \A j \in Q : \E k \in 1 .. Len(r) : r[k] = s[j]
      <4> TAKE j \in Q
      <4>1. CASE j \in P
        <5>1. PICK k \in 1 .. Len(q) : q[k] = s[j]
          BY <3>2, <4>1
        <5>2. k \in 1 .. Len(r) /\ r[k] = s[j]
          BY <3>2, <3>3, <5>1
        <5> QED BY <5>2
      <4>2. CASE j = n + 1
        <5>1. Len(q) + 1 \in 1 .. Len(r)
          BY <3>2, <3>3
        <5> QED BY <3>3, <4>2, <5>1
      <4> QED BY <3>1, <4>1, <4>2
    <3>8. ASSUME Distinct(s) PROVE \A k, m \in 1 .. Len(r) : r[k] = r[m] => k = m
      <4>1. ASSUME NEW k \in 1 .. Len(q) PROVE r[k] # x
        <5>1. PICK j \in P : q[k] = s[j]
          BY <3>2
        <5>2. j \in DOMAIN s /\ j # n + 1
          BY <1>0, <2>3, <2>1
        <5>3. s[j] # s[n + 1]
          BY <2>1, <3>8, <5>2 DEF Distinct
        <5> QED BY <3>3, <5>1, <5>3
      <4>2. \A k, m \in 1 .. Len(q) : r[k] = r[m] => k = m
        BY <3>2, <3>3, <3>8
      <4> HIDE DEF x
      <4> QED BY <3>3, <3>5, <4>1, <4>2
    <3>9. Len(r) = Cardinality(Q)
      BY <3>2, <3>3, <3>4
    <3> QED BY <3>3, <3>4, <3>6, <3>7, <3>8, <3>9 DEF r, Q
  <2> QED BY <2>4, <2>5
<1> HIDE DEF R
<1>4. Len(s) \in R
  BY <1>0, <1>2, <1>3, Induction
<1> HIDE DEF Holds
<1>5. Left(Len(s))
  BY <1>0, <1>4 DEF R
<1> DEFINE o == Only(s, kept)
           P == Places(Len(s))
<1>6a. Holds(o, P)
  BY <1>1, <1>5
<1>7. P = { n \in DOMAIN s : s[n] \in kept }
  BY <1>0
<1> HIDE DEF o, P
<1>6. /\ o \in Seq(T) /\ Len(o) = Cardinality(P)
      /\ \A k \in 1 .. Len(o) : \E j \in P : o[k] = s[j]
      /\ \A j \in P : \E k \in 1 .. Len(o) : o[k] = s[j]
      /\ Distinct(s) => \A k, m \in 1 .. Len(o) : o[k] = o[m] => k = m
  BY <1>6a DEF Holds
<1>8. DOMAIN o = 1 .. Len(o)
  BY <1>6
<1>9. \A x : x \in Elements(o) <=> x \in Elements(s) /\ x \in kept
  <2> TAKE x
  <2>1. x \in Elements(o) <=> \E k \in 1 .. Len(o) : o[k] = x
    BY <1>8 DEF Elements
  <2>2. x \in Elements(s) <=> \E j \in DOMAIN s : s[j] = x
    BY DEF Elements
  <2>3. \A j : j \in P <=> j \in DOMAIN s /\ s[j] \in kept
    BY <1>7
  <2> QED BY <1>6, <2>1, <2>2, <2>3
<1>10. Distinct(s) => Distinct(o)
  BY <1>6, <1>8 DEF Distinct
<1> QED BY <1>6, <1>7, <1>9, <1>10 DEF o

\* The n first numbers.
LEMMA UpToIs ==
  ASSUME NEW T, NEW s \in Seq(T)
  PROVE  LET t == [n \in DOMAIN s |-> n]
         IN  t \in Seq(Nat) /\ Len(t) = Len(s) /\ Distinct(t) /\ Elements(t) = DOMAIN s
<1> DEFINE t == [n \in DOMAIN s |-> n]
<1>1. DOMAIN s = 1 .. Len(s) /\ Len(s) \in Nat
  OBVIOUS
<1>2. t \in Seq(Nat) /\ Len(t) = Len(s) /\ DOMAIN t = DOMAIN s
  BY <1>1
<1>3. \A n \in DOMAIN s : t[n] = n
  OBVIOUS
<1> HIDE DEF t
<1>4. Distinct(t) /\ Elements(t) = DOMAIN s
  BY <1>2, <1>3 DEF Distinct, Elements
<1> QED BY <1>2, <1>4 DEF t

-----------------------------------------------------------------------------
(* What a cycle does, box by box.                                          *)

LEMMA Lengths ==
  ASSUME IInv
  PROVE  /\ Len(answer) \in Nat /\ Len(newIndex) \in Nat /\ Len(irq) \in Nat
         /\ Len(dealloc) \in Nat /\ Len(stream) \in Nat /\ Len(confirm) \in Nat /\ Len(freed) \in Nat
         /\ DOMAIN answer = 1 .. Len(answer) /\ DOMAIN newIndex = 1 .. Len(newIndex)
         /\ DOMAIN irq = 1 .. Len(irq) /\ DOMAIN freed = 1 .. Len(freed)
         /\ DOMAIN confirm = 1 .. Len(confirm)
         /\ fetched \in Nat /\ sent \in Nat
         /\ Received \in Int /\ Received = (fetched - Len(answer)) - Len(newIndex)
<1>1. /\ stream \in Seq(Index) /\ answer \in Seq(Answers) /\ newIndex \in Seq(NewIndices)
      /\ irq \in Seq(Inputs) /\ dealloc \in Seq(Lines) /\ confirm \in Seq(Lines)
      /\ freed \in Seq(Freed) /\ fetched \in Nat /\ sent \in Nat
  BY DEF IInv, Typed, ControlTyped, FetchTyped, CacheTyped, LoaderTyped, CommitTyped
<1>2. /\ Len(answer) \in Nat /\ Len(newIndex) \in Nat /\ Len(irq) \in Nat
      /\ Len(dealloc) \in Nat /\ Len(stream) \in Nat /\ Len(confirm) \in Nat /\ Len(freed) \in Nat
      /\ DOMAIN answer = 1 .. Len(answer) /\ DOMAIN newIndex = 1 .. Len(newIndex)
      /\ DOMAIN irq = 1 .. Len(irq) /\ DOMAIN freed = 1 .. Len(freed)
      /\ DOMAIN confirm = 1 .. Len(confirm)
  BY <1>1
<1> DEFINE a == Len(answer)
           b == Len(newIndex)
<1>3. a \in Nat /\ b \in Nat /\ fetched \in Nat /\ Received = (fetched - a) - b
  BY <1>1, <1>2 DEF Received
<1> HIDE DEF a, b
<1>4. Received \in Int
  BY <1>3
<1> QED BY <1>1, <1>2, <1>3, <1>4 DEF a, b

LEMMA ConfirmedIs ==
  ASSUME IInv
  PROVE  IsFiniteSet(Confirmed) /\ Cardinality(Confirmed) \in Nat
<1>1. confirm \in Seq(Lines) /\ Distinct(confirm)
  BY DEF IInv, Typed, CommitTyped
<1>2. IsFiniteSet(Elements(confirm))
  BY <1>1, DistinctSize
<1>3. IsFiniteSet(Confirmed)
  BY <1>2, FS_Intersection DEF Confirmed
<1> QED BY <1>3, FS_CardinalityType

LEMMA CountsAre ==
  ASSUME IInv
  PROVE  /\ LinesNow \in Nat /\ EntriesNow \in Nat /\ InputsNow \in Nat
         /\ sent <= Received /\ Received <= fetched
         /\ Streaming => LinesNow <= OutputMemory /\ EntriesNow <= OutputFIFO /\ InputsNow <= InputQueue
<1>1. /\ freeLines \in Nat /\ freeEntries \in Nat /\ freeInputs \in Nat
      /\ already \in Nat /\ entryFreed \in Nat /\ inputFreed \in Nat
  BY Sizes DEF IInv, Typed, FetchTyped, LoaderTyped, CommitTyped
<1>2. LinesNow \in Nat /\ EntriesNow \in Nat /\ InputsNow \in Nat
  BY <1>1, ConfirmedIs DEF LinesNow, EntriesNow, InputsNow
<1>3. sent <= Received /\ Received <= fetched
  BY Lengths DEF IInv, Ring
<1>4. ASSUME Streaming PROVE LinesNow <= OutputMemory /\ EntriesNow <= OutputFIFO /\ InputsNow <= InputQueue
  <2>1. /\ freeInputs + inputFreed + Len(irq) + Len(answer) + Len(newIndex) = InputQueue
        /\ freeEntries + entryFreed + (fetched - sent) = OutputFIFO
        /\ LinesNow <= OutputMemory
    BY <1>4 DEF IInv, Accounts
  <2>2. InputsNow <= InputQueue
    BY <1>1, <2>1, Lengths DEF InputsNow
  <2>3. EntriesNow <= OutputFIFO
    <3> DEFINE d == fetched - sent
    <3>1. d \in Nat
      BY <1>3, Lengths
    <3>2. freeEntries + entryFreed + d = OutputFIFO
      BY <2>1
    <3> HIDE DEF d
    <3> QED BY <1>1, <3>1, <3>2, Sizes DEF EntriesNow
  <2> QED BY <2>1, <2>2, <2>3
<1> QED BY <1>2, <1>3, <1>4

\* Fetch, between START and END.
Fetches ==
  /\ newIndex' \in Seq(NewIndices)
  /\ fetched' = fetched + Len(newIndex') /\ fetched' <= Len(stream)
  /\ Len(newIndex') <= LinesNow /\ Len(newIndex') <= EntriesNow /\ Len(newIndex') <= InputsNow
  /\ freeLines' = LinesNow - Len(newIndex')
  /\ freeEntries' = EntriesNow - Len(newIndex')
  /\ freeInputs' = InputsNow - Len(newIndex')
  /\ \A n \in DOMAIN newIndex' : newIndex'[n].entry = (fetched + n - 1) % OutputFIFO
  /\ fetch' = IF fetch = "FINISHED" THEN IF command = "END" THEN "READY" ELSE "FINISHED"
              ELSE IF fetched' = Len(stream) THEN "FINISHED" ELSE "STREAMING"

LEMMA FetchIs ==
  ASSUME IInv, FetchCycle, Streaming
  PROVE  Fetches
<1>1. CASE FetchIndices
  <2>1. PICK n \in 0 .. CanFetch :
          /\ newIndex' = [i \in 1 .. n |->
                            [index |-> stream[fetched + i],
                             entry |-> EntryOf(fetched + i - 1),
                             last  |-> fetched + i = Len(stream)]]
          /\ fetched' = fetched + n
          /\ freeLines' = LinesNow - n
          /\ freeEntries' = EntriesNow - n
          /\ freeInputs' = InputsNow - n
          /\ fetch' = IF fetched' = Len(stream) THEN "FINISHED" ELSE "STREAMING"
    BY <1>1 DEF FetchIndices
  <2>2. fetched <= Len(stream) /\ fetched \in Nat /\ stream \in Seq(Index) /\ Len(stream) \in Nat
    BY Lengths DEF IInv, Ring, Typed, ControlTyped, Streaming
  <2>3. n \in Nat /\ n <= Len(stream) - fetched /\ n <= LinesNow /\ n <= EntriesNow /\ n <= InputsNow
    <3> DEFINE a == Least(IndicesCycle, Len(stream) - fetched)
               b == Least(EntriesNow, InputsNow)
               c == Least(LinesNow, b)
    <3>1. a \in Int /\ a <= Len(stream) - fetched
      BY <2>2, Sizes, LeastIs
    <3>2. b \in Int /\ b <= EntriesNow /\ b <= InputsNow
      BY CountsAre, LeastIs
    <3> HIDE DEF a, b
    <3>3. c \in Int /\ c <= LinesNow /\ c <= b
      BY <3>2, CountsAre, LeastIs
    <3> HIDE DEF c
    <3>4. Least(a, c) <= a /\ Least(a, c) <= c /\ Least(a, c) \in Int
      BY <3>1, <3>3, LeastIs
    <3>5. CanFetch = Least(a, c)
      BY DEF CanFetch, a, b, c
    <3> QED BY <3>1, <3>2, <3>3, <3>4, <3>5, <2>2, CountsAre
  <2>4. ASSUME NEW i \in 1 .. n
        PROVE  /\ newIndex'[i] \in NewIndices
               /\ newIndex'[i].entry = (fetched + i - 1) % OutputFIFO
    <3>1. fetched + i \in 1 .. Len(stream) /\ fetched + i - 1 \in Int
      BY <2>2, <2>3
    <3>2. stream[fetched + i] \in Index /\ EntryOf(fetched + i - 1) \in Entries
      BY <2>2, <3>1, EntryIs DEF EntryOf
    <3>3. newIndex'[i] = [index |-> stream[fetched + i],
                          entry |-> EntryOf(fetched + i - 1),
                          last  |-> fetched + i = Len(stream)]
      BY <2>1
    <3>4. (fetched + i = Len(stream)) \in BOOLEAN
      OBVIOUS
    <3>5. newIndex'[i].entry = EntryOf(fetched + i - 1)
      BY <3>3
    <3> QED BY <3>2, <3>3, <3>4, <3>5 DEF NewIndices, EntryOf
  <2>5. newIndex' \in Seq(NewIndices) /\ Len(newIndex') = n /\ DOMAIN newIndex' = 1 .. n
    <3>1. newIndex' \in [1 .. n -> NewIndices]
      BY <2>1, <2>4
    <3> QED BY <2>3, <3>1
  <2>6. fetch = "STREAMING"
    BY <1>1 DEF FetchIndices
  <2>7. \A i \in DOMAIN newIndex' : newIndex'[i].entry = (fetched + i - 1) % OutputFIFO
    BY <2>4, <2>5
  <2>8. /\ fetched' = fetched + Len(newIndex') /\ fetched' <= Len(stream)
        /\ Len(newIndex') <= LinesNow /\ Len(newIndex') <= EntriesNow /\ Len(newIndex') <= InputsNow
    BY <2>1, <2>2, <2>3, <2>5
  <2>9. /\ freeLines' = LinesNow - Len(newIndex')
        /\ freeEntries' = EntriesNow - Len(newIndex')
        /\ freeInputs' = InputsNow - Len(newIndex')
    BY <2>1, <2>5
  <2> QED BY <2>1, <2>5, <2>6, <2>7, <2>8, <2>9 DEF Fetches
<1>2. CASE FetchFinished
  <2>1. /\ fetch' = IF command = "END" THEN "READY" ELSE "FINISHED"
        /\ freeLines' = LinesNow /\ freeEntries' = EntriesNow /\ freeInputs' = InputsNow
        /\ newIndex' = <<>> /\ fetched' = fetched /\ fetch = "FINISHED"
    BY <1>2 DEF FetchFinished
  <2>2. fetched <= Len(stream) /\ fetched \in Nat
    BY Lengths DEF IInv, Ring, Typed, ControlTyped, Streaming
  <2>3. newIndex' \in Seq(NewIndices) /\ Len(newIndex') = 0 /\ DOMAIN newIndex' = {}
    BY <2>1
  <2> QED BY <2>1, <2>2, <2>3, CountsAre DEF Fetches
<1> QED BY <1>1, <1>2 DEF FetchCycle, FetchStart, FetchIdle, Streaming

\* Before START and at it.
LEMMA FetchRests ==
  ASSUME IInv, FetchCycle, ~Streaming
  PROVE  IF command = "START"
         THEN /\ fetch' = "STREAMING" /\ fetched' = 0 /\ newIndex' = <<>>
              /\ freeLines' = OutputMemory /\ freeEntries' = OutputFIFO /\ freeInputs' = InputQueue
         ELSE UNCHANGED fetchVars
BY DEF FetchCycle, FetchStart, FetchIndices, FetchFinished, FetchIdle, Streaming

LEMMA RestIs ==
  ASSUME NEW T, NEW s \in Seq(T), NEW c \in Nat
  PROVE  LET r == SubSeq(s, c + 1, Len(s))
         IN  /\ r \in Seq(T) /\ Len(r) = (IF c <= Len(s) THEN Len(s) - c ELSE 0)
             /\ \A n \in 1 .. Len(r) : n + c \in 1 .. Len(s) /\ r[n] = s[n + c]
<1> DEFINE r == SubSeq(s, c + 1, Len(s))
<1>1. Len(s) \in Nat /\ c + 1 \in 1 .. (c + 1)
  OBVIOUS
<1>2. r = [n \in 1 .. (Len(s) - (c + 1) + 1) |-> s[n + (c + 1) - 1]]
  BY <1>1
<1>3. Len(s) - (c + 1) + 1 = Len(s) - c /\ \A n \in Nat : n + (c + 1) - 1 = n + c
  BY <1>1
<1> DEFINE l == Len(s) - c
<1>4. r = [n \in 1 .. l |-> s[n + c]]
  BY <1>2, <1>3
<1>5. \A n \in 1 .. l : n + c \in 1 .. Len(s) /\ s[n + c] \in T
  BY <1>1
<1>6. CASE c <= Len(s)
  <2>1. l \in Nat
    BY <1>1, <1>6
  <2> HIDE DEF l
  <2>2. r \in [1 .. l -> T]
    BY <1>4, <1>5
  <2>3. r \in Seq(T) /\ Len(r) = l
    BY <2>1, <2>2
  <2> HIDE DEF r
  <2>4. \A n \in 1 .. l : r[n] = s[n + c]
    BY <1>4
  <2> QED BY <1>5, <1>6, <2>3, <2>4 DEF l, r
<1>7. CASE ~(c <= Len(s))
  <2>1. 1 .. l = {}
    BY <1>1, <1>7
  <2>2. r = <<>>
    BY <1>4, <2>1
  <2> QED BY <1>7, <2>2
<1> QED BY <1>6, <1>7

LEMMA DistinctRest ==
  ASSUME NEW T, NEW s \in Seq(T), NEW c \in Nat, Distinct(s)
  PROVE  Distinct(SubSeq(s, c + 1, Len(s)))
<1> DEFINE r == SubSeq(s, c + 1, Len(s))
<1>1. /\ r \in Seq(T) /\ \A n \in 1 .. Len(r) : n + c \in 1 .. Len(s) /\ r[n] = s[n + c]
  BY RestIs
<1>2. DOMAIN r = 1 .. Len(r) /\ DOMAIN s = 1 .. Len(s) /\ Len(r) \in Nat
  BY <1>1
<1> HIDE DEF r
<1>3. ASSUME NEW m \in DOMAIN r, NEW n \in DOMAIN r, r[m] = r[n] PROVE m = n
  <2>1. m + c = n + c
    BY <1>1, <1>2, <1>3 DEF Distinct
  <2> QED BY <1>2, <2>1
<1>4. Distinct(r)
  BY <1>3 DEF Distinct
<1> QED BY <1>4 DEF r

LEMMA JoinIs ==
  ASSUME NEW T, NEW s \in Seq(T), NEW t \in Seq(T)
  PROVE  /\ s \o t \in Seq(T) /\ Len(s \o t) = Len(s) + Len(t)
         /\ \A n \in 1 .. Len(s) : (s \o t)[n] = s[n]
         /\ \A n \in 1 .. Len(t) : (s \o t)[Len(s) + n] = t[n]
         /\ \A n \in 1 .. Len(s) + Len(t) :
              n \in 1 .. Len(s) \/ (n - Len(s) \in 1 .. Len(t) /\ (s \o t)[n] = t[n - Len(s)])
<1>1. /\ s \o t \in Seq(T) /\ Len(s \o t) = Len(s) + Len(t) /\ Len(s) \in Nat /\ Len(t) \in Nat
      /\ \A n \in 1 .. Len(s) : (s \o t)[n] = s[n]
  OBVIOUS
<1>2. \A n \in 1 .. Len(s) + Len(t) :
        n \in 1 .. Len(s) \/ (n - Len(s) \in 1 .. Len(t) /\ (s \o t)[n] = t[n - Len(s)])
  OBVIOUS
<1>3. \A n \in 1 .. Len(t) : (s \o t)[Len(s) + n] = t[n]
  <2> TAKE n \in 1 .. Len(t)
  <2>1. Len(s) + n \in 1 .. Len(s) + Len(t) /\ ~(Len(s) + n \in 1 .. Len(s)) /\ (Len(s) + n) - Len(s) = n
    BY <1>1
  <2> QED BY <1>2, <2>1
<1> QED BY <1>1, <1>2, <1>3

LEMMA DistinctJoin ==
  ASSUME NEW T, NEW s \in Seq(T), NEW t \in Seq(T), Distinct(s), Distinct(t),
         \A x \in Elements(t) : x \notin Elements(s)
  PROVE  Distinct(s \o t)
<1> DEFINE r == s \o t
           a == Len(s)
           b == Len(t)
<1>1. /\ a \in Nat /\ b \in Nat /\ DOMAIN s = 1 .. a /\ DOMAIN t = 1 .. b
      /\ DOMAIN r = 1 .. a + b
  BY JoinIs
<1>2. /\ \A n \in 1 .. a : r[n] = s[n]
      /\ \A n \in 1 .. a + b : n \in 1 .. a \/ (n - a \in 1 .. b /\ r[n] = t[n - a])
  BY JoinIs
<1>3. \A m \in 1 .. a, n \in 1 .. b : s[m] # t[n]
  BY <1>1 DEF Elements
<1>4. /\ \A m, n \in 1 .. a : s[m] = s[n] => m = n
      /\ \A m, n \in 1 .. b : t[m] = t[n] => m = n
  BY <1>1 DEF Distinct
<1> HIDE DEF r, a, b
<1>5. ASSUME NEW m \in 1 .. a + b, NEW n \in 1 .. a + b, r[m] = r[n] PROVE m = n
  <2>1. CASE m \in 1 .. a /\ n \in 1 .. a
    BY <1>2, <1>4, <1>5, <2>1
  <2>2. CASE m \notin 1 .. a /\ n \notin 1 .. a
    <3>1. m - a = n - a
      BY <1>2, <1>4, <1>5, <2>2
    <3> QED BY <1>1, <3>1
  <2>3. CASE m \in 1 .. a /\ n \notin 1 .. a
    BY <1>2, <1>3, <1>5, <2>3
  <2>4. CASE m \notin 1 .. a /\ n \in 1 .. a
    BY <1>2, <1>3, <1>5, <2>4
  <2> QED BY <2>1, <2>2, <2>3, <2>4
<1> QED BY <1>1, <1>5 DEF Distinct, r

\* The Output Cache, between START and END.
Looks ==
  /\ answer' \in Seq(Answers) /\ Len(answer') = Len(newIndex)
  /\ \A n \in DOMAIN answer' : answer'[n].entry = newIndex[n].entry
  /\ tag' \in [Lines -> Index \cup {NoIndex}] /\ valid' \subseteq Lines
  /\ freeList' \in Seq(Lines) /\ Distinct(freeList')
  /\ update' \subseteq [line : Lines, index : Index]
  /\ newIndex = <<>> => update' = {}
  /\ unconfirmed' = dealloc

LEMMA NowIs ==
  ASSUME IInv
  PROVE  /\ TagNow \in [Lines -> Index \cup {NoIndex}] /\ ValidNow \subseteq Lines
         /\ FreeNow \in Seq(Lines) /\ Distinct(FreeNow)
<1>1. /\ tag \in [Lines -> Index \cup {NoIndex}] /\ valid \subseteq Lines
      /\ freeList \in Seq(Lines) /\ Distinct(freeList)
      /\ update \subseteq [line : Lines, index : Index]
      /\ unconfirmed \in Seq(Lines)
      /\ confirm \in Seq(Lines) /\ Distinct(confirm)
  BY DEF IInv, Typed, CacheTyped, CommitTyped
<1>2. TagNow \in [Lines -> Index \cup {NoIndex}]
  <2>1. ASSUME NEW l \in Lines, \E u \in update : u.line = l
        PROVE  (CHOOSE u \in update : u.line = l).index \in Index
    <3>1. (CHOOSE u \in update : u.line = l) \in update
      BY <2>1
    <3> QED BY <1>1, <3>1
  <2> QED BY <1>1, <2>1 DEF TagNow
<1>3. ValidNow \subseteq Lines
  <2>1. Elements(unconfirmed) \subseteq Lines
    BY <1>1, DomainIs
  <2>2. { u.line : u \in update } \subseteq Lines
    BY <1>1
  <2> QED BY <1>1, <2>1, <2>2 DEF ValidNow
<1>4. FreeNow \in Seq(Lines) /\ Distinct(FreeNow)
  <2> DEFINE K == Elements(unconfirmed) \ Elements(freeList)
             o == Only(confirm, K)
  <2> HIDE DEF K
  <2>1. /\ o \in Seq(Lines) /\ Distinct(o)
        /\ \A x : x \in Elements(o) <=> x \in Elements(confirm) /\ x \in K
    BY <1>1, OnlyIs
  <2>2. FreeNow = freeList \o o
    BY DEF FreeNow, K
  <2>3. \A x \in Elements(o) : x \notin Elements(freeList)
    BY <2>1 DEF K
  <2> HIDE DEF o
  <2> QED BY <1>1, <2>1, <2>2, <2>3, JoinIs, DistinctJoin
<1> QED BY <1>2, <1>3, <1>4

LEMMA LineIs ==
  ASSUME IInv, LinesLeft, NEW n \in DOMAIN newIndex
  PROVE  LineOf(n) \in Lines
<1>1. Lines \subseteq Nat /\ DOMAIN newIndex = 1 .. Len(newIndex) /\ DOMAIN newIndex \subseteq Nat
  BY Lengths, Sizes
<1>2. CASE n \in Hits
  <2>1. Found(newIndex[n].index) # {} /\ Found(newIndex[n].index) \subseteq Lines
    BY <1>2, NowIs DEF Hits, Found
  <2>2. Smallest(Found(newIndex[n].index)) \in Lines
    BY <1>1, <2>1, SmallestIs
  <2> QED BY <1>2, <2>2 DEF LineOf
<1>3. CASE n \notin Hits
  <2> DEFINE Same == { m \in Misses : newIndex[m].index = newIndex[n].index }
  <2>1. n \in Misses /\ Misses \subseteq DOMAIN newIndex
    BY <1>3 DEF Misses
  <2>2. Same \subseteq Nat /\ Same # {}
    BY <1>1, <2>1
  <2>3. PICK k \in Same : \A m \in Same : k <= m
    <3> HIDE DEF Same
    <3> QED BY <2>2, LeastElement
  <2>4. k \in FirstMisses /\ newIndex[k].index = newIndex[n].index
    <3>1. \A m \in Misses : m < k => m \notin Same
      BY <1>1, <2>1, <2>2, <2>3
    <3> QED BY <2>3, <3>1 DEF FirstMisses
  <2> DEFINE first == CHOOSE m \in FirstMisses : newIndex[m].index = newIndex[n].index
  <2>5. first \in FirstMisses
    BY <2>4
  <2> HIDE DEF first
  <2>6. first \in Misses
    BY <2>5 DEF FirstMisses
  <2>7. Solved(first) < Len(FreeForMisses)
    BY <2>6 DEF LinesLeft
  <2>8. Solved(first) \in Nat
    <3> DEFINE S == { m \in FirstMisses : m < first }
    <3>0. S \subseteq FirstMisses /\ FirstMisses \subseteq Misses
      BY DEF FirstMisses
    <3> HIDE DEF S
    <3>1. IsFiniteSet(DOMAIN newIndex)
      BY FS_Interval, Lengths
    <3>2. S \subseteq DOMAIN newIndex
      BY <2>1, <3>0
    <3>4. IsFiniteSet(S)
      BY <3>1, <3>2, FS_Subset
    <3>3. Cardinality(S) \in Nat
      BY <3>4, FS_CardinalityType
    <3> QED BY <3>3 DEF S, Solved
  <2>9. FreeForMisses \in Seq(Lines)
    BY NowIs, OnlyIs DEF FreeForMisses
  <2>10. Solved(first) + 1 \in 1 .. Len(FreeForMisses)
    BY <2>7, <2>8, <2>9
  <2>11. FreeForMisses[Solved(first) + 1] \in Lines
    BY <2>9, <2>10
  <2> QED BY <1>3, <2>11 DEF LineOf, first
<1> QED BY <1>2, <1>3

LEMMA CacheIs ==
  ASSUME IInv, CacheCycle, AssertionsHold, Streaming
  PROVE  Looks
<1>1. CacheLookup
  BY DEF CacheCycle, CacheStart, CacheIdle, Streaming
<1>2. /\ newIndex \in Seq(NewIndices) /\ Len(newIndex) \in Nat
      /\ DOMAIN newIndex = 1 .. Len(newIndex)
  BY Lengths DEF IInv, Typed, FetchTyped
<1>3. \A n \in DOMAIN newIndex : newIndex[n] \in NewIndices
  BY <1>2
<1>4. answer' = [n \in DOMAIN newIndex |->
                  [index |-> newIndex[n].index,
                   entry |-> newIndex[n].entry,
                   last  |-> newIndex[n].last,
                   hit   |-> n \notin FirstMisses,
                   line  |-> LineOf(n)]]
  BY <1>1 DEF CacheLookup
<1>5. ASSUME NEW n \in DOMAIN newIndex
      PROVE  answer'[n] \in Answers /\ answer'[n].entry = newIndex[n].entry
  <2>1. /\ newIndex[n].index \in Index /\ newIndex[n].entry \in Entries /\ newIndex[n].last \in BOOLEAN
    BY <1>3 DEF NewIndices
  <2>2. LineOf(n) \in Lines
    BY LineIs DEF AssertionsHold
  <2>3. (n \notin FirstMisses) \in BOOLEAN
    OBVIOUS
  <2>4. answer'[n] = [index |-> newIndex[n].index,
                      entry |-> newIndex[n].entry,
                      last  |-> newIndex[n].last,
                      hit   |-> n \notin FirstMisses,
                      line  |-> LineOf(n)]
    BY <1>4
  <2>5. answer'[n].entry = newIndex[n].entry
    BY <2>4
  <2> DEFINE h == n \notin FirstMisses
             l == LineOf(n)
  <2>6. h \in BOOLEAN /\ l \in Lines /\ answer'[n] = [index |-> newIndex[n].index,
                      entry |-> newIndex[n].entry, last |-> newIndex[n].last, hit |-> h, line |-> l]
    BY <2>2, <2>3, <2>4
  <2> HIDE DEF h, l
  <2> QED BY <2>1, <2>5, <2>6 DEF Answers
<1>6. answer' \in Seq(Answers) /\ Len(answer') = Len(newIndex) /\ DOMAIN answer' = DOMAIN newIndex
  <2>1. answer' \in [1 .. Len(newIndex) -> Answers]
    BY <1>2, <1>4, <1>5
  <2> QED BY <1>2, <2>1
<1>7. /\ tag' \in [Lines -> Index \cup {NoIndex}] /\ valid' \subseteq Lines
      /\ unconfirmed' = dealloc
  BY <1>1, NowIs DEF CacheLookup
<1>8. FirstMisses \subseteq DOMAIN newIndex
  BY DEF FirstMisses, Misses
<1>9. freeList' \in Seq(Lines) /\ Distinct(freeList')
  <2> DEFINE c == Cardinality(FirstMisses)
             K == Lines \ { Smallest(Found(newIndex[n].index)) : n \in Hits }
             f == Only(FreeNow, K)
  <2>1. c \in Nat
    <3>1. IsFiniteSet(DOMAIN newIndex)
      BY <1>2, FS_Interval
    <3> QED BY <3>1, <1>8, FS_Subset, FS_CardinalityType
  <2>2. freeList' = SubSeq(f, c + 1, Len(f))
    BY <1>1 DEF CacheLookup, FreeForMisses
  <2> HIDE DEF c, K
  <2>3. f \in Seq(Lines) /\ Distinct(f)
    BY NowIs, OnlyIs
  <2> HIDE DEF f
  <2> QED BY <2>1, <2>2, <2>3, RestIs, DistinctRest
<1>10. update' \subseteq [line : Lines, index : Index] /\ (newIndex = <<>> => update' = {})
  <2>1. update' = { [line |-> LineOf(n), index |-> newIndex[n].index] : n \in FirstMisses }
    BY <1>1 DEF CacheLookup
  <2>2. \A n \in FirstMisses : LineOf(n) \in Lines /\ newIndex[n].index \in Index
    BY <1>3, <1>8, LineIs DEF AssertionsHold, NewIndices
  <2>3. newIndex = <<>> => FirstMisses = {}
    BY <1>2, <1>8
  <2> QED BY <2>1, <2>2, <2>3
<1> QED BY <1>5, <1>6, <1>7, <1>9, <1>10 DEF Looks

LEMMA CacheRests ==
  ASSUME IInv, CacheCycle, ~Streaming
  PROVE  IF command = "START"
         THEN /\ tag' = [l \in Lines |-> NoIndex] /\ valid' = {}
              /\ freeList' = [n \in 1 .. OutputMemory |-> n - 1]
              /\ update' = {} /\ answer' = <<>> /\ unconfirmed' = unconfirmed
         ELSE UNCHANGED cacheVars
BY DEF CacheCycle, CacheStart, CacheLookup, CacheIdle

\* Loader and shaders: n inputs are taken by shaders, some are done, and load
\* joins the queue.
Takes(n, done, load) ==
  /\ shading' = (shading \ done) \cup { irq[m] : m \in 1 .. n }
  /\ load \in Seq(Answers) /\ (Distinct(answer) => Distinct(load))
  /\ \A a \in Elements(load) : a \in Elements(answer) /\ Loaded(a)
  /\ irq' \in Seq(Inputs) /\ Len(irq') = (Len(irq) - n) + Len(load)
  /\ \A m \in 1 .. Len(irq) - n : m + n \in DOMAIN irq /\ irq'[m] = irq[m + n]
  /\ \A m \in 1 .. Len(irq') :
       m \in 1 .. Len(irq) - n
       \/ (m - (Len(irq) - n) \in DOMAIN load /\ irq'[m].entry = load[m - (Len(irq) - n)].entry)
  /\ inputFreed' \in Nat /\ Len(irq') + inputFreed' = Len(irq) + Len(answer)

LEMMA LoaderIs ==
  ASSUME IInv, LoaderCycle
  PROVE  \E n \in 0 .. Len(irq) : \E done \in SUBSET shading : \E load \in Seq(Answers) :
           Takes(n, done, load)
<1> DEFINE K == { a \in Elements(answer) : Loaded(a) }
           load == Only(answer, K)
           new == [m \in DOMAIN load |->
                     [index |-> load[m].index, entry |-> load[m].entry, killed |-> load[m].hit]]
           freeNow == { m \in DOMAIN answer : ~Loaded(answer[m]) }
<1>1. PICK n \in 0 .. Least(IndicesCycle, Len(irq)), done \in SUBSET shading :
        /\ irq' = SubSeq(irq, n + 1, Len(irq)) \o new
        /\ inputFreed' = n + Cardinality(freeNow)
        /\ shading' = (shading \ done) \cup { irq[m] : m \in 1 .. n }
  BY DEF LoaderCycle
<1>2. /\ answer \in Seq(Answers) /\ irq \in Seq(Inputs) /\ Len(irq) \in Nat /\ Len(answer) \in Nat
      /\ DOMAIN irq = 1 .. Len(irq)
  BY Lengths DEF IInv, Typed, CacheTyped, LoaderTyped
<1>3. n \in 0 .. Len(irq) /\ n \in Nat
  <2>1. Least(IndicesCycle, Len(irq)) <= Len(irq) /\ Least(IndicesCycle, Len(irq)) \in Int
    BY <1>2, Sizes, LeastIs
  <2> QED BY <1>2, <2>1
<1>4. /\ load \in Seq(Answers) /\ (Distinct(answer) => Distinct(load))
      /\ \A x : x \in Elements(load) <=> x \in Elements(answer) /\ x \in K
      /\ Len(load) = Cardinality({ m \in DOMAIN answer : answer[m] \in K })
  <2> HIDE DEF K
  <2> QED BY <1>2, OnlyIs
<1>5. Len(load) + Cardinality(freeNow) = Len(answer) /\ Cardinality(freeNow) \in Nat
  <2> DEFINE D == DOMAIN answer
             L == { m \in D : answer[m] \in K }
  <2>1. L \subseteq D /\ freeNow = D \ L /\ D \cap L = L
    BY DEF Elements
  <2>2. IsFiniteSet(D) /\ Cardinality(D) = Len(answer)
    BY <1>2, DomainIs
  <2>3. Len(load) = Cardinality(L)
    BY <1>4
  <2> HIDE DEF D, L, freeNow, load
  <2>4a. IsFiniteSet(D \ L) /\ Cardinality(D \ L) = Cardinality(D) - Cardinality(D \cap L)
    BY <2>2, FS_Difference
  <2>4. IsFiniteSet(freeNow) /\ Cardinality(freeNow) = Cardinality(D) - Cardinality(L)
    BY <2>1, <2>4a
  <2>5. Cardinality(freeNow) \in Nat /\ Cardinality(L) \in Nat
    BY <2>1, <2>2, <2>4, FS_CardinalityType, FS_Subset
  <2> QED BY <1>2, <2>2, <2>3, <2>4, <2>5
<1>6. \A a \in Elements(load) : a \in Elements(answer) /\ Loaded(a)
  BY <1>4
<1> HIDE DEF load, freeNow
<1>7. new \in Seq(Inputs) /\ Len(new) = Len(load) /\ \A m \in DOMAIN load : new[m].entry = load[m].entry
  <2>1. DOMAIN load = 1 .. Len(load) /\ Len(load) \in Nat
    BY <1>4
  <2>2. \A m \in DOMAIN load : load[m] \in Answers
    BY <1>4
  <2>3. \A m \in DOMAIN load : new[m] \in Inputs /\ new[m].entry = load[m].entry
    BY <2>2 DEF Answers, Inputs
  <2>4. new \in [1 .. Len(load) -> Inputs]
    BY <2>1, <2>3
  <2> QED BY <2>1, <2>3, <2>4
<1> DEFINE rest == SubSeq(irq, n + 1, Len(irq))
           r == Len(irq) - n
<1>8. /\ rest \in Seq(Inputs) /\ Len(rest) = r /\ r \in Nat
      /\ \A m \in 1 .. r : m + n \in DOMAIN irq /\ rest[m] = irq[m + n]
  <2>1. n <= Len(irq) /\ r \in Nat
    BY <1>2, <1>3
  <2>2. /\ rest \in Seq(Inputs) /\ Len(rest) = (IF n <= Len(irq) THEN r ELSE 0)
        /\ \A m \in 1 .. Len(rest) : m + n \in 1 .. Len(irq) /\ rest[m] = irq[m + n]
    BY <1>2, <1>3, RestIs
  <2> HIDE DEF rest, r
  <2> QED BY <1>2, <2>1, <2>2
<1>9. irq' = rest \o new
  BY <1>1
<1>9a. r + n = Len(irq)
  BY <1>2, <1>3
<1> HIDE DEF rest, new, r
<1>10. /\ irq' \in Seq(Inputs) /\ Len(irq') = r + Len(load)
       /\ \A m \in 1 .. r : irq'[m] = rest[m]
       /\ \A m \in 1 .. Len(irq') : m \in 1 .. r \/ (m - r \in 1 .. Len(new) /\ irq'[m] = new[m - r])
  <2> DEFINE j == rest \o new
  <2>0. rest \in Seq(Inputs) /\ new \in Seq(Inputs)
    BY <1>7, <1>8
  <2>1. /\ j \in Seq(Inputs) /\ Len(j) = Len(rest) + Len(new)
        /\ \A m \in 1 .. Len(rest) : j[m] = rest[m]
        /\ \A m \in 1 .. Len(rest) + Len(new) :
             m \in 1 .. Len(rest) \/ (m - Len(rest) \in 1 .. Len(new) /\ j[m] = new[m - Len(rest)])
    BY <2>0, JoinIs
  <2>2. Len(rest) = r /\ Len(new) = Len(load) /\ irq' = j
    BY <1>7, <1>8, <1>9
  <2> HIDE DEF j
  <2> QED BY <2>1, <2>2
<1>11. \A m \in 1 .. Len(irq') : m \in 1 .. r \/ (m - r \in DOMAIN load /\ irq'[m].entry = load[m - r].entry)
  <2>1. DOMAIN load = 1 .. Len(load)
    BY <1>4
  <2> QED BY <1>7, <1>10, <2>1
<1>12. inputFreed' \in Nat /\ Len(irq') + inputFreed' = Len(irq) + Len(answer)
  <2> DEFINE u == Cardinality(freeNow)
             w == Len(load)
  <2>1. w \in Nat /\ u \in Nat /\ w + u = Len(answer)
    BY <1>4, <1>5
  <2>2. inputFreed' = n + u /\ Len(irq') = r + w
    BY <1>1, <1>10
  <2> DEFINE a == Len(irq)
             b == Len(answer)
  <2>3. n \in Nat /\ r \in Nat /\ a \in Nat /\ b \in Nat /\ r + n = a /\ w + u = b
    BY <1>2, <1>3, <1>8, <1>9a, <2>1
  <2> HIDE DEF u, w, a, b
  <2>4. n + u \in Nat /\ (r + w) + (n + u) = a + b
    BY <2>1, <2>3
  <2> QED BY <2>2, <2>4 DEF a, b
<1>13. Takes(n, done, load)
  BY <1>1, <1>4, <1>6, <1>8, <1>10, <1>11, <1>12 DEF Takes, r
<1> QED BY <1>3, <1>4, <1>13

\* Commit: the indices that were received so far, those of the answer included.
Taken == fetched - Len(newIndex)

LEMMA TakenIs ==
  ASSUME IInv
  PROVE  /\ Taken \in Nat /\ Received + Len(answer) = Taken /\ Taken + Len(newIndex) = fetched
         /\ sent <= Received /\ Received <= Taken /\ Taken <= fetched
         /\ fetched <= sent + OutputFIFO
         /\ sent \in Nat /\ Received \in Nat /\ fetched \in Nat
<1>1. sent <= Received /\ fetched - sent <= OutputFIFO
  BY DEF IInv, Ring
<1>2. /\ Len(answer) \in Nat /\ Len(newIndex) \in Nat /\ sent \in Nat /\ fetched \in Nat
      /\ Received = (fetched - Len(answer)) - Len(newIndex)
  BY Lengths
<1> DEFINE a == Len(answer)
           b == Len(newIndex)
<1>3. /\ a \in Nat /\ b \in Nat /\ Received = (fetched - a) - b /\ Taken = fetched - b
  BY <1>2 DEF Taken
<1> HIDE DEF a, b
<1>4. /\ Taken \in Nat /\ Received + a = Taken /\ Taken + b = fetched
      /\ sent <= Received /\ Received <= Taken /\ Taken <= fetched
      /\ fetched <= sent + OutputFIFO
      /\ sent \in Nat /\ Received \in Nat /\ fetched \in Nat
  BY <1>1, <1>2, <1>3, Sizes
<1> QED BY <1>4 DEF a, b

\* The places of the ring are those of the indices not sent.
LEMMA RingApart ==
  ASSUME IInv, NEW j \in Int, NEW k \in Int, sent <= j, j < sent + OutputFIFO,
         sent <= k, k < sent + OutputFIFO, j % OutputFIFO = k % OutputFIFO
  PROVE  j = k
<1>1. sent \in Nat /\ OutputFIFO \in Nat /\ OutputFIFO > 0
  BY Sizes, Lengths
<1>2. j < k + OutputFIFO /\ k < j + OutputFIFO
  BY <1>1
<1> QED BY <1>1, <1>2, ModApart

LEMMA AnswerEntry ==
  ASSUME IInv, NEW n \in DOMAIN answer
  PROVE  /\ answer[n] \in Answers /\ answer[n].entry \in Entries
         /\ (Received + n) - 1 \in Received .. Taken - 1
         /\ answer[n].entry = ((Received + n) - 1) % OutputFIFO
<1>1. answer \in Seq(Answers)
  BY DEF IInv, Typed, CacheTyped
<1>2. answer[n] \in Answers
  BY <1>1
<1>3. n \in 1 .. Len(answer) /\ Len(answer) \in Nat
  BY Lengths
<1>4. (Received + n) - 1 \in Received .. Taken - 1
  BY <1>3, TakenIs
<1>5. Received + n - 1 = (Received + n) - 1
  BY <1>3, TakenIs
<1>6. answer[n].entry = (Received + n - 1) % OutputFIFO
  BY DEF IInv, Ring
<1> QED BY <1>2, <1>4, <1>5, <1>6 DEF Answers

LEMMA AnswersApart ==
  ASSUME IInv, NEW m \in DOMAIN answer, NEW n \in DOMAIN answer, answer[m].entry = answer[n].entry
  PROVE  m = n
<1> DEFINE j == (Received + m) - 1
           k == (Received + n) - 1
<1>1. j \in Received .. Taken - 1 /\ k \in Received .. Taken - 1 /\ j % OutputFIFO = k % OutputFIFO
  BY AnswerEntry
<1> HIDE DEF j, k
<1>2. /\ j \in Int /\ k \in Int /\ sent <= j /\ sent <= k
      /\ j < sent + OutputFIFO /\ k < sent + OutputFIFO
  <2>1. /\ sent \in Nat /\ Received \in Nat /\ Taken \in Nat /\ fetched \in Nat /\ OutputFIFO \in Nat
        /\ sent <= Received /\ Taken <= fetched /\ fetched <= sent + OutputFIFO
    BY TakenIs, Sizes
  <2>2. j \in Int /\ k \in Int /\ Received <= j /\ Received <= k /\ j < Taken /\ k < Taken
    BY <1>1, <2>1
  <2> QED BY <2>1, <2>2
<1>3. j = k
  BY <1>1, <1>2, RingApart
<1>4. m \in Nat /\ n \in Nat
  BY Lengths
<1>5. Received \in Nat
  BY TakenIs
<1>6. j = k => m = n
  BY <1>4, <1>5 DEF j, k
<1> QED BY <1>3, <1>6

\* The FIFO with the answers of the cycle.
LEMMA QueueIs ==
  ASSUME IInv, Streaming
  PROVE  /\ FifoNow \in [Entries -> Outputs \cup {NoOutput}]
         /\ \A n \in DOMAIN answer : FifoNow[answer[n].entry] = ShadedOutput(answer[n])
         /\ \A e \in Entries : FifoNow[e] # NoOutput <=> \E k \in sent .. Taken - 1 : e = k % OutputFIFO
         /\ \A e \in Entries : fifo[e] # NoOutput => FifoNow[e] = fifo[e]
         /\ \A n \in DOMAIN answer : fifo[answer[n].entry] = NoOutput
<1>1. /\ fifo \in [Entries -> Outputs \cup {NoOutput}]
      /\ \A e \in Entries : fifo[e] # NoOutput <=> \E k \in sent .. Received - 1 : e = k % OutputFIFO
  BY DEF IInv, Typed, CommitTyped, Ring
<1> DEFINE Answered(e) == \E n \in DOMAIN answer : answer[n].entry = e
           The(e) == CHOOSE n \in DOMAIN answer : answer[n].entry = e
<1>2. FifoNow = [e \in Entries |-> IF Answered(e) THEN ShadedOutput(answer[The(e)]) ELSE fifo[e]]
  <2>1. CASE answer = <<>>
    <3>1. DOMAIN answer = {}
      BY <2>1
    <3>2. \A e \in Entries : ~Answered(e)
      BY <3>1
    <3>3. FifoNow = fifo
      BY <2>1 DEF FifoNow
    <3> HIDE DEF Answered, The
    <3> QED BY <1>1, <3>2, <3>3
  <2>2. CASE answer # <<>>
    BY <2>2 DEF FifoNow
  <2> QED BY <2>1, <2>2
<1>3. ASSUME NEW n \in DOMAIN answer PROVE Answered(answer[n].entry) /\ The(answer[n].entry) = n
  <2>1. The(answer[n].entry) \in DOMAIN answer /\ answer[The(answer[n].entry)].entry = answer[n].entry
    OBVIOUS
  <2> HIDE DEF The
  <2> QED BY <2>1, AnswersApart
<1>4. ASSUME NEW n \in DOMAIN answer PROVE ShadedOutput(answer[n]) \in Outputs /\ ShadedOutput(answer[n]) # NoOutput
  <2>1. answer[n].index \in Index /\ answer[n].line \in Lines
    BY AnswerEntry DEF Answers
  <2>2. (~Loaded(answer[n])) \in BOOLEAN
    OBVIOUS
  <2>3. ShadedOutput(answer[n]).index = answer[n].index
    BY DEF ShadedOutput
  <2>4. NoOutput.index = NoIndex
    BY DEF NoOutput
  <2> QED BY <2>1, <2>2, <2>3, <2>4, Sizes DEF ShadedOutput, Outputs
<1>5. ASSUME NEW e \in Entries, Answered(e)
      PROVE  The(e) \in DOMAIN answer /\ answer[The(e)].entry = e
  BY <1>5
<1> HIDE DEF The
<1>6. \A n \in DOMAIN answer : FifoNow[answer[n].entry] = ShadedOutput(answer[n])
  <2> TAKE n \in DOMAIN answer
  <2>1. answer[n].entry \in Entries
    BY AnswerEntry
  <2> HIDE DEF Answered
  <2> QED BY <1>2, <1>3, <2>1
<1>7. FifoNow \in [Entries -> Outputs \cup {NoOutput}]
  <2>1. \A e \in Entries : Answered(e) => ShadedOutput(answer[The(e)]) \in Outputs
    BY <1>4, <1>5
  <2> HIDE DEF Answered
  <2> QED BY <1>1, <1>2, <2>1
<1>8. \A n \in DOMAIN answer : fifo[answer[n].entry] = NoOutput
  <2> TAKE n \in DOMAIN answer
  <2>0. answer[n].entry \in Entries
    BY AnswerEntry
  <2> SUFFICES ASSUME NEW k \in sent .. Received - 1, answer[n].entry = k % OutputFIFO PROVE FALSE
    BY <1>1, <2>0
  <2> DEFINE j == (Received + n) - 1
  <2>1. j \in Received .. Taken - 1 /\ k % OutputFIFO = j % OutputFIFO
    BY AnswerEntry
  <2> HIDE DEF j
  <2>2. /\ sent \in Nat /\ Received \in Nat /\ Taken \in Nat /\ fetched \in Nat /\ OutputFIFO \in Nat
        /\ sent <= Received /\ Received <= Taken /\ Taken <= fetched /\ fetched <= sent + OutputFIFO
    BY TakenIs, Sizes
  <2>3. j \in Int /\ k \in Int /\ Received <= j /\ sent <= k /\ k < Received /\ j < Taken
    BY <2>1, <2>2
  <2>4. sent <= j /\ j < sent + OutputFIFO /\ k < sent + OutputFIFO /\ k < j
    BY <2>2, <2>3
  <2>5. j = k
    BY <2>1, <2>3, <2>4, RingApart
  <2> QED BY <2>3, <2>4, <2>5
<1>9. \A e \in Entries : fifo[e] # NoOutput => FifoNow[e] = fifo[e]
  <2> TAKE e \in Entries
  <2>1. fifo[e] # NoOutput => ~Answered(e)
    BY <1>8
  <2> HIDE DEF Answered
  <2> QED BY <1>2, <2>1
<1>10. ASSUME NEW e \in Entries
       PROVE  FifoNow[e] # NoOutput <=> \E k \in sent .. Taken - 1 : e = k % OutputFIFO
  <2>2. /\ sent \in Nat /\ Received \in Nat /\ Taken \in Nat /\ Received + Len(answer) = Taken
        /\ sent <= Received /\ Received <= Taken /\ Len(answer) \in Nat /\ DOMAIN answer = 1 .. Len(answer)
    BY TakenIs, Lengths
  <2>1. Answered(e) <=> \E k \in Received .. Taken - 1 : e = k % OutputFIFO
    <3>1. ASSUME NEW k \in Received .. Taken - 1 PROVE \E n \in DOMAIN answer : (Received + n) - 1 = k
      <4>1. (k - Received) + 1 \in DOMAIN answer /\ (Received + ((k - Received) + 1)) - 1 = k
        BY <2>2
      <4> QED BY <4>1
    <3> QED BY <3>1, AnswerEntry
  <2>3. FifoNow[e] # NoOutput <=> Answered(e) \/ fifo[e] # NoOutput
    <3>1. CASE Answered(e)
      <4>1. ShadedOutput(answer[The(e)]) # NoOutput
        BY <1>4, <1>5, <3>1
      <4> HIDE DEF Answered
      <4> QED BY <1>2, <3>1, <4>1
    <3>2. CASE ~Answered(e)
      <4> HIDE DEF Answered
      <4> QED BY <1>2, <3>2
    <3> QED BY <3>1, <3>2
  <2>4. \A k : k \in sent .. Taken - 1 <=> k \in sent .. Received - 1 \/ k \in Received .. Taken - 1
    BY <2>2
  <2> HIDE DEF Answered
  <2>5. fifo[e] # NoOutput <=> \E k \in sent .. Received - 1 : e = k % OutputFIFO
    BY <1>1
  <2> QED BY <2>1, <2>3, <2>4, <2>5
<1> QED BY <1>6, <1>7, <1>8, <1>9, <1>10

\* The last uses with the answers of the cycle: every answer that shares no
\* line adds one.
LinesNowUsed == { l \in Lines : LastUseNow[l] # NoEntry }

LEMMA UsesIs ==
  ASSUME IInv
  PROVE  /\ LastUseNow \in [Lines -> Entries \cup {NoEntry}]
         /\ IsFiniteSet(LinesNowUsed) /\ IsFiniteSet(UsedLines) /\ IsFiniteSet(SharedLines)
         /\ Cardinality(LinesNowUsed) \in Nat /\ Cardinality(UsedLines) \in Nat
         /\ Cardinality(SharedLines) \in Nat
         /\ Cardinality(LinesNowUsed) + Cardinality(SharedLines) = Cardinality(UsedLines) + Len(answer)
<1>1. lastUse \in [Lines -> Entries \cup {NoEntry}] /\ NoEntry \notin Entries
  BY Sizes DEF IInv, Typed, CommitTyped
<1>2. DOMAIN answer = 1 .. Len(answer) /\ Len(answer) \in Nat
  BY Lengths
<1>3. \A n \in DOMAIN answer : answer[n].entry \in Entries /\ answer[n].line \in Lines
  BY AnswerEntry DEF Answers
<1> DEFINE last(l) == CHOOSE n \in UsesOf(l) : \A m \in UsesOf(l) : m <= n
<1>4. ASSUME NEW l \in Lines, UsesOf(l) # {} PROVE last(l) \in DOMAIN answer
  <2> DEFINE U == UsesOf(l)
  <2>1. U \subseteq 0 .. Len(answer) /\ U # {} /\ U \subseteq DOMAIN answer
    BY <1>2, <1>4 DEF UsesOf
  <2> HIDE DEF U
  <2>2. \E n \in U : \A m \in U : m <= n
    BY <1>2, <2>1, GreatestElement
  <2>3. (CHOOSE n \in U : \A m \in U : m <= n) \in U
    BY <2>2
  <2> QED BY <2>1, <2>3 DEF U
<1>5. LastUseNow = [l \in Lines |-> IF UsesOf(l) = {} THEN lastUse[l] ELSE answer[last(l)].entry]
  BY DEF LastUseNow
<1>6. \A l \in Lines : UsesOf(l) # {} => answer[last(l)].entry \in Entries
  BY <1>3, <1>4
<1> HIDE DEF last
<1>7. LastUseNow \in [Lines -> Entries \cup {NoEntry}]
  BY <1>1, <1>5, <1>6
<1>8. \A l \in Lines : LastUseNow[l] # NoEntry <=> lastUse[l] # NoEntry \/ UsesOf(l) # {}
  BY <1>1, <1>5, <1>6
<1> DEFINE A == DOMAIN answer
           S == SharedLines
           N == A \ S
           U == UsedLines
           V == LinesNowUsed
           f == [n \in N |-> answer[n].line]
<1>9. IsFiniteSet(V) /\ IsFiniteSet(U) /\ U \subseteq V
  <2>1. IsFiniteSet(Lines)
    BY Sizes, FS_Interval
  <2>2. V \subseteq Lines /\ U \subseteq Lines
    BY DEF LinesNowUsed, UsedLines
  <2>3. U \subseteq V
    BY <1>8 DEF LinesNowUsed, UsedLines
  <2> HIDE DEF U, V
  <2> QED BY <2>1, <2>2, <2>3, FS_Subset
<1>10. IsFiniteSet(A) /\ Cardinality(A) = Len(answer) /\ S \subseteq A
  <2>1. answer \in Seq(Answers)
    BY DEF IInv, Typed, CacheTyped
  <2>2. IsFiniteSet(A) /\ Cardinality(A) = Len(answer)
    BY <2>1, DomainIs
  <2>3. S \subseteq A
    BY DEF SharedLines
  <2> QED BY <2>2, <2>3
<1>11. \A n \in N : /\ n \in A /\ lastUse[answer[n].line] = NoEntry
                    /\ \A m \in A : m < n => answer[m].line # answer[n].line
  BY DEF SharedLines
<1>12. f \in [N -> V \ U]
  <2>1. \A n \in N : answer[n].line \in V \ U
    <3> TAKE n \in N
    <3>1. answer[n].line \in Lines /\ lastUse[answer[n].line] = NoEntry /\ n \in UsesOf(answer[n].line)
      BY <1>3, <1>11 DEF UsesOf
    <3> QED BY <1>8, <3>1 DEF LinesNowUsed, UsedLines
  <2> HIDE DEF N, U, V
  <2> QED BY <2>1
<1>13. \A m, n \in N : f[m] = f[n] => m = n
  <2> TAKE m, n \in N
  <2>1. m \in Nat /\ n \in Nat
    BY <1>2, <1>11
  <2>2. f[m] = answer[m].line /\ f[n] = answer[n].line
    OBVIOUS
  <2>3. /\ m < n => answer[m].line # answer[n].line
        /\ n < m => answer[n].line # answer[m].line
    BY <1>11
  <2> HIDE DEF N, f
  <2> QED BY <2>1, <2>2, <2>3
<1>14. \A l \in V \ U : \E n \in N : f[n] = l
  <2> TAKE l \in V \ U
  <2>1. l \in Lines /\ lastUse[l] = NoEntry /\ UsesOf(l) # {}
    BY <1>8 DEF LinesNowUsed, UsedLines
  <2>2. UsesOf(l) \subseteq Nat /\ UsesOf(l) \subseteq A
    BY <1>2 DEF UsesOf
  <2>3. PICK n \in UsesOf(l) : \A m \in UsesOf(l) : n <= m
    BY <2>1, <2>2, LeastElement
  <2>4. n \in A /\ answer[n].line = l /\ n \in Nat
    BY <2>2 DEF UsesOf
  <2>5. \A m \in A : m < n => answer[m].line # l
    <3> TAKE m \in A
    <3>1. answer[m].line = l => n <= m
      BY <2>3 DEF UsesOf
    <3> QED BY <1>2, <2>4, <3>1
  <2>6. n \in N
    BY <2>1, <2>4, <2>5 DEF SharedLines
  <2> QED BY <2>4, <2>6
<1> HIDE DEF A, S, N, U, V, f
<1>15. IsFiniteSet(N) /\ Cardinality(N) = Cardinality(A) - Cardinality(S)
  <2>1. IsFiniteSet(A \ S) /\ Cardinality(A \ S) = Cardinality(A) - Cardinality(A \cap S)
    BY <1>10, FS_Difference
  <2>2. A \cap S = S
    BY <1>10
  <2> QED BY <2>1, <2>2 DEF N
<1>16. Cardinality(V \ U) = Cardinality(N)
  <2> DEFINE W == V \ U
  <2> HIDE DEF W
  <2>1. f \in [N -> W] /\ \A l \in W : \E n \in N : f[n] = l
    BY <1>12, <1>14 DEF W
  <2>2. Cardinality(W) = Cardinality(N)
    BY <1>13, <1>15, <2>1, SameSize
  <2> QED BY <2>2 DEF W
<1>17. Cardinality(V \ U) = Cardinality(V) - Cardinality(U)
  <2>1. Cardinality(V \ U) = Cardinality(V) - Cardinality(V \cap U)
    BY <1>9, FS_Difference
  <2>2. V \cap U = U
    BY <1>9
  <2> QED BY <2>1, <2>2
<1>18. /\ IsFiniteSet(S) /\ Cardinality(S) \in Nat /\ Cardinality(U) \in Nat /\ Cardinality(V) \in Nat
       /\ Cardinality(A) \in Nat
  BY <1>9, <1>10, FS_Subset, FS_CardinalityType
<1>19. Cardinality(V) + Cardinality(S) = Cardinality(U) + Len(answer)
  BY <1>2, <1>10, <1>15, <1>16, <1>17, <1>18
<1> QED BY <1>7, <1>9, <1>18, <1>19 DEF U, V, S

\* The vertices that are sent: they were received, and are in entries of their own.
LEMMA OutputsAre ==
  ASSUME IInv, NEW c \in Nat, c <= OutputFIFO
  PROVE  /\ NextOutputs(c) \in Seq(Entries) /\ Len(NextOutputs(c)) = c
         /\ Distinct(NextOutputs(c))
         /\ \A e : e \in Elements(NextOutputs(c)) <=> \E j \in sent .. (sent + c) - 1 : e = j % OutputFIFO
<1> DEFINE o == NextOutputs(c)
<1>1. sent \in Nat /\ OutputFIFO \in Nat
  BY Lengths, Sizes
<1>2. \A m \in 1 .. c : sent + m - 1 = (sent + m) - 1 /\ (sent + m) - 1 \in sent .. (sent + c) - 1
  BY <1>1
<1>3. /\ o = [m \in 1 .. c |-> (sent + m - 1) % OutputFIFO]
  BY DEF NextOutputs
<1>4. o \in [1 .. c -> Entries] /\ \A m \in 1 .. c : o[m] = ((sent + m) - 1) % OutputFIFO
  <2>1. \A m \in 1 .. c : (sent + m - 1) % OutputFIFO \in Entries
    BY <1>1, EntryIs
  <2> HIDE DEF o
  <2> QED BY <1>2, <1>3, <2>1
<1> HIDE DEF o
<1>5. o \in Seq(Entries) /\ Len(o) = c /\ DOMAIN o = 1 .. c
  BY <1>4
<1>6. ASSUME NEW m \in 1 .. c, NEW n \in 1 .. c, o[m] = o[n] PROVE m = n
  <2> DEFINE j == (sent + m) - 1
             k == (sent + n) - 1
  <2>1. j % OutputFIFO = k % OutputFIFO
    BY <1>4, <1>6
  <2>2. /\ j \in Int /\ k \in Int /\ sent <= j /\ sent <= k
        /\ j < sent + OutputFIFO /\ k < sent + OutputFIFO
    BY <1>1
  <2>3. j = k => m = n
    BY <1>1
  <2> HIDE DEF j, k
  <2> QED BY <2>1, <2>2, <2>3, RingApart
<1>7. Distinct(o)
  BY <1>5, <1>6 DEF Distinct
<1>8. ASSUME NEW j \in sent .. (sent + c) - 1 PROVE \E m \in 1 .. c : (sent + m) - 1 = j
  <2>1. (j - sent) + 1 \in 1 .. c /\ (sent + ((j - sent) + 1)) - 1 = j
    BY <1>1
  <2> QED BY <2>1
<1>9. ASSUME NEW e PROVE e \in Elements(o) <=> \E j \in sent .. (sent + c) - 1 : e = j % OutputFIFO
  <2>1. e \in Elements(o) <=> \E m \in 1 .. c : o[m] = e
    BY <1>5 DEF Elements
  <2> QED BY <1>2, <1>4, <1>8, <2>1
<1> QED BY <1>5, <1>7, <1>9 DEF o

LEMMA SendingIs ==
  ASSUME IInv, Streaming
  PROVE  /\ Sending(FifoNow) \in Nat /\ Sending(FifoNow) <= RequestsNow
         /\ Sending(FifoNow) <= OutputFIFO /\ sent + Sending(FifoNow) <= Taken
         /\ \A e \in Elements(NextOutputs(Sending(FifoNow))) : FifoNow[e].shaded
<1> DEFINE q == FifoNow
           R == { n \in 0 .. VerticesCycle : Sendable(n, q) }
           k == Sending(q)
<1>1. 0 \in R
  <2>1. IsFiniteSet(FreeBuses) /\ Cardinality(FreeBuses) \in Nat
    <3>1. IsFiniteSet(Buses)
      BY Sizes, FS_Interval DEF Buses
    <3>2. FreeBuses \subseteq Buses
      BY DEF FreeBuses
    <3> QED BY <3>1, <3>2, FS_Subset, FS_CardinalityType
  <2>2. RequestsNow \in Nat
    BY DEF IInv, Typed, CommitTyped, RequestsNow
  <2>3. Elements(NextOutputs(0)) = {}
    BY DEF Elements, NextOutputs
  <2> QED BY <2>1, <2>2, <2>3, Sizes DEF Sendable
<1>2. \E n \in R : \A m \in R : m <= n
  <2> HIDE DEF R
  <2>1. R \subseteq 0 .. VerticesCycle
    BY DEF R
  <2> QED BY <1>1, <2>1, Sizes, GreatestElement
<1>3. k \in 0 .. VerticesCycle /\ Sendable(k, q)
  <2>1. \E n \in 0 .. VerticesCycle :
          /\ Sendable(n, q)
          /\ \A m \in 0 .. VerticesCycle : Sendable(m, q) => m <= n
    BY <1>2
  <2> QED BY <2>1 DEF Sending
<1> HIDE DEF k, q, R
<1>4. /\ k \in Nat /\ k <= RequestsNow /\ k <= OutputFIFO
      /\ \A e \in Elements(NextOutputs(k)) : q[e].shaded
  BY <1>3, Sizes DEF Sendable
<1>5. sent + k <= Taken
  <2> SUFFICES ASSUME ~(sent + k <= Taken) PROVE FALSE
    OBVIOUS
  <2> DEFINE e == Taken % OutputFIFO
  <2>1. sent \in Nat /\ Taken \in Nat /\ sent <= Taken /\ Taken < sent + k
    BY <1>4, TakenIs
  <2>2. Taken \in sent .. (sent + k) - 1 /\ e \in Entries
    BY <1>4, <2>1, EntryIs
  <2>3. e \in Elements(NextOutputs(k))
    BY <1>4, <2>2, OutputsAre
  <2> HIDE DEF e
  <2>4. q[e].shaded
    BY <1>4, <2>3
  <2>5. q[e] # NoOutput
    BY <2>4 DEF NoOutput
  <2>6. PICK j \in sent .. Taken - 1 : e = j % OutputFIFO
    BY <2>2, <2>5, QueueIs DEF q
  <2>7. j \in Int /\ sent <= j /\ j < Taken
    BY <2>1, <2>6
  <2>8. Taken < sent + OutputFIFO /\ j < sent + OutputFIFO
    BY <1>4, <2>1, <2>7, Sizes
  <2>9. j = Taken
    BY <2>1, <2>6, <2>7, <2>8, RingApart DEF e
  <2> QED BY <2>1, <2>7, <2>9
<1> QED BY <1>4, <1>5 DEF k, q

\* The entries sent, the ones of them that are the last to use their line,
\* those lines, and the lines of the last cycle that no answer uses again.
Outs == NextOutputs(Sending(FifoNow))
LastOuts == LastUses(Outs, FifoNow, LastUseNow)
LinesOut == [n \in DOMAIN LastOuts |-> FifoNow[LastOuts[n]].line]
Safe == Only([m \in DOMAIN freed |-> m], DOMAIN freed \ Revived)

LEMMA OutsAre ==
  ASSUME IInv, Streaming
  PROVE  /\ Outs \in Seq(Entries) /\ Len(Outs) = Sending(FifoNow) /\ Distinct(Outs)
         /\ \A e : e \in Elements(Outs) <=>
                     \E j \in sent .. (sent + Len(Outs)) - 1 : e = j % OutputFIFO
         /\ \A e \in Elements(Outs) : e \in Entries /\ FifoNow[e] \in Outputs
         /\ Len(Outs) \in Nat /\ Len(Outs) <= RequestsNow /\ sent + Len(Outs) <= Taken
<1> DEFINE k == Sending(FifoNow)
<1>1. /\ k \in Nat /\ k <= RequestsNow /\ k <= OutputFIFO /\ sent + k <= Taken
      /\ \A e \in Elements(NextOutputs(k)) : FifoNow[e].shaded
  BY SendingIs
<1>2. Outs = NextOutputs(k)
  BY DEF Outs
<1> HIDE DEF k
<1>3. /\ Outs \in Seq(Entries) /\ Len(Outs) = k /\ Distinct(Outs)
      /\ \A e : e \in Elements(Outs) <=> \E j \in sent .. (sent + k) - 1 : e = j % OutputFIFO
  BY <1>1, <1>2, OutputsAre
<1>4. \A e \in Elements(Outs) : e \in Entries
  BY <1>3, DomainIs
<1>5. \A e \in Elements(Outs) : FifoNow[e] \in Outputs
  <2> TAKE e \in Elements(Outs)
  <2>1. FifoNow[e].shaded
    BY <1>1, <1>2
  <2>2. FifoNow[e] # NoOutput
    BY <2>1 DEF NoOutput
  <2> QED BY <1>4, <2>2, QueueIs
<1> QED BY <1>1, <1>3, <1>4, <1>5 DEF k

LEMMA LinesOutAre ==
  ASSUME IInv, Streaming
  PROVE  /\ LastOuts \in Seq(Entries) /\ DOMAIN LinesOut = DOMAIN LastOuts
         /\ \A n \in DOMAIN LastOuts : FifoNow[LastOuts[n]] \in Outputs
         /\ LinesOut \in Seq(Lines) /\ Distinct(LinesOut)
         /\ \A l \in Elements(LinesOut) : LastUseNow[l] # NoEntry
<1> DEFINE K == { e \in Entries : LastUseNow[FifoNow[e].line] = e }
<1>1. LastOuts = Only(Outs, K)
  BY DEF LastOuts, LastUses
<1>2. /\ Outs \in Seq(Entries) /\ Distinct(Outs)
      /\ \A e \in Elements(Outs) : e \in Entries /\ FifoNow[e] \in Outputs
  BY OutsAre
<1>3. \A e \in K : LastUseNow[FifoNow[e].line] = e /\ e \in Entries
  OBVIOUS
<1> HIDE DEF K
<1>4. /\ LastOuts \in Seq(Entries) /\ Distinct(LastOuts)
      /\ \A x : x \in Elements(LastOuts) <=> x \in Elements(Outs) /\ x \in K
  BY <1>1, <1>2, OnlyIs
<1>5. \A n \in DOMAIN LastOuts : LastOuts[n] \in Elements(LastOuts)
  BY DEF Elements
<1>6. \A n \in DOMAIN LastOuts : /\ FifoNow[LastOuts[n]] \in Outputs
                                 /\ LastUseNow[FifoNow[LastOuts[n]].line] = LastOuts[n]
                                 /\ LastOuts[n] \in Entries
  BY <1>2, <1>3, <1>4, <1>5
<1>7. DOMAIN LastOuts = 1 .. Len(LastOuts) /\ Len(LastOuts) \in Nat
  BY <1>4
<1>8. /\ DOMAIN LinesOut = DOMAIN LastOuts
      /\ \A n \in DOMAIN LastOuts : LinesOut[n] = FifoNow[LastOuts[n]].line
  BY DEF LinesOut
<1>9. LinesOut \in Seq(Lines)
  <2>1. \A n \in DOMAIN LastOuts : LinesOut[n] \in Lines
    BY <1>6, <1>8 DEF Outputs
  <2>2. LinesOut \in [1 .. Len(LastOuts) -> Lines]
    BY <1>7, <2>1 DEF LinesOut
  <2> QED BY <1>7, <2>2
<1>10. Distinct(LinesOut)
  <2>1. ASSUME NEW m \in DOMAIN LastOuts, NEW n \in DOMAIN LastOuts, LinesOut[m] = LinesOut[n] PROVE m = n
    <3>1. LastOuts[m] = LastOuts[n]
      BY <1>6, <1>8, <2>1
    <3> QED BY <1>4, <3>1 DEF Distinct
  <2> QED BY <1>8, <2>1 DEF Distinct
<1>11. \A l \in Elements(LinesOut) : LastUseNow[l] # NoEntry
  <2>1. NoEntry \notin Entries
    BY Sizes
  <2>2. \A n \in DOMAIN LinesOut : LastUseNow[LinesOut[n]] \in Entries
    BY <1>6, <1>8
  <2> QED BY <2>1, <2>2 DEF Elements
<1> QED BY <1>4, <1>6, <1>8, <1>9, <1>10, <1>11

LEMMA CommitUnfolded ==
  ASSUME CommitOutputs
  PROVE  /\ commit = "STREAMING"
         /\ sent' = sent + Len(Outs)
         /\ commit' = IF Outs # <<>> /\ sent' = Len(stream) THEN "FINISHED" ELSE "STREAMING"
         /\ requests' = RequestsNow - Len(Outs)
         /\ fifo' = [e \in Entries |->
                       IF e \in Elements(Outs) THEN NoOutput
                       ELSE IF \E i \in Done : i.entry = e
                       THEN [FifoNow[e] EXCEPT !.shaded = TRUE]
                       ELSE FifoNow[e]]
         /\ memory' = [l \in Lines |->
                         IF \E i \in { i \in Done : ~i.killed } : FifoNow[i.entry].line = l
                         THEN (CHOOSE i \in { i \in Done : ~i.killed } : FifoNow[i.entry].line = l).index
                         ELSE memory[l]]
         /\ lastUse' = [l \in Lines |-> IF l \in Elements(LinesOut) THEN NoEntry ELSE LastUseNow[l]]
         /\ bus' = [b \in Buses |->
                      IF b \in FreeBuses /\ Rank(b) < Len(Outs) THEN TransCycles ELSE BusLeft[b]]
         /\ freed' = [n \in DOMAIN LastOuts |->
                        [index |-> FifoNow[LastOuts[n]].index, line |-> LinesOut[n]]]
         /\ dealloc' = LinesOut
         /\ confirm' = [n \in DOMAIN Safe |-> freed[Safe[n]].line]
         /\ already' = Cardinality(SharedLines) + Cardinality(Revived)
         /\ entryFreed' = Len(Outs)
BY DEF CommitOutputs, Outs, LastOuts, LinesOut, Safe

LEMMA FifoNext ==
  ASSUME IInv, Streaming, CommitOutputs
  PROVE  /\ fifo' \in [Entries -> Outputs \cup {NoOutput}]
         /\ \A e \in Entries : fifo'[e] # NoOutput <=>
              \E k \in sent' .. Taken - 1 : e = k % OutputFIFO
         /\ \A e \in Entries :
              FifoNow[e] # NoOutput /\ ~FifoNow[e].shaded /\ (\A i \in Done : i.entry # e)
                => fifo'[e] # NoOutput /\ ~fifo'[e].shaded
<1> DEFINE q == FifoNow
           DoneAt(e) == \E i \in Done : i.entry = e
           Shaded(e) == [q[e] EXCEPT !.shaded = TRUE]
<1>1. fifo' = [e \in Entries |-> IF e \in Elements(Outs) THEN NoOutput
                                 ELSE IF DoneAt(e) THEN Shaded(e) ELSE q[e]]
  BY CommitUnfolded
<1>2. /\ q \in [Entries -> Outputs \cup {NoOutput}]
      /\ \A e \in Entries : fifo[e] # NoOutput => q[e] = fifo[e]
      /\ \A e \in Entries : q[e] # NoOutput <=> \E k \in sent .. Taken - 1 : e = k % OutputFIFO
  BY QueueIs
<1>3. \A o \in Outputs : o # NoOutput
  BY Sizes DEF Outputs, NoOutput
<1>4. ASSUME NEW e \in Entries, DoneAt(e)
      PROVE  q[e] \in Outputs /\ Shaded(e) \in Outputs /\ q[e] # NoOutput /\ Shaded(e) # NoOutput
  <2>1. PICK i \in Done : i.entry = e
    BY <1>4
  <2>2. i \in shading
    BY <2>1 DEF Done
  <2>3. fifo[e] # NoOutput
    BY <2>1, <2>2 DEF IInv, OwnEntries, Waits
  <2>4. q[e] \in Outputs /\ q[e] # NoOutput
    BY <1>2, <2>3
  <2> HIDE DEF q
  <2>5. Shaded(e) \in Outputs
    BY <2>4 DEF Outputs
  <2> QED BY <1>3, <2>4, <2>5
<1> HIDE DEF q, DoneAt, Shaded
<1>5. fifo' \in [Entries -> Outputs \cup {NoOutput}]
  BY <1>1, <1>2, <1>4
<1>6. \A e \in Entries : fifo'[e] # NoOutput <=> e \notin Elements(Outs) /\ q[e] # NoOutput
  BY <1>1, <1>4
<1>7. ASSUME NEW e \in Entries
      PROVE  fifo'[e] # NoOutput <=> \E k \in sent' .. Taken - 1 : e = k % OutputFIFO
  <2> DEFINE c == Len(Outs)
  <2>1. /\ e \in Elements(Outs) <=> \E j \in sent .. (sent + c) - 1 : e = j % OutputFIFO
        /\ c \in Nat /\ sent + c <= Taken
    BY OutsAre
  <2>2. /\ sent \in Nat /\ Taken \in Nat /\ OutputFIFO \in Nat /\ Taken <= sent + OutputFIFO
    BY TakenIs, Sizes
  <2>3. sent' = sent + c
    BY CommitUnfolded
  <2>4. q[e] # NoOutput <=> \E k \in sent .. Taken - 1 : e = k % OutputFIFO
    BY <1>2
  <2> HIDE DEF c
  <2>5. /\ \A k : k \in sent .. Taken - 1 <=> k \in sent .. (sent + c) - 1 \/ k \in sent' .. Taken - 1
        /\ \A k \in sent .. Taken - 1 : k \in Int /\ sent <= k /\ k < sent + OutputFIFO
        /\ \A k \in sent .. (sent + c) - 1, j \in sent' .. Taken - 1 : k # j
    BY <2>1, <2>2, <2>3
  <2>6. \A k \in sent .. (sent + c) - 1, j \in sent' .. Taken - 1 : k % OutputFIFO # j % OutputFIFO
    BY <2>5, RingApart
  <2> QED BY <1>6, <2>1, <2>4, <2>5, <2>6
<1>8. ASSUME NEW e \in Entries, q[e] # NoOutput, ~q[e].shaded, ~DoneAt(e)
      PROVE  fifo'[e] # NoOutput /\ ~fifo'[e].shaded
  <2>1. e \notin Elements(Outs)
    BY <1>8, SendingIs DEF Outs, q
  <2>2. fifo'[e] = q[e]
    BY <1>1, <1>8, <2>1
  <2> QED BY <1>8, <2>2
<1> QED BY <1>5, <1>7, <1>8 DEF q, DoneAt

\* An answer that shares no line adds one to those in use, a line given back
\* leaves them.
LEMMA UsesNext ==
  ASSUME IInv, Streaming, CommitOutputs
  PROVE  /\ lastUse' \in [Lines -> Entries \cup {NoEntry}]
         /\ Cardinality(UsedLines') \in Nat
         /\ Cardinality(UsedLines') + Len(LinesOut) + Cardinality(SharedLines)
              = Cardinality(UsedLines) + Len(answer)
<1> DEFINE V == LinesNowUsed
           E == Elements(LinesOut)
           W == UsedLines'
<1>1. /\ LastUseNow \in [Lines -> Entries \cup {NoEntry}]
      /\ IsFiniteSet(V) /\ Cardinality(V) \in Nat
      /\ Cardinality(SharedLines) \in Nat /\ Cardinality(UsedLines) \in Nat
      /\ Cardinality(V) + Cardinality(SharedLines) = Cardinality(UsedLines) + Len(answer)
  BY UsesIs
<1>2. /\ LinesOut \in Seq(Lines) /\ Distinct(LinesOut)
      /\ \A l \in E : LastUseNow[l] # NoEntry
  BY LinesOutAre
<1>3. IsFiniteSet(E) /\ Cardinality(E) = Len(LinesOut) /\ E \subseteq Lines /\ Len(LinesOut) \in Nat
  BY <1>2, DistinctSize, DomainIs
<1>4. lastUse' = [l \in Lines |-> IF l \in E THEN NoEntry ELSE LastUseNow[l]]
  BY CommitUnfolded
<1>5. E \subseteq V
  BY <1>2, <1>3 DEF LinesNowUsed
<1>6. W = V \ E
  <2>1. W = { l \in Lines : lastUse'[l] # NoEntry }
    BY DEF UsedLines, NoEntry, Lines
  <2> HIDE DEF E
  <2> QED BY <1>4, <2>1 DEF LinesNowUsed
<1>7. lastUse' \in [Lines -> Entries \cup {NoEntry}]
  BY <1>1, <1>4
<1> HIDE DEF V, E, W
<1>8. Cardinality(W) = Cardinality(V) - Cardinality(E) /\ Cardinality(W) \in Nat
  <2>1. IsFiniteSet(V \ E) /\ Cardinality(V \ E) = Cardinality(V) - Cardinality(V \cap E)
    BY <1>1, FS_Difference
  <2>2. V \cap E = E
    BY <1>5
  <2>3. Cardinality(V \ E) \in Nat
    BY <2>1, FS_CardinalityType
  <2> QED BY <1>6, <2>1, <2>2, <2>3
<1>9. Cardinality(W) + Len(LinesOut) + Cardinality(SharedLines) = Cardinality(UsedLines) + Len(answer)
  <2> DEFINE u == Cardinality(UsedLines)
             s == Cardinality(SharedLines)
             a == Len(answer)
             v == Cardinality(V)
             w == Cardinality(W)
             d == Len(LinesOut)
  <2>1. u \in Nat /\ s \in Nat /\ a \in Nat /\ v \in Nat /\ w \in Nat /\ d \in Nat /\ v + s = u + a /\ w = v - d
    BY <1>1, <1>3, <1>8, Lengths
  <2> HIDE DEF u, s, a, v, w, d
  <2>2. w + d + s = u + a
    BY <2>1
  <2> QED BY <2>2 DEF u, s, a, w, d
<1> QED BY <1>7, <1>8, <1>9 DEF W

\* A line given back in the last cycle is either confirmed or used again.
LEMMA ConfirmNext ==
  ASSUME IInv, CommitOutputs, unconfirmed' = dealloc
  PROVE  /\ confirm' \in Seq(Lines) /\ Distinct(confirm')
         /\ Cardinality(Revived) \in Nat /\ Cardinality(Confirmed') \in Nat
         /\ Cardinality(Confirmed') + Cardinality(Revived) = Len(dealloc)
<1> DEFINE D == DOMAIN freed
           up == [m \in D |-> m]
           K == D \ Revived
<1>1. /\ freed \in Seq(Freed) /\ Distinct(LinesOf(freed)) /\ D = 1 .. Len(freed) /\ Len(freed) \in Nat
      /\ dealloc \in Seq(Lines) /\ Distinct(dealloc)
  BY Lengths DEF IInv, Typed, CommitTyped
<1>2. \A n \in D : freed[n].line \in Lines
  <2>1. \A n \in D : freed[n] \in Freed
    BY <1>1
  <2> QED BY <2>1 DEF Freed
<1>3. up \in Seq(Nat) /\ Distinct(up) /\ Elements(up) = D
  BY <1>1, UpToIs
<1>4. Safe = Only(up, K)
  BY DEF Safe
<1>5. Revived \subseteq D
  BY DEF Revived
<1>5a. { n \in DOMAIN up : up[n] \in K } = K
  OBVIOUS
<1> HIDE DEF K, up
<1>6. /\ Safe \in Seq(Nat) /\ Distinct(Safe)
      /\ \A x : x \in Elements(Safe) <=> x \in D /\ x \in K
      /\ Len(Safe) = Cardinality(K)
  BY <1>3, <1>4, <1>5a, OnlyIs
<1>7. DOMAIN Safe = 1 .. Len(Safe) /\ Len(Safe) \in Nat
  BY <1>6
<1>8. \A n \in DOMAIN Safe : Safe[n] \in D
  BY <1>6 DEF Elements
<1>9. confirm' = [n \in DOMAIN Safe |-> freed[Safe[n]].line]
  BY CommitUnfolded
<1>10. confirm' \in Seq(Lines) /\ DOMAIN confirm' = DOMAIN Safe /\ Len(confirm') = Cardinality(K)
  <2>1. confirm' \in [1 .. Len(Safe) -> Lines]
    BY <1>2, <1>7, <1>8, <1>9
  <2> QED BY <1>6, <1>7, <2>1
<1>11. Distinct(confirm')
  <2>1. \A m, n \in D : freed[m].line = freed[n].line => m = n
    BY <1>1 DEF Distinct, LinesOf
  <2>2. \A m, n \in DOMAIN Safe : confirm'[m] = confirm'[n] => Safe[m] = Safe[n]
    BY <1>8, <1>9, <2>1
  <2>3. \A m, n \in DOMAIN Safe : Safe[m] = Safe[n] => m = n
    BY <1>6 DEF Distinct
  <2> QED BY <1>10, <2>2, <2>3 DEF Distinct
<1>12. /\ IsFiniteSet(D) /\ Cardinality(D) = Len(freed) /\ IsFiniteSet(Revived)
       /\ Cardinality(Revived) \in Nat /\ Cardinality(K) = Len(freed) - Cardinality(Revived)
  <2> HIDE DEF D
  <2>1. IsFiniteSet(D) /\ Cardinality(D) = Len(freed)
    BY <1>1, DomainIs DEF D
  <2>2. IsFiniteSet(Revived) /\ Cardinality(Revived) \in Nat
    BY <1>5, <2>1, FS_Subset, FS_CardinalityType
  <2>3. Cardinality(D \ Revived) = Cardinality(D) - Cardinality(D \cap Revived)
    BY <2>1, FS_Difference
  <2>4. D \cap Revived = Revived
    BY <1>5
  <2> QED BY <2>1, <2>2, <2>3, <2>4 DEF K
<1>13. Confirmed' = Elements(confirm') \cap Elements(dealloc)
  BY DEF Confirmed, Elements
<1>14. commit = "STREAMING"
  BY CommitUnfolded
<1>15. CASE dealloc = LinesOf(freed)
  <2>1. Elements(confirm') \subseteq Elements(dealloc)
    BY <1>8, <1>9, <1>10, <1>15 DEF Elements, LinesOf
  <2>2. Confirmed' = Elements(confirm')
    BY <1>13, <2>1
  <2>3. Cardinality(Elements(confirm')) = Len(confirm')
    <3> DEFINE c == confirm'
    <3>1. c \in Seq(Lines) /\ Distinct(c)
      BY <1>10, <1>11
    <3> HIDE DEF c
    <3>2. Cardinality(Elements(c)) = Len(c)
      BY <3>1, DistinctSize
    <3> QED BY <3>2 DEF c
  <2>4. Len(dealloc) = Len(freed)
    BY <1>1, <1>15 DEF LinesOf
  <2>5. Len(confirm') \in Nat
    BY <1>10
  <2> QED BY <1>1, <1>10, <1>11, <1>12, <2>2, <2>3, <2>4, <2>5
<1>16. CASE answer = <<>> /\ dealloc = <<>>
  <2>1. DOMAIN answer = {} /\ DOMAIN dealloc = {} /\ Len(dealloc) = 0
    BY <1>16
  <2>2. Revived = {}
    BY <2>1 DEF Revived
  <2>3. Elements(dealloc) = {}
    BY <2>1 DEF Elements
  <2>4. Confirmed' = {}
    BY <1>13, <2>3
  <2>5. Cardinality({}) = 0
    BY FS_EmptySet
  <2> QED BY <1>10, <1>11, <2>1, <2>2, <2>4, <2>5
<1> QED BY <1>14, <1>15, <1>16 DEF IInv, FreedKept

LEMMA FreedNext ==
  ASSUME IInv, Streaming, CommitOutputs
  PROVE  /\ freed' \in Seq(Freed) /\ Distinct(LinesOf(freed')) /\ dealloc' = LinesOf(freed')
         /\ dealloc' \in Seq(Lines) /\ Distinct(dealloc') /\ dealloc' = LinesOut
<1>1. /\ LastOuts \in Seq(Entries) /\ DOMAIN LinesOut = DOMAIN LastOuts
      /\ \A n \in DOMAIN LastOuts : FifoNow[LastOuts[n]] \in Outputs
      /\ LinesOut \in Seq(Lines) /\ Distinct(LinesOut)
  BY LinesOutAre
<1>2. /\ freed' = [n \in DOMAIN LastOuts |->
                     [index |-> FifoNow[LastOuts[n]].index, line |-> LinesOut[n]]]
      /\ dealloc' = LinesOut
  BY CommitUnfolded
<1>3. DOMAIN LastOuts = 1 .. Len(LastOuts) /\ Len(LastOuts) \in Nat
  BY <1>1
<1>4. \A n \in DOMAIN LastOuts : FifoNow[LastOuts[n]].index \in Index /\ LinesOut[n] \in Lines
  BY <1>1 DEF Outputs
<1>5. freed' \in [1 .. Len(LastOuts) -> Freed]
  BY <1>2, <1>3, <1>4 DEF Freed
<1>6. freed' \in Seq(Freed)
  BY <1>3, <1>5
<1>7. LinesOf(freed') = LinesOut
  <2>1. DOMAIN freed' = DOMAIN LastOuts /\ \A n \in DOMAIN LastOuts : freed'[n].line = LinesOut[n]
    BY <1>2
  <2>2. LinesOf(freed') = [n \in DOMAIN LastOuts |-> LinesOut[n]]
    BY <2>1 DEF LinesOf
  <2>3. LinesOut = [n \in DOMAIN LastOuts |-> LinesOut[n]]
    BY <1>1
  <2> QED BY <2>2, <2>3
<1> QED BY <1>1, <1>2, <1>6, <1>7

LEMMA MemoryNext ==
  ASSUME IInv, Streaming, CommitOutputs
  PROVE  /\ memory' \in [Lines -> Index \cup {NoIndex}]
         /\ bus' \in [Buses -> 0 .. TransCycles]
         /\ sent' \in Nat /\ requests' \in Nat /\ entryFreed' \in Nat
<1>1. /\ memory \in [Lines -> Index \cup {NoIndex}] /\ bus \in [Buses -> 0 .. TransCycles]
      /\ shading \subseteq Inputs /\ requests \in Nat /\ request \in Nat /\ sent \in Nat
  BY DEF IInv, Typed, CommitTyped, LoaderTyped
<1> DEFINE W == { i \in Done : ~i.killed }
<1>2. \A i \in W : i.index \in Index
  BY <1>1 DEF Done, Inputs
<1>3. memory' = [l \in Lines |->
                   IF \E i \in W : FifoNow[i.entry].line = l
                   THEN (CHOOSE i \in W : FifoNow[i.entry].line = l).index
                   ELSE memory[l]]
  BY CommitUnfolded
<1> HIDE DEF W
<1>4. memory' \in [Lines -> Index \cup {NoIndex}]
  <2>1. ASSUME NEW l \in Lines, \E i \in W : FifoNow[i.entry].line = l
        PROVE  (CHOOSE i \in W : FifoNow[i.entry].line = l).index \in Index
    <3>1. (CHOOSE i \in W : FifoNow[i.entry].line = l) \in W
      BY <2>1
    <3> QED BY <1>2, <3>1
  <2> QED BY <1>1, <1>3, <2>1
<1>5. bus' \in [Buses -> 0 .. TransCycles]
  <2>1. BusLeft \in [Buses -> 0 .. TransCycles]
    BY <1>1, Sizes DEF BusLeft
  <2>2. bus' = [b \in Buses |->
                  IF b \in FreeBuses /\ Rank(b) < Len(Outs) THEN TransCycles ELSE BusLeft[b]]
    BY CommitUnfolded
  <2>3. TransCycles \in 0 .. TransCycles
    BY Sizes
  <2> QED BY <2>1, <2>2, <2>3
<1>6. Len(Outs) \in Nat /\ Len(Outs) <= RequestsNow
  BY OutsAre
<1>7. RequestsNow \in Nat
  BY <1>1 DEF RequestsNow
<1>8. sent' = sent + Len(Outs) /\ requests' = RequestsNow - Len(Outs) /\ entryFreed' = Len(Outs)
  BY CommitUnfolded
<1> QED BY <1>1, <1>4, <1>5, <1>6, <1>7, <1>8

\* Before START and after END Commit sends nothing.
CommitRests ==
  /\ already' = 0 /\ entryFreed' = 0
  /\ dealloc' = <<>> /\ confirm' = <<>> /\ freed' = freed

LEMMA CommitIs ==
  ASSUME IInv, CommitCycle
  PROVE  /\ commit = "STREAMING" => CommitOutputs
         /\ commit # "STREAMING" => CommitRests
         /\ commit = "READY" /\ command = "START" => CommitStart
         /\ commit = "READY" /\ command # "START" => CommitIdle
         /\ commit = "FINISHED" => CommitIdle
BY DEF CommitCycle, CommitStart, CommitOutputs, CommitIdle, CommitRests

-----------------------------------------------------------------------------
(* A step of all boxes.                                                    *)

Boxes ==
  /\ AssertionsHold
  /\ MainCycle /\ FetchCycle /\ CacheCycle /\ LoaderCycle /\ CommitCycle /\ AssemblyCycle

LEMMA Together ==
  ASSUME IInv
  PROVE  /\ Streaming <=> commit # "READY"
         /\ command = "START" => ~Streaming /\ main = "STREAMING"
         /\ command = "END" => fetch = "FINISHED" /\ commit = "FINISHED" /\ main = "READY"
         /\ Streaming /\ main = "READY" => command = "END"
         /\ main \in States /\ fetch \in States /\ commit \in States
         /\ command \in {"none", "START", "END"}
BY DEF IInv, Control, Streaming, Typed, ControlTyped, States

\* Before START nothing is loaded.
LEMMA Unloaded ==
  ASSUME IInv, LoaderCycle, ~Streaming
  PROVE  irq' = <<>> /\ inputFreed' = 0 /\ shading' = {}
<1>1. irq = <<>> /\ answer = <<>> /\ shading = {}
  BY DEF IInv, Gone
<1>2. Len(irq) = 0 /\ Len(answer) = 0
  BY <1>1
<1>3. PICK n \in 0 .. Len(irq), done \in SUBSET shading, load \in Seq(Answers) : Takes(n, done, load)
  BY LoaderIs
<1>4. /\ shading' = (shading \ done) \cup { irq[m] : m \in 1 .. n }
      /\ irq' \in Seq(Inputs) /\ inputFreed' \in Nat /\ Len(irq') + inputFreed' = Len(irq) + Len(answer)
  BY <1>3 DEF Takes
<1>5. n = 0
  BY <1>2
<1>6. shading' = {}
  BY <1>1, <1>4, <1>5
<1>7. Len(irq') = 0 /\ inputFreed' = 0
  BY <1>2, <1>4
<1>8. irq' = <<>>
  BY <1>4, <1>7
<1> QED BY <1>6, <1>7, <1>8

\* The states of the boxes after a step.
LEMMA StatesNext ==
  ASSUME IInv, FetchCycle, CommitCycle
  PROVE  /\ ~Streaming => fetch' = (IF command = "START" THEN "STREAMING" ELSE "READY")
                          /\ commit' = (IF command = "START" THEN "STREAMING" ELSE "READY")
         /\ fetch = "STREAMING" => fetch' \in {"STREAMING", "FINISHED"}
         /\ fetch = "FINISHED" => fetch' = (IF command = "END" THEN "READY" ELSE "FINISHED")
         /\ commit = "STREAMING" => commit' \in {"STREAMING", "FINISHED"}
         /\ commit = "FINISHED" => commit' = (IF command = "END" THEN "READY" ELSE "FINISHED")
<1>1. ASSUME ~Streaming
      PROVE  /\ fetch' = IF command = "START" THEN "STREAMING" ELSE "READY"
             /\ commit' = IF command = "START" THEN "STREAMING" ELSE "READY"
  <2>1. fetch = "READY" /\ commit = "READY" /\ command # "END"
    BY <1>1, Together DEF Streaming
  <2>2. fetch' = IF command = "START" THEN "STREAMING" ELSE "READY"
    BY <1>1, <2>1, FetchRests DEF fetchVars
  <2>3. commit' = IF command = "START" THEN "STREAMING" ELSE "READY"
    BY <2>1, CommitIs DEF CommitStart, CommitIdle
  <2> QED BY <2>2, <2>3
<1>2. ASSUME Streaming
      PROVE  fetch' = IF fetch = "FINISHED" THEN IF command = "END" THEN "READY" ELSE "FINISHED"
                      ELSE IF fetched' = Len(stream) THEN "FINISHED" ELSE "STREAMING"
  BY <1>2, FetchIs DEF Fetches
<1>3. commit = "STREAMING" => commit' \in {"STREAMING", "FINISHED"}
  BY CommitIs DEF CommitOutputs
<1>4. commit = "FINISHED" => commit' = IF command = "END" THEN "READY" ELSE "FINISHED"
  BY CommitIs DEF CommitIdle
<1> QED BY <1>1, <1>2, <1>3, <1>4 DEF Streaming

\* The stream changes between two batches.
LEMMA StreamNext ==
  ASSUME IInv, MainCycle, FetchCycle, CommitCycle
  PROVE  /\ stream' \in Seq(Index)
         /\ Streaming' => stream' = stream
         /\ Streaming' <=> (IF Streaming THEN command # "END" ELSE command = "START")
<1>1. stream' \in Seq(Index)
  BY StreamAssumption DEF MainCycle, Start, Finish, End, Wait, Silent, IInv, Typed, ControlTyped
<1>2. Streaming' <=> fetch' # "READY"
  BY DEF Streaming
<1>3. Streaming' <=> (IF Streaming THEN command # "END" ELSE command = "START")
  <2>1. CASE ~Streaming
    BY <1>2, <2>1, StatesNext
  <2>2. CASE Streaming
    BY <1>2, <2>2, StatesNext, Together DEF Streaming, States
  <2> QED BY <2>1, <2>2
<1>4. Streaming' => stream' = stream
  <2>1. Streaming' => main # "READY"
    BY <1>3, Together
  <2> QED BY <2>1 DEF MainCycle, Start, Finish, End, Wait, Silent
<1> QED BY <1>1, <1>3, <1>4

LEMMA ControlNext ==
  ASSUME IInv, MainCycle, FetchCycle, CommitCycle
  PROVE  Control' /\ main' \in States /\ fetch' \in States /\ commit' \in States
         /\ command' \in {"none", "START", "END"}
<1>1. CASE command = "START"
  <2>1. fetch = "READY" /\ main = "STREAMING" /\ ~Streaming
    BY <1>1, Together DEF Streaming
  <2>2. main' = "STREAMING" /\ command' = "none"
    BY <2>1 DEF MainCycle, Start, Finish, End, Wait, Silent, AllDone
  <2>3. fetch' = "STREAMING" /\ commit' = "STREAMING"
    BY <1>1, <2>1, StatesNext
  <2> QED BY <2>2, <2>3 DEF Control, States
<1>2. CASE command = "END"
  <2>1. fetch = "FINISHED" /\ commit = "FINISHED" /\ main = "READY"
    BY <1>2, Together
  <2>2. fetch' = "READY" /\ commit' = "READY"
    BY <1>2, <2>1, StatesNext
  <2>3. (main' = "STREAMING" /\ command' = "START") \/ (main' = "READY" /\ command' = "none")
    BY <2>1 DEF MainCycle, Start, Finish, End, Wait, Silent
  <2> QED BY <2>2, <2>3 DEF Control, States
<1>3. CASE command = "none" /\ main = "READY"
  <2>1. ~Streaming
    BY <1>3, Together
  <2>2. fetch' = "READY" /\ commit' = "READY"
    BY <1>3, <2>1, StatesNext
  <2>3. (main' = "STREAMING" /\ command' = "START") \/ (main' = "READY" /\ command' = "none")
    BY <1>3 DEF MainCycle, Start, Finish, End, Wait, Silent
  <2> QED BY <2>2, <2>3 DEF Control, States
<1>4. CASE command = "none" /\ main = "STREAMING"
  <2>1. fetch # "READY" /\ commit # "READY" /\ fetch \in States /\ commit \in States
    BY <1>4, Together DEF IInv, Control
  <2>2. fetch' \in {"STREAMING", "FINISHED"} /\ commit' \in {"STREAMING", "FINISHED"}
    BY <1>4, <2>1, StatesNext DEF States
  <2>3. CASE AllDone
    <3>1. fetch' = "FINISHED" /\ commit' = "FINISHED"
      BY <1>4, <2>3, StatesNext DEF AllDone
    <3>2. main' = "FINISHED" /\ command' = "none"
      BY <1>4, <2>3 DEF MainCycle, Start, Finish, End, Wait, Silent
    <3> QED BY <3>1, <3>2 DEF Control, States
  <2>4. CASE ~AllDone
    <3>1. main' = "STREAMING" /\ command' = "none"
      BY <1>4, <2>4 DEF MainCycle, Start, Finish, End, Wait, Silent
    <3> QED BY <2>2, <3>1 DEF Control, States
  <2> QED BY <2>3, <2>4
<1>5. CASE command = "none" /\ main = "FINISHED"
  <2>1. fetch = "FINISHED" /\ commit = "FINISHED"
    BY <1>5 DEF IInv, Control
  <2>2. fetch' = "FINISHED" /\ commit' = "FINISHED"
    BY <1>5, <2>1, StatesNext
  <2>3. (main' = "READY" /\ command' = "END") \/ (main' = "FINISHED" /\ command' = "none")
    BY <1>5 DEF MainCycle, Start, Finish, End, Wait, Silent
  <2> QED BY <2>2, <2>3 DEF Control, States
<1>6. main \in States /\ command \in {"none", "START", "END"}
  BY Together
<1> QED BY <1>1, <1>2, <1>3, <1>4, <1>5, <1>6 DEF States

\* When Commit sent the last vertex nothing is left before it.
LEMMA Drained ==
  ASSUME IInv, commit = "FINISHED"
  PROVE  /\ sent = Len(stream) /\ fetched = sent /\ Received = sent /\ Taken = sent
         /\ answer = <<>> /\ newIndex = <<>> /\ irq = <<>> /\ shading = {}
<1>0. Streaming
  BY Together
<1>1. sent = Len(stream) /\ fetched <= Len(stream)
  BY <1>0 DEF IInv, Ring
<1>2. /\ Taken \in Nat /\ Received + Len(answer) = Taken /\ Taken + Len(newIndex) = fetched
      /\ sent <= Received /\ Received <= Taken /\ Taken <= fetched
      /\ sent \in Nat /\ Received \in Nat /\ fetched \in Nat
      /\ Len(answer) \in Nat /\ Len(newIndex) \in Nat /\ Len(stream) \in Nat
  BY TakenIs, Lengths
<1>3. fetched = sent /\ Received = sent /\ Taken = sent /\ Len(answer) = 0 /\ Len(newIndex) = 0
  <2> DEFINE a == Len(answer)
             b == Len(newIndex)
             c == Len(stream)
  <2>1. /\ Taken \in Nat /\ Received + a = Taken /\ Taken + b = fetched
        /\ sent <= Received /\ Received <= Taken /\ Taken <= fetched
        /\ sent \in Nat /\ Received \in Nat /\ fetched \in Nat
        /\ a \in Nat /\ b \in Nat /\ c \in Nat /\ sent = c /\ fetched <= c
    BY <1>1, <1>2
  <2> HIDE DEF a, b, c
  <2>2. fetched = sent /\ Received = sent /\ Taken = sent /\ a = 0 /\ b = 0
    BY <2>1
  <2> QED BY <2>2 DEF a, b
<1>4. answer = <<>> /\ newIndex = <<>>
  BY <1>3 DEF IInv, Typed, CacheTyped, FetchTyped
<1>5. \A e \in Entries : fifo[e] = NoOutput
  <2>1. sent .. Received - 1 = {}
    BY <1>2, <1>3
  <2> QED BY <1>0, <2>1 DEF IInv, Ring
<1>6. irq \in Seq(Inputs) /\ shading \subseteq Inputs
  BY DEF IInv, Typed, LoaderTyped
<1>7. shading = {}
  BY <1>5, <1>6 DEF IInv, OwnEntries, Waits, Inputs
<1>8. irq = <<>>
  <2>1. ASSUME NEW n \in DOMAIN irq PROVE FALSE
    <3>1. irq[n] \in Inputs
      BY <1>6
    <3>2. irq[n].entry \in Entries
      BY <3>1 DEF Inputs
    <3> QED BY <1>5, <3>2 DEF IInv, OwnEntries, Waits
  <2>2. DOMAIN irq = 1 .. Len(irq) /\ Len(irq) \in Nat
    BY Lengths
  <2>3. Len(irq) = 0
    BY <2>1, <2>2
  <2> QED BY <1>6, <2>3
<1> QED BY <1>1, <1>3, <1>4, <1>7, <1>8

LEMMA UnloadedAfter ==
  ASSUME IInv, LoaderCycle, commit = "FINISHED"
  PROVE  irq' = <<>> /\ inputFreed' = 0 /\ shading' = {}
<1>1. irq = <<>> /\ answer = <<>> /\ shading = {}
  BY Drained
<1>2. Len(irq) = 0 /\ Len(answer) = 0
  BY <1>1
<1>3. PICK n \in 0 .. Len(irq), done \in SUBSET shading, load \in Seq(Answers) : Takes(n, done, load)
  BY LoaderIs
<1>4. /\ shading' = (shading \ done) \cup { irq[m] : m \in 1 .. n }
      /\ irq' \in Seq(Inputs) /\ inputFreed' \in Nat /\ Len(irq') + inputFreed' = Len(irq) + Len(answer)
  BY <1>3 DEF Takes
<1>5. n = 0
  BY <1>2
<1>6. shading' = {}
  BY <1>1, <1>4, <1>5
<1>7. Len(irq') = 0 /\ inputFreed' = 0
  BY <1>2, <1>4
<1>8. irq' = <<>>
  BY <1>4, <1>7
<1> QED BY <1>6, <1>7, <1>8

LEMMA FetchTypedNext ==
  ASSUME IInv, FetchCycle
  PROVE  FetchTyped'
<1>1. FetchTyped
  BY DEF IInv, Typed
<1>2. CASE ~Streaming /\ command = "START"
  <2>1. /\ fetched' = 0 /\ newIndex' = <<>>
        /\ freeLines' = OutputMemory /\ freeEntries' = OutputFIFO /\ freeInputs' = InputQueue
    BY <1>2, FetchRests
  <2> QED BY <2>1, Sizes DEF FetchTyped, NewIndices, Entries
<1>3. CASE ~Streaming /\ command # "START"
  <2>1. UNCHANGED fetchVars
    BY <1>3, FetchRests
  <2> QED BY <1>1, <2>1 DEF FetchTyped, fetchVars, NewIndices, Entries
<1>4. CASE Streaming
  <2> DEFINE c == Len(newIndex')
  <2>1. /\ newIndex' \in Seq(NewIndices) /\ fetched' = fetched + c
        /\ c <= LinesNow /\ c <= EntriesNow /\ c <= InputsNow
        /\ freeLines' = LinesNow - c /\ freeEntries' = EntriesNow - c /\ freeInputs' = InputsNow - c
    BY <1>4, FetchIs DEF Fetches
  <2>2. c \in Nat
    BY <2>1
  <2>3. /\ LinesNow \in Nat /\ EntriesNow \in Nat /\ InputsNow \in Nat
        /\ LinesNow <= OutputMemory /\ EntriesNow <= OutputFIFO /\ InputsNow <= InputQueue
        /\ fetched \in Nat
    BY <1>4, CountsAre, Lengths
  <2> HIDE DEF c
  <2>4. /\ fetched' \in Nat /\ freeLines' \in 0 .. OutputMemory
        /\ freeEntries' \in 0 .. OutputFIFO /\ freeInputs' \in 0 .. InputQueue
    BY <2>1, <2>2, <2>3, Sizes
  <2> QED BY <2>1, <2>4 DEF FetchTyped, NewIndices, Entries
<1> QED BY <1>2, <1>3, <1>4

LEMMA CacheTypedNext ==
  ASSUME IInv, CacheCycle, AssertionsHold
  PROVE  CacheTyped'
<1>1. CacheTyped
  BY DEF IInv, Typed
<1>2. CASE ~Streaming /\ command = "START"
  <2> DEFINE all == [n \in 1 .. OutputMemory |-> n - 1]
  <2>1. /\ tag' = [l \in Lines |-> NoIndex] /\ valid' = {}
        /\ freeList' = all
        /\ update' = {} /\ answer' = <<>> /\ unconfirmed' = unconfirmed
    BY <1>2, CacheRests
  <2>2. all \in Seq(Lines) /\ Distinct(all)
    <3>1. \A n \in 1 .. OutputMemory : n - 1 \in Lines
      BY Sizes
    <3>2. all \in Seq(Lines)
      BY <3>1, Sizes
    <3>3. Distinct(all)
      BY Sizes DEF Distinct
    <3> QED BY <3>2, <3>3
  <2> HIDE DEF all
  <2> QED BY <1>1, <2>1, <2>2 DEF CacheTyped, Lines, Distinct, Answers, Entries
<1>3. CASE ~Streaming /\ command # "START"
  <2>1. UNCHANGED cacheVars
    BY <1>3, CacheRests
  <2> QED BY <1>1, <2>1 DEF CacheTyped, cacheVars, Lines, Distinct, Answers, Entries
<1>4. CASE Streaming
  <2>1. Looks
    BY <1>4, CacheIs
  <2>2. dealloc \in Seq(Lines)
    BY DEF IInv, Typed, CommitTyped
  <2> QED BY <2>1, <2>2 DEF Looks, CacheTyped, Lines, Distinct, Answers, Entries
<1> QED BY <1>2, <1>3, <1>4

LEMMA LoaderTypedNext ==
  ASSUME IInv, LoaderCycle
  PROVE  LoaderTyped'
<1>1. irq \in Seq(Inputs) /\ shading \subseteq Inputs /\ DOMAIN irq = 1 .. Len(irq) /\ Len(irq) \in Nat
  BY Lengths DEF IInv, Typed, LoaderTyped
<1>2. PICK n \in 0 .. Len(irq), done \in SUBSET shading, load \in Seq(Answers) : Takes(n, done, load)
  BY LoaderIs
<1>3. \A m \in 1 .. n : irq[m] \in Inputs
  BY <1>1
<1>4. shading' \subseteq Inputs
  BY <1>1, <1>2, <1>3 DEF Takes
<1> QED BY <1>2, <1>4 DEF Takes, LoaderTyped, Inputs, Entries

LEMMA CommitTypedNext ==
  ASSUME IInv, Boxes
  PROVE  CommitTyped'
<1>1. CommitTyped
  BY DEF IInv, Typed
<1>2. request' \in Nat
  BY DEF Boxes, AssemblyCycle
<1>3. CommitCycle /\ CacheCycle
  BY DEF Boxes
<1>4. LinesOf(freed)' = LinesOf(freed')
  BY DEF LinesOf
<1>5. CASE commit = "STREAMING"
  <2>1. Streaming /\ CommitOutputs
    BY <1>3, <1>5, Together, CommitIs
  <2>2. unconfirmed' = dealloc
    BY <1>3, <2>1, CacheIs DEF Looks, Boxes
  <2>3. fifo' \in [Entries -> Outputs \cup {NoOutput}]
    BY <2>1, FifoNext
  <2>4. lastUse' \in [Lines -> Entries \cup {NoEntry}]
    BY <2>1, UsesNext
  <2>5. confirm' \in Seq(Lines) /\ Distinct(confirm') /\ Cardinality(Revived) \in Nat
    BY <2>1, <2>2, ConfirmNext
  <2>6. /\ freed' \in Seq(Freed) /\ Distinct(LinesOf(freed'))
        /\ dealloc' \in Seq(Lines) /\ Distinct(dealloc')
    BY <2>1, FreedNext
  <2>7. /\ memory' \in [Lines -> Index \cup {NoIndex}]
        /\ bus' \in [Buses -> 0 .. TransCycles]
        /\ sent' \in Nat /\ requests' \in Nat /\ entryFreed' \in Nat
    BY <2>1, MemoryNext
  <2>8. already' \in Nat
    <3>1. already' = Cardinality(SharedLines) + Cardinality(Revived)
      BY <2>1, CommitUnfolded
    <3> QED BY <2>5, <3>1, UsesIs
  <2> QED BY <1>2, <1>4, <2>3, <2>4, <2>5, <2>6, <2>7, <2>8
          DEF CommitTyped, Distinct, Freed, Lines, Entries, Outputs, NoOutput, NoEntry, Buses
<1>6. CASE commit # "STREAMING"
  <2>1. CommitRests
    BY <1>3, <1>6, CommitIs
  <2>2. CASE CommitStart
    <3>1. /\ sent' = 0 /\ requests' = 0 /\ already' = 0 /\ entryFreed' = 0
          /\ fifo' = [e \in Entries |-> NoOutput]
          /\ lastUse' = [l \in Lines |-> NoEntry]
          /\ memory' = [l \in Lines |-> NoIndex]
          /\ bus' = [b \in Buses |-> 0]
          /\ dealloc' = <<>> /\ confirm' = <<>> /\ freed' = freed
      BY <2>2 DEF CommitStart
    <3>2. 0 \in 0 .. TransCycles
      BY Sizes
    <3>3. /\ fifo' \in [Entries -> Outputs \cup {NoOutput}]
          /\ lastUse' \in [Lines -> Entries \cup {NoEntry}]
          /\ memory' \in [Lines -> Index \cup {NoIndex}]
          /\ bus' \in [Buses -> 0 .. TransCycles]
      BY <3>1, <3>2
    <3>4. dealloc' \in Seq(Lines) /\ Distinct(dealloc') /\ confirm' \in Seq(Lines) /\ Distinct(confirm')
      BY <3>1 DEF Distinct
    <3>5. freed' \in Seq(Freed) /\ Distinct(LinesOf(freed'))
      BY <1>1, <3>1 DEF CommitTyped
    <3> QED BY <1>2, <1>4, <3>1, <3>3, <3>4, <3>5
            DEF CommitTyped, Distinct, Freed, Lines, Entries, Outputs, NoOutput, NoEntry, Buses
  <2>3. CASE CommitIdle
    <3>1. /\ requests' = RequestsNow /\ already' = 0 /\ entryFreed' = 0
          /\ dealloc' = <<>> /\ confirm' = <<>>
          /\ UNCHANGED <<sent, fifo, lastUse, memory, bus, freed>>
      BY <2>3 DEF CommitIdle
    <3>2. requests' \in Nat
      BY <1>1, <3>1 DEF CommitTyped, RequestsNow
    <3>4. dealloc' \in Seq(Lines) /\ Distinct(dealloc') /\ confirm' \in Seq(Lines) /\ Distinct(confirm')
      BY <3>1 DEF Distinct
    <3>5. freed' \in Seq(Freed) /\ Distinct(LinesOf(freed'))
      BY <1>1, <3>1 DEF CommitTyped
    <3> QED BY <1>1, <1>2, <1>4, <3>1, <3>2, <3>4, <3>5
            DEF CommitTyped, Distinct, Freed, Lines, Entries, Outputs, NoOutput, NoEntry, Buses
  <2> QED BY <1>3, <1>6, <2>2, <2>3 DEF CommitCycle, CommitOutputs
<1> QED BY <1>5, <1>6

LEMMA TypedNext ==
  ASSUME IInv, Boxes
  PROVE  Typed'
<1>1. /\ AssertionsHold /\ MainCycle /\ FetchCycle /\ CacheCycle /\ LoaderCycle /\ CommitCycle
  BY DEF Boxes
<1>2. ControlTyped'
  BY <1>1, ControlNext, StreamNext DEF ControlTyped, States
<1> QED BY <1>1, <1>2, FetchTypedNext, CacheTypedNext, LoaderTypedNext, CommitTypedNext DEF Typed

LEMMA ReceivedNext ==
  ASSUME IInv, Boxes
  PROVE  /\ Streaming => /\ Received' = Taken /\ Len(answer') = Len(newIndex)
                         /\ Received' + Len(answer') = fetched
                         /\ fetched' = fetched + Len(newIndex')
         /\ ~Streaming /\ command = "START" =>
              /\ Received' = 0 /\ fetched' = 0 /\ sent' = 0
              /\ answer' = <<>> /\ newIndex' = <<>> /\ update' = {}
         /\ ~Streaming /\ command # "START" =>
              /\ Received' = Received /\ fetched' = fetched /\ sent' = sent
              /\ answer' = answer /\ newIndex' = newIndex /\ fifo' = fifo
              /\ update' = update /\ unconfirmed' = unconfirmed
<1>0. Received' = (fetched' - Len(answer')) - Len(newIndex')
  BY DEF Received
<1>1. /\ AssertionsHold /\ FetchCycle /\ CacheCycle /\ CommitCycle
  BY DEF Boxes
<1>2. ASSUME Streaming
      PROVE  /\ Received' = Taken /\ Len(answer') = Len(newIndex)
             /\ Received' + Len(answer') = fetched /\ fetched' = fetched + Len(newIndex')
  <2>1. fetched' = fetched + Len(newIndex') /\ newIndex' \in Seq(NewIndices)
    BY <1>1, <1>2, FetchIs DEF Fetches
  <2>2. Len(answer') = Len(newIndex)
    BY <1>1, <1>2, CacheIs DEF Looks
  <2> DEFINE a == Len(answer')
             b == Len(newIndex')
             c == Len(newIndex)
  <2>3. /\ a \in Nat /\ b \in Nat /\ c \in Nat /\ fetched \in Nat /\ fetched' = fetched + b /\ a = c
        /\ Received' = (fetched' - a) - b /\ Taken = fetched - c
    BY <1>0, <2>1, <2>2, Lengths DEF Taken
  <2> HIDE DEF a, b, c
  <2>4. Received' = Taken /\ Received' + a = fetched
    BY <2>3
  <2> QED BY <2>1, <2>2, <2>4 DEF a
<1>3. ASSUME ~Streaming, command = "START"
      PROVE  /\ Received' = 0 /\ fetched' = 0 /\ sent' = 0
             /\ answer' = <<>> /\ newIndex' = <<>> /\ update' = {}
  <2>1. fetched' = 0 /\ newIndex' = <<>> /\ answer' = <<>> /\ update' = {}
    BY <1>1, <1>3, FetchRests, CacheRests
  <2>2. sent' = 0
    BY <1>1, <1>3, Together, CommitIs DEF CommitStart
  <2>3. Len(newIndex') = 0 /\ Len(answer') = 0
    BY <2>1
  <2>4. Received' = 0
    <3> DEFINE a == Len(answer')
               b == Len(newIndex')
    <3>1. a = 0 /\ b = 0 /\ fetched' = 0 /\ Received' = (fetched' - a) - b
      BY <1>0, <2>1, <2>3
    <3> HIDE DEF a, b
    <3> QED BY <3>1
  <2> QED BY <2>1, <2>2, <2>4
<1>4. ASSUME ~Streaming, command # "START"
      PROVE  /\ Received' = Received /\ fetched' = fetched /\ sent' = sent
             /\ answer' = answer /\ newIndex' = newIndex /\ fifo' = fifo
             /\ update' = update /\ unconfirmed' = unconfirmed
  <2>1. UNCHANGED fetchVars /\ UNCHANGED cacheVars
    BY <1>1, <1>4, FetchRests, CacheRests
  <2>2. CommitIdle
    BY <1>1, <1>4, Together, CommitIs
  <2> QED BY <2>1, <2>2 DEF fetchVars, cacheVars, CommitIdle, Received
<1> QED BY <1>2, <1>3, <1>4

\* What Commit sends in a step.
LEMMA SentNext ==
  ASSUME IInv, Boxes, Streaming
  PROVE  /\ sent' \in Nat /\ entryFreed' \in Nat /\ sent' = sent + entryFreed' /\ sent' <= Taken
         /\ commit' = "FINISHED" => sent' = Len(stream)
         /\ command # "END" => \A e \in Entries :
              fifo'[e] # NoOutput <=> \E k \in sent' .. Taken - 1 : e = k % OutputFIFO
<1>1. CommitCycle /\ sent \in Nat /\ sent <= Taken
  BY TakenIs DEF Boxes
<1>2. CASE commit = "STREAMING"
  <2>1. CommitOutputs
    BY <1>1, <1>2, CommitIs
  <2>2. /\ sent' = sent + Len(Outs) /\ entryFreed' = Len(Outs)
        /\ commit' = IF Outs # <<>> /\ sent' = Len(stream) THEN "FINISHED" ELSE "STREAMING"
    BY <2>1, CommitUnfolded
  <2>3. Len(Outs) \in Nat /\ sent + Len(Outs) <= Taken
    BY OutsAre
  <2>4. \A e \in Entries : fifo'[e] # NoOutput <=> \E k \in sent' .. Taken - 1 : e = k % OutputFIFO
    BY <2>1, FifoNext
  <2>5. sent' \in Nat
    BY <1>1, <2>2, <2>3
  <2> QED BY <2>2, <2>3, <2>4, <2>5
<1>3. CASE commit = "FINISHED"
  <2>1. /\ sent = Len(stream) /\ Received = sent /\ Taken = sent
    BY <1>3, Drained
  <2>2. sent' = sent /\ entryFreed' = 0 /\ fifo' = fifo
    BY <1>1, <1>3, CommitIs DEF CommitIdle
  <2>3. \A e \in Entries : fifo[e] # NoOutput <=> \E k \in sent .. Received - 1 : e = k % OutputFIFO
    BY DEF IInv, Ring
  <2> QED BY <1>1, <2>1, <2>2, <2>3
<1> QED BY <1>2, <1>3, Together DEF States

LEMMA RingNext ==
  ASSUME IInv, Boxes
  PROVE  Ring'
<1>1. /\ AssertionsHold /\ MainCycle /\ FetchCycle /\ CacheCycle /\ CommitCycle
  BY DEF Boxes
<1>2. Typed'
  BY TypedNext
<1>3. /\ Streaming' => stream' = stream
      /\ Streaming' <=> (IF Streaming THEN command # "END" ELSE command = "START")
  BY <1>1, StreamNext
<1>4. Ring' <=>
        /\ sent' <= Received' /\ fetched' - sent' <= OutputFIFO
        /\ Streaming' => fetched' <= Len(stream')
        /\ fetch' = "FINISHED" => fetched' = Len(stream')
        /\ commit' = "FINISHED" => sent' = Len(stream')
        /\ Streaming' => \A e \in Entries :
             fifo'[e] # NoOutput <=> \E k \in sent' .. Received' - 1 : e = k % OutputFIFO
        /\ \A n \in DOMAIN answer' : answer'[n].entry = (Received' + n - 1) % OutputFIFO
        /\ \A n \in DOMAIN newIndex' :
             newIndex'[n].entry = (Received' + Len(answer') + n - 1) % OutputFIFO
  BY DEF Ring, Entries, NoOutput
<1>5. CASE Streaming
  <2>1. /\ Received' = Taken /\ Len(answer') = Len(newIndex) /\ Received' + Len(answer') = fetched
        /\ fetched' = fetched + Len(newIndex')
    BY <1>5, ReceivedNext
  <2>2. /\ sent' \in Nat /\ entryFreed' \in Nat /\ sent' = sent + entryFreed' /\ sent' <= Taken
        /\ commit' = "FINISHED" => sent' = Len(stream)
        /\ command # "END" => \A e \in Entries :
             fifo'[e] # NoOutput <=> \E k \in sent' .. Taken - 1 : e = k % OutputFIFO
    BY <1>5, SentNext
  <2>3. /\ newIndex' \in Seq(NewIndices) /\ fetched' <= Len(stream) /\ Len(newIndex') <= EntriesNow
        /\ \A n \in DOMAIN newIndex' : newIndex'[n].entry = (fetched + n - 1) % OutputFIFO
        /\ fetch' = IF fetch = "FINISHED" THEN IF command = "END" THEN "READY" ELSE "FINISHED"
                    ELSE IF fetched' = Len(stream) THEN "FINISHED" ELSE "STREAMING"
    BY <1>1, <1>5, FetchIs DEF Fetches
  <2>4. fetched' - sent' <= OutputFIFO
    <3> DEFINE c == Len(newIndex')
               d == fetched - sent
    <3>0. d \in Nat /\ fetched \in Nat /\ sent \in Nat
      <4>1. sent <= Taken /\ Taken <= fetched /\ Taken \in Nat /\ sent \in Nat /\ fetched \in Nat
        BY TakenIs
      <4> QED BY <4>1
    <3>1. /\ c \in Nat /\ d \in Nat /\ fetched \in Nat /\ sent \in Nat /\ fetched' = fetched + c /\ c <= EntriesNow
      BY <2>1, <2>3, <3>0
    <3>2. freeEntries + entryFreed + d = OutputFIFO /\ EntriesNow = freeEntries + entryFreed
      BY <1>5 DEF IInv, Accounts, EntriesNow
    <3>3. EntriesNow \in Nat /\ freeEntries \in Nat /\ entryFreed \in Nat
      BY CountsAre DEF IInv, Typed, FetchTyped, CommitTyped
    <3>4. fetched = sent + d
      BY <3>1
    <3> HIDE DEF c, d
    <3>5. c + d <= OutputFIFO
      BY <3>1, <3>2, <3>3, Sizes
    <3>6. sent' = sent + entryFreed' /\ entryFreed' \in Nat
      BY <2>2
    <3>7. fetched' - sent' = (c + d) - entryFreed'
      BY <3>1, <3>4, <3>6
    <3>8. OutputFIFO \in Nat
      BY Sizes
    <3> DEFINE z == entryFreed'
               w == fetched' - sent'
    <3>9. w = (c + d) - z /\ z \in Nat
      BY <3>6, <3>7
    <3> HIDE DEF z, w
    <3>10. w <= OutputFIFO
      BY <3>1, <3>5, <3>8, <3>9
    <3> QED BY <3>10 DEF w
  <2>5. fetch' = "FINISHED" => Streaming' /\ fetched' = Len(stream)
    <3>1. CASE fetch = "FINISHED"
      <4>1. fetched = Len(stream)
        BY <3>1 DEF IInv, Ring
      <4> DEFINE c == Len(newIndex')
                 s == Len(stream)
      <4>2. /\ c \in Nat /\ s \in Nat /\ fetched \in Nat /\ fetched = s
            /\ fetched' = fetched + c /\ fetched' <= s
        <5>1. c \in Nat
          BY <2>3
        <5> QED BY <2>1, <2>3, <4>1, <5>1, Lengths
      <4> HIDE DEF c, s
      <4>3a. fetched' = s
        BY <4>2
      <4>3. fetched' = Len(stream)
        BY <4>3a DEF s
      <4> QED BY <1>3, <1>5, <2>3, <3>1, <4>3
    <3>2. CASE fetch # "FINISHED"
      BY <1>3, <1>5, <2>3, <3>2, Together
    <3> QED BY <3>1, <3>2
  <2>6. commit' = "FINISHED" => Streaming'
    BY <1>1, <1>3, <1>5, Together, StatesNext
  <2>7. ASSUME NEW n \in DOMAIN answer'
        PROVE  answer'[n].entry = (Received' + n - 1) % OutputFIFO
    <3>1. Looks
      BY <1>1, <1>5, CacheIs
    <3>2. answer'[n].entry = newIndex[n].entry /\ n \in DOMAIN newIndex
      <4>1. answer' \in Seq(Answers) /\ Len(answer') = Len(newIndex) /\ newIndex \in Seq(NewIndices)
        BY <3>1 DEF Looks, IInv, Typed, FetchTyped
      <4>2. DOMAIN answer' = DOMAIN newIndex
        BY <4>1
      <4> QED BY <3>1, <4>2 DEF Looks
    <3>3. newIndex[n].entry = (Received + Len(answer) + n - 1) % OutputFIFO
      BY <3>2 DEF IInv, Ring
    <3>4. Received + Len(answer) + n - 1 = Received' + n - 1
      <4>1. n \in Nat
        BY <3>2, Lengths
      <4>2. Received + Len(answer) = Received' /\ Received \in Int /\ Len(answer) \in Nat
        BY <2>1, TakenIs, Lengths
      <4> QED BY <4>1, <4>2
    <3> QED BY <3>2, <3>3, <3>4
  <2>8. ASSUME NEW n \in DOMAIN newIndex'
        PROVE  newIndex'[n].entry = (Received' + Len(answer') + n - 1) % OutputFIFO
    <3>1. n \in Nat
      BY <2>3
    <3>2. Received' + Len(answer') = fetched /\ Received' \in Int /\ Len(answer') \in Nat /\ fetched \in Nat
      BY <2>1, TakenIs, Lengths
    <3> DEFINE a == Len(answer')
    <3> HIDE DEF a
    <3>3. Received' + a = fetched /\ a \in Nat
      BY <3>2 DEF a
    <3>4. Received' + a + n - 1 = fetched + n - 1
      BY <3>1, <3>2, <3>3
    <3>5. newIndex'[n].entry = (fetched + n - 1) % OutputFIFO
      BY <2>3
    <3> QED BY <3>4, <3>5 DEF a
  <2>9. Streaming' => fetched' <= Len(stream')
    BY <1>3, <2>3
  <2>10. fetch' = "FINISHED" => fetched' = Len(stream')
    BY <1>3, <2>5
  <2>11. commit' = "FINISHED" => sent' = Len(stream')
    BY <1>3, <2>2, <2>6
  <2>12. Streaming' => \A e \in Entries :
           fifo'[e] # NoOutput <=> \E k \in sent' .. Received' - 1 : e = k % OutputFIFO
    BY <1>3, <1>5, <2>1, <2>2
  <2>13. sent' <= Received'
    BY <2>1, <2>2
  <2> QED BY <1>4, <2>4, <2>7, <2>8, <2>9, <2>10, <2>11, <2>12, <2>13
<1>6. CASE ~Streaming /\ command = "START"
  <2>1. Received' = 0 /\ fetched' = 0 /\ sent' = 0 /\ answer' = <<>> /\ newIndex' = <<>>
    BY <1>6, ReceivedNext
  <2>2. fetch' = "STREAMING" /\ commit' = "STREAMING"
    BY <1>1, <1>6, StatesNext
  <2>3. Len(stream') \in Nat
    BY <1>1, StreamNext
  <2>4. \A e \in Entries : fifo'[e] = NoOutput
    BY <1>1, <1>6, Together, CommitIs DEF CommitStart
  <2>5. 0 .. 0 - 1 = {} /\ DOMAIN answer' = {} /\ DOMAIN newIndex' = {}
    BY <2>1
  <2>6. sent' <= Received' /\ fetched' - sent' <= OutputFIFO /\ fetched' <= Len(stream')
    BY <2>1, <2>3, Sizes
  <2>7. \A e \in Entries : fifo'[e] # NoOutput <=> \E k \in sent' .. Received' - 1 : e = k % OutputFIFO
    BY <2>1, <2>4, <2>5
  <2> QED BY <1>4, <2>2, <2>5, <2>6, <2>7
<1>7. CASE ~Streaming /\ command # "START"
  <2>1. /\ Received' = Received /\ fetched' = fetched /\ sent' = sent
        /\ answer' = answer /\ newIndex' = newIndex
    BY <1>7, ReceivedNext
  <2>2. fetch' = "READY" /\ commit' = "READY" /\ ~Streaming'
    BY <1>1, <1>3, <1>7, StatesNext
  <2> QED BY <1>4, <2>1, <2>2 DEF IInv, Ring
<1> QED BY <1>5, <1>6, <1>7

\* An input keeps its entry, and an answer that is loaded brings its own.
LEMMA OwnEntriesNext ==
  ASSUME IInv, Boxes
  PROVE  OwnEntries'
<1>1. LoaderCycle /\ CommitCycle
  BY DEF Boxes
<1>2. OwnEntries' <=>
        /\ \A m \in DOMAIN irq' : fifo'[irq'[m].entry] # NoOutput /\ ~fifo'[irq'[m].entry].shaded
        /\ \A i \in shading' : fifo'[i.entry] # NoOutput /\ ~fifo'[i.entry].shaded
        /\ \A l, m \in DOMAIN irq' : irq'[l].entry = irq'[m].entry => l = m
        /\ \A i, j \in shading' : i.entry = j.entry => i = j
        /\ \A m \in DOMAIN irq', j \in shading' : irq'[m].entry # j.entry
  BY DEF OwnEntries, Waits, NoOutput
<1>3. CASE irq' = <<>> /\ shading' = {}
  <2>1. DOMAIN irq' = {}
    BY <1>3
  <2> QED BY <1>2, <1>3, <2>1
<1>4. CASE commit = "STREAMING"
  <2>1. Streaming /\ CommitOutputs
    BY <1>1, <1>4, Together, CommitIs
  <2>2. PICK n \in 0 .. Len(irq), done \in SUBSET shading, load \in Seq(Answers) : Takes(n, done, load)
    BY <1>1, LoaderIs
  <2> DEFINE c == Len(irq) - n
             W(e) == fifo'[e] # NoOutput /\ ~fifo'[e].shaded
  <2>3. /\ irq \in Seq(Inputs) /\ shading \subseteq Inputs /\ DOMAIN irq = 1 .. Len(irq)
        /\ Len(irq) \in Nat /\ n \in Nat /\ n <= Len(irq) /\ c \in Nat /\ c + n = Len(irq)
    BY Lengths DEF IInv, Typed, LoaderTyped
  <2>4. /\ \A m \in DOMAIN irq : irq[m].entry \in Entries
        /\ \A i \in shading : i.entry \in Entries
    <3>1. \A m \in DOMAIN irq : irq[m] \in Inputs
      BY <2>3
    <3> QED BY <2>3, <3>1 DEF Inputs
  <2>5. /\ \A m \in DOMAIN irq : fifo[irq[m].entry] # NoOutput /\ ~fifo[irq[m].entry].shaded
        /\ \A i \in shading : fifo[i.entry] # NoOutput /\ ~fifo[i.entry].shaded
        /\ \A l, m \in DOMAIN irq : irq[l].entry = irq[m].entry => l = m
        /\ \A i, j \in shading : i.entry = j.entry => i = j
        /\ \A m \in DOMAIN irq, j \in shading : irq[m].entry # j.entry
    BY DEF IInv, OwnEntries, Waits
  <2>6. /\ \A e \in Entries : fifo[e] # NoOutput => FifoNow[e] = fifo[e]
        /\ \A m \in DOMAIN answer : fifo[answer[m].entry] = NoOutput
        /\ \A m \in DOMAIN answer : FifoNow[answer[m].entry] = ShadedOutput(answer[m])
    BY <2>1, QueueIs
  <2>7. ASSUME NEW e \in Entries, FifoNow[e] # NoOutput, ~FifoNow[e].shaded, \A i \in Done : i.entry # e
        PROVE  W(e)
    BY <2>1, <2>7, FifoNext
  <2>8. Done \subseteq shading /\ Done \cap shading' = {}
    BY DEF Done
  <2>9. \A m \in DOMAIN irq : W(irq[m].entry)
    <3> TAKE m \in DOMAIN irq
    <3>1. irq[m].entry \in Entries /\ FifoNow[irq[m].entry] = fifo[irq[m].entry]
      BY <2>4, <2>5, <2>6
    <3>2. \A i \in Done : i.entry # irq[m].entry
      BY <2>5, <2>8
    <3> HIDE DEF W
    <3> QED BY <2>5, <2>7, <3>1, <3>2
  <2>10. \A i \in shading \cap shading' : W(i.entry)
    <3> TAKE i \in shading \cap shading'
    <3>1. i.entry \in Entries /\ FifoNow[i.entry] = fifo[i.entry]
      BY <2>4, <2>5, <2>6
    <3>2. \A j \in Done : j.entry # i.entry
      BY <2>5, <2>8
    <3> HIDE DEF W
    <3> QED BY <2>5, <2>7, <3>1, <3>2
  <2>11. \A a \in Elements(load) : fifo[a.entry] = NoOutput /\ a.entry \in Entries /\ W(a.entry)
    <3> TAKE a \in Elements(load)
    <3>1. a \in Elements(answer) /\ Loaded(a)
      BY <2>2 DEF Takes
    <3>2. PICK m \in DOMAIN answer : answer[m] = a
      BY <3>1 DEF Elements
    <3>3. /\ fifo[a.entry] = NoOutput /\ FifoNow[a.entry] = ShadedOutput(a)
          /\ a.entry \in Entries /\ a.index \in Index
      BY <2>6, <3>2, AnswerEntry DEF Answers
    <3>4. ~ShadedOutput(a).shaded /\ ShadedOutput(a).index = a.index
      BY <3>1 DEF ShadedOutput
    <3>5. ShadedOutput(a) # NoOutput
      BY <3>3, <3>4, Sizes DEF NoOutput
    <3>6. \A j \in Done : j.entry # a.entry
      BY <2>5, <2>8, <3>3
    <3> HIDE DEF W
    <3> QED BY <2>7, <3>3, <3>4, <3>5, <3>6
  <2>12. \A l, m \in DOMAIN load : load[l].entry = load[m].entry => l = m
    <3>1. Distinct(answer)
      BY AnswersApart DEF Distinct
    <3>2. Distinct(load) /\ \A m \in DOMAIN load : load[m] \in Elements(answer)
      BY <2>2, <3>1 DEF Takes, Elements
    <3> TAKE l, m \in DOMAIN load
    <3>3. PICK x \in DOMAIN answer : answer[x] = load[l]
      BY <3>2 DEF Elements
    <3>4. PICK y \in DOMAIN answer : answer[y] = load[m]
      BY <3>2 DEF Elements
    <3>5. load[l].entry = load[m].entry => x = y
      BY <3>3, <3>4, AnswersApart
    <3> QED BY <3>2, <3>3, <3>4, <3>5 DEF Distinct
  <2>13. DOMAIN load = 1 .. Len(load) /\ \A m \in DOMAIN load : load[m] \in Elements(load)
    BY DEF Elements
  <2>14. /\ shading' = (shading \ done) \cup { irq[m] : m \in 1 .. n }
         /\ DOMAIN irq' = 1 .. Len(irq')
         /\ \A m \in 1 .. c : m + n \in DOMAIN irq /\ irq'[m] = irq[m + n]
         /\ \A m \in 1 .. Len(irq') :
              m \in 1 .. c \/ (m - c \in DOMAIN load /\ irq'[m].entry = load[m - c].entry)
    BY <2>2 DEF Takes
  <2>15. \A m \in DOMAIN irq' :
           \/ m \in 1 .. c /\ m + n \in DOMAIN irq /\ irq'[m].entry = irq[m + n].entry
           \/ m - c \in DOMAIN load /\ irq'[m].entry = load[m - c].entry
    BY <2>14
  <2>16. \A i \in shading' : i \in shading \cap shading' \/ \E m \in 1 .. n : m \in DOMAIN irq /\ i = irq[m]
    BY <2>3, <2>14
  <2>17. DOMAIN irq' \subseteq Nat
    BY <2>14
  <2> HIDE DEF c
  <2>17a. \A x \in DOMAIN irq, y \in DOMAIN load : irq[x].entry # load[y].entry
    <3>1. \A y \in DOMAIN load : fifo[load[y].entry] = NoOutput
      BY <2>11, <2>13
    <3> QED BY <2>5, <3>1
  <2>18. ASSUME NEW l \in DOMAIN irq', NEW m \in DOMAIN irq', irq'[l].entry = irq'[m].entry PROVE l = m
    <3>1. CASE /\ l + n \in DOMAIN irq /\ irq'[l].entry = irq[l + n].entry
               /\ m + n \in DOMAIN irq /\ irq'[m].entry = irq[m + n].entry
      <4>1. l + n = m + n
        BY <2>5, <2>18, <3>1
      <4> QED BY <2>3, <2>17, <4>1
    <3>2. CASE /\ l - c \in DOMAIN load /\ irq'[l].entry = load[l - c].entry
               /\ m - c \in DOMAIN load /\ irq'[m].entry = load[m - c].entry
      <4>1. l - c = m - c
        BY <2>12, <2>18, <3>2
      <4> QED BY <2>3, <2>17, <4>1
    <3>3. CASE /\ l + n \in DOMAIN irq /\ irq'[l].entry = irq[l + n].entry
               /\ m - c \in DOMAIN load /\ irq'[m].entry = load[m - c].entry
      BY <2>17a, <2>18, <3>3
    <3>4. CASE /\ m + n \in DOMAIN irq /\ irq'[m].entry = irq[m + n].entry
               /\ l - c \in DOMAIN load /\ irq'[l].entry = load[l - c].entry
      BY <2>17a, <2>18, <3>4
    <3> QED BY <2>15, <3>1, <3>2, <3>3, <3>4
  <2>19. \A m \in DOMAIN irq' : W(irq'[m].entry)
    <3> HIDE DEF W
    <3> QED BY <2>9, <2>11, <2>13, <2>15
  <2>20. \A i \in shading' : W(i.entry)
    <3> HIDE DEF W
    <3> QED BY <2>9, <2>10, <2>16
  <2>21. ASSUME NEW i \in shading', NEW j \in shading', i.entry = j.entry PROVE i = j
    BY <2>5, <2>16, <2>21
  <2>22. ASSUME NEW m \in DOMAIN irq', NEW j \in shading' PROVE irq'[m].entry # j.entry
    <3>1. CASE m + n \in DOMAIN irq /\ m \in 1 .. c /\ irq'[m].entry = irq[m + n].entry
      <4>1. \A x \in 1 .. n : x # m + n
        BY <2>3, <3>1
      <4> QED BY <2>5, <2>16, <3>1, <4>1
    <3>2. CASE m - c \in DOMAIN load /\ irq'[m].entry = load[m - c].entry
      <4>1. fifo[irq'[m].entry] = NoOutput
        BY <2>11, <2>13, <3>2
      <4>2. fifo[j.entry] # NoOutput
        BY <2>5, <2>16
      <4> QED BY <4>1, <4>2
    <3> QED BY <2>15, <3>1, <3>2
  <2> QED BY <1>2, <2>18, <2>19, <2>20, <2>21, <2>22
<1>5. CASE commit # "STREAMING"
  <2>1. ~Streaming \/ commit = "FINISHED"
    BY <1>5, Together DEF States
  <2> QED BY <1>1, <1>3, <2>1, Unloaded, UnloadedAfter
<1> QED BY <1>4, <1>5

LEMMA FreedKeptNext ==
  ASSUME IInv, Boxes
  PROVE  FreedKept'
<1>1. /\ FetchCycle /\ CacheCycle /\ CommitCycle
  BY DEF Boxes
<1>2. FreedKept' <=>
        (commit' = "STREAMING" =>
           \/ dealloc' = LinesOf(freed')
           \/ answer' = <<>> /\ dealloc' = <<>> /\ confirm' = <<>> /\ unconfirmed' = <<>>)
  BY DEF FreedKept, LinesOf
<1>3. CASE commit = "STREAMING"
  <2>1. dealloc' = LinesOf(freed')
    BY <1>1, <1>3, Together, CommitIs, FreedNext
  <2> QED BY <1>2, <2>1
<1>4. CASE commit = "READY"
  <2>1. ~Streaming /\ commit' = IF command = "START" THEN "STREAMING" ELSE "READY"
    BY <1>1, <1>4, Together, StatesNext
  <2>2. CASE command = "START"
    <3>1. dealloc' = <<>> /\ confirm' = <<>>
      BY <1>1, <1>4, CommitIs DEF CommitRests
    <3>2. answer' = <<>> /\ unconfirmed' = unconfirmed
      BY <1>1, <2>1, <2>2, CacheRests
    <3>3. unconfirmed = <<>>
      BY <2>1 DEF IInv, Gone
    <3> QED BY <1>2, <3>1, <3>2, <3>3
  <2> QED BY <1>2, <2>1, <2>2
<1>5. CASE commit = "FINISHED"
  <2>1. commit' # "STREAMING"
    BY <1>1, <1>5, StatesNext
  <2> QED BY <1>2, <2>1
<1> QED BY <1>3, <1>4, <1>5, Together DEF States

LEMMA GoneNext ==
  ASSUME IInv, Boxes
  PROVE  Gone'
<1>1. /\ AssertionsHold /\ MainCycle /\ FetchCycle /\ CacheCycle /\ LoaderCycle /\ CommitCycle
  BY DEF Boxes
<1>2. Gone' <=>
        /\ answer' = <<>> => update' = {}
        /\ main' = "FINISHED" \/ command' = "END" \/ ~Streaming' =>
             /\ dealloc' = <<>> /\ confirm' = <<>>
             /\ already' = 0 /\ entryFreed' = 0 /\ inputFreed' = 0
        /\ command' = "END" \/ ~Streaming' => unconfirmed' = <<>>
        /\ ~Streaming' => /\ fetched' = sent' /\ answer' = <<>> /\ newIndex' = <<>>
                          /\ irq' = <<>> /\ shading' = {}
  BY DEF Gone
<1>3. Streaming' <=> (IF Streaming THEN command # "END" ELSE command = "START")
  BY <1>1, StreamNext
<1>4. answer' = <<>> => update' = {}
  <2>1. CASE Streaming
    <3>1. answer' \in Seq(Answers) /\ Len(answer') = Len(newIndex) /\ (newIndex = <<>> => update' = {})
      BY <1>1, <2>1, CacheIs DEF Looks
    <3>2. newIndex \in Seq(NewIndices)
      BY DEF IInv, Typed, FetchTyped
    <3>3. answer' = <<>> => Len(answer') = 0
      OBVIOUS
    <3>4. Len(newIndex) = 0 => newIndex = <<>>
      BY <3>2
    <3> QED BY <3>1, <3>3, <3>4
  <2>2. CASE ~Streaming
    BY <2>2, ReceivedNext DEF IInv, Gone
  <2> QED BY <2>1, <2>2
<1>5. main' = "FINISHED" \/ command' = "END" =>
        /\ Streaming /\ commit = "FINISHED"
        /\ command' = "END" => main = "FINISHED"
  <2>1. ASSUME main' = "FINISHED" \/ command' = "END"
        PROVE  commit = "FINISHED" /\ (command' = "END" => main = "FINISHED")
    <3>1. \/ main = "FINISHED"
          \/ AllDone /\ command' = "none"
      BY <1>1, <2>1 DEF MainCycle, Start, Finish, End, Wait, Silent
    <3>2. main = "FINISHED" => commit = "FINISHED"
      BY Together DEF IInv, Control
    <3> QED BY <3>1, <3>2 DEF AllDone
  <2> QED BY <2>1, Together
<1>6. ~Streaming' => (Streaming /\ commit = "FINISHED" /\ command = "END") \/ (~Streaming /\ command # "START")
  BY <1>3, Together
<1>7. ASSUME ~Streaming \/ commit = "FINISHED"
      PROVE  /\ dealloc' = <<>> /\ confirm' = <<>> /\ already' = 0 /\ entryFreed' = 0
             /\ inputFreed' = 0 /\ irq' = <<>> /\ shading' = {}
  <2>1. commit # "STREAMING"
    BY <1>7, Together
  <2>2. CommitRests
    BY <1>1, <2>1, CommitIs
  <2>3. inputFreed' = 0 /\ irq' = <<>> /\ shading' = {}
    BY <1>1, <1>7, Unloaded, UnloadedAfter
  <2> QED BY <2>2, <2>3 DEF CommitRests
<1>8. command' = "END" \/ ~Streaming' => unconfirmed' = <<>>
  <2>1. ASSUME Streaming, main = "FINISHED" \/ command = "END" PROVE unconfirmed' = <<>>
    <3>1. dealloc = <<>>
      BY <2>1 DEF IInv, Gone
    <3>2. unconfirmed' = dealloc
      BY <1>1, <2>1, CacheIs DEF Looks
    <3> QED BY <3>1, <3>2
  <2>2. ASSUME ~Streaming, command # "START" PROVE unconfirmed' = <<>>
    BY <2>2, ReceivedNext DEF IInv, Gone
  <2> QED BY <1>5, <1>6, <2>1, <2>2
<1>9. ~Streaming' => fetched' = sent' /\ answer' = <<>> /\ newIndex' = <<>>
  <2>1. ASSUME Streaming, commit = "FINISHED", command = "END"
        PROVE  fetched' = sent' /\ answer' = <<>> /\ newIndex' = <<>>
    <3>1. fetched = sent /\ sent = Len(stream) /\ newIndex = <<>>
      BY <2>1, Drained
    <3>2. fetched' = fetched + Len(newIndex') /\ fetched' <= Len(stream) /\ newIndex' \in Seq(NewIndices)
      BY <1>1, <2>1, FetchIs DEF Fetches
    <3>3. Len(newIndex') \in Nat /\ fetched \in Nat
      BY <3>2, Lengths
    <3>4. Len(newIndex') = 0 /\ fetched' = fetched
      <4> DEFINE c == Len(newIndex')
      <4>1. c \in Nat /\ fetched \in Nat /\ fetched' = fetched + c /\ fetched' <= fetched
        BY <3>1, <3>2, <3>3
      <4> HIDE DEF c
      <4>2. c = 0 /\ fetched' = fetched
        BY <4>1
      <4> QED BY <4>2 DEF c
    <3>5. sent' = sent
      BY <1>1, <2>1, CommitIs DEF CommitIdle
    <3>6. newIndex' = <<>>
      BY <3>2, <3>4
    <3>7. answer' \in Seq(Answers) /\ Len(answer') = Len(newIndex)
      BY <1>1, <2>1, CacheIs DEF Looks
    <3>8. answer' = <<>>
      BY <3>1, <3>7
    <3> QED BY <3>1, <3>4, <3>5, <3>6, <3>8
  <2>2. ASSUME ~Streaming, command # "START"
        PROVE  fetched' = sent' /\ answer' = <<>> /\ newIndex' = <<>>
    BY <2>2, ReceivedNext DEF IInv, Gone
  <2> QED BY <1>6, <2>1, <2>2
<1>10. main' = "FINISHED" \/ command' = "END" \/ ~Streaming' => ~Streaming \/ commit = "FINISHED"
  BY <1>5, <1>6
<1> QED BY <1>2, <1>4, <1>6, <1>7, <1>8, <1>9, <1>10

InputsAccount == freeInputs + inputFreed + Len(irq) + Len(answer) + Len(newIndex) = InputQueue
EntriesAccount == freeEntries + entryFreed + (fetched - sent) = OutputFIFO
LinesAccount ==
  freeLines + already + Cardinality(Confirmed) + Len(dealloc)
    + Cardinality(UsedLines) + Len(answer) + Len(newIndex) = OutputMemory

LEMMA InputsNext ==
  ASSUME IInv, Boxes, Streaming
  PROVE  InputsAccount'
<1> DEFINE a == freeInputs
           b == inputFreed
           c == Len(irq)
           d == Len(answer)
           e == Len(newIndex)
           b1 == inputFreed'
           c1 == Len(irq')
           d1 == Len(answer')
           e1 == Len(newIndex')
<1>1. LoaderCycle /\ FetchCycle
  BY DEF Boxes
<1>2. PICK n \in 0 .. Len(irq), done \in SUBSET shading, load \in Seq(Answers) : Takes(n, done, load)
  BY <1>1, LoaderIs
<1>3. b1 \in Nat /\ c1 \in Nat /\ c1 + b1 = c + d
  BY <1>2 DEF Takes
<1>4. d1 = e
  BY ReceivedNext
<1>5. freeInputs' = InputsNow - e1 /\ e1 \in Nat
  BY <1>1, FetchIs DEF Fetches
<1>6. /\ a \in Nat /\ b \in Nat /\ c \in Nat /\ d \in Nat /\ e \in Nat
      /\ InputsNow = a + b /\ a + b + c + d + e = InputQueue
  BY Lengths, Sizes DEF IInv, Accounts, InputsNow, Typed, FetchTyped, LoaderTyped
<1>7. freeInputs' = (a + b) - e1
  BY <1>5, <1>6
<1>8. InputsAccount' <=> freeInputs' + b1 + c1 + d1 + e1 = InputQueue
  BY DEF InputsAccount
<1> HIDE DEF a, b, c, d, e, b1, c1, d1, e1
<1>9. ((a + b) - e1) + b1 + c1 + d1 + e1 = InputQueue
  BY <1>3, <1>4, <1>5, <1>6
<1> QED BY <1>7, <1>8, <1>9

LEMMA EntriesNext ==
  ASSUME IInv, Boxes, Streaming
  PROVE  EntriesAccount'
<1> DEFINE a == freeEntries
           b == entryFreed
           b1 == entryFreed'
           e1 == Len(newIndex')
<1>1. fetched' = fetched + e1 /\ freeEntries' = EntriesNow - e1 /\ e1 \in Nat
  BY FetchIs DEF Boxes, Fetches
<1>2. b1 \in Nat /\ sent' = sent + b1
  BY SentNext
<1>3. /\ a \in Nat /\ b \in Nat /\ fetched \in Nat /\ sent \in Nat
      /\ EntriesNow = a + b /\ a + b + (fetched - sent) = OutputFIFO
  BY Lengths, Sizes DEF IInv, Accounts, EntriesNow, Typed, FetchTyped, CommitTyped
<1>4. EntriesAccount' <=> freeEntries' + b1 + (fetched' - sent') = OutputFIFO
  BY DEF EntriesAccount
<1>5. fetched' - sent' = (fetched - sent) + e1 - b1 /\ freeEntries' = (a + b) - e1
  BY <1>1, <1>2, <1>3
<1> DEFINE d == fetched - sent
           d1 == fetched' - sent'
<1>6. d \in Int /\ a + b + d = OutputFIFO /\ d1 = d + e1 - b1
  BY <1>3, <1>5
<1> HIDE DEF a, b, b1, e1, d, d1
<1>7. ((a + b) - e1) + b1 + d1 = OutputFIFO
  BY <1>1, <1>2, <1>3, <1>6
<1> QED BY <1>4, <1>5, <1>7 DEF d1

LEMMA LinesNext ==
  ASSUME IInv, Boxes, commit = "STREAMING"
  PROVE  LinesAccount' /\ LinesNow' <= OutputMemory
<1> DEFINE f == freeLines
           r == already
           c == Cardinality(Confirmed)
           d == Len(dealloc)
           u == Cardinality(UsedLines)
           a == Len(answer)
           e == Len(newIndex)
           f1 == freeLines'
           r1 == already'
           c1 == Cardinality(Confirmed')
           d1 == Len(dealloc')
           u1 == Cardinality(UsedLines')
           a1 == Len(answer')
           e1 == Len(newIndex')
           v == Cardinality(Revived)
           s == Cardinality(SharedLines)
<1>1. Streaming /\ CommitOutputs
  BY Together, CommitIs DEF Boxes
<1>2. unconfirmed' = dealloc
  BY <1>1, CacheIs DEF Boxes, Looks
<1>3. c1 \in Nat /\ v \in Nat /\ c1 + v = d
  BY <1>1, <1>2, ConfirmNext
<1>4. u1 \in Nat /\ s \in Nat /\ u1 + d1 + s = u + a
  <2>1. u1 \in Nat /\ u1 + Len(LinesOut) + s = u + a
    BY <1>1, UsesNext
  <2>2. dealloc' = LinesOut
    BY <1>1, FreedNext
  <2> QED BY <2>1, <2>2, UsesIs
<1>5. r1 = s + v
  BY <1>1, CommitUnfolded
<1>6. a1 = e
  BY <1>1, ReceivedNext
<1>7. f1 = LinesNow - e1 /\ e1 \in Nat /\ e1 <= LinesNow
  BY <1>1, FetchIs DEF Boxes, Fetches
<1>8. LinesNow = f + r + c
  BY DEF LinesNow
<1>9. f \in Nat /\ r \in Nat
  BY Sizes DEF IInv, Typed, FetchTyped, CommitTyped
<1>10. c \in Nat /\ d \in Nat /\ u \in Nat /\ a \in Nat /\ e \in Nat
  BY ConfirmedIs, UsesIs, Lengths
<1>11. f + r + c + d + u + a + e = OutputMemory
  BY DEF IInv, Accounts
<1>12. d1 \in Nat
  BY <1>1, FreedNext
<1>13. LinesAccount' <=> f1 + r1 + c1 + d1 + u1 + a1 + e1 = OutputMemory
  BY DEF LinesAccount
<1>14. LinesNow' = f1 + r1 + c1
  BY DEF LinesNow
<1> HIDE DEF f, r, c, d, u, a, e, f1, r1, c1, d1, u1, a1, e1, v, s
<1>15. f1 = (f + r + c) - e1 /\ f1 \in Nat
  BY <1>7, <1>8, <1>9, <1>10
<1>16. f1 + r1 + c1 + d1 + u1 + a1 + e1 = OutputMemory
  BY <1>3, <1>4, <1>5, <1>6, <1>7, <1>9, <1>10, <1>11, <1>12, <1>15
<1>17. f1 + r1 + c1 <= OutputMemory
  BY <1>3, <1>4, <1>5, <1>6, <1>7, <1>10, <1>12, <1>15, <1>16
<1> QED BY <1>13, <1>14, <1>16, <1>17

LEMMA AccountsNext ==
  ASSUME IInv, Boxes
  PROVE  Accounts'
<1>1. /\ MainCycle /\ FetchCycle /\ CacheCycle /\ LoaderCycle /\ CommitCycle
  BY DEF Boxes
<1>2. Streaming' <=> (IF Streaming THEN command # "END" ELSE command = "START")
  BY <1>1, StreamNext
<1>3. Accounts' <=> /\ Streaming' => InputsAccount' /\ EntriesAccount'
                    /\ commit' = "STREAMING" => LinesAccount'
                    /\ Streaming' => LinesNow' <= OutputMemory
  BY DEF Accounts, InputsAccount, EntriesAccount, LinesAccount
<1>4. CASE commit = "STREAMING"
  BY <1>3, <1>4, Together, InputsNext, EntriesNext, LinesNext
<1>5. CASE commit = "FINISHED"
  <2>1. Streaming /\ commit' # "STREAMING"
    BY <1>1, <1>5, Together, StatesNext
  <2>2. LinesNow' <= OutputMemory
    <3>1. already' = 0 /\ confirm' = <<>>
      BY <1>1, <1>5, CommitIs DEF CommitRests
    <3>2. Confirmed' = {}
      BY <3>1 DEF Confirmed, Elements
    <3>3. Cardinality(Confirmed') = 0
      BY <3>2, FS_EmptySet
    <3>4. LinesNow' = freeLines' + already' + Cardinality(Confirmed')
      BY DEF LinesNow
    <3>5. freeLines' = LinesNow - Len(newIndex') /\ Len(newIndex') \in Nat
      BY <1>1, <2>1, FetchIs DEF Fetches
    <3>6. LinesNow \in Nat /\ LinesNow <= OutputMemory
      BY <2>1, CountsAre
    <3> DEFINE z == Len(newIndex')
    <3>7. z \in Nat /\ freeLines' = LinesNow - z
      BY <3>5
    <3> HIDE DEF z
    <3>8. freeLines' \in Int /\ freeLines' <= OutputMemory
      BY <3>6, <3>7, Sizes
    <3>9. LinesNow' = freeLines' + 0 + 0
      BY <3>1, <3>3, <3>4
    <3>10. \A i \in Int : i + 0 + 0 = i
      OBVIOUS
    <3> QED BY <3>8, <3>9, <3>10
  <2> QED BY <1>3, <2>1, <2>2, InputsNext, EntriesNext
<1>6. CASE commit = "READY" /\ command = "START"
  <2>1. ~Streaming
    BY <1>6, Together
  <2>2. /\ fetched' = 0 /\ newIndex' = <<>> /\ freeLines' = OutputMemory
        /\ freeEntries' = OutputFIFO /\ freeInputs' = InputQueue
    BY <1>1, <1>6, <2>1, FetchRests
  <2>3. /\ sent' = 0 /\ entryFreed' = 0 /\ already' = 0 /\ dealloc' = <<>> /\ confirm' = <<>>
        /\ lastUse' = [l \in Lines |-> NoEntry]
    BY <1>1, <1>6, CommitIs DEF CommitStart
  <2>4. answer' = <<>> /\ irq' = <<>> /\ inputFreed' = 0
    BY <1>1, <1>6, <2>1, CacheRests, Unloaded
  <2>5. Len(newIndex') = 0 /\ Len(answer') = 0 /\ Len(irq') = 0 /\ Len(dealloc') = 0
    BY <2>2, <2>3, <2>4
  <2>6. Confirmed' = {} /\ UsedLines' = {}
    <3>1. Confirmed' = {}
      BY <2>3 DEF Confirmed, Elements
    <3>2. UsedLines' = { l \in Lines : lastUse'[l] # NoEntry }
      BY DEF UsedLines, NoEntry, Lines
    <3> QED BY <2>3, <3>1, <3>2
  <2>7. Cardinality(Confirmed') = 0 /\ Cardinality(UsedLines') = 0
    BY <2>6, FS_EmptySet
  <2>8. /\ InputsAccount' <=> freeInputs' + inputFreed' + Len(irq') + Len(answer') + Len(newIndex') = InputQueue
        /\ EntriesAccount' <=> freeEntries' + entryFreed' + (fetched' - sent') = OutputFIFO
        /\ LinesAccount' <=> freeLines' + already' + Cardinality(Confirmed') + Len(dealloc')
              + Cardinality(UsedLines') + Len(answer') + Len(newIndex') = OutputMemory
        /\ LinesNow' = freeLines' + already' + Cardinality(Confirmed')
    BY DEF InputsAccount, EntriesAccount, LinesAccount, LinesNow
  <2>9. InputQueue + 0 + 0 + 0 + 0 = InputQueue
    BY Sizes
  <2>10. OutputFIFO + 0 + (0 - 0) = OutputFIFO
    BY Sizes
  <2>11. OutputMemory + 0 + 0 + 0 + 0 + 0 + 0 = OutputMemory /\ OutputMemory + 0 + 0 <= OutputMemory
    BY Sizes
  <2>12. InputsAccount'
    BY <2>2, <2>4, <2>5, <2>8, <2>9
  <2>13. EntriesAccount'
    BY <2>2, <2>3, <2>8, <2>10
  <2>14. LinesAccount' /\ LinesNow' <= OutputMemory
    BY <2>2, <2>3, <2>5, <2>7, <2>8, <2>11
  <2> QED BY <1>3, <2>12, <2>13, <2>14
<1>7. CASE commit = "READY" /\ command # "START"
  <2>1. ~Streaming
    BY <1>7, Together
  <2>2. ~Streaming' /\ commit' = "READY"
    BY <1>1, <1>2, <1>7, <2>1, StatesNext
  <2> QED BY <1>3, <2>2
<1> QED BY <1>4, <1>5, <1>6, <1>7, Together DEF States

LEMMA IInvInit == Init => IInv
<1> SUFFICES ASSUME Init PROVE IInv
  OBVIOUS
<1>1. /\ main = "READY" /\ command = "none" /\ stream = <<>>
      /\ fetch = "READY" /\ fetched = 0
      /\ freeLines = 0 /\ freeEntries = 0 /\ freeInputs = 0
      /\ newIndex = <<>>
      /\ tag = [l \in Lines |-> NoIndex] /\ valid = {}
      /\ freeList = [n \in 1 .. OutputMemory |-> n - 1]
      /\ update = {} /\ unconfirmed = <<>> /\ answer = <<>>
      /\ irq = <<>> /\ inputFreed = 0 /\ shading = {}
      /\ commit = "READY" /\ sent = 0
      /\ fifo = [e \in Entries |-> NoOutput]
      /\ lastUse = [l \in Lines |-> NoEntry]
      /\ memory = [l \in Lines |-> NoIndex]
      /\ bus = [b \in Buses |-> 0]
      /\ requests = 0 /\ freed = <<>>
      /\ already = 0 /\ entryFreed = 0
      /\ dealloc = <<>> /\ confirm = <<>>
      /\ request = 0
  BY DEF Init
<1>2. ControlTyped
  BY <1>1 DEF ControlTyped, States
<1>3. FetchTyped
  BY <1>1, Sizes DEF FetchTyped
<1>4. CacheTyped
  <2> DEFINE all == [n \in 1 .. OutputMemory |-> n - 1]
  <2>1. \A n \in 1 .. OutputMemory : n - 1 \in Lines
    BY Sizes
  <2>2. all \in Seq(Lines)
    BY <2>1, Sizes
  <2>3. Distinct(all)
    BY Sizes DEF Distinct
  <2>4. freeList = all
    BY <1>1
  <2> HIDE DEF all
  <2>5. tag \in [Lines -> Index \cup {NoIndex}]
    BY <1>1
  <2>6. freeList \in Seq(Lines) /\ Distinct(freeList)
    BY <2>2, <2>3, <2>4
  <2>7. valid = {} /\ update = {} /\ unconfirmed = <<>> /\ answer = <<>>
    BY <1>1
  <2> QED BY <2>5, <2>6, <2>7 DEF CacheTyped
<1>5. LoaderTyped
  BY <1>1 DEF LoaderTyped
<1>6. CommitTyped
  <2>1. 0 \in 0 .. TransCycles
    BY Sizes
  <2>2. /\ fifo \in [Entries -> Outputs \cup {NoOutput}]
        /\ lastUse \in [Lines -> Entries \cup {NoEntry}]
        /\ memory \in [Lines -> Index \cup {NoIndex}]
        /\ bus \in [Buses -> 0 .. TransCycles]
    BY <1>1, <2>1
  <2>3. Distinct(<<>>) /\ LinesOf(<<>>) = <<>>
    BY DEF Distinct, LinesOf
  <2> QED BY <1>1, <2>2, <2>3 DEF CommitTyped
<1>7. ~Streaming /\ DOMAIN answer = {} /\ DOMAIN newIndex = {} /\ DOMAIN irq = {}
  BY <1>1 DEF Streaming
<1>8. Received = 0
  <2> DEFINE a == Len(answer)
             b == Len(newIndex)
  <2>1. a = 0 /\ b = 0 /\ fetched = 0 /\ Received = (fetched - a) - b
    BY <1>1 DEF Received
  <2> HIDE DEF a, b
  <2> QED BY <2>1
<1>9. Control
  BY <1>1 DEF Control
<1>10. Ring
  <2>1. 0 - 0 <= OutputFIFO
    BY Sizes
  <2> QED BY <1>1, <1>7, <1>8, <2>1 DEF Ring
<1>11. OwnEntries
  BY <1>1, <1>7 DEF OwnEntries
<1>12. Accounts
  BY <1>1, <1>7 DEF Accounts
<1>13. FreedKept /\ Gone
  BY <1>1, <1>7 DEF FreedKept, Gone
<1> QED BY <1>2, <1>3, <1>4, <1>5, <1>6, <1>9, <1>10, <1>11, <1>12, <1>13 DEF IInv, Typed

LEMMA IInvNext == IInv /\ [Next]_vars => IInv'
<1>1. ASSUME IInv, Next PROVE IInv'
  <2>1. Boxes
    BY <1>1 DEF Next, Boxes
  <2>2. MainCycle /\ FetchCycle /\ CommitCycle
    BY <2>1 DEF Boxes
  <2>3. Control'
    BY <1>1, <2>2, ControlNext
  <2> QED BY <1>1, <2>1, <2>3, TypedNext, RingNext, OwnEntriesNext, AccountsNext, FreedKeptNext, GoneNext
          DEF IInv
<1>2. ASSUME IInv, UNCHANGED vars PROVE IInv'
  <2>1. /\ UNCHANGED control /\ UNCHANGED fetchVars /\ UNCHANGED cacheVars /\ UNCHANGED loaderVars
        /\ UNCHANGED commitVars /\ UNCHANGED request
    BY <1>2 DEF vars
  <2>2. /\ UNCHANGED <<main, command, stream>>
        /\ UNCHANGED <<fetch, fetched, freeLines, freeEntries, freeInputs, newIndex>>
        /\ UNCHANGED <<tag, valid, freeList, update, unconfirmed, answer>>
        /\ UNCHANGED <<irq, inputFreed, shading>>
        /\ UNCHANGED <<commit, sent, fifo, lastUse, memory, bus, requests, freed>>
        /\ UNCHANGED <<already, entryFreed, dealloc, confirm>>
        /\ UNCHANGED request
    BY <2>1 DEF control, fetchVars, cacheVars, loaderVars, commitVars
  <2>3. Typed'
    <3>1. ControlTyped' /\ FetchTyped' /\ LoaderTyped'
      BY <1>2, <2>2 DEF IInv, Typed, ControlTyped, FetchTyped, LoaderTyped
    <3>2. CacheTyped'
      BY <1>2, <2>2 DEF IInv, Typed, CacheTyped, Distinct
    <3>3. CommitTyped'
      BY <1>2, <2>2 DEF IInv, Typed, CommitTyped, Distinct, LinesOf
    <3> QED BY <3>1, <3>2, <3>3 DEF Typed
  <2>4. Control'
    BY <1>2, <2>2 DEF IInv, Control
  <2>5. Streaming' = Streaming /\ Received' = Received
    BY <2>2 DEF Streaming, Received
  <2>6. Ring'
    BY <1>2, <2>2, <2>5 DEF IInv, Ring
  <2>7. OwnEntries'
    BY <1>2, <2>2 DEF IInv, OwnEntries, Waits
  <2>8. Accounts'
    <3>1. Confirmed' = Confirmed /\ UsedLines' = UsedLines
      BY <2>2 DEF Confirmed, Elements, UsedLines
    <3>2. LinesNow' = LinesNow
      BY <2>2, <3>1 DEF LinesNow
    <3> QED BY <1>2, <2>2, <2>5, <3>1, <3>2 DEF IInv, Accounts
  <2>9. FreedKept'
    BY <1>2, <2>2 DEF IInv, FreedKept, LinesOf
  <2>10. Gone'
    BY <1>2, <2>2, <2>5 DEF IInv, Gone
  <2> QED BY <2>3, <2>4, <2>6, <2>7, <2>8, <2>9, <2>10 DEF IInv
<1> QED BY <1>1, <1>2

\* The inductive invariant.
LEMMA Invariant == Spec => []IInv
BY IInvInit, IInvNext, PTL DEF Spec

-----------------------------------------------------------------------------
\* Every variable of the four boxes has its type: the counters of free inputs,
\* entries and lines stay within what there is of them, the list of free lines
\* holds no line twice (Fetch, Output Cache, Loader and Commit).
THEOREM StreamerTyped == Spec => []TypeOK
<1>1. IInv => TypeOK
  <2> SUFFICES ASSUME IInv PROVE TypeOK
    OBVIOUS
  <2>1. ControlTyped /\ FetchTyped /\ CacheTyped /\ LoaderTyped /\ CommitTyped
    BY DEF IInv, Typed
  <2>2. /\ main \in States /\ fetch \in States /\ commit \in States
        /\ command \in {"none", "START", "END"}
        /\ Elements(stream) \subseteq Index
    BY <2>1, DomainIs DEF ControlTyped
  <2>3. /\ {fetched, sent, requests, request, already, entryFreed, inputFreed} \subseteq Nat
        /\ freeLines \in 0 .. OutputMemory /\ freeEntries \in 0 .. OutputFIFO
        /\ freeInputs \in 0 .. InputQueue
    BY <2>1 DEF FetchTyped, LoaderTyped, CommitTyped
  <2>4. Elements(newIndex) \subseteq [index : Index, entry : Entries, last : BOOLEAN]
    BY <2>1, DomainIs DEF FetchTyped, NewIndices
  <2>5. /\ tag \in [Lines -> Index \cup {NoIndex}] /\ valid \subseteq Lines
        /\ update \subseteq [line : Lines, index : Index]
        /\ freeList \in Seq(Lines) /\ Distinct(freeList)
        /\ unconfirmed \in Seq(Lines)
    BY <2>1 DEF CacheTyped
  <2>6. Elements(freeList) \subseteq Lines /\ Len(freeList) = Cardinality(Elements(freeList))
    BY <2>5, DomainIs, DistinctSize
  <2>7. Elements(answer) \subseteq
          [index : Index, entry : Entries, last : BOOLEAN, hit : BOOLEAN, line : Lines]
    BY <2>1, DomainIs DEF CacheTyped, Answers
  <2>8. Elements(irq) \cup shading \subseteq [index : Index, entry : Entries, killed : BOOLEAN]
    <3>1. Elements(irq) \subseteq Inputs /\ shading \subseteq Inputs
      BY <2>1, DomainIs DEF LoaderTyped
    <3> QED BY <3>1 DEF Inputs
  <2>9. /\ fifo \in [Entries -> Outputs \cup {NoOutput}]
        /\ lastUse \in [Lines -> Entries \cup {NoEntry}]
        /\ memory \in [Lines -> Index \cup {NoIndex}]
        /\ bus \in [Buses -> 0 .. TransCycles]
        /\ freed \in Seq(Freed) /\ dealloc \in Seq(Lines) /\ confirm \in Seq(Lines)
    BY <2>1 DEF CommitTyped
  <2>10. Elements(freed) \subseteq [index : Index, line : Lines]
    BY <2>9, DomainIs DEF Freed
  <2>11. Elements(dealloc) \cup Elements(confirm) \cup Elements(unconfirmed) \subseteq Lines
    <3>1. Elements(dealloc) \subseteq Lines
      BY <2>9, DomainIs
    <3>2. Elements(confirm) \subseteq Lines
      BY <2>9, DomainIs
    <3>3. Elements(unconfirmed) \subseteq Lines
      BY <2>5, DomainIs
    <3> QED BY <3>1, <3>2, <3>3
  <2> QED BY <2>2, <2>3, <2>4, <2>5, <2>6, <2>7, <2>8, <2>9, <2>10, <2>11 DEF TypeOK
<1> QED BY <1>1, Invariant, PTL

\* Inputs, entries and lines that Fetch counts, that are in use and that come
\* back make up all there is, in every state of every batch: three boxes give
\* back what Fetch took without seeing it (STRC_OM_ALREADY_ALLOC,
\* STRC_DEALLOC_OM_CONFIRM).  This is the account of Fetch: a line that is
\* missing in the list of the Output Cache is free in it all the same.
THEOREM ResourcesAddUp == Spec => []ResourcesAccounted
<1>1. IInv => ResourcesAccounted
  <2> SUFFICES ASSUME IInv, Streaming
               PROVE  /\ freeInputs + inputFreed + Len(irq) + Len(answer) + Len(newIndex) = InputQueue
                      /\ freeEntries + entryFreed + fetched - sent = OutputFIFO
                      /\ commit = "STREAMING" =>
                           freeLines + already + Cardinality(Confirmed) + Len(dealloc)
                             + Cardinality({ l \in Lines : lastUse[l] # NoEntry })
                             + Len(answer) + Len(newIndex) = OutputMemory
    BY DEF ResourcesAccounted
  <2>1. /\ freeInputs + inputFreed + Len(irq) + Len(answer) + Len(newIndex) = InputQueue
        /\ freeEntries + entryFreed + (fetched - sent) = OutputFIFO
        /\ commit = "STREAMING" =>
             freeLines + already + Cardinality(Confirmed) + Len(dealloc)
               + Cardinality(UsedLines) + Len(answer) + Len(newIndex) = OutputMemory
    BY DEF IInv, Accounts
  <2>2. freeEntries + entryFreed + fetched - sent = OutputFIFO
    <3>1. freeEntries \in Nat /\ entryFreed \in Nat /\ fetched \in Nat /\ sent \in Nat
      BY Lengths, Sizes DEF IInv, Typed, FetchTyped, CommitTyped
    <3>2. freeEntries + entryFreed + fetched - sent = freeEntries + entryFreed + (fetched - sent)
      BY <3>1
    <3> QED BY <2>1, <3>2
  <2> QED BY <2>1, <2>2 DEF UsedLines
<1> QED BY <1>1, Invariant, PTL

\* No assertion about a counter fails: Fetch never counts more than there is,
\* the Loader has room for every answer, Commit has an entry for every answer
\* (the part of AssertionsHold that is true for all sizes and streams).
CountersHold == CountersBounded /\ InputsLeft /\ EntriesLeft

THEOREM CountersNeverFail == Spec => []CountersHold
<1>1. IInv => CountersHold
  <2> SUFFICES ASSUME IInv PROVE CountersHold
    OBVIOUS
  <2>1. CountersBounded
    BY CountsAre DEF CountersBounded
  <2>2. InputsLeft
    <3>1. CASE Streaming
      <4> DEFINE a == Len(irq)
                 b == Len(answer)
                 c == Len(newIndex)
      <4>1. /\ freeInputs + inputFreed + a + b + c = InputQueue
            /\ freeInputs \in Nat /\ inputFreed \in Nat /\ a \in Nat /\ b \in Nat /\ c \in Nat
        BY <3>1, Lengths, Sizes DEF IInv, Accounts, Typed, FetchTyped, LoaderTyped
      <4> HIDE DEF a, b, c
      <4>2. a + b <= InputQueue
        BY <4>1
      <4> QED BY <4>2 DEF a, b, InputsLeft
    <3>2. CASE ~Streaming
      <4>1. Len(irq) = 0 /\ Len(answer) = 0
        BY <3>2 DEF IInv, Gone
      <4> QED BY <4>1, Sizes DEF InputsLeft
    <3> QED BY <3>1, <3>2
  <2>3. EntriesLeft
    <3> DEFINE used == { e \in Entries : fifo[e] # NoOutput }
               free == { answer[n].entry : n \in DOMAIN answer }
               D == DOMAIN answer
    <3>1. IsFiniteSet(Entries) /\ Cardinality(Entries) = OutputFIFO
      <4>1. 0 <= OutputFIFO - 1 /\ (OutputFIFO - 1) - 0 + 1 = OutputFIFO /\ OutputFIFO - 1 \in Int /\ 0 \in Int
        BY Sizes
      <4>2. IsFiniteSet(0 .. OutputFIFO - 1)
            /\ Cardinality(0 .. OutputFIFO - 1)
                 = IF 0 > OutputFIFO - 1 THEN 0 ELSE (OutputFIFO - 1) - 0 + 1
        BY <4>1, FS_Interval
      <4> QED BY <4>1, <4>2, Sizes
    <3>2. CASE answer = <<>>
      <4>1. used \subseteq Entries /\ Len(answer) = 0
        BY <3>2
      <4> HIDE DEF used
      <4>2. Cardinality(used) <= OutputFIFO /\ Cardinality(used) \in Nat
        BY <3>1, <4>1, FS_Subset, FS_CardinalityType
      <4> QED BY <4>1, <4>2 DEF used, EntriesLeft
    <3>3. CASE answer # <<>>
      <4>1. Streaming
        BY <3>3 DEF IInv, Gone
      <4>2. free \subseteq Entries /\ used \subseteq Entries /\ used \cap free = {}
        BY <4>1, QueueIs, AnswerEntry
      <4> DEFINE f == [n \in D |-> answer[n].entry]
      <4>3. /\ f \in [D -> free] /\ \A t \in free : \E n \in D : f[n] = t
            /\ \A m, n \in D : f[m] = f[n] => m = n
        BY AnswersApart
      <4>4. IsFiniteSet(D) /\ Cardinality(D) = Len(answer) /\ Len(answer) \in Nat
        <5>1. answer \in Seq(Answers)
          BY DEF IInv, Typed, CacheTyped
        <5> QED BY <5>1, DomainIs
      <4> HIDE DEF D, f, used, free
      <4>5. IsFiniteSet(free) /\ Cardinality(free) = Len(answer)
        BY <4>3, <4>4, SameSize
      <4>6. IsFiniteSet(used) /\ Cardinality(used) \in Nat
        BY <3>1, <4>2, FS_Subset, FS_CardinalityType
      <4>7. Cardinality(used \cup free) = Cardinality(used) + Cardinality(free)
        <5>1. Cardinality(used \cup free)
                = Cardinality(used) + Cardinality(free) - Cardinality(used \cap free)
          BY <4>5, <4>6, FS_Union
        <5>2. Cardinality(used \cap free) = 0
          BY <4>2, FS_EmptySet
        <5> QED BY <4>4, <4>5, <4>6, <5>1, <5>2
      <4>8. Cardinality(used \cup free) <= Cardinality(Entries)
        <5>1. used \cup free \subseteq Entries
          BY <4>2
        <5> QED BY <3>1, <5>1, FS_Subset
      <4> QED BY <3>1, <4>5, <4>7, <4>8 DEF used, EntriesLeft
    <3> QED BY <3>2, <3>3
  <2> QED BY <2>1, <2>2, <2>3 DEF CountersHold
<1> QED BY <1>1, Invariant, PTL

\* When the boxes are ready nothing of the batch is on its way: no index, no
\* input, no line or confirmation that the next batch would take for its own.
THEOREM NothingLeft == Spec => []NothingLeftBehind
<1>1. IInv => NothingLeftBehind
  <2> SUFFICES ASSUME IInv, ~Streaming
               PROVE  /\ Waiting = <<>> /\ irq = <<>> /\ shading = {} /\ update = {}
                      /\ dealloc = <<>> /\ confirm = <<>> /\ unconfirmed = <<>>
                      /\ already + entryFreed + inputFreed = 0
    BY DEF NothingLeftBehind
  <2>1. /\ fetched = sent /\ answer = <<>> /\ newIndex = <<>> /\ update = {}
        /\ irq = <<>> /\ shading = {} /\ unconfirmed = <<>>
        /\ dealloc = <<>> /\ confirm = <<>>
        /\ already = 0 /\ entryFreed = 0 /\ inputFreed = 0
    BY DEF IInv, Gone
  <2>2. Len(answer) = 0 /\ Len(newIndex) = 0 /\ DOMAIN answer = {} /\ DOMAIN newIndex = {}
    BY <2>1
  <2> DEFINE w == (fetched - Len(answer) - Len(newIndex)) - sent
             A == [n \in 1 .. w |-> fifo[(sent + n - 1) % OutputFIFO].index]
             B == [n \in DOMAIN answer |-> answer[n].index]
             C == [n \in DOMAIN newIndex |-> newIndex[n].index]
  <2>3. w = 0
    BY <2>1, <2>2, Lengths
  <2>4. B = <<>> /\ C = <<>>
    BY <2>2
  <2>5. Waiting = A \o B \o C
    BY DEF Waiting
  <2> HIDE DEF w
  <2>6. A = <<>>
    BY <2>3
  <2> HIDE DEF A, B, C
  <2>7. Waiting = <<>>
    BY <2>4, <2>5, <2>6
  <2>8. already + entryFreed + inputFreed = 0
    BY <2>1
  <2> QED BY <2>1, <2>7, <2>8
<1> QED BY <1>1, Invariant, PTL
=============================================================================
