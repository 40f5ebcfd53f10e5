-------------------------- MODULE ChannelScheduler --------------------------
(***************************************************************************)
(* The scheduler of a memory channel: one of FifoScheduler,                *)
(* RWFifoScheduler and BankQueueScheduler, over FifoSchedulerBase and      *)
(* ChannelScheduler.  It takes transactions while the state it sent two    *)
(* cycles ago lets the Memory Controller send them, performs one after the *)
(* other on the DDR module, and answers each.                              *)
(*                                                                         *)
(* RWFifoScheduler lets reads and writes overtake each other but for those *)
(* that overlap: the later one waits for the newest earlier one            *)
(* (DependencyQueue).  BankQueueScheduler takes the front of any bank.     *)
(*                                                                         *)
(* A step is a cycle.  Transactions carry the number of their place in the *)
(* order in which they were sent, so that a queue is the set of its        *)
(* transactions and its front the one with the least number.  When the DDR *)
(* module takes a command or returns a burst, and which page is open, is   *)
(* left open, and so is the order of the bank selection policies.          *)
(***************************************************************************)
EXTENDS Naturals, Sequences, FiniteSets

CONSTANTS
  Schedulers,          \* configurations: kind, size of each queue, policy, shared
  Blocks,              \* what transactions touch: bank, row, start, size
  MaxConsecutive,      \* consecutive reads (TRUE) and writes of TwoCounters
  MaxTransactions      \* bound: transactions sent

Kinds == {"Fifo", "RWFifo", "BankQueue"}
Policies == {"TwoCounters", "LoadsOverStores"}

QueueNames(kind) ==
  CASE kind = "Fifo"   -> {"transQ"}
    [] kind = "RWFifo" -> {"readQ", "writeQ"}
    [] OTHER           -> { b.bank : b \in Blocks }

ASSUME SchedulerAssumption ==
  \A s \in Schedulers :
    /\ s.kind \in Kinds /\ s.policy \in Policies /\ s.shared \in BOOLEAN
    /\ s.size \in [QueueNames(s.kind) -> Nat \ {0}]
ASSUME BlockAssumption == \A b \in Blocks : b.start \in Nat /\ b.size \in Nat \ {0}
ASSUME CountAssumption ==
  MaxConsecutive \in [BOOLEAN -> Nat \ {0}] /\ MaxTransactions \in Nat

VARIABLES
  config,      \* the scheduler
  sent,        \* transactions sent
  request,     \* the one on its way to the scheduler, if any
  queue,       \* transactions in the queues
  waits,       \* pairs: the second is the dependency of the first
  accept,      \* queues that accept, in the state on its way to the controller
  current,     \* the transaction whose commands are sent, if any
  reads,       \* inProgressReads after their last command
  replies,     \* replyQ
  reply,       \* the answer on its way to the controller, if any
  mode,        \* what the policy does, and for how many transactions
  passed,      \* history: how often a ready read (TRUE) or write was passed over
  answered     \* history: transactions answered

vars == <<config, sent, request, queue, waits, accept, current, reads, replies,
          reply, mode, passed, answered>>

\* Reads and writes have queues of their own in RWFifoScheduler.
QueueOf(t) ==
  CASE config.kind = "Fifo"   -> "transQ"
    [] config.kind = "RWFifo" -> IF t.read THEN "readQ" ELSE "writeQ"
    [] OTHER                  -> t.block.bank
Queued(q, s) == { t \in s : QueueOf(t) = q }

Init ==
  /\ config \in Schedulers
  /\ sent = 0 /\ request = {} /\ queue = {} /\ waits = {} /\ accept = {}
  /\ current = {} /\ reads = <<>> /\ replies = <<>> /\ reply = {}
  /\ mode = [reading |-> TRUE, ops |-> 0]
  /\ passed = [read \in BOOLEAN |-> 0] /\ answered = 0

-----------------------------------------------------------------------------
\* The Memory Controller sends what the state it reads lets it send.
SendRequest ==
  \/ request' = {} /\ UNCHANGED sent
  \/ /\ sent < MaxTransactions
     /\ sent' = sent + 1
     /\ \E read \in BOOLEAN, block \in Blocks :
          LET t == [n |-> sent + 1, read |-> read, block |-> block]
          IN  QueueOf(t) \in accept /\ request' = {t}

\* overlapsWith: the one that starts first reaches the other.
\* (Mutant: from the same start only.)
OverlapSameStart(b, c) == b.bank = c.bank /\ b.row = c.row /\ b.start = c.start
Overlap(b, c) ==
  LET first == IF b.start > c.start THEN c ELSE b
      second == IF b.start > c.start THEN b ELSE c
  IN  b.bank = c.bank /\ b.row = c.row /\ first.start + first.size >= second.start

\* findDependency: the newest that overlaps in the other queue.
\* (Mutant: the oldest.)
Newest(s) == { t \in s : \A u \in s : u.n <= t.n }
OldestOverlap(t) ==
  LET s == { u \in queue : u.read # t.read /\ Overlap(t.block, u.block) }
  IN  { u \in s : \A v \in s : u.n <= v.n }
Dependency(t) == Newest({ u \in queue : u.read # t.read /\ Overlap(t.block, u.block) })

\* The queues and the dependencies when the request has been received.
Arrived == queue \cup request
Waiting ==
  IF config.kind # "RWFifo" THEN waits
  ELSE waits \cup { p \in request \X queue : p[2] \in Dependency(p[1]) }

\* The transactions that may be next: fronts that wait for no other.
Fronts(s) == { t \in s : \A u \in s : QueueOf(u) = QueueOf(t) => t.n <= u.n }
Ready(s) == { t \in Fronts(s) : \A p \in Waiting : p[1] # t }
Exists(read, s) == \E t \in Ready(s) : t.read = read

\* SwitchModeTwoCounters: at most so many of one kind while there are others.
\* (Mutant: they are not counted.)
TwoCountersUncounted(s) ==
  LET switch == ~Exists(mode.reading, s)
  IN  [mode EXCEPT !.reading = IF switch THEN ~@ ELSE @]
TwoCounters(s) ==
  LET full == mode.ops >= MaxConsecutive[mode.reading]
      switch == ~Exists(mode.reading, s) \/ (full /\ Exists(~mode.reading, s))
  IN  [reading |-> IF switch THEN ~mode.reading ELSE mode.reading,
       ops |-> (IF switch \/ full THEN 0 ELSE mode.ops) + 1]

\* SwitchModeLoadOverStores: writes go on only while they hit the open page.
LoadsOverStores(s) ==
  { [mode EXCEPT !.reading = IF @ THEN Exists(TRUE, s) \/ ~Exists(FALSE, s)
                                  ELSE Exists(TRUE, s) /\ ~hit] :
      hit \in { h \in BOOLEAN : h => Exists(FALSE, s) } }

Modes(s) ==
  CASE config.kind = "Fifo" -> {mode}
    [] config.kind # "Fifo" /\ config.policy = "TwoCounters" -> {TwoCounters(s)}
    [] OTHER -> LoadsOverStores(s)

Candidates(m, s) == { t \in Ready(s) : config.kind # "Fifo" => t.read = m.reading }

\* wakeup: nobody waits any more for a transaction that has left its queue.
\* (Mutant: those in the write queue only.)
WokenWrites(t) == { p \in Waiting : t.read => p[2] # t }
Woken(t) == { p \in Waiting : p[2] # t }

\* selectNextTransaction, when the commands of the last one are sent.
Select(now) ==
  IF current # {} \/ Arrived = {}
  THEN now = current /\ queue' = Arrived /\ waits' = Waiting /\ UNCHANGED <<mode, passed>>
  ELSE \E m \in Modes(Arrived) : \E t \in Candidates(m, Arrived) :
         /\ now = {t}
         /\ queue' = Arrived \ {t}
         /\ waits' = Woken(t)
         /\ mode' = m
         /\ passed' = [read \in BOOLEAN |->
                         IF t.read # read /\ Exists(read, Arrived) THEN passed[read] + 1 ELSE 0]

\* A queue accepts if there is room for the transaction on the link and for
\* the one that answers to this state.  (Mutant: for one of them.)
RoomInTight(q) == Cardinality(Queued(q, queue')) < config.size[q]
RoomIn(q) == Cardinality(Queued(q, queue')) + 1 < config.size[q]
SendState ==
  LET room == { q \in QueueNames(config.kind) : RoomIn(q) }
  IN  accept' = IF config.shared /\ room # QueueNames(config.kind) THEN {} ELSE room

\* receiveData: the oldest read in progress is complete.
ReadsAfter(data) == IF data THEN Tail(reads) ELSE reads
RepliesAfter(data) == IF data THEN Append(replies, Head(reads)) ELSE replies

\* processReadReply: the next answer, a read's or a write's.
SendReply(r) ==
  \/ r = <<>> /\ reply' = {} /\ replies' = r /\ UNCHANGED answered
  \/ r # <<>> /\ reply' = {Head(r)} /\ replies' = Tail(r) /\ answered' = answered + 1

\* processNextDDRCommand: after its last command a write is done, and a read
\* waits for its data.  (Mutant: the write is not answered.)
SendCommandsUnanswered(now, data, last) ==
  \/ ~last /\ current' = now /\ reads' = ReadsAfter(data) /\ SendReply(RepliesAfter(data))
  \/ last /\ current' = {} /\ \E t \in now :
       \/ t.read /\ reads' = Append(ReadsAfter(data), t) /\ SendReply(RepliesAfter(data))
       \/ ~t.read /\ reads' = ReadsAfter(data) /\ SendReply(RepliesAfter(data))
SendCommands(now, data, last) ==
  \/ ~last /\ current' = now /\ reads' = ReadsAfter(data) /\ SendReply(RepliesAfter(data))
  \/ last /\ current' = {} /\ \E t \in now :
       \/ t.read /\ reads' = Append(ReadsAfter(data), t) /\ SendReply(RepliesAfter(data))
       \/ ~t.read /\ reads' = ReadsAfter(data) /\ SendReply(Append(RepliesAfter(data), t))

\* A cycle of the scheduler, in which the data of a read arrive or not and the
\* last command of a transaction is sent or not, and one of the controller.
Clock(data, last) ==
  /\ data => reads # <<>>
  /\ \E now \in {current} \cup { {t} : t \in Arrived } :
       Select(now) /\ SendCommands(now, data, last)
  /\ SendState
  /\ SendRequest
  /\ UNCHANGED config

Next == \E data, last \in BOOLEAN : Clock(data, last)

\* The clock goes on; the DDR module takes the commands of a transaction and
\* returns the data of a read, each of which some cycle can always do.
DataReturned ==
  {Tail(reads)} \cup { Append(Tail(reads), t) : t \in Arrived \cup current }
Fairness ==
  /\ WF_vars(Next)
  /\ WF_current(current # {} /\ current' = {})
  /\ WF_reads(reads # <<>> /\ reads' \in DataReturned)

Spec == Init /\ [][Next]_vars
FairSpec == Spec /\ Fairness

-----------------------------------------------------------------------------
Transactions(n) == [n : 1 .. n, read : BOOLEAN, block : Blocks]
AtMostOne(s) == \A t, u \in s : t = u

TypeOK ==
  /\ config \in Schedulers /\ sent \in 0 .. MaxTransactions
  /\ queue \cup request \cup current \cup reply \subseteq Transactions(sent)
  /\ AtMostOne(request) /\ AtMostOne(current) /\ AtMostOne(reply)
  /\ waits \subseteq queue \X queue
  /\ accept \subseteq QueueNames(config.kind)
  /\ reads \in Seq(Transactions(sent)) /\ replies \in Seq(Transactions(sent))
  /\ mode \in [reading : BOOLEAN, ops : Nat]
  /\ passed \in [BOOLEAN -> Nat] /\ answered \in Nat

\* A transaction finds room in its queue, whatever was on its way when the
\* state was withdrawn ("Read fifo queue full", "Bank queue full").
RoomForRequest ==
  \A t \in request :
    Cardinality(Queued(QueueOf(t), queue)) < config.size[QueueOf(t)]

\* Whenever there are transactions one of them is ready, and the policy turns
\* to a kind that has a ready one ("Reads or writes exist but any is ready =>
\* DEADLOK", "No ready read transaction and switch mode set to READ!").
AssertionsHold ==
  Arrived # {} => \A m \in Modes(Arrived) : Candidates(m, Arrived) # {}

\* With TwoCounters nothing that is ready is passed over for longer than the
\* policy allows, however the two kinds arrive.  The kinds are counted, not the
\* banks of a BankQueue.
FairToBoth ==
  config.policy = "TwoCounters" /\ config.kind # "Fifo" =>
    \A read \in BOOLEAN : passed[read] <= MaxConsecutive[~read]

\* The scheduler implements the memory: nothing is lost, performed or answered
\* twice, and what overlaps is performed in the order in which it was sent.
RangeOf(s) == { s[i] : i \in DOMAIN s }
Memory == INSTANCE ChannelMemory WITH
  count <- sent, pending <- queue \cup request,
  performed <- current \cup RangeOf(reads) \cup RangeOf(replies)
IsChannelMemory == Memory!Spec

\* Every transaction that was sent is answered in the end.
Answered == <>[](answered = sent)
=============================================================================
