--------------------------- MODULE ChannelMemory ---------------------------
(***************************************************************************)
(* What a memory channel promises the controller: every transaction is     *)
(* performed once and answered once after that, and of two that touch a    *)
(* common byte, one of them a write, the one sent first is performed first.*)
(*                                                                         *)
(* It says nothing of queues, of banks or of how long anything takes.      *)
(***************************************************************************)
EXTENDS Naturals

CONSTANT Blocks     \* [bank, row, start, size]: what a transaction touches

VARIABLES
  count,       \* transactions sent
  pending,     \* not performed yet
  performed,   \* performed, and not answered yet
  reply        \* answered in the last cycle

vars == <<count, pending, performed, reply>>

Transaction(n) == [n : {n}, read : BOOLEAN, block : Blocks]

Bytes(b) == { <<b.bank, b.row, i>> : i \in b.start .. b.start + b.size - 1 }
Conflict(t, u) == Bytes(t.block) \cap Bytes(u.block) # {} /\ ~(t.read /\ u.read)
OldestOf(t, s) == \A u \in s : Conflict(t, u) => t.n <= u.n

Init == count = 0 /\ pending = {} /\ performed = {} /\ reply = {}

\* Nothing, or one of a set.
AtMostOne(s) == {{}} \cup { {t} : t \in s }

\* In a cycle a transaction may be performed, one answered and one sent.
Next ==
  \E now \in AtMostOne({ t \in pending : OldestOf(t, pending) }) :
  \E new \in AtMostOne(Transaction(count + 1)) :
    /\ reply' \in AtMostOne(performed \cup now)
    /\ performed' = (performed \cup now) \ reply'
    /\ pending' = (pending \ now) \cup new
    /\ count' = IF new = {} THEN count ELSE count + 1

Spec == Init /\ [][Next]_vars
=============================================================================
