------------------------- MODULE MCChannelScheduler -------------------------
(***************************************************************************)
(* Small instances of the schedulers of a memory channel.                  *)
(***************************************************************************)
EXTENDS ChannelScheduler

\* The first two touch a common word; the third is in another bank.
Block(bank, start, size) == [bank |-> bank, row |-> 0, start |-> start, size |-> size]
SomeBlocks == { Block("bank0", 0, 8), Block("bank0", 4, 8), Block("bank1", 0, 4) }

OneQueue == [kind |-> "Fifo", size |-> [q \in {"transQ"} |-> 2],
             policy |-> "TwoCounters", shared |-> FALSE]
\* maxChannelTransactions is 2 without a share for reads, or 3 with a share of 1.
ReadWrite(policy, writes) ==
  [kind |-> "RWFifo", size |-> [q \in {"readQ", "writeQ"} |-> IF q = "readQ" THEN 2 ELSE writes],
   policy |-> policy, shared |-> FALSE]
PerBank(policy, shared) ==
  [kind |-> "BankQueue", size |-> [b \in {"bank0", "bank1"} |-> 2], policy |-> policy, shared |-> shared]

AllSchedulers ==
  {OneQueue, ReadWrite("TwoCounters", 3), ReadWrite("LoadsOverStores", 2),
   PerBank("TwoCounters", TRUE), PerBank("LoadsOverStores", FALSE)}

Consecutive == [read \in BOOLEAN |-> IF read THEN 1 ELSE 2]
=============================================================================
