------------------------------ MODULE MCSignal ------------------------------
EXTENDS Signal, TLC

\* The capacity create() computes.
PowerOfTwoAbove(n) == CHOOSE c \in {2, 4, 8, 16} : c > n /\ c <= 2 * n

MCCapacity == PowerOfTwoAbove(MaxLatency)
Latencies == 1 .. MaxLatency + 1

Objects == Permutations(Data)
=============================================================================
