----------------------------- MODULE DelayLine -----------------------------
(***************************************************************************)
(* What a signal of the simulator promises its two boxes: a delay line.    *)
(* An object written with latency l in one cycle can be read l cycles      *)
(* later, and only then, in the order of the writes; at most Bandwidth     *)
(* objects wait for the same cycle.  A write that names no latency has     *)
(* that of the last write that named one, or the largest.  An object that  *)
(* is not read in its cycle is a simulation error, reported at the next    *)
(* access.                                                                 *)
(*                                                                         *)
(* It says nothing of slots, of the cycle of the last access, or of which  *)
(* of the two boxes accesses the signal first within a cycle.              *)
(***************************************************************************)
EXTENDS Naturals, Sequences

CONSTANTS
  MaxLatency,       \* cycles the longest write takes to arrive
  Bandwidth,        \* objects that can arrive in one cycle
  Data,             \* the objects
  NoData            \* what a read that finds nothing returns

VARIABLES
  line,             \* line[k]: the objects that arrive k cycles from now
  overdue,          \* some object was not read in the cycle it arrived
  usual,            \* latency of a write that names none
  call,             \* the last access: what was written, or what was read
  error             \* "none", or why the simulation was stopped

vars == <<line, overdue, usual, call, error>>

Delays == 0 .. MaxLatency
Running == error = "none"
Idle == UNCHANGED <<line, overdue, usual, call>>

\* A signal starts empty, or filled by its boxes before the first cycle.
Init ==
  /\ line \in { [k \in Delays |-> <<>>] }
       \cup { [k \in Delays |-> IF k < MaxLatency THEN s[k + 1] ELSE <<>>] :
              s \in [1 .. MaxLatency -> [1 .. Bandwidth -> Data]] }
  /\ overdue = FALSE
  /\ usual = MaxLatency
  /\ call = <<"none">>
  /\ error = "none"

Arrive(d, k) ==
  IF Len(line[k]) = Bandwidth
  THEN error' = "bandwidth" /\ Idle
  ELSE /\ line' = [line EXCEPT ![k] = Append(@, d)]
       /\ usual' = k
       /\ call' = <<"write", d>>
       /\ UNCHANGED <<overdue, error>>

Write(d, k) ==
  /\ Running
  /\ IF overdue THEN error' = "lost" /\ Idle
     ELSE IF k > MaxLatency THEN error' = "latency" /\ Idle
     ELSE Arrive(d, k)

Read ==
  /\ Running
  /\ IF overdue THEN error' = "lost" /\ Idle
     ELSE IF line[0] = <<>>
     THEN call' = <<"read", NoData>> /\ UNCHANGED <<line, overdue, usual, error>>
     ELSE /\ call' = <<"read", Head(line[0])>>
          /\ line' = [line EXCEPT ![0] = Tail(@)]
          /\ UNCHANGED <<overdue, usual, error>>

\* The next cycle: everything comes one cycle nearer.
Tick ==
  /\ Running
  /\ line' = [k \in Delays |-> IF k < MaxLatency THEN line[k + 1] ELSE <<>>]
  /\ overdue' = (overdue \/ line[0] # <<>>)
  /\ UNCHANGED <<usual, call, error>>

\* One latency above MaxLatency stands for all: they end the same way.
Next ==
  \/ \E d \in Data, k \in 1 .. MaxLatency + 1 : Write(d, k)
  \/ \E d \in Data : Write(d, usual)
  \/ Read
  \/ Tick

Spec == Init /\ [][Next]_vars
=============================================================================
