------------------------- MODULE MCMemoryController -------------------------
(***************************************************************************)
(* Small instances of the Memory Controller: the second client only reads. *)
(***************************************************************************)
EXTENDS MemoryController

CONSTANTS both, reader, ch1, ch2

TwoClients == {both, reader}
OneWriter == {both}

Load(system, splits, serviceQueue, maxRequests) ==
  [system |-> system, splits |-> splits, serviceQueue |-> serviceQueue, maxRequests |-> maxRequests]

\* More requests than entries; chunks in two channels; system memory.
SomeLoads ==
  { Load(FALSE, {{ch1}}, 1, 5), Load(FALSE, {{ch1}, {ch1, ch2}}, 1, 3), Load(TRUE, {{ch1}}, 3, 3) }
=============================================================================
