------------------------- MODULE MCCommandProcessor -------------------------
EXTENDS CommandProcessor

\* The traces of each run.
Registered == [p \in {TRUE} |-> {"geomReg", "fragReg", "draw", "loadVertex"}]
Loads == [p \in {TRUE} |-> {"fragReg", "draw", "loadVertex", "loadFragment", "write"}]

\* Everything; pipelined batches do not go together with the two registers of
\* the README.
Interleaved == [p \in BOOLEAN |-> IF p THEN AllKinds \ {"clipReg", "depthRangeReg"}
                                       ELSE AllKinds]
=============================================================================
