------------------------------- MODULE Filter -------------------------------
(***************************************************************************)
(* What a box keeps of a sequence.                                         *)
(***************************************************************************)
EXTENDS Naturals, Sequences

\* Those of s that are in kept, in order.
Only(s, kept) ==
  LET left[n \in 0 .. Len(s)] ==
        IF n = 0 THEN <<>>
        ELSE IF s[n] \in kept THEN Append(left[n - 1], s[n]) ELSE left[n - 1]
  IN  left[Len(s)]
=============================================================================
