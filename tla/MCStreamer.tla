---------------------------- MODULE MCStreamer ----------------------------
(***************************************************************************)
(* Small instances of the Stream Controller.                               *)
(***************************************************************************)
EXTENDS Streamer, TLC

CONSTANTS v, w, x, y

Three == {v, w, x}
Four == {v, w, x, y}

\* In turn, repeated at once, and after another one.
MixedStreams == { <<v, w, x, v, w, x>>, <<v, w, v, v, x>>, <<v, v, w, x>> }
LostStream == { <<v, v, v, v, v, w, x>> }
StaleStream == { <<v, v, w, v, x, y, w>> }
=============================================================================
