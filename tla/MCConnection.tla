----------------------------- MODULE MCConnection -----------------------------
(* Instances of Connection for TLC.  The configurations name the frames: as *)
(* many pongs as the peer may send pings, and a close frame for every       *)
(* thread that may call send_close().                                       *)
EXTENDS Connection, TLC

Symmetry == Permutations(Pongs) \cup Permutations(Closes)
              \cup Permutations(IoThreads)
=============================================================================
