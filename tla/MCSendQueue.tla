----------------------------- MODULE MCSendQueue -----------------------------
(* An instance of SendQueue for TLC: the configuration names the frames,    *)
(* one of them sent without a callback, and the threads.                    *)
EXTENDS SendQueue
=============================================================================
