------------------------- MODULE MCClientLifecycle -------------------------
(* Instances of ClientLifecycle for TLC; the configurations give its       *)
(* constants their values.                                                 *)
EXTENDS ClientLifecycle
=============================================================================
