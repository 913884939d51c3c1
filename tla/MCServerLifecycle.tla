------------------------- MODULE MCServerLifecycle -------------------------
(* Instances of ServerLifecycle for TLC; the configurations give its       *)
(* constants their values.                                                 *)
EXTENDS ServerLifecycle
=============================================================================
