----------------------------- MODULE MCScopeRunner -----------------------------
(* An instance of ScopeRunner for TLC: the configuration names the threads. *)
EXTENDS ScopeRunner
=============================================================================
