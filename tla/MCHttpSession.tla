---------------------------- MODULE MCHttpSession ----------------------------
(* Instances of HttpSession for TLC; the configurations give its constants *)
(* their values.                                                           *)
EXTENDS HttpSession
=============================================================================
