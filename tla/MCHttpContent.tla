---------------------------- MODULE MCHttpContent ----------------------------
(* Instances of HttpContent for TLC.  Contents include the bytes "\r\n";   *)
(* one is larger than MaxStream, and its size is "1a".  The run also       *)
(* evaluates TextChecks.                                                   *)
EXTENDS HttpContent, TextChecks

MCContents == {<<>>, <<97>>, CRLF, [i \in 1..26 |-> 97]}
MCSizes == {[digits |-> 1, extension |-> <<>>],
            [digits |-> 2, extension |-> <<Semicolon, 97>>]}
=============================================================================
