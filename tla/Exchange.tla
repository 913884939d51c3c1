------------------------------ MODULE Exchange ------------------------------
(***************************************************************************)
(* What one HTTP connection promises (src/webserver/server_http.hpp): one  *)
(* response at a time; what an application puts into its stream reaches    *)
(* the client in that order, without a gap; and a response is only over    *)
(* when all of it is out.  A failed socket or a server that is being       *)
(* destroyed ends that.                                                    *)
(* Parts are numbered in the order they are put into streams.              *)
(***************************************************************************)
EXTENDS Naturals, Sequences

CONSTANT MaxParts  \* bound on the parts of all responses

VARIABLES
  busy,    \* a response is under way
  made,    \* parts put into streams
  wire,    \* parts written to the socket, in order
  broken,  \* the socket takes nothing any more
  open     \* the server still lets handlers run

vars == <<busy, made, wire, broken, open>>

Init == /\ busy = FALSE
        /\ made = 0
        /\ wire = <<>>
        /\ broken = FALSE
        /\ open = TRUE

(* A request was read and its resource function is called. *)
Begin == /\ ~busy /\ ~broken /\ open
         /\ busy' = TRUE
         /\ UNCHANGED <<made, wire, broken, open>>

Make == /\ busy /\ made < MaxParts
        /\ made' = made + 1
        /\ UNCHANGED <<busy, wire, broken, open>>

(* One write to the socket ends: parts m to n are out, the next in line.   *)
(* Only a server that is being destroyed leaves a gap, where it abandoned  *)
(* what was queued.                                                        *)
Deliver(m, n) ==
  /\ busy /\ ~broken
  /\ m <= n /\ n <= made
  /\ IF open THEN m = Len(wire) + 1 ELSE \A i \in DOMAIN wire : wire[i] < m
  /\ wire' = wire \o [i \in 1..(n - m + 1) |-> m + i - 1]
  /\ UNCHANGED <<busy, made, broken, open>>

Finish == /\ busy
          /\ Len(wire) = made \/ broken \/ ~open
          /\ busy' = FALSE
          /\ UNCHANGED <<made, wire, broken, open>>

Break == /\ broken' = TRUE
         /\ UNCHANGED <<busy, made, wire, open>>

Shut == /\ open' = FALSE
        /\ UNCHANGED <<busy, made, wire, broken>>

Next == \/ Begin \/ Make \/ Finish \/ Break \/ Shut
        \/ \E m, n \in 1..MaxParts : Deliver(m, n)

Spec == Init /\ [][Next]_vars
=============================================================================
