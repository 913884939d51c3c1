------------------------------- MODULE Channel -------------------------------
(***************************************************************************)
(* What the send queue of a WebSocket connection promises to the callers   *)
(* of Connection::send (src/websocket/server_ws.hpp): the frames accepted  *)
(* reach the socket whole and in order, and as long as the server is not   *)
(* being destroyed each caller may be told, once, what became of its       *)
(* frame.                                                                  *)
(***************************************************************************)
EXTENDS Naturals, Sequences

CONSTANT Msgs

VARIABLES
  sent,    \* frames accepted, in order
  wire,    \* frames written whole to the socket, in order
  told,    \* callbacks made: <<frame, "ok" or "error">>, in order
  broken,  \* the socket takes nothing any more
  open     \* the server still lets handlers run

vars == <<sent, wire, told, broken, open>>

In(x, s) == \E i \in DOMAIN s : s[i] = x

Init == /\ sent = <<>>
        /\ wire = <<>>
        /\ told = <<>>
        /\ broken = FALSE
        /\ open = TRUE

(* send() *)
Accept(m) == /\ ~In(m, sent)
             /\ sent' = Append(sent, m)
             /\ UNCHANGED <<wire, told, broken, open>>

(* The oldest frame not yet written goes out. *)
Deliver == /\ ~broken
           /\ Len(wire) < Len(sent)
           /\ wire' = Append(wire, sent[Len(wire) + 1])
           /\ UNCHANGED <<sent, told, broken, open>>

Break == /\ broken' = TRUE
         /\ UNCHANGED <<sent, wire, told, open>>

(* The callback given to send(): success only for a written frame, failure *)
(* only for one that never will be.                                        *)
Tell(m, ec) == /\ open
               /\ In(m, sent)
               /\ \A i \in DOMAIN told : told[i][1] # m
               /\ IF ec = "ok" THEN In(m, wire) ELSE broken /\ ~In(m, wire)
               /\ told' = Append(told, <<m, ec>>)
               /\ UNCHANGED <<sent, wire, broken, open>>

Shut == /\ open' = FALSE
        /\ UNCHANGED <<sent, wire, told, broken>>

Next == \/ \E m \in Msgs : \/ Accept(m)
                           \/ \E ec \in {"ok", "error"} : Tell(m, ec)
        \/ Deliver \/ Break \/ Shut

Spec == Init /\ [][Next]_vars
=============================================================================
