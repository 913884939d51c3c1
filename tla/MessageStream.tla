---------------------------- MODULE MessageStream ----------------------------
(***************************************************************************)
(* What the read loop of a WebSocket connection promises, with no frames,  *)
(* lengths or buffers: what the peer sent arrives at the application whole,*)
(* once, in order and in the end, until the connection is over.            *)
(***************************************************************************)
EXTENDS Sequences, Naturals

CONSTANTS
  Finals,  \* the kinds of arrival that are the last one
  Broken   \* what the application hears when the connection fails

VARIABLES
  sent,      \* what the peer sent, as the application should hear of it
  received,  \* what the application heard
  over       \* nothing more will be heard

vars == <<sent, received, over>>

Init == sent = <<>> /\ received = <<>> /\ over = FALSE

(* A frame of the peer completes one arrival, or none. *)
Send == /\ Len(sent') = Len(sent) + 1
        /\ SubSeq(sent', 1, Len(sent)) = sent
        /\ UNCHANGED <<received, over>>

Deliver == /\ ~over /\ Len(received) < Len(sent)
           /\ received' = Append(received, sent[Len(received) + 1])
           /\ over' = (sent[Len(received) + 1].kind \in Finals)
           /\ UNCHANGED sent

(* The connection fails, or its owner stops the handlers. *)
Break == /\ ~over
         /\ over' = TRUE
         /\ received' \in {received, Append(received, Broken)}
         /\ UNCHANGED sent

Next == Send \/ Deliver \/ Break

Spec == Init /\ [][Next]_vars /\ WF_vars(Deliver)
=============================================================================
