------------------------------ MODULE Connection ------------------------------
(***************************************************************************)
(* One WebSocket connection of SocketServerBase                            *)
(* (src/websocket/server_ws.hpp), from read_handshake() on: the handshake, *)
(* the send queue (module SendQueue, whose variables appear here under     *)
(* their own names), the read loop, the `closed' flag of send_close(), the *)
(* timer that both directions share, and its entry in                      *)
(* Endpoint::connections.                                                  *)
(*                                                                         *)
(* One asynchronous read is outstanding at a time.  The reads of a frame   *)
(* (two bytes, length, mask and payload) follow one another with the same  *)
(* set_timeout()/cancel_timeout()/continue_lock() around each; they are    *)
(* one read here, that completes with what the frame turned out to be.     *)
(***************************************************************************)
EXTENDS Sequences, Naturals, FiniteSets

CONSTANTS
  Data, Pongs, Closes,  \* frames by opcode: each is sent at most once, so
                        \* Pongs also bounds the pings of the peer
  IoThreads,            \* threads of the io_service
  AppThreads,           \* other threads that call send_close()
  RequestTimeout,       \* timeout_request # 0
  IdleTimeout,          \* timeout_idle # 0
  MaxReads              \* bound on the frames the peer sends

ASSUME MaxReadsAssumption == MaxReads \in Nat
ASSUME IdleTimeoutAssumption == IdleTimeout \in BOOLEAN
ASSUME RequestTimeoutAssumption == RequestTimeout \in BOOLEAN

VARIABLES
  queue, writes, up, timer, handler, open, holders, refused, sent, wire, told,
  closed,      \* the flag of send_close()
  closer,      \* where each application thread is in send_close()
  reader,      \* the read loop: [at, got, on]
  reads,       \* frames received so far
  registered,  \* the connection is in endpoint.connections
  stopped,     \* history: stop() has been called
  events       \* history: the callbacks on_open, on_message, ..., in order

Q == INSTANCE SendQueue WITH Msgs <- Data \cup Pongs \cup Closes,
                             Silent <- Pongs \cup Closes

gate == <<open, holders, refused>>
queueVars == <<queue, writes, up, timer, handler, gate, sent, wire, told>>
vars == <<queueVars, closed, closer, reader, reads, registered, stopped, events>>

NotReader == UNCHANGED <<reader, reads, registered, stopped, events>>
NotClose == UNCHANGED <<closed, closer, stopped>>

(* What set_timeout(timeout_request) leaves. *)
RequestTimer == IF RequestTimeout THEN "armed" ELSE "off"

(* read_handshake(): timeout_request set, the request being read. *)
Init == /\ Q!Init
        /\ timer = RequestTimer
        /\ closed = FALSE
        /\ closer = [a \in AppThreads |-> "idle"]
        /\ reader = [at |-> "request", got |-> "none", on |-> "none"]
        /\ reads = 0
        /\ registered = FALSE
        /\ stopped = FALSE
        /\ events = <<>>

-----------------------------------------------------------------------------
(* The send queue and its environment go on by themselves. *)

(* The application may have the connection from on_handshake on, whose     *)
(* first argument it is.                                                   *)
Known == reader.at = "greeting" \/ reader.got \notin {"none", "request", "lost"}

AppSend == /\ Known
           /\ \E m \in Data : Q!Send(m)
           /\ NotReader /\ NotClose

QueueStep == /\ \/ Q!Complete \/ Q!SocketDown \/ Q!TimerFires \/ Q!Begin
                \/ \E t \in IoThreads : Q!Step(t)
             /\ NotReader /\ NotClose

-----------------------------------------------------------------------------
(* send_close().  The flag is atomic, but it is read in one step and set   *)
(* in a later one, and nothing holds other threads off in between.         *)

(* `if(closed) return;' found the flag clear. *)
CloseCheck(a) ==
  /\ closer[a] = "idle"
  /\ Known
  /\ ~closed
  /\ closer' = [closer EXCEPT ![a] = "checked"]
  /\ UNCHANGED <<queueVars, closed>> /\ NotReader

(* `closed = true' and send() of a close frame. *)
SendCloseFrame == /\ closed' = TRUE
                  /\ \E m \in Closes : Q!Send(m)

CloseSend(a) ==
  /\ closer[a] = "checked"
  /\ SendCloseFrame
  /\ closer' = [closer EXCEPT ![a] = "idle"]
  /\ NotReader

-----------------------------------------------------------------------------
(* SocketServerBase::stop() closes every registered connection and empties *)
(* the set, under connections_mutex.  The io_service is not the server's   *)
(* own, so it runs on.                                                     *)
ServerStop ==
  /\ stopped' = TRUE
  /\ registered' = FALSE
  /\ up' = (up /\ ~registered)
  /\ UNCHANGED <<queue, writes, timer, handler, gate, sent, wire, told>>
  /\ UNCHANGED <<reader, reads, events, closed, closer>>

-----------------------------------------------------------------------------
(* The handshake.  Its two handlers begin as those of the read loop do,    *)
(* see ReadHandler.                                                        *)

ReaderGoes(l) == reader' = [reader EXCEPT !.at = l]

Arrives(k) == reader' = [reader EXCEPT !.at = "arrived", !.got = k]

(* read_handshake() gets a request, or something else, or fails. *)
RequestArrives ==
  /\ reader.at = "request"
  /\ \/ up /\ Arrives("request")
     \/ Arrives("lost")
  /\ UNCHANGED <<queueVars, reads, registered, events>> /\ NotClose

(* write_handshake() calls on_handshake, *)
OnHandshake ==
  /\ reader.at = "dispatch" /\ reader.got = "request"
  /\ ReaderGoes("greeting")
  /\ UNCHANGED <<queueVars, reads, registered, events>> /\ NotClose

(* which may decline, and writes the response.  This write is not one of   *)
(* the send queue's.                                                       *)
WriteHandshake ==
  /\ reader.at = "greeting"
  /\ \E answer \in {"accepted", "declined"} :
       reader' = [reader EXCEPT !.at = "answering", !.got = answer]
  /\ timer' = RequestTimer
  /\ Q!ReaderLeaves(reader.on)
  /\ UNCHANGED <<reads, registered, events>> /\ NotClose

HandshakeWritten ==
  /\ reader.at = "answering"
  /\ IF up THEN Arrives(reader.got)
     ELSE Arrives(IF reader.got = "declined" THEN "declined" ELSE "error")
  /\ UNCHANGED <<queueVars, reads, registered, events>> /\ NotClose

(* Nothing holds the connection any longer. *)
HandshakeEnds ==
  /\ reader.at = "dispatch" /\ reader.got \in {"lost", "declined"}
  /\ ReaderGoes("done")
  /\ timer' = timer
  /\ Q!ReaderLeaves(reader.on)
  /\ UNCHANGED <<reads, registered, events>> /\ NotClose

Tell(e) == events' = Append(events, e)

(* connection_open(): into the set, then on_open, which read_message()     *)
(* follows.                                                                *)
Register ==
  /\ reader.at = "dispatch" /\ reader.got = "accepted"
  /\ registered' = TRUE
  /\ ReaderGoes("opening")
  /\ UNCHANGED <<queueVars, reads, events>> /\ NotClose

OnOpen ==
  /\ reader.at = "opening"
  /\ Tell("open")
  /\ ReaderGoes("again")
  /\ UNCHANGED <<queueVars, reads, registered>> /\ NotClose

-----------------------------------------------------------------------------
(* The read loop. *)

(* The read completes.  "message" stands for any frame that only leads to  *)
(* a callback (a final data frame, a fragment, a pong), "close" for a      *)
(* close frame or an unmasked one, "toobig" for max_message_size exceeded, *)
(* "error" for the end of the stream or a socket that is down.             *)
ReadCompletes(k) ==
  /\ reader.at = "reading"
  /\ IF k = "error"
       THEN UNCHANGED reads
       ELSE up /\ reads < MaxReads /\ reads' = reads + 1
  /\ k = "ping" => \E m \in Pongs : ~Q!In(m, sent)
  /\ Arrives(k)
  /\ UNCHANGED <<queueVars, registered, events>> /\ NotClose

(* (faulty) The lock of handler_runner is not asked for. *)
ReadHandlerUnlocked(t) ==
  /\ reader.at = "arrived"
  /\ handler[t].at = "idle"
  /\ reader' = [reader EXCEPT !.at = "dispatch", !.on = t]
  /\ timer' = "off"
  /\ UNCHANGED <<queue, writes, up, handler, gate, sent, wire, told>>
  /\ UNCHANGED <<reads, registered, events>> /\ NotClose

(* (faulty) The handler does not cancel the timer. *)
ReadHandlerNoCancel(t) ==
  /\ reader.at = "arrived"
  /\ handler[t].at = "idle"
  /\ Q!Runner!Enter(t)
  /\ reader' = [reader EXCEPT !.at = "dispatch", !.on = t]
  /\ UNCHANGED <<queue, writes, up, timer, handler, sent, wire, told>>
  /\ UNCHANGED <<reads, registered, events>> /\ NotClose

(* The head of its handler: cancel_timeout(), then continue_lock(). *)
ReadHandler(t) ==
  /\ reader.at = "arrived"
  /\ Q!ReaderEnters(t)
  /\ reader' = IF t \in holders'
                 THEN [reader EXCEPT !.at = "dispatch", !.on = t]
                 ELSE [reader EXCEPT !.at = "done"]
  /\ UNCHANGED <<reads, registered, events>> /\ NotClose

Unregister == registered' = FALSE

(* (faulty) A failed read ends the loop without connection_error(). *)
ReadErrorSilent ==
  /\ reader.at = "dispatch" /\ reader.got = "error"
  /\ ReaderGoes("done")
  /\ timer' = timer
  /\ Q!ReaderLeaves(reader.on)
  /\ UNCHANGED <<reads, registered, events>> /\ NotClose

(* connection_error() for a failed read, or a failed response: the end. *)
ReadError ==
  /\ reader.at = "dispatch" /\ reader.got = "error"
  /\ Unregister
  /\ Tell("error")
  /\ ReaderGoes("done")
  /\ timer' = timer
  /\ Q!ReaderLeaves(reader.on)
  /\ UNCHANGED reads /\ NotClose

(* connection_error() for a message too big: the loop goes on to close. *)
ReadTooBig ==
  /\ reader.at = "dispatch" /\ reader.got = "toobig"
  /\ Unregister
  /\ Tell("error")
  /\ reader' = [reader EXCEPT !.got = "close"]
  /\ UNCHANGED <<queueVars, reads>> /\ NotClose

(* The check of send_close(), from the read handler. *)
ReadCloseCheck ==
  /\ reader.at = "dispatch" /\ reader.got = "close"
  /\ ReaderGoes(IF closed THEN "ending" ELSE "closing")
  /\ UNCHANGED <<queueVars, reads, registered, events>> /\ NotClose

ReadCloseSend ==
  /\ reader.at = "closing"
  /\ SendCloseFrame
  /\ ReaderGoes("ending")
  /\ UNCHANGED <<reads, registered, events, closer, stopped>>

(* (faulty) connection_close() leaves the set alone. *)
ReadEndsRegistered ==
  /\ reader.at = "ending"
  /\ UNCHANGED registered
  /\ Tell("close")
  /\ ReaderGoes("done")
  /\ timer' = timer
  /\ Q!ReaderLeaves(reader.on)
  /\ UNCHANGED reads /\ NotClose

(* (faulty) The loop reads on after a close frame. *)
ReadEndsReading ==
  /\ reader.at = "ending"
  /\ Unregister
  /\ Tell("close")
  /\ ReaderGoes("reading")
  /\ Q!SetTimeout
  /\ Q!ReaderLeaves(reader.on)
  /\ UNCHANGED reads /\ NotClose

(* connection_close(): the loop ends and the handler returns.  The socket  *)
(* is left to the peer, or to the destructor.                              *)
ReadEnds ==
  /\ reader.at = "ending"
  /\ Unregister
  /\ Tell("close")
  /\ ReaderGoes("done")
  /\ timer' = timer
  /\ Q!ReaderLeaves(reader.on)
  /\ UNCHANGED reads /\ NotClose

(* A ping is answered before its callback. *)
ReadPing ==
  /\ reader.at = "dispatch" /\ reader.got = "ping"
  /\ \E m \in Pongs : Q!Send(m)
  /\ ReaderGoes("again")
  /\ UNCHANGED <<reads, registered, events>> /\ NotClose

ReadMessage ==
  /\ reader.at = "dispatch" /\ reader.got = "message"
  /\ Tell("message")
  /\ ReaderGoes("again")
  /\ UNCHANGED <<queueVars, reads, registered>> /\ NotClose

(* (faulty) The next read is started without set_timeout(). *)
ReadAgainNoTimeout ==
  /\ reader.at = "again"
  /\ ReaderGoes("reading")
  /\ timer' = timer
  /\ Q!ReaderLeaves(reader.on)
  /\ UNCHANGED <<reads, registered, events>> /\ NotClose

(* read_message(): set_timeout(), start the next read; the handler returns. *)
ReadAgain ==
  /\ reader.at = "again"
  /\ ReaderGoes("reading")
  /\ Q!SetTimeout
  /\ Q!ReaderLeaves(reader.on)
  /\ UNCHANGED <<reads, registered, events>> /\ NotClose

-----------------------------------------------------------------------------
Kinds == {"message", "ping", "close", "toobig", "error"}

ReadStart == \E t \in IoThreads : ReadHandler(t)

ReadStep == \/ ReadError \/ ReadTooBig \/ ReadCloseCheck \/ ReadCloseSend
            \/ ReadEnds \/ ReadPing \/ ReadMessage \/ ReadAgain
            \/ OnHandshake \/ WriteHandshake \/ HandshakeEnds
            \/ Register \/ OnOpen

Next == \/ AppSend \/ QueueStep \/ ServerStop
        \/ \E a \in AppThreads : CloseCheck(a) \/ CloseSend(a)
        \/ RequestArrives \/ HandshakeWritten
        \/ \E k \in Kinds : ReadCompletes(k)
        \/ ReadStart \/ ReadStep

Spec == Init /\ [][Next]_vars

(* The io_service runs what is ready, and handlers return.  Operations on  *)
(* a socket that is down fail.  Nothing is assumed of the peer, of the     *)
(* network while the socket is up, nor of application threads.             *)
Fairness == /\ WF_vars(~up /\ Q!Complete /\ NotReader /\ NotClose)
            /\ \A t \in IoThreads : WF_vars(Q!Step(t) /\ NotReader /\ NotClose)
            /\ SF_vars(Q!Begin /\ NotReader /\ NotClose)
            /\ WF_vars(~up /\ (HandshakeWritten \/ ReadCompletes("error")))
            /\ SF_vars(ReadStart)
            /\ WF_vars(ReadStep)

FairSpec == Spec /\ Fairness

-----------------------------------------------------------------------------
(* Where a handler of the handshake or the read loop is running. *)
Running == {"dispatch", "greeting", "opening", "closing", "ending", "again"}

(* What reader.got may be until the first frame. *)
HandshakeKinds == {"none", "request", "lost", "accepted", "declined"}

TypeOK ==
  /\ Q!TypeOK
  /\ closed \in BOOLEAN
  /\ closer \in [AppThreads -> {"idle", "checked"}]
  /\ reader \in [at : {"request", "answering", "reading", "arrived", "done"}
                        \cup Running,
                  got : Kinds \cup HandshakeKinds,
                  on : IoThreads \cup {"none"}]
  /\ reader.at \in Running =>
       reader.on \in holders /\ handler[reader.on].at = "idle"
  /\ reads \in 0..MaxReads
  /\ registered \in BOOLEAN /\ stopped \in BOOLEAN

(* endpoint.connections, which get_connections(), broadcasts and stop() go *)
(* by, tells the truth: a connection whose read loop has ended is not in   *)
(* it, and one taken out of it while its loop reads has a dead socket, so  *)
(* the loop is about to end.                                               *)
RegistryMatchesLoop ==
  /\ reader.at = "done" => ~registered
  /\ reader.at = "reading" /\ ~registered => ~up

(* The application hears of a connection in a fixed order: on_open first   *)
(* (only an on_error for the handshake does without), no message after the *)
(* end, on_close last and once, on_error only before it (both for a        *)
(* message too big).                                                       *)
EventsInOrder ==
  /\ \A i \in DOMAIN events :
       events[i] = "open" <=> i = 1 /\ events # <<"error">>
  /\ \A i, j \in DOMAIN events : i < j =>
       /\ events[i] # "close"
       /\ events[i] = "error" => j = i + 1 /\ events[j] = "close"

(* A handler of the handshake waits for its turn. *)
HandshakeArrived == reader.at = "arrived" /\ reader.got \in HandshakeKinds

FrameArrived == reader.at = "arrived" /\ reader.got \in Kinds

(* With a timeout_idle, no read waits without a timer, nor, with a         *)
(* timeout_request, does a step of the handshake: whatever order the       *)
(* completion of writes, the sends of other threads and the read handler   *)
(* set and cancel the one timer in.  Without a timeout_idle the handshake  *)
(* has its timer only as long as nobody sends: the set_timeout() of a send *)
(* then takes it away.                                                     *)
IdleGuardsRead == up =>
  /\ IdleTimeout /\ (reader.at = "reading" \/ FrameArrived) => timer = "armed"
  /\ RequestTimeout /\ (IdleTimeout \/ sent = <<>>)
       /\ (reader.at \in {"request", "answering"} \/ HandshakeArrived) =>
         timer = "armed"

(* A socket that goes down after on_open, by the peer, the timer or        *)
(* stop(), is reported to the application by on_error or on_close.         *)
DownIsReported ==
  ~up /\ events # <<>> ~>
    \E i \in DOMAIN events : events[i] \in {"error", "close"}

(* Whatever read handlers, closing threads and stop() do between its       *)
(* steps, the send queue behaves as module SendQueue says.                 *)
QueueSpec == Q!Spec

-----------------------------------------------------------------------------
(* The strengthening that makes the above inductive: what the application  *)
(* has been told, and whether the set holds the connection, by the place   *)
(* of the read loop.                                                       *)

Handshaking == /\ reader.at \in {"request", "greeting", "answering", "arrived",
                                "dispatch"}
               /\ reader.got \in HandshakeKinds

HasFrame == reader.at \in {"arrived", "dispatch"} /\ reader.got \in Kinds

(* In the set, or taken out of it by stop(), which closed the socket. *)
Attached == registered \/ ~up

(* on_open, and messages since. *)
Talk == /\ Len(events) > 0 /\ events[1] = "open"
        /\ \A i \in 2..Len(events) : events[i] = "message"

(* A message too big was the last word, and its connection_error() took    *)
(* the connection out of the set.                                          *)
Dismissed == /\ ~registered
             /\ Len(events) > 1 /\ events[1] = "open"
             /\ events[Len(events)] = "error"
             /\ \A i \in 2..(Len(events) - 1) : events[i] = "message"

LoopState ==
  /\ reader.at \in {"request", "greeting", "answering"} =>
       reader.got \in HandshakeKinds
  /\ Handshaking => ~registered /\ events = <<>>
  /\ reader.at = "opening" => Attached /\ events = <<>>
  /\ reader.at \in {"again", "reading"} => Attached /\ Talk
  /\ HasFrame => \/ Attached /\ Talk
                 \/ reader.got = "error" /\ ~registered /\ events = <<>>
                 \/ reader.at = "dispatch" /\ reader.got = "close" /\ Dismissed
  /\ reader.at \in {"closing", "ending"} => (Attached /\ Talk) \/ Dismissed
  /\ reader.at = "done" => ~registered

Events == {"open", "message", "error", "close"}

(* handler_runner is stopped only by the destructor of the server, which   *)
(* is not in this module.                                                  *)
IInv == /\ TypeOK /\ Q!IInv /\ open
        /\ events \in Seq(Events)
        /\ LoopState /\ EventsInOrder /\ IdleGuardsRead

-----------------------------------------------------------------------------
(* What comments of the code claim. *)

(* server_ws.hpp:449, "Stop accepting new connections, and close current   *)
(* connections": after stop() no connection waits for messages on a socket *)
(* that is up.                                                             *)
StopClosesAll == stopped /\ reader.at = "reading" => ~up

(* server_ws.hpp:248, "Send close only once": at most one close frame is   *)
(* ever queued.                                                            *)
CloseSentOnce ==
  \A i, j \in DOMAIN sent : sent[i] \in Closes /\ sent[j] \in Closes => i = j

(* server_ws.hpp:336, "Idle timeout": with a timeout_idle, an open          *)
(* connection on which a write makes no progress has a timer to end it,    *)
(* unless a handler is just running.                                       *)
IdleGuardsWrite ==
  IdleTimeout /\ up /\ events # <<>>
    /\ reader.at \in {"reading", "arrived", "done"} =>
    \A w \in writes : w.res = "pending" => timer = "armed"
=============================================================================
