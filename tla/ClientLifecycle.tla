--------------------------- MODULE ClientLifecycle ---------------------------
(***************************************************************************)
(* Starting, connecting and stopping a JUCE client, SimpleWebSocketClient  *)
(* (src/SimpleWebSocketClient.cpp), together with the SocketClient of      *)
(* src/websocket/client_ws.hpp that each of its threads makes: the stages  *)
(* of connecting with their timeouts, the idle timer, and the io_service   *)
(* that runs on that thread for as long as something is pending on it.     *)
(*                                                                         *)
(* Clients are numbered by the start() that made them, 0 is nullptr.  The  *)
(* variables of a client are those of the newest; of an older one only the *)
(* wrapper's `connection' may be left.  Its destructor stops it, which     *)
(* nothing here can tell from its being gone.                              *)
(*                                                                         *)
(* juce::Thread, asio, the resolver and the peer are external: a thread    *)
(* that stopThread() kills inside a handler may leave the handler's        *)
(* SharedLock behind for ever.                                             *)
(***************************************************************************)
EXTENDS Naturals

CONSTANTS
  Stages,     \* resolve, connect, then exchanges on the socket: two for the
              \* upgrade, before them one for TLS and two for a proxy
  MaxStarts,  \* bound on the calls of start()
  MaxFrames   \* bound on the frames sent and received, for each start

ASSUME StagesAssumption == Stages \in 4..7
ASSUME BoundsAssumption == MaxStarts \in Nat /\ MaxFrames \in Nat

VARIABLES
  owner,        \* where the owner is in stop()
  worker,       \* where the client thread is in run()
  starts,       \* threads started so far
  isConnected, isClosing,
  connection,   \* whose connection the wrapper holds
  ws,           \* the newest client
  io,           \* its io_service: "none", "ready" or "stopped"
  link,         \* its connection: "none", "connecting", "arrived" when a
                \* stage has come off and its handler is queued, "open" or
                \* "ended"
  stage,        \* what it waits for while connecting
  up,           \* its socket has not been shut down
  closed,       \* the flag of send_close()
  writing,      \* frames are queued
  timer,        \* "off", "request" or "idle"
  doing,        \* the handler that runs: in "message" and "end" with a
                \* callback of a listener
  frames,       \* frames so far
  jammed,       \* a killed handler left its lock of handler_runner behind
  answered,     \* history: the newest start() was told "opened" or "error"
  asked,        \* history: a stop() has reached the newest client
  killed        \* history: the newest thread was killed

socket == <<up, closed, writing, timer>>
client == <<io, link, stage, socket, doing, frames, jammed>>
wrapper == <<isConnected, isClosing, connection>>
history == <<answered, asked, killed>>
vars == <<owner, worker, starts, wrapper, ws, client, history>>

Init == /\ owner = "idle" /\ worker = "none" /\ starts = 0
        /\ isConnected = FALSE /\ isClosing = FALSE /\ connection = 0
        /\ ws = 0 /\ io = "none" /\ link = "none" /\ stage = 0
        /\ up = TRUE /\ closed = FALSE /\ writing = FALSE /\ timer = "off"
        /\ doing = "none" /\ frames = 0 /\ jammed = FALSE
        /\ answered = "no" /\ asked = FALSE /\ killed = FALSE

-----------------------------------------------------------------------------
(* The connection. *)

(* send() on an empty queue starts a write, which sets the idle timer. *)
Queue == /\ writing' = TRUE
         /\ timer' = IF writing THEN timer ELSE "idle"

(* send_close(): once. *)
SendClose == IF closed THEN UNCHANGED <<closed, writing, timer>>
             ELSE closed' = TRUE /\ Queue

(* Connection::close() does nothing to a socket that is not open yet. *)
SocketOpen == /\ link # "none"
              /\ stage = 1 => link \notin {"connecting", "arrived"}

Shutdown == up' = (up /\ ~SocketOpen)

(* The application sends.  That it may hold the connection of a client     *)
(* that is gone is left out.                                               *)
Send == /\ owner = "idle" /\ connection = ws /\ ws # 0
        /\ frames < MaxFrames /\ frames' = frames + 1
        /\ Queue
        /\ UNCHANGED <<owner, worker, starts, wrapper, ws, io, link, stage>>
        /\ UNCHANGED <<up, closed, doing, jammed, history>>

-----------------------------------------------------------------------------
(* start(), which does nothing while there is a thread. *)

StartThread ==
  /\ owner = "idle" /\ worker = "none" /\ starts < MaxStarts
  /\ starts' = starts + 1
  /\ worker' = "starting"
  /\ answered' = "no"
  /\ UNCHANGED <<owner, wrapper, ws, client, asked, killed>>

-----------------------------------------------------------------------------
(* run() and initWS() on the client thread. *)

(* A new client; the pointer changes before the old client is destroyed. *)
NewClient ==
  /\ worker = "starting"
  /\ isConnected' = FALSE
  /\ ws' = starts
  /\ worker' = IF ws = 0 THEN "built" ELSE "replacing"
  /\ io' = "none" /\ link' = "none" /\ stage' = 0
  /\ up' = TRUE /\ closed' = FALSE /\ writing' = FALSE /\ timer' = "off"
  /\ doing' = "none" /\ frames' = 0
  /\ asked' = FALSE /\ killed' = FALSE
  /\ UNCHANGED <<owner, starts, isClosing, connection, jammed, answered>>

(* handler_runner->stop() of the old one spins while a lock is held. *)
OldClientGone ==
  /\ worker = "replacing" /\ ~jammed
  /\ worker' = "built"
  /\ UNCHANGED <<owner, starts, wrapper, ws, client, history>>

(* SocketClientBase::start(), up to io_service->run(); connect(). *)
ClientStart ==
  /\ worker = "built"
  /\ worker' = "running"
  /\ io' = "ready"
  /\ link' = "connecting" /\ stage' = 1
  /\ timer' = "request"
  /\ UNCHANGED <<owner, starts, wrapper, ws, up, closed, writing, doing>>
  /\ UNCHANGED <<frames, jammed, history>>

Pending == \/ link \in {"connecting", "arrived", "open"}
           \/ writing \/ timer # "off"

(* io_service->run() returns. *)
RunReturns ==
  /\ worker = "running"
  /\ io = "stopped" \/ ~Pending
  /\ worker' = "exiting"
  /\ io' = "stopped"
  /\ UNCHANGED <<owner, starts, wrapper, ws, link, stage, socket, doing>>
  /\ UNCHANGED <<frames, jammed, history>>

Exit ==
  /\ worker = "exiting"
  /\ worker' = "none"
  /\ isConnected' = FALSE
  /\ UNCHANGED <<owner, starts, isClosing, connection, ws, client, history>>

-----------------------------------------------------------------------------
(* Handlers of the io_service.  Each begins with cancel_timeout(), the one *)
(* of a write with set_timeout(), and then takes its lock.                 *)

Loop == worker = "running" /\ io = "ready"

Begin(h) == /\ worker' = "handling"
            /\ doing' = h
            /\ timer' = "off"

Return == /\ worker' = "running"
          /\ doing' = "none"

(* connection_error(): the wrapper tells its listeners, unless stop() is   *)
(* at work.                                                                *)
OnError == /\ isConnected' = FALSE
           /\ answered' = IF isClosing THEN answered ELSE "error"
           /\ link' = "ended"
           /\ UNCHANGED <<isClosing, connection, asked, killed>>

(* A stage of connecting comes off; a shutdown no longer makes its handler *)
(* fail.  async_connect() tries one endpoint after another, each with a    *)
(* fresh socket.                                                           *)
Completes ==
  /\ Loop /\ link = "connecting" /\ (stage > 2 => up)
  /\ link' = "arrived"
  /\ up' \in IF stage = 2 THEN {up, TRUE} ELSE {up}
  /\ UNCHANGED <<owner, worker, starts, wrapper, ws, io, stage, closed>>
  /\ UNCHANGED <<writing, timer, doing, frames, jammed, history>>

StageDone ==
  /\ Loop /\ link = "arrived" /\ stage < Stages
  /\ link' = "connecting"
  /\ Begin("advance")
  /\ UNCHANGED <<owner, starts, wrapper, ws, io, stage, up, closed>>
  /\ UNCHANGED <<writing, frames, jammed, history>>

(* (faulty) The next stage gets no timeout. *)
AdvanceNoTimeout ==
  /\ worker = "handling" /\ doing = "advance"
  /\ Return
  /\ stage' = stage + 1
  /\ UNCHANGED <<owner, starts, wrapper, ws, io, link, timer, up, closed>>
  /\ UNCHANGED <<writing, frames, jammed, history>>

Advance ==
  /\ worker = "handling" /\ doing = "advance"
  /\ Return
  /\ stage' = stage + 1
  /\ timer' = "request"
  /\ UNCHANGED <<owner, starts, wrapper, ws, io, link, up, closed>>
  /\ UNCHANGED <<writing, frames, jammed, history>>

(* The handshake is complete: on_open. *)
Opened ==
  /\ Loop /\ link = "arrived" /\ stage = Stages
  /\ Begin("message")
  /\ link' = "open"
  /\ connection' = ws
  /\ isConnected' = TRUE
  /\ answered' = "opened"
  /\ UNCHANGED <<owner, starts, isClosing, ws, io, stage, up, closed>>
  /\ UNCHANGED <<writing, frames, jammed, asked, killed>>

(* A stage fails, the server declines, or the read loop fails: on_error. *)
Fails ==
  /\ Loop /\ link \in {"connecting", "arrived", "open"}
  /\ Begin(IF isClosing THEN "quiet" ELSE "end")
  /\ OnError
  /\ UNCHANGED <<owner, starts, ws, io, stage, up, closed, writing>>
  /\ UNCHANGED <<frames, jammed>>

(* A frame that leads to on_message, or a ping with its pong.  It may have *)
(* been in the buffer when the socket was shut down.                       *)
MessageArrives ==
  /\ Loop /\ link = "open"
  /\ frames < MaxFrames /\ frames' = frames + 1
  /\ Begin("message")
  /\ writing' \in {writing, TRUE}
  /\ UNCHANGED <<owner, starts, wrapper, ws, io, link, stage, up, closed>>
  /\ UNCHANGED <<jammed, history>>

(* read_message(), once more or for the first time. *)
ReadOn ==
  /\ worker = "handling" /\ doing = "message"
  /\ Return
  /\ timer' = "idle"
  /\ UNCHANGED <<owner, starts, wrapper, ws, io, link, stage, up, closed>>
  /\ UNCHANGED <<writing, frames, jammed, history>>

(* A close frame is answered, if it is not an answer itself: on_close.     *)
(* The write of the answer sets the timer again.                           *)
CloseArrives ==
  /\ Loop /\ link = "open"
  /\ worker' = "handling" /\ doing' = "end"
  /\ closed' = TRUE
  /\ writing' = (writing \/ ~closed)
  /\ timer' = IF closed \/ writing THEN "off" ELSE "idle"
  /\ isConnected' = FALSE
  /\ link' = "ended"
  /\ UNCHANGED <<owner, starts, isClosing, connection, ws, io, stage>>
  /\ UNCHANGED <<up, frames, jammed, history>>

(* Frames are written, or a write has failed and with it all of the queue. *)
Written ==
  /\ Loop /\ writing
  /\ worker' = "handling" /\ doing' = "quiet"
  /\ timer' = "idle"
  /\ writing' = FALSE
  /\ UNCHANGED <<owner, starts, wrapper, ws, io, link, stage, up, closed>>
  /\ UNCHANGED <<frames, jammed, history>>

HandlerEnds ==
  /\ worker = "handling" /\ doing \in {"end", "quiet"}
  /\ Return
  /\ UNCHANGED <<owner, starts, wrapper, ws, io, link, stage, socket>>
  /\ UNCHANGED <<frames, jammed, history>>

(* (faulty) The idle timer is set again when it fires. *)
TimerRearms ==
  /\ Loop /\ timer # "off"
  /\ IF timer = "request" THEN timer' = "off" /\ Shutdown /\ UNCHANGED <<closed, writing>>
     ELSE /\ UNCHANGED <<up, timer>>
          /\ IF closed THEN UNCHANGED <<closed, writing>>
             ELSE closed' = TRUE /\ writing' = TRUE
  /\ UNCHANGED <<owner, worker, starts, wrapper, ws, io, link, stage>>
  /\ UNCHANGED <<doing, frames, jammed, history>>

(* The timeout of a request closes the socket, that of an idle connection  *)
(* only sends a close frame, and is not set again but by its write.        *)
TimerFires ==
  /\ Loop /\ timer # "off"
  /\ IF timer = "request" THEN timer' = "off" /\ Shutdown /\ UNCHANGED <<closed, writing>>
     ELSE /\ UNCHANGED up
          /\ IF closed
               THEN timer' = "off" /\ UNCHANGED <<closed, writing>>
               ELSE /\ closed' = TRUE /\ writing' = TRUE
                    /\ timer' = IF writing THEN "off" ELSE "idle"
  /\ UNCHANGED <<owner, worker, starts, wrapper, ws, io, link, stage>>
  /\ UNCHANGED <<doing, frames, jammed, history>>

-----------------------------------------------------------------------------
(* stop() *)

(* (faulty) isClosing is not set. *)
StopCallOpenly ==
  /\ owner = "idle"
  /\ owner' = "saying"
  /\ UNCHANGED <<worker, starts, wrapper, ws, client, history>>

StopCall ==
  /\ owner = "idle"
  /\ owner' = "saying"
  /\ isClosing' = TRUE
  /\ UNCHANGED <<worker, starts, isConnected, connection, ws, client, history>>

(* stopInternal(): a close frame on the connection, if it has one. *)
StopSays ==
  /\ owner = "saying"
  /\ owner' = "closing"
  /\ IF connection = ws /\ ws # 0 THEN SendClose
     ELSE UNCHANGED <<closed, writing, timer>>
  /\ UNCHANGED <<worker, starts, wrapper, ws, io, link, stage, up, doing>>
  /\ UNCHANGED <<frames, jammed, history>>

(* SocketClientBase::stop() under its mutex.  connection->close(): *)
StopCloses ==
  /\ owner = "closing"
  /\ owner' = "halting"
  /\ Shutdown
  /\ asked' = (io # "none")
  /\ UNCHANGED <<worker, starts, wrapper, ws, io, link, stage, closed>>
  /\ UNCHANGED <<writing, timer, doing, frames, jammed, answered, killed>>

(* (faulty) The io_service runs on if something is being written. *)
StopHaltsGently ==
  /\ owner = "halting"
  /\ owner' = "joining"
  /\ io' = IF asked /\ ~writing THEN "stopped" ELSE io
  /\ UNCHANGED <<worker, starts, wrapper, ws, link, stage, socket, doing>>
  /\ UNCHANGED <<frames, jammed, history>>

(* and io_service->stop(), unless start() has yet to make one. *)
StopHalts ==
  /\ owner = "halting"
  /\ owner' = "joining"
  /\ io' = IF asked THEN "stopped" ELSE io
  /\ UNCHANGED <<worker, starts, wrapper, ws, link, stage, socket, doing>>
  /\ UNCHANGED <<frames, jammed, history>>

(* stopThread(1000): the thread ends, or is killed when its time is over. *)
Kill ==
  /\ owner = "joining" /\ worker # "none"
  /\ worker' = "none"
  /\ killed' = TRUE
  /\ jammed' \in CASE worker = "handling" -> BOOLEAN
                   [] worker = "replacing" -> {FALSE}
                   [] OTHER -> {jammed}
  /\ UNCHANGED <<owner, starts, wrapper, ws, io, link, stage, socket, doing>>
  /\ UNCHANGED <<frames, answered, asked>>

StopReturns ==
  /\ owner = "joining" /\ worker = "none"
  /\ owner' = "idle"
  /\ isClosing' = FALSE
  /\ UNCHANGED <<worker, starts, isConnected, connection, ws, client, history>>

(* A listener calls stop() in its callback, on the client thread. *)
ListenerStops ==
  /\ worker = "handling" /\ doing \in {"message", "end"}
  /\ io' = "stopped"
  /\ isClosing' = FALSE
  /\ Shutdown
  /\ IF connection = ws THEN SendClose ELSE UNCHANGED <<closed, writing, timer>>
  /\ asked' = TRUE
  /\ UNCHANGED <<owner, worker, starts, isConnected, connection, ws, link>>
  /\ UNCHANGED <<stage, doing, frames, jammed, answered, killed>>

-----------------------------------------------------------------------------
Handler == \/ Completes \/ StageDone \/ Opened \/ Fails
           \/ MessageArrives \/ CloseArrives \/ Written \/ TimerFires

Thread == \/ NewClient \/ OldClientGone \/ ClientStart \/ RunReturns \/ Exit
          \/ Advance \/ ReadOn \/ HandlerEnds

Stop == StopSays \/ StopCloses \/ StopHalts \/ Kill \/ StopReturns

Next == \/ Send \/ StartThread \/ StopCall \/ Stop
        \/ Thread \/ Handler \/ ListenerStops

Spec == Init /\ [][Next]_vars

(* The thread is scheduled and runs what is queued; the resolver and a     *)
(* connect come back; what is pending on a socket that was shut down       *)
(* fails; a timer that is set expires.  Nothing is assumed of the server,  *)
(* nor of a socket that is up.                                             *)
Fairness ==
  /\ WF_vars(Thread)
  /\ WF_vars(stage \in 1..2 /\ (Completes \/ Fails))
  /\ WF_vars(link = "arrived" /\ (StageDone \/ Opened \/ Fails))
  /\ WF_vars(~up /\ link # "arrived" /\ Fails)
  /\ SF_vars(~up /\ Written)
  /\ SF_vars(TimerFires)
  /\ WF_vars(Stop)

FairSpec == Spec /\ Fairness

-----------------------------------------------------------------------------
PlacesOK ==
  /\ owner \in {"idle", "saying", "closing", "halting", "joining"}
  /\ worker \in {"none", "starting", "replacing", "built", "running",
                 "handling", "exiting"}
  /\ io \in {"none", "ready", "stopped"}
  /\ link \in {"none", "connecting", "arrived", "open", "ended"}
  /\ timer \in {"off", "request", "idle"}
  /\ doing \in {"none", "advance", "message", "end", "quiet"}
  /\ answered \in {"no", "opened", "error"}

NumbersOK ==
  /\ starts \in 0..MaxStarts /\ ws \in 0..starts /\ connection \in 0..ws
  /\ stage \in 0..Stages /\ frames \in 0..MaxFrames

FlagsOK ==
  /\ isConnected \in BOOLEAN /\ isClosing \in BOOLEAN
  /\ up \in BOOLEAN /\ closed \in BOOLEAN /\ writing \in BOOLEAN
  /\ jammed \in BOOLEAN /\ asked \in BOOLEAN /\ killed \in BOOLEAN

TypeOK == PlacesOK /\ NumbersOK /\ FlagsOK

(* isConnected is never said of another connection than the one that       *)
(* send() uses, nor without a thread, unless that was killed.              *)
ConnectedIsCurrent ==
  isConnected => /\ connection = ws /\ ws # 0
                 /\ worker = "none" => killed

(* stopThread() waits for a thread that was told to end, or for one that   *)
(* had no io_service yet when stop() came by: that one is killed.          *)
StopReaches ==
  owner = "joining" /\ worker \in {"running", "handling"} =>
    io = "stopped" \/ ~asked

(* The strengthening that makes them inductive.  From NewClient to Exit    *)
(* there is a client; a handler that advances has a stage to go to; and    *)
(* what start() builds has not met a stop() yet.                           *)
ThreadHasClient ==
  /\ worker = "starting" => starts # 0
  /\ worker \in {"replacing", "built", "running", "handling"} => ws # 0
  /\ worker = "handling" /\ doing = "advance" => stage < Stages
  /\ worker \in {"replacing", "built"} => io = "none" /\ ~asked

(* isClosing holds for all of stop(), unless a listener's stop() took it   *)
(* away; that one has stopped the io_service, and no other comes before    *)
(* the owner is back.                                                      *)
ClosingKept ==
  owner # "idle" /\ ~isClosing =>
    io = "stopped" /\ worker \in {"none", "running", "handling", "exiting"}

(* Between connection->close() and io_service->stop() only the owner is in *)
(* the way.                                                                *)
AskedHalts == asked => io = "stopped" \/ (isClosing /\ owner = "halting")

IInv == /\ TypeOK /\ ConnectedIsCurrent /\ StopReaches
        /\ ThreadHasClient /\ ClosingKept /\ AskedHalts

(* What isClosing is for: the end that stop() itself brings about is not   *)
(* reported as an error.                                                   *)
QuietStop ==
  [][answered' = "error" /\ answered # "error" => ~asked]_vars

(* start() comes to something: the listeners hear of the connection or of  *)
(* an error, unless stop() comes in between, or a killed handler keeps the *)
(* thread in the destructor of its client.                                 *)
StartIsAnswered ==
  worker = "starting" ~> answered # "no" \/ owner # "idle" \/ jammed

(* A client whose connection has ended lets its thread go, so that start() *)
(* can connect again: nothing keeps the io_service, unless a write that is *)
(* stuck on a socket that is up.                                           *)
ThreadEnds ==
  link = "ended" /\ worker = "running" ~> worker = "none" \/ (writing /\ up)
=============================================================================
