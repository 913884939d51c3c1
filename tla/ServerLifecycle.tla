-------------------------- MODULE ServerLifecycle --------------------------
(***************************************************************************)
(* Starting and stopping the JUCE servers, SimpleWebSocketServer and       *)
(* SecureWebSocketServer (src/SimpleWebSocketServer.cpp).  An owner calls  *)
(* start() and stop(); each start() makes a server thread, which builds    *)
(* ioService, http and ws and then serves in ioService->run(), all of it   *)
(* under serverLock.                                                       *)
(*                                                                         *)
(* juce::Thread is external: stopThread() waits for the thread and, after  *)
(* its time, kills it; a lock the victim held is released by a build that  *)
(* unwinds its stack and lost for ever by one that does not.  ioService,   *)
(* isConnected and isConnecting are read and written by both threads with  *)
(* no lock; an access is a step.                                           *)
(*                                                                         *)
(* Servers are numbered by the start() that made them: ws = n is the ws of *)
(* the n-th, 0 is nullptr, and n in connectionMap stands for connections   *)
(* of that ws.                                                             *)
(***************************************************************************)
EXTENDS Naturals

CONSTANT
  MaxStarts  \* bound on the calls of start()

ASSUME MaxStartsAssumption == MaxStarts \in Nat

VARIABLES
  secure,    \* it is the TLS variant, whose stopInternal() leaves its thread
  owner,     \* where the owner is in start() and stop()
  worker,    \* where the server thread is in run()
  lock,      \* serverLock: "free", "owner", "worker" or "dead"
  io,        \* ioService: "null", "ready" or "stopped"
  ws,        \* ws, and http with it
  connectionMap,
  isConnected, isConnecting,
  starts,    \* calls of start() so far
  stopped,   \* history: stop() was the last call to return
  missed,    \* history: stop() found an ioService that is not the worker's
  orphaned   \* history: a serving thread ended otherwise than by stop()

flags == <<isConnected, isConnecting>>
server == <<io, ws, connectionMap>>
history == <<stopped, missed, orphaned>>
vars == <<secure, owner, worker, lock, server, flags, starts, history>>

Init == /\ secure \in BOOLEAN
        /\ owner = "idle" /\ worker = "none" /\ lock = "free"
        /\ io = "null" /\ ws = 0 /\ connectionMap = {}
        /\ isConnected = FALSE
        /\ isConnecting \in BOOLEAN      \* the constructor leaves it unset
        /\ starts = 0
        /\ stopped = FALSE /\ missed = FALSE /\ orphaned = FALSE

-----------------------------------------------------------------------------
(* The server thread: run() and initServer(). *)

Run == /\ worker = "starting"
       /\ worker' = "waiting"
       /\ isConnected' = FALSE
       /\ isConnecting' = TRUE
       /\ UNCHANGED <<owner, lock, server, starts, history>>

TakeLock == /\ worker = "waiting" /\ lock = "free"
            /\ lock' = "worker"
            /\ worker' = "locked"
            /\ UNCHANGED <<owner, server, flags, starts, history>>

CreateIo == /\ worker = "locked"
            /\ io' = "ready"
            /\ worker' = "created"
            /\ UNCHANGED <<owner, lock, ws, connectionMap, flags, starts, history>>

(* http and ws replace what is left of an earlier server; http->start()    *)
(* binds the port.                                                         *)
Serve == /\ worker = "created"
         /\ ws' = starts
         /\ isConnected' = TRUE
         /\ isConnecting' = FALSE
         /\ worker' = "serving"
         /\ UNCHANGED <<owner, lock, io, connectionMap, starts, history>>

(* (faulty) The lock is kept. *)
LeaveInitServerLocked == /\ worker' = "exiting"
                         /\ UNCHANGED lock

LeaveInitServer == /\ worker' = "exiting"
                   /\ lock' = "free"

(* It throws, the port being taken, or a certificate before ws is          *)
(* replaced: serverInitError().  The flags stay.                           *)
StartFails == /\ worker = "created"
              /\ ws' \in IF secure THEN {ws, starts} ELSE {starts}
              /\ LeaveInitServer
              /\ UNCHANGED <<owner, io, connectionMap, flags, starts, history>>

(* ioService->run() returns, for it was stopped. *)
RunReturns == /\ worker = "serving" /\ io = "stopped"
              /\ LeaveInitServer
              /\ UNCHANGED <<owner, server, flags, starts, history>>

(* A handler throws through ioService->run(): serverInitError() again. *)
HandlerThrows == /\ worker = "serving"
                 /\ LeaveInitServer
                 /\ orphaned' = TRUE
                 /\ UNCHANGED <<owner, server, flags, starts, stopped, missed>>

Exit == /\ worker = "exiting"
        /\ worker' = "none"
        /\ UNCHANGED <<owner, lock, server, flags, starts, history>>

(* Two handlers of ioService->run(); one that has begun when the           *)
(* io_service is stopped still ends.                                       *)

(* httpStartCallback(): with port 0 the assigned port is another. *)
HttpStarted == /\ worker = "serving"
               /\ isConnected' \in BOOLEAN
               /\ UNCHANGED <<owner, worker, lock, server, isConnecting, starts>>
               /\ UNCHANGED history

(* on_open, on_close and on_error of the WebSocket endpoint. *)
ConnectionsChange ==
  /\ worker = "serving"
  /\ connectionMap' \in {connectionMap \cup {ws}, connectionMap \ {ws}}
  /\ UNCHANGED <<owner, worker, lock, io, ws, flags, starts, history>>

-----------------------------------------------------------------------------
(* start() *)

StartCall == /\ owner = "idle" /\ starts < MaxStarts
             /\ owner' = "restarting"
             /\ stopped' = FALSE
             /\ UNCHANGED <<worker, lock, server, flags, starts, missed, orphaned>>

(* start() and stop() wait in stopThread(); the TLS stop() does not. *)
InStopThread == owner = "restarting" \/ (owner = "joining" /\ ~secure)

(* stopThread() has waited long enough. *)
Kill == /\ InStopThread /\ worker # "none"
        /\ worker' = "none"
        /\ lock' \in IF lock = "worker" THEN {"free", "dead"} ELSE {lock}
        /\ orphaned' = (orphaned \/ worker = "serving")
        /\ UNCHANGED <<owner, server, flags, starts, stopped, missed>>

StartThread == /\ owner = "restarting" /\ worker = "none"
               /\ isConnecting' = TRUE
               /\ worker' = "starting"
               /\ starts' = starts + 1
               /\ owner' = "idle"
               /\ UNCHANGED <<lock, server, isConnected, history>>

-----------------------------------------------------------------------------
(* stop() *)

(* (faulty) The io_service is left to run. *)
StopCallNoIo == /\ owner = "idle"
                /\ owner' = "stopping"
                /\ missed' = FALSE
                /\ UNCHANGED <<worker, lock, server, flags, starts>>
                /\ UNCHANGED <<stopped, orphaned>>

(* Before it asks for the lock: the server thread may hold it for as long  *)
(* as its ioService runs, and may not have made that yet.                  *)
StopCall == /\ owner = "idle"
            /\ owner' = "stopping"
            /\ io' = IF io = "null" THEN io ELSE "stopped"
            /\ missed' = (worker \in {"starting", "waiting", "locked"})
            /\ UNCHANGED <<worker, lock, ws, connectionMap, flags, starts>>
            /\ UNCHANGED <<stopped, orphaned>>

(* (faulty) The lock is not waited for. *)
TearDownUnlocked == /\ owner = "stopping"
                    /\ UNCHANGED lock
                    /\ io' = "null" /\ ws' = 0 /\ connectionMap' = {}
                    /\ owner' = "joining"
                    /\ UNCHANGED <<worker, flags, starts, history>>

(* (faulty) connectionMap keeps its connections. *)
TearDownKeepsMap == /\ owner = "stopping" /\ lock = "free"
                    /\ lock' = "owner"
                    /\ io' = "null" /\ ws' = 0
                    /\ owner' = "joining"
                    /\ UNCHANGED <<worker, connectionMap, flags, starts, history>>

(* The connections are sent a close frame and forgotten; ws, http and      *)
(* ioService are destroyed.                                                *)
TearDown == /\ owner = "stopping" /\ lock = "free"
            /\ lock' = "owner"
            /\ connectionMap' = IF ws # 0 THEN {} ELSE connectionMap
            /\ io' = "null" /\ ws' = 0
            /\ owner' = "joining"
            /\ UNCHANGED <<worker, flags, starts, history>>

(* (faulty) The server thread is not waited for. *)
StopUnlocksEarly == /\ owner = "joining"
                    /\ lock' = "free"
                    /\ owner' = "leaving"
                    /\ UNCHANGED <<worker, server, flags, starts, history>>

(* stopThread(), still under the lock (not in the TLS variant): the end of *)
(* stopInternal().                                                         *)
StopUnlocks == /\ owner = "joining"
               /\ secure \/ worker = "none"
               /\ lock' = "free"
               /\ owner' = "leaving"
               /\ UNCHANGED <<worker, server, flags, starts, history>>

(* The flags, whatever a thread that waited for the lock makes of them.    *)
StopReturns == /\ owner = "leaving"
               /\ isConnected' = FALSE /\ isConnecting' = FALSE
               /\ owner' = "idle"
               /\ stopped' = TRUE
               /\ UNCHANGED <<worker, lock, server, starts, missed, orphaned>>

-----------------------------------------------------------------------------
Worker == \/ Run \/ TakeLock \/ CreateIo \/ Serve \/ StartFails
          \/ RunReturns \/ Exit

Owner == StartThread \/ Kill \/ TearDown \/ StopUnlocks \/ StopReturns

Next == /\ \/ Worker \/ HandlerThrows \/ HttpStarted \/ ConnectionsChange
           \/ StartCall \/ StopCall \/ Owner
        /\ UNCHANGED secure

Spec == Init /\ [][Next]_vars

(* Both threads are scheduled, stopThread() does not wait for ever, and    *)
(* serverLock, when it is free again and again, is not kept from one of    *)
(* them for ever.                                                          *)
Fairness == /\ WF_vars(Worker /\ UNCHANGED secure)
            /\ WF_vars(Owner /\ UNCHANGED secure)
            /\ SF_vars(TakeLock /\ UNCHANGED secure)
            /\ SF_vars(TearDown /\ UNCHANGED secure)

FairSpec == Spec /\ Fairness

-----------------------------------------------------------------------------
PlacesOK ==
  /\ owner \in {"idle", "restarting", "stopping", "joining", "leaving"}
  /\ worker \in {"none", "starting", "waiting", "locked", "created", "serving",
                 "exiting"}
  /\ lock \in {"free", "owner", "worker", "dead"}
  /\ lock = "worker" <=> worker \in {"locked", "created", "serving"}
  /\ lock = "owner" <=> owner = "joining"
  /\ io \in {"null", "ready", "stopped"}

NumbersOK == /\ starts \in 0..MaxStarts
             /\ ws \in 0..starts
             /\ connectionMap \subseteq 1..starts
             /\ owner = "restarting" => starts < MaxStarts
             /\ worker # "none" => starts > 0

FlagsOK == /\ secure \in BOOLEAN
           /\ isConnected \in BOOLEAN /\ isConnecting \in BOOLEAN
           /\ stopped \in BOOLEAN /\ missed \in BOOLEAN /\ orphaned \in BOOLEAN

TypeOK == PlacesOK /\ NumbersOK /\ FlagsOK

(* SimpleWebSocketServer.cpp:374, jassert(ws != nullptr) in onHTTPUpgrade, *)
(* which serves on the server thread: no stop() takes ws, http or          *)
(* ioService from under a server that runs, however it overlaps with it.   *)
ServerBehindHandlers == worker = "serving" => ws = starts /\ io # "null"

(* When stop() has returned nothing is left of the server: no thread, and  *)
(* so nothing that could build it again, and no connection to send to.     *)
StoppedIsDown ==
  stopped /\ owner = "idle" /\ ~secure =>
    /\ worker = "none" /\ ws = 0 /\ io = "null"
    /\ connectionMap = {}
    /\ ~isConnected /\ ~isConnecting

(* sendTo() and closeConnection() find connections of this server only,    *)
(* unless a serving thread was killed by start() or ended by an exception: *)
(* then its connections stay in the map.                                   *)
MapIsCurrent ==
  worker = "serving" /\ ~orphaned => connectionMap \subseteq {ws}

(* Whom stop() waits for: it can only find the lock held by a server that  *)
(* was asked to stop, unless it came before that server's ioService.       *)
StopWaitsForStopped ==
  owner = "stopping" /\ worker = "serving" /\ ~missed => io = "stopped"

-----------------------------------------------------------------------------
(* The strengthening that makes the four above inductive. *)

(* Under the lock a server is not taken down between its steps. *)
BuiltUnderLock == worker = "created" => io # "null"

StoppingKnows ==
  owner = "stopping" =>
    /\ worker \in {"starting", "waiting", "locked"} => missed
    /\ worker = "created" /\ ~missed => io = "stopped"

OnlyStopStops == io = "stopped" => owner = "stopping"

JoiningIsDown ==
  /\ ws = 0 => connectionMap = {}
  /\ owner = "joining" => ws = 0 /\ io = "null"
  /\ owner = "leaving" /\ ~secure => worker = "none" /\ ws = 0 /\ io = "null"
  /\ owner = "restarting" => ~stopped

(* Who leaves connections behind: a server that was asked to stop, until   *)
(* stop() has the lock.                                                    *)
MapOutlivesOnlyStopping ==
  connectionMap # {} /\ ~orphaned /\ worker # "serving" =>
    owner = "stopping" /\ worker \in {"exiting", "none"}

IInv == /\ TypeOK
        /\ ServerBehindHandlers /\ StoppedIsDown /\ MapIsCurrent
        /\ StopWaitsForStopped
        /\ BuiltUnderLock /\ StoppingKnows /\ OnlyStopStops
        /\ JoiningIsDown /\ MapOutlivesOnlyStopping

-----------------------------------------------------------------------------
(* stop() returns, unless it came too early and waits for a server that    *)
(* nobody asked to stop, or a thread was killed with the lock in hand.     *)
StopComesBack ==
  owner = "stopping" ~>
    owner = "idle" \/ lock = "dead" \/ (missed /\ worker = "serving")

(* start() comes to something: the server serves or the listeners are told *)
(* why not, if nobody stops or restarts it before.                         *)
StartIsAnswered ==
  worker = "starting" ~>
    worker \in {"serving", "exiting"} \/ owner # "idle" \/ lock = "dead"
=============================================================================
