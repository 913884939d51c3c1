----------------------- MODULE ServerLifecycleProofs -----------------------
(***************************************************************************)
(* Proofs about ServerLifecycle, for any number of starts and either       *)
(* variant: IInv is an inductive invariant.  What keeps a running server   *)
(* in place is serverLock, held by the server thread from before the       *)
(* first assignment of initServer() to its return, and by stop() from      *)
(* before the first reset() to the end of its wait for that thread; what   *)
(* makes stop() get the lock is that it stops the io_service before.       *)
(***************************************************************************)
EXTENDS ServerLifecycle, TLAPS

LEMMA InitIInv == Init => IInv
<1> SUFFICES ASSUME Init PROVE IInv
  OBVIOUS
<1> USE DEF Init
<1>1. PlacesOK
  BY DEF PlacesOK
<1>2. NumbersOK
  BY MaxStartsAssumption DEF NumbersOK
<1>3. FlagsOK
  BY DEF FlagsOK
<1>4. ServerBehindHandlers /\ StoppedIsDown /\ MapIsCurrent /\ StopWaitsForStopped
  BY DEF ServerBehindHandlers, StoppedIsDown, MapIsCurrent, StopWaitsForStopped
<1>5. BuiltUnderLock /\ StoppingKnows /\ OnlyStopStops
  BY DEF BuiltUnderLock, StoppingKnows, OnlyStopStops
<1>6. JoiningIsDown /\ MapOutlivesOnlyStopping
  BY DEF JoiningIsDown, MapOutlivesOnlyStopping
<1> QED
  BY <1>1, <1>2, <1>3, <1>4, <1>5, <1>6 DEF IInv, TypeOK

-----------------------------------------------------------------------------
(* TypeOK, part by part. *)

LEMMA PlacesStep ==
  ASSUME PlacesOK, Next
  PROVE  PlacesOK'
<1> USE DEF PlacesOK, server, flags, history
<1>1. CASE Run \/ TakeLock \/ CreateIo \/ Serve
  BY <1>1 DEF Run, TakeLock, CreateIo, Serve
<1>2. CASE StartFails \/ RunReturns \/ Exit \/ HandlerThrows
  BY <1>2 DEF StartFails, RunReturns, Exit, HandlerThrows, LeaveInitServer
<1>3. CASE HttpStarted \/ ConnectionsChange
  BY <1>3 DEF HttpStarted, ConnectionsChange
<1>4. CASE StartCall \/ StartThread
  BY <1>4 DEF StartCall, StartThread
<1>5. CASE Kill
  BY <1>5 DEF Kill, InStopThread
<1>6. CASE StopCall
  BY <1>6 DEF StopCall
<1>7. CASE TearDown
  BY <1>7 DEF TearDown
<1>8. CASE StopUnlocks \/ StopReturns
  BY <1>8 DEF StopUnlocks, StopReturns
<1> QED
  BY <1>1, <1>2, <1>3, <1>4, <1>5, <1>6, <1>7, <1>8 DEF Next, Worker, Owner

LEMMA NumbersStep ==
  ASSUME NumbersOK, ServerBehindHandlers, Next
  PROVE  NumbersOK'
<1> USE MaxStartsAssumption DEF NumbersOK, server
<1>1. CASE Serve
  BY <1>1 DEF Serve
<1>2. CASE StartFails
  BY <1>2 DEF StartFails, LeaveInitServer
<1>3. CASE ConnectionsChange
  <2>1. ws \in 1..starts
    BY <1>3 DEF ConnectionsChange, ServerBehindHandlers
  <2> QED
    BY <1>3, <2>1 DEF ConnectionsChange
<1>4. CASE StartThread
  BY <1>4 DEF StartThread
<1>5. CASE TearDown
  <2>1. connectionMap' \subseteq connectionMap
    BY <1>5 DEF TearDown
  <2>2. ws' = 0 /\ starts' = starts /\ worker' = worker /\ owner' = "joining"
    BY <1>5 DEF TearDown
  <2> QED
    BY <2>1, <2>2
<1>6. CASE StartCall
  BY <1>6 DEF StartCall
<1>7. CASE Run \/ TakeLock \/ CreateIo \/ RunReturns \/ Exit \/ HandlerThrows
  BY <1>7 DEF Run, TakeLock, CreateIo, RunReturns, Exit, HandlerThrows, LeaveInitServer
<1>8. CASE HttpStarted \/ StopCall \/ Kill \/ StopUnlocks \/ StopReturns
  BY <1>8 DEF HttpStarted, StopCall, Kill, StopUnlocks, StopReturns
<1> QED
  BY <1>1, <1>2, <1>3, <1>4, <1>5, <1>6, <1>7, <1>8 DEF Next, Worker, Owner

LEMMA FlagsStep ==
  ASSUME FlagsOK, Next
  PROVE  FlagsOK'
<1> USE DEF FlagsOK, flags, history
<1>1. secure' \in BOOLEAN
  BY DEF Next
<1>2. CASE Run \/ Serve \/ HandlerThrows \/ HttpStarted
  BY <1>1, <1>2 DEF Run, Serve, HandlerThrows, HttpStarted
<1>3. CASE StartCall \/ StartThread \/ StopReturns
  BY <1>1, <1>3 DEF StartCall, StartThread, StopReturns
<1>4. CASE Kill
  BY <1>1, <1>4, Zenon DEF Kill
<1>5. CASE StopCall
  <2>1. missed' = TRUE \/ missed' = FALSE
    BY <1>5 DEF StopCall
  <2> QED
    BY <1>1, <1>5, <2>1 DEF StopCall
<1>6. CASE UNCHANGED <<flags, history>>
  BY <1>1, <1>6
<1> QED
  BY <1>2, <1>3, <1>4, <1>5, <1>6
     DEF Next, Worker, Owner, TakeLock, CreateIo, StartFails, RunReturns, Exit,
         ConnectionsChange, TearDown, StopUnlocks

-----------------------------------------------------------------------------
(* The server under the lock.  TearDown finds it free: no server runs. *)

Served == ServerBehindHandlers /\ BuiltUnderLock

LEMMA ServedStep ==
  ASSUME PlacesOK, Served, Next
  PROVE  Served'
<1> USE DEF PlacesOK, Served, ServerBehindHandlers, BuiltUnderLock, server
<1>1. CASE Run \/ TakeLock \/ CreateIo \/ Serve
  BY <1>1 DEF Run, TakeLock, CreateIo, Serve
<1>2. CASE StartFails \/ RunReturns \/ Exit \/ HandlerThrows
  BY <1>2 DEF StartFails, RunReturns, Exit, HandlerThrows, LeaveInitServer
<1>3. CASE HttpStarted \/ ConnectionsChange
  BY <1>3 DEF HttpStarted, ConnectionsChange
<1>4. CASE StartCall \/ StartThread \/ Kill
  BY <1>4 DEF StartCall, StartThread, Kill
<1>5. CASE StopCall
  BY <1>5 DEF StopCall
<1>6. CASE TearDown
  <2>1. worker \notin {"created", "serving"} /\ worker' = worker
    BY <1>6 DEF TearDown
  <2> QED
    BY <2>1
<1>7. CASE StopUnlocks \/ StopReturns
  BY <1>7 DEF StopUnlocks, StopReturns
<1> QED
  BY <1>1, <1>2, <1>3, <1>4, <1>5, <1>6, <1>7 DEF Next, Worker, Owner

(* Who asked the io_service to stop.  Only a server thread that had yet to *)
(* make its io_service when stop() looked escapes.                         *)

Asked == StopWaitsForStopped /\ StoppingKnows /\ OnlyStopStops

LEMMA AskedStep ==
  ASSUME PlacesOK, Served, Asked, Next
  PROVE  Asked'
<1> USE DEF PlacesOK, Asked, StopWaitsForStopped, StoppingKnows, OnlyStopStops,
            server, history
<1>1. CASE Run \/ TakeLock \/ CreateIo \/ Serve
  BY <1>1 DEF Run, TakeLock, CreateIo, Serve
<1>2. CASE StartFails \/ RunReturns \/ Exit \/ HandlerThrows
  BY <1>2 DEF StartFails, RunReturns, Exit, HandlerThrows, LeaveInitServer
<1>3. CASE HttpStarted \/ ConnectionsChange
  BY <1>3 DEF HttpStarted, ConnectionsChange
<1>4. CASE StartCall \/ StartThread
  BY <1>4 DEF StartCall, StartThread
<1>5. CASE Kill
  BY <1>5 DEF Kill, InStopThread
<1>6. CASE StopCall
  BY <1>6 DEF StopCall, Served, ServerBehindHandlers, BuiltUnderLock
<1>7. CASE TearDown \/ StopUnlocks \/ StopReturns
  BY <1>7 DEF TearDown, StopUnlocks, StopReturns
<1> QED
  BY <1>1, <1>2, <1>3, <1>4, <1>5, <1>6, <1>7 DEF Next, Worker, Owner

-----------------------------------------------------------------------------
(* What stop() leaves.  It holds the lock until the thread is gone, so     *)
(* nothing is built after it tore down.                                    *)

LEMMA JoiningStep ==
  ASSUME PlacesOK, NumbersOK, Served, JoiningIsDown, Next
  PROVE  JoiningIsDown'
<1> USE DEF PlacesOK, JoiningIsDown, server, history
<1>0. secure' = secure
  BY DEF Next
<1>1. CASE Run \/ TakeLock \/ CreateIo
  BY <1>0, <1>1 DEF Run, TakeLock, CreateIo
<1>2. CASE Serve \/ StartFails
  <2>1. worker = "created" /\ owner # "joining" /\ starts # 0
    BY <1>2 DEF Serve, StartFails, NumbersOK
  <2>2. UNCHANGED <<owner, io, connectionMap, stopped>>
    BY <1>2 DEF Serve, StartFails
  <2>3. ws' = starts \/ ws' = ws
    BY <1>2 DEF Serve, StartFails
  <2> QED
    BY <1>0, <2>1, <2>2, <2>3
<1>3. CASE RunReturns \/ Exit \/ HandlerThrows
  BY <1>0, <1>3 DEF RunReturns, Exit, HandlerThrows, LeaveInitServer
<1>4. CASE HttpStarted
  BY <1>0, <1>4 DEF HttpStarted
<1>5. CASE ConnectionsChange
  <2>1. ws # 0 /\ owner # "joining" /\ worker # "none"
    BY <1>5 DEF ConnectionsChange, Served, ServerBehindHandlers, NumbersOK
  <2> QED
    BY <1>0, <1>5, <2>1 DEF ConnectionsChange
<1>6. CASE StartCall \/ StartThread
  BY <1>6 DEF StartCall, StartThread
<1>7. CASE Kill
  BY <1>0, <1>7 DEF Kill
<1>8. CASE StopCall
  BY <1>8 DEF StopCall
<1>9. CASE TearDown
  BY <1>9 DEF TearDown
<1>10. CASE StopUnlocks \/ StopReturns
  BY <1>0, <1>10 DEF StopUnlocks, StopReturns
<1> QED
  BY <1>1, <1>2, <1>3, <1>4, <1>5, <1>6, <1>7, <1>8, <1>9, <1>10
     DEF Next, Worker, Owner

LEMMA StoppedStep ==
  ASSUME JoiningIsDown, StoppedIsDown, Next
  PROVE  StoppedIsDown'
<1>1. secure' = secure
  BY DEF Next
<1>2. CASE worker # "none" /\ owner' = owner /\ stopped' = stopped
  BY <1>1, <1>2 DEF StoppedIsDown
<1>3. CASE owner' # "idle"
  BY <1>3 DEF StoppedIsDown
<1>4. CASE StartThread
  BY <1>4 DEF StartThread, JoiningIsDown, StoppedIsDown, history
<1>5. CASE StopReturns
  <2>1. ~secure => worker = "none" /\ ws = 0 /\ io = "null" /\ connectionMap = {}
    BY <1>5 DEF StopReturns, JoiningIsDown
  <2> QED
    BY <1>1, <1>5, <2>1 DEF StopReturns, StoppedIsDown, server
<1> QED
  BY <1>2, <1>3, <1>4, <1>5
     DEF Next, Worker, Owner, Run, TakeLock, CreateIo, Serve, StartFails,
         RunReturns, Exit, HandlerThrows, HttpStarted, ConnectionsChange,
         StartCall, Kill, InStopThread, StopCall, TearDown, StopUnlocks,
         history

(* Whose connections are known.  A server that returns was asked to, and   *)
(* then stop() forgets its connections before another is started.          *)

Known == MapIsCurrent /\ MapOutlivesOnlyStopping

LEMMA KnownStep ==
  ASSUME PlacesOK, NumbersOK, Served, OnlyStopStops, JoiningIsDown, Known, Next
  PROVE  Known'
<1> USE DEF PlacesOK, Known, MapIsCurrent, MapOutlivesOnlyStopping, server,
            history
<1>1. CASE Run \/ TakeLock \/ CreateIo \/ Serve
  BY <1>1 DEF Run, TakeLock, CreateIo, Serve
<1>2. CASE StartFails \/ Exit \/ HandlerThrows
  BY <1>2 DEF StartFails, Exit, HandlerThrows, LeaveInitServer
<1>3. CASE RunReturns
  BY <1>3 DEF RunReturns, LeaveInitServer, OnlyStopStops
<1>4. CASE HttpStarted
  BY <1>4 DEF HttpStarted
<1>5. CASE ConnectionsChange
  BY <1>5 DEF ConnectionsChange
<1>6. CASE StartCall \/ StartThread
  BY <1>6 DEF StartCall, StartThread
<1>7. CASE Kill
  BY <1>7 DEF Kill, InStopThread
<1>8. CASE StopCall
  BY <1>8 DEF StopCall
<1>9. CASE TearDown
  BY <1>9 DEF TearDown, JoiningIsDown
<1>10. CASE StopUnlocks \/ StopReturns
  BY <1>10 DEF StopUnlocks, StopReturns
<1> QED
  BY <1>1, <1>2, <1>3, <1>4, <1>5, <1>6, <1>7, <1>8, <1>9, <1>10
     DEF Next, Worker, Owner
-----------------------------------------------------------------------------
(* The parts together. *)

LEMMA NextIInv == IInv /\ [Next]_vars => IInv'
<1> SUFFICES ASSUME IInv, [Next]_vars PROVE IInv'
  OBVIOUS
<1>1. CASE Next
  <2>1. PlacesOK /\ NumbersOK /\ FlagsOK /\ Served /\ Asked
    BY DEF IInv, TypeOK, Served, Asked
  <2>2. TypeOK'
    BY <1>1, <2>1, PlacesStep, NumbersStep, FlagsStep DEF TypeOK, IInv
  <2>3. Served' /\ Asked'
    BY <1>1, <2>1, ServedStep, AskedStep
  <2>4. JoiningIsDown' /\ StoppedIsDown'
    BY <1>1, <2>1, JoiningStep, StoppedStep DEF IInv
  <2>5. Known'
    BY <1>1, <2>1, KnownStep DEF IInv, Known
  <2> QED
    BY <2>2, <2>3, <2>4, <2>5 DEF IInv, Served, Asked, Known
<1>2. CASE UNCHANGED vars
  <2> USE <1>2 DEF vars, server, flags, history
  <2>1. TypeOK'
    BY DEF IInv, TypeOK, PlacesOK, NumbersOK, FlagsOK
  <2>2. Served' /\ Asked'
    BY DEF IInv, Served, Asked, ServerBehindHandlers, BuiltUnderLock,
           StopWaitsForStopped, StoppingKnows, OnlyStopStops
  <2>3. JoiningIsDown' /\ StoppedIsDown' /\ Known'
    BY DEF IInv, JoiningIsDown, StoppedIsDown, Known, MapIsCurrent,
           MapOutlivesOnlyStopping
  <2> QED
    BY <2>1, <2>2, <2>3 DEF IInv, Served, Asked, Known
<1> QED
  BY <1>1, <1>2

(* IInv holds in every reachable state, of either variant, however often   *)
(* the server is started and however stop() meets its thread.              *)
THEOREM Invariance == Spec => []IInv
BY InitIInv, NextIInv, PTL DEF Spec

(* stop() never destroys ws, http or ioService while the server thread     *)
(* serves with them.                                                       *)
THEOREM RunningServerKept == Spec => []ServerBehindHandlers
<1>1. IInv => ServerBehindHandlers
  BY DEF IInv
<1> QED
  BY <1>1, Invariance, PTL

(* When stop() of SimpleWebSocketServer has returned there is no thread,   *)
(* no server and no connection left.                                       *)
THEOREM StoppedMeansDown == Spec => []StoppedIsDown
<1>1. IInv => StoppedIsDown
  BY DEF IInv
<1> QED
  BY <1>1, Invariance, PTL

(* connectionMap has connections of the present server only, unless an     *)
(* earlier one was killed by start() or ended by an exception.             *)
THEOREM ConnectionsAreCurrent == Spec => []MapIsCurrent
<1>1. IInv => MapIsCurrent
  BY DEF IInv
<1> QED
  BY <1>1, Invariance, PTL

(* A stop() that waits for serverLock waits for a server whose io_service  *)
(* it has stopped, unless it came before that io_service was made.         *)
THEOREM WaitsForStoppedOnly == Spec => []StopWaitsForStopped
<1>1. IInv => StopWaitsForStopped
  BY DEF IInv
<1> QED
  BY <1>1, Invariance, PTL
=============================================================================
