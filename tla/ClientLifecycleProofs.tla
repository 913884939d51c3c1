------------------------ MODULE ClientLifecycleProofs ------------------------
(***************************************************************************)
(* Proofs about ClientLifecycle, for any number of starts, of frames and   *)
(* of stages of connecting: IInv is an inductive invariant, and the end    *)
(* that stop() brings about is never reported as an error.  The argument   *)
(* is that of isClosing: it is set before anything of the client is        *)
(* touched, and whoever takes it away has stopped the io_service before,   *)
(* so that no handler runs that could see an error.                        *)
(***************************************************************************)
EXTENDS ClientLifecycle, TLAPS

LEMMA InitIInv == Init => IInv
<1> SUFFICES ASSUME Init PROVE IInv
  OBVIOUS
<1> USE DEF Init
<1>1. TypeOK
  <2>1. PlacesOK
    BY DEF PlacesOK
  <2>2. NumbersOK
    BY StagesAssumption, BoundsAssumption DEF NumbersOK
  <2>3. FlagsOK
    BY DEF FlagsOK
  <2> QED
    BY <2>1, <2>2, <2>3 DEF TypeOK
<1>2. ConnectedIsCurrent /\ StopReaches
  BY DEF ConnectedIsCurrent, StopReaches
<1>3. ThreadHasClient /\ ClosingKept /\ AskedHalts
  BY DEF ThreadHasClient, ClosingKept, AskedHalts
<1> QED
  BY <1>1, <1>2, <1>3 DEF IInv

-----------------------------------------------------------------------------
(* TypeOK, part by part. *)

LEMMA PlacesStep ==
  ASSUME PlacesOK, Next
  PROVE  PlacesOK'
<1> USE DEF PlacesOK, socket, client, wrapper, history
<1>1. CASE Send \/ StartThread \/ StopCall \/ ListenerStops
  BY <1>1 DEF Send, StartThread, StopCall, ListenerStops, Queue, SendClose
<1>2. CASE NewClient \/ OldClientGone \/ ClientStart \/ RunReturns \/ Exit
  BY <1>2 DEF NewClient, OldClientGone, ClientStart, RunReturns, Exit
<1>3. CASE Advance \/ ReadOn \/ HandlerEnds
  BY <1>3 DEF Advance, ReadOn, HandlerEnds, Return
<1>4. CASE Completes \/ StageDone \/ Opened \/ Fails \/ MessageArrives
  BY <1>4
     DEF Completes, StageDone, Opened, Fails, MessageArrives, Begin, OnError
<1>5. CASE CloseArrives \/ Written \/ TimerFires
  BY <1>5 DEF CloseArrives, Written, TimerFires
<1>6. CASE StopSays \/ StopCloses \/ StopHalts
  BY <1>6 DEF StopSays, StopCloses, StopHalts, Queue, SendClose
<1>7. CASE Kill \/ StopReturns
  BY <1>7 DEF Kill, StopReturns
<1> QED
  BY <1>1, <1>2, <1>3, <1>4, <1>5, <1>6, <1>7 DEF Next, Stop, Thread, Handler

(* The places where a thread, a client or a frame is counted. *)
LEMMA NumbersStep ==
  ASSUME NumbersOK, ThreadHasClient, Next
  PROVE  NumbersOK'
<1> USE StagesAssumption, BoundsAssumption
    DEF NumbersOK, socket, client, wrapper, history
<1>1. CASE Send \/ StartThread \/ StopCall \/ ListenerStops
  BY <1>1 DEF Send, StartThread, StopCall, ListenerStops
<1>2. CASE NewClient \/ OldClientGone \/ ClientStart \/ RunReturns \/ Exit
  BY <1>2 DEF NewClient, OldClientGone, ClientStart, RunReturns, Exit
<1>3. CASE Advance
  BY <1>3 DEF Advance, ThreadHasClient
<1>4. CASE MessageArrives
  BY <1>4 DEF MessageArrives
<1>5. CASE Opened
  BY <1>5 DEF Opened
<1>6. CASE ReadOn \/ HandlerEnds \/ Completes \/ StageDone \/ Fails
  <2>1. UNCHANGED <<starts, ws, connection, stage, frames>>
    BY <1>6, Zenon
       DEF ReadOn, HandlerEnds, Completes, StageDone, Fails, OnError
  <2> QED
    BY <2>1
<1>7. CASE CloseArrives \/ Written \/ TimerFires
  <2>1. UNCHANGED <<starts, ws, connection, stage, frames>>
    BY <1>7, Zenon DEF CloseArrives, Written, TimerFires
  <2> QED
    BY <2>1
<1>8. CASE Stop
  BY <1>8 DEF Stop, StopSays, StopCloses, StopHalts, Kill, StopReturns
<1> QED
  BY <1>1, <1>2, <1>3, <1>4, <1>5, <1>6, <1>7, <1>8 DEF Next, Thread, Handler

LEMMA FlagsStep ==
  ASSUME FlagsOK, Next
  PROVE  FlagsOK'
<1> USE DEF FlagsOK, socket, client, wrapper, history
<1>1. CASE Send \/ StartThread \/ StopCall
  BY <1>1 DEF Send, StartThread, StopCall, Queue
<1>2. CASE ListenerStops
  BY <1>2, Zenon DEF ListenerStops, Queue, SendClose, Shutdown
<1>3. CASE NewClient \/ OldClientGone \/ ClientStart \/ RunReturns \/ Exit
  BY <1>3 DEF NewClient, OldClientGone, ClientStart, RunReturns, Exit
<1>4. CASE Advance \/ ReadOn \/ HandlerEnds
  BY <1>4 DEF Advance, ReadOn, HandlerEnds
<1>5. CASE Completes \/ StageDone \/ Opened \/ Fails \/ MessageArrives
  BY <1>5 DEF Completes, StageDone, Opened, Fails, MessageArrives, OnError
<1>6. CASE CloseArrives \/ Written \/ TimerFires
  BY <1>6 DEF CloseArrives, Written, TimerFires, Shutdown
<1>7. CASE StopSays \/ StopCloses \/ StopHalts
  BY <1>7 DEF StopSays, StopCloses, StopHalts, Queue, SendClose, Shutdown
<1>8. CASE Kill \/ StopReturns
  BY <1>8 DEF Kill, StopReturns
<1> QED
  BY <1>1, <1>2, <1>3, <1>4, <1>5, <1>6, <1>7, <1>8
     DEF Next, Stop, Thread, Handler

-----------------------------------------------------------------------------
(* The rest of the invariant. *)

LEMMA ConnectedStep ==
  ASSUME ConnectedIsCurrent, ThreadHasClient, Next
  PROVE  ConnectedIsCurrent'
<1> USE DEF ConnectedIsCurrent, socket, client, wrapper, history
<1>1. CASE Opened
  BY <1>1 DEF Opened, ThreadHasClient, Loop, Begin
<1>2. CASE NewClient \/ Exit \/ Fails \/ CloseArrives
  BY <1>2 DEF NewClient, Exit, Fails, OnError, CloseArrives
<1>3. CASE Kill
  BY <1>3 DEF Kill
<1>4. CASE Send \/ StartThread \/ StopCall \/ ListenerStops
  BY <1>4 DEF Send, StartThread, StopCall, ListenerStops
<1>5. CASE OldClientGone \/ ClientStart \/ RunReturns
  BY <1>5 DEF OldClientGone, ClientStart, RunReturns
<1>6. CASE Advance \/ ReadOn \/ HandlerEnds \/ Completes \/ StageDone
  BY <1>6 DEF Advance, ReadOn, HandlerEnds, Completes, StageDone, Begin, Return
<1>7. CASE MessageArrives \/ Written \/ TimerFires
  BY <1>7 DEF MessageArrives, Written, TimerFires, Begin
<1>8. CASE StopSays \/ StopCloses \/ StopHalts \/ StopReturns
  BY <1>8 DEF StopSays, StopCloses, StopHalts, StopReturns
<1> QED
  BY <1>1, <1>2, <1>3, <1>4, <1>5, <1>6, <1>7, <1>8
     DEF Next, Stop, Thread, Handler

LEMMA ThreadStep ==
  ASSUME TypeOK, ThreadHasClient, Next
  PROVE  ThreadHasClient'
<1> USE DEF ThreadHasClient, socket, client, wrapper, history
<1>1. CASE StartThread
  BY <1>1 DEF StartThread, TypeOK, NumbersOK
<1>2. CASE NewClient
  BY <1>2 DEF NewClient
<1>3. CASE OldClientGone \/ ClientStart \/ RunReturns \/ Exit
  BY <1>3 DEF OldClientGone, ClientStart, RunReturns, Exit
<1>4. CASE Send \/ StopCall
  BY <1>4 DEF Send, StopCall
<1>5. CASE ListenerStops
  BY <1>5 DEF ListenerStops
<1>6. CASE Advance \/ ReadOn \/ HandlerEnds
  BY <1>6 DEF Advance, ReadOn, HandlerEnds, Return
<1>7. CASE Completes \/ StageDone
  BY <1>7 DEF Completes, StageDone, Begin, Loop
<1>8. CASE Opened \/ Fails \/ MessageArrives
  BY <1>8 DEF Opened, Fails, MessageArrives, Begin, OnError, Loop
<1>9. CASE CloseArrives \/ Written \/ TimerFires
  BY <1>9 DEF CloseArrives, Written, TimerFires, Loop
<1>10. CASE StopSays \/ StopReturns
  BY <1>10 DEF StopSays, StopReturns
<1>11. CASE StopCloses
  <2>1. /\ UNCHANGED <<worker, ws, io, starts, stage, doing>>
        /\ io = "none" => ~asked'
    BY <1>11 DEF StopCloses
  <2> QED
    BY <2>1
<1>13. CASE StopHalts
  BY <1>13 DEF StopHalts
<1>12. CASE Kill
  BY <1>12 DEF Kill
<1> QED
  BY <1>1, <1>2, <1>3, <1>4, <1>5, <1>6, <1>7, <1>8, <1>9, <1>10, <1>11, <1>12,
     <1>13 DEF Next, Stop, Thread, Handler

LEMMA ClosingStep ==
  ASSUME PlacesOK, ClosingKept, Next
  PROVE  ClosingKept'
<1> USE DEF ClosingKept, socket, client, wrapper, history
<1>1. CASE Send \/ StartThread \/ StopCall \/ ListenerStops
  BY <1>1 DEF Send, StartThread, StopCall, ListenerStops
<1>2. CASE NewClient \/ OldClientGone \/ ClientStart \/ RunReturns \/ Exit
  BY <1>2 DEF NewClient, OldClientGone, ClientStart, RunReturns, Exit
<1>3. CASE Advance \/ ReadOn \/ HandlerEnds
  BY <1>3 DEF Advance, ReadOn, HandlerEnds, Return
<1>4. CASE Completes \/ StageDone \/ Opened \/ Fails \/ MessageArrives
  BY <1>4
     DEF Completes, StageDone, Opened, Fails, MessageArrives, Begin, OnError
<1>5. CASE CloseArrives \/ Written \/ TimerFires
  BY <1>5 DEF CloseArrives, Written, TimerFires
<1>6. CASE Stop
  BY <1>6 DEF Stop, StopSays, StopCloses, StopHalts, Kill, StopReturns
<1> QED
  BY <1>1, <1>2, <1>3, <1>4, <1>5, <1>6 DEF Next, Thread, Handler

LEMMA AskedStep ==
  ASSUME ThreadHasClient, ClosingKept, AskedHalts, Next
  PROVE  AskedHalts'
<1> USE DEF AskedHalts, socket, client, wrapper, history
<1>1. CASE Send \/ StartThread \/ StopCall
  BY <1>1 DEF Send, StartThread, StopCall
<1>2. CASE ListenerStops
  BY <1>2 DEF ListenerStops
<1>3. CASE NewClient \/ OldClientGone \/ RunReturns \/ Exit
  BY <1>3 DEF NewClient, OldClientGone, RunReturns, Exit
<1>4. CASE ClientStart
  BY <1>4 DEF ClientStart, ThreadHasClient
<1>5. CASE Advance \/ ReadOn \/ HandlerEnds
  BY <1>5 DEF Advance, ReadOn, HandlerEnds
<1>6. CASE Completes \/ StageDone \/ Opened \/ Fails \/ MessageArrives
  BY <1>6 DEF Completes, StageDone, Opened, Fails, MessageArrives, OnError
<1>7. CASE CloseArrives \/ Written \/ TimerFires
  BY <1>7 DEF CloseArrives, Written, TimerFires
<1>8. CASE StopCloses
  BY <1>8 DEF StopCloses, ClosingKept
<1>9. CASE StopSays \/ StopHalts \/ Kill \/ StopReturns
  BY <1>9 DEF StopSays, StopHalts, Kill, StopReturns
<1> QED
  BY <1>1, <1>2, <1>3, <1>4, <1>5, <1>6, <1>7, <1>8, <1>9
     DEF Next, Stop, Thread, Handler

LEMMA NextIInv == IInv /\ [Next]_vars => IInv'
<1> SUFFICES ASSUME IInv, [Next]_vars PROVE IInv'
  OBVIOUS
<1>1. CASE UNCHANGED vars
  BY <1>1 DEF vars, client, socket, wrapper, history, IInv, TypeOK, PlacesOK,
     NumbersOK, FlagsOK, ConnectedIsCurrent, StopReaches, ThreadHasClient,
     ClosingKept, AskedHalts
<1>2. CASE Next
  <2>1. TypeOK'
    BY <1>2, PlacesStep, NumbersStep, FlagsStep DEF IInv, TypeOK
  <2>2. ThreadHasClient' /\ ClosingKept' /\ AskedHalts' /\ ConnectedIsCurrent'
    BY <1>2, ThreadStep, ClosingStep, AskedStep, ConnectedStep DEF IInv, TypeOK
  <2>3. StopReaches'
    BY <2>2 DEF AskedHalts, StopReaches
  <2> QED
    BY <2>1, <2>2, <2>3 DEF IInv
<1> QED
  BY <1>1, <1>2

(* The invariant of start(), stop() and the client thread, for any number  *)
(* of starts (SimpleWebSocketClient.cpp:15-109, client_ws.hpp:295-341).    *)
THEOREM Invariance == Spec => []IInv
BY InitIInv, NextIInv, PTL DEF Spec

(* isConnected (SimpleWebSocketClient.h) is said of the connection that    *)
(* send() uses, and of no client without a thread that was not killed.     *)
THEOREM ConnectedMeansCurrent == Spec => []ConnectedIsCurrent
<1>1. IInv => ConnectedIsCurrent
  BY DEF IInv
<1> QED
  BY <1>1, Invariance, PTL

(* A stop() that has found the io_service leaves none that runs on while   *)
(* stopThread() waits, whatever a listener's own stop() does meanwhile.    *)
THEOREM StopReachesThread == Spec => []StopReaches
<1>1. IInv => StopReaches
  BY DEF IInv
<1> QED
  BY <1>1, Invariance, PTL

(* No listener hears of the end that stop() brings about as an error,      *)
(* although stop() of a listener takes isClosing away from the owner's.    *)
THEOREM StopIsQuiet == Spec => QuietStop
<1> DEFINE Loud == answered' = "error" /\ answered # "error"
<1>1. ASSUME IInv, [Next]_vars, Loud
      PROVE  ~asked
  <2> USE DEF socket, client, wrapper, history
  <2>1. Next
    BY <1>1 DEF vars
  <2>2. CASE Fails
    BY <1>1, <2>2 DEF Fails, OnError, Loop, IInv, AskedHalts
  <2>3. CASE Opened \/ StartThread
    BY <1>1, <2>3 DEF Opened, StartThread
  <2>4. CASE Send \/ StopCall \/ ListenerStops
    BY <1>1, <2>4 DEF Send, StopCall, ListenerStops
  <2>5. CASE NewClient \/ OldClientGone \/ ClientStart \/ RunReturns \/ Exit
    BY <1>1, <2>5 DEF NewClient, OldClientGone, ClientStart, RunReturns, Exit
  <2>6. CASE \/ Advance \/ ReadOn \/ HandlerEnds \/ Completes \/ StageDone
             \/ MessageArrives
    BY <1>1, <2>6
       DEF Advance, ReadOn, HandlerEnds, Completes, StageDone, MessageArrives
  <2>7. CASE CloseArrives \/ Written \/ TimerFires
    BY <1>1, <2>7 DEF CloseArrives, Written, TimerFires
  <2>8. CASE Stop
    BY <1>1, <2>8 DEF Stop, StopSays, StopCloses, StopHalts, Kill, StopReturns
  <2> QED
    BY <2>1, <2>2, <2>3, <2>4, <2>5, <2>6, <2>7, <2>8 DEF Next, Thread, Handler
<1>2. IInv /\ [Next]_vars => [Loud => ~asked]_vars
  BY <1>1
<1> QED
  BY <1>2, Invariance, PTL DEF Spec, QuietStop
=============================================================================
