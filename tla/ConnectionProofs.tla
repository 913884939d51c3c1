--------------------------- MODULE ConnectionProofs ---------------------------
(***************************************************************************)
(* Proofs about Connection, for any frames, any number of io threads, of   *)
(* application threads and of frames received.  Every step of a connection *)
(* is a step of its send queue or leaves it alone (StepsMap), so the       *)
(* invariant of the queue, proved in SendQueueProofs, holds here too; with *)
(* it IInv is inductive.                                                   *)
(***************************************************************************)
EXTENDS Connection, SequenceTheorems, TLAPS

QP == INSTANCE SendQueueProofs WITH Msgs <- Data \cup Pongs \cup Closes,
                                    Silent <- Pongs \cup Closes

-----------------------------------------------------------------------------
(* The queue of this module is the one SendQueueProofs speaks of. *)

LEMMA SameStep ==
  ASSUME NEW t
  PROVE  Q!Step(t) <=> QP!Step(t)
BY DEF Q!Step, QP!Step, Q!PopFront, QP!PopFront, Q!FailAll, QP!FailAll,
       Q!Callback, QP!Callback, Q!Return, QP!Return, Q!Runner!Leave,
       QP!Runner!Leave, Q!SendFromQueue, QP!SendFromQueue, Q!SetTimeout,
       QP!SetTimeout, Q!NewTimer, QP!NewTimer, Q!gate, QP!gate, Q!Call,
       QP!Call, Q!Resting, QP!Resting

LEMMA SameBegin == Q!Begin <=> QP!Begin
BY DEF Q!Begin, QP!Begin, Q!Handle, QP!Handle, Q!Runner!Enter,
       QP!Runner!Enter, Q!Runner!Refuse, QP!Runner!Refuse, Q!SetTimeout,
       QP!SetTimeout, Q!NewTimer, QP!NewTimer, Q!gate, QP!gate

LEMMA SameSend ==
  ASSUME NEW m
  PROVE  Q!Send(m) <=> QP!Send(m)
BY DEF Q!Send, QP!Send, Q!In, QP!In, Q!SendFromQueue, QP!SendFromQueue,
       Q!SetTimeout, QP!SetTimeout, Q!NewTimer, QP!NewTimer, Q!gate, QP!gate

LEMMA SameReader ==
  ASSUME NEW t
  PROVE  /\ Q!ReaderEnters(t) <=> QP!ReaderEnters(t)
         /\ Q!ReaderLeaves(t) <=> QP!ReaderLeaves(t)
BY DEF Q!ReaderEnters, QP!ReaderEnters, Q!ReaderLeaves, QP!ReaderLeaves,
       Q!Runner!Enter, QP!Runner!Enter, Q!Runner!Refuse, QP!Runner!Refuse,
       Q!Runner!Leave, QP!Runner!Leave, Q!NewTimer, QP!NewTimer

LEMMA SameNext == [Q!Next]_Q!vars <=> [QP!Next]_QP!vars
<1>1. Q!vars = QP!vars
  BY DEF Q!vars, QP!vars, Q!gate, QP!gate
<1>2. Q!vars' = QP!vars'
  BY DEF Q!vars, QP!vars, Q!gate, QP!gate
<1>3. /\ Q!Complete <=> QP!Complete
      /\ Q!SocketDown <=> QP!SocketDown
      /\ Q!TimerFires <=> QP!TimerFires
      /\ Q!StopHandlers <=> QP!StopHandlers
  BY DEF Q!Complete, QP!Complete, Q!WriteSucceeds, QP!WriteSucceeds,
         Q!WriteFails, QP!WriteFails, Q!SocketDown, QP!SocketDown,
         Q!TimerFires, QP!TimerFires, Q!StopHandlers, QP!StopHandlers,
         Q!Runner!Close, QP!Runner!Close, Q!gate, QP!gate
<1> QED
  BY <1>1, <1>2, <1>3, SameStep, SameBegin, SameSend, SameReader
     DEF Q!Next, QP!Next

LEMMA SameIInv == Q!IInv <=> QP!IInv
<1>1. Q!TypeOK <=> QP!TypeOK
  BY DEF Q!TypeOK, QP!TypeOK, Q!Results, QP!Results
<1>2. Q!Service <=> QP!Service
  BY DEF Q!Service, QP!Service, Q!OneWriteAtATime, QP!OneWriteAtATime,
         Q!FrontOwned, QP!FrontOwned, Q!QueueIsServed, QP!QueueIsServed,
         Q!Locked, QP!Locked
<1>3. Q!Places <=> QP!Places
  BY DEF Q!Places, QP!Places, Q!SentOnce, QP!SentOnce, Q!QueueIsSuffix,
         QP!QueueIsSuffix, Q!WireIsPrefix, QP!WireIsPrefix, Q!WireProgress,
         QP!WireProgress, Q!NotYetWritten, QP!NotYetWritten, Q!FrontWritten,
         QP!FrontWritten, Q!FrontFailed, QP!FrontFailed, Q!Departed,
         QP!Departed, Q!Locked, QP!Locked
<1>4. Q!Calls <=> QP!Calls
  BY DEF Q!Calls, QP!Calls, Q!TodoIsTrue, QP!TodoIsTrue, Q!ToldIsGone,
         QP!ToldIsGone, Q!TodoOnce, QP!TodoOnce, Q!ToldNotTodo,
         QP!ToldNotTodo, Q!OnlyCallersHaveTodo, QP!OnlyCallersHaveTodo,
         Q!HoldersKeepOpen, QP!HoldersKeepOpen, Q!Todo, QP!Todo, Q!Departed,
         QP!Departed
<1> QED
  BY <1>1, <1>2, <1>3, <1>4 DEF Q!IInv, QP!IInv

LEMMA QueueAssumptions ==
  /\ Pongs \cup Closes \subseteq Data \cup Pongs \cup Closes
  /\ IdleTimeout \in BOOLEAN
BY IdleTimeoutAssumption

(* Inductive here as there. *)
LEMMA QueueKeepsIInv ==
  ASSUME Q!IInv, [Q!Next]_Q!vars
  PROVE  Q!IInv'
<1>1. QP!IInv /\ [QP!Next]_QP!vars
  BY SameIInv, SameNext
<1>2. QP!IInv'
  BY <1>1, QueueAssumptions, QP!NextIInv
<1>3. Q!IInv' <=> QP!IInv'
  BY SameIInv, PTL
<1> QED
  BY <1>2, <1>3

LEMMA QueueInit == Q!Init => Q!IInv
<1>1. Q!Init <=> QP!Init
  BY DEF Q!Init, QP!Init, Q!Runner!Init, QP!Runner!Init, Q!Resting, QP!Resting
<1> QED
  BY <1>1, SameIInv, QueueAssumptions, QP!InitIInv

-----------------------------------------------------------------------------
(* Steps of the connection are steps of the queue, or leave it alone. *)

LEMMA QueueTypes ==
  ASSUME IInv
  PROVE  /\ holders \subseteq IoThreads
         /\ up \in BOOLEAN
         /\ timer \in {"off", "armed"}
         /\ handler \in [IoThreads -> [at : {"idle", "locked", "calling"},
                                       ec : Q!Results,
                                       todo : Seq(Data \cup Pongs \cup Closes)]]
BY DEF IInv, TypeOK, Q!TypeOK

(* A handler of the read loop runs on an io thread of its own. *)
LEMMA ReaderThread ==
  ASSUME IInv, reader.at \in Running
  PROVE  reader.on \in holders /\ reader.on \in IoThreads
           /\ handler[reader.on].at = "idle"
BY QueueTypes DEF IInv, TypeOK

LEMMA LeavesMap ==
  ASSUME IInv, reader.at \in Running, Q!ReaderLeaves(reader.on)
  PROVE  Q!Next
BY ReaderThread DEF Q!Next

LEMMA SendsMap ==
  ASSUME NEW m \in Data \cup Pongs \cup Closes, Q!Send(m)
  PROVE  Q!Next
BY DEF Q!Next

LEMMA StepsMap == IInv /\ [Next]_vars => [Q!Next]_Q!vars
<1> SUFFICES ASSUME IInv, [Next]_vars PROVE [Q!Next]_Q!vars
  OBVIOUS
<1>0. ASSUME UNCHANGED queueVars PROVE UNCHANGED Q!vars
  BY <1>0 DEF queueVars, gate, Q!vars, Q!gate
<1>1. CASE UNCHANGED vars
  BY <1>0, <1>1 DEF vars
<1>2. CASE AppSend
  BY <1>2, SendsMap DEF AppSend
<1>3. CASE QueueStep
  BY <1>3 DEF QueueStep, Q!Next
<1>4. CASE ServerStop
  <2>1. up \in BOOLEAN
    BY QueueTypes
  <2>2. CASE up' = up
    BY <1>4, <2>2 DEF ServerStop, gate, Q!vars, Q!gate
  <2>3. CASE up' # up
    <3>1. Q!SocketDown
      BY <1>4, <2>1, <2>3 DEF ServerStop, gate, Q!SocketDown, Q!gate
    <3> QED
      BY <3>1 DEF Q!Next
  <2> QED
    BY <2>2, <2>3
<1>5. ASSUME NEW a \in AppThreads, CloseCheck(a) \/ CloseSend(a)
      PROVE  [Q!Next]_Q!vars
  BY <1>0, <1>5, SendsMap DEF CloseCheck, CloseSend, SendCloseFrame
<1>6. CASE RequestArrives \/ HandshakeWritten \/ \E k \in Kinds : ReadCompletes(k)
  BY <1>0, <1>6 DEF RequestArrives, HandshakeWritten, ReadCompletes
<1>7. CASE ReadStart
  BY <1>7 DEF ReadStart, ReadHandler, Q!Next
<1>8. CASE \/ OnHandshake \/ Register \/ OnOpen
           \/ ReadTooBig \/ ReadCloseCheck \/ ReadMessage
  BY <1>0, <1>8 DEF OnHandshake, Register, OnOpen, ReadTooBig,
                    ReadCloseCheck, ReadMessage
<1>9. CASE ReadCloseSend \/ ReadPing
  BY <1>9, SendsMap DEF ReadCloseSend, ReadPing, SendCloseFrame
<1>10. CASE ReadError \/ ReadEnds \/ ReadAgain \/ WriteHandshake \/ HandshakeEnds
  BY <1>10, LeavesMap
     DEF ReadError, ReadEnds, ReadAgain, WriteHandshake, HandshakeEnds, Running
<1> QED
  BY <1>1, <1>2, <1>3, <1>4, <1>5, <1>6, <1>7, <1>8, <1>9, <1>10
     DEF Next, ReadStep

-----------------------------------------------------------------------------
(* What the queue does to the read loop. *)

(* A step that cannot disturb it: the socket does not come back, the       *)
(* runner stays open, the timer is not lost while the socket is up, but to *)
(* a send without a timeout_idle, and the thread of a handler of the loop  *)
(* keeps its lock and does not start another handler.                      *)
Harmless ==
  /\ up' => up
  /\ open' = open
  /\ sent' = <<>> => sent = <<>>
  /\ (IdleTimeout \/ sent' = <<>>) /\ up' /\ timer = "armed" =>
       timer' = "armed"
  /\ \A u \in holders : handler[u].at = "idle" =>
       u \in holders' /\ handler'[u].at = "idle"

LEMMA StillHarmless ==
  ASSUME UNCHANGED queueVars
  PROVE  Harmless
BY DEF queueVars, gate, Harmless

LEMMA SendHarmless ==
  ASSUME IInv, NEW m \in Data \cup Pongs \cup Closes, Q!Send(m)
  PROVE  Harmless
<1>1. sent \in Seq(Data \cup Pongs \cup Closes) /\ sent' = Append(sent, m)
  BY DEF IInv, TypeOK, Q!TypeOK, Q!Send
<1>2. sent' # <<>>
  BY <1>1
<1>3. /\ up' = up /\ open' = open /\ holders' = holders /\ handler' = handler
      /\ timer' = timer \/ (IdleTimeout => timer' = "armed")
  BY DEF Q!Send, Q!SendFromQueue, Q!SetTimeout, Q!NewTimer, Q!gate
<1> QED
  BY <1>2, <1>3 DEF Harmless

(* Before the first send there is nothing for a handler of the queue. *)
LEMMA NothingSent ==
  ASSUME IInv, sent = <<>>
  PROVE  writes = {} /\ \A t \in IoThreads : handler[t].at # "locked"
<1>1. queue \in Seq(Data \cup Pongs \cup Closes) /\ Len(queue) <= Len(sent)
  BY DEF IInv, TypeOK, Q!TypeOK, Q!IInv, Q!Places, Q!QueueIsSuffix
<1>2. queue = <<>>
  BY <1>1
<1> QED
  BY <1>2 DEF IInv, Q!IInv, Q!Service, Q!FrontOwned, Q!Locked

LEMMA QueueStepHarmless ==
  ASSUME IInv, QueueStep
  PROVE  Harmless
<1> USE DEF Harmless, Q!gate
<1>1. CASE Q!Complete \/ Q!SocketDown \/ Q!TimerFires
  BY <1>1 DEF Q!Complete, Q!WriteSucceeds, Q!WriteFails, Q!SocketDown,
              Q!TimerFires
<1>2. CASE Q!Begin
  <2>1. PICK t \in IoThreads, w \in writes : Q!Handle(t, w)
    BY <1>2 DEF Q!Begin
  <2>2. /\ up' = up /\ (IdleTimeout => timer' = "armed")
        /\ sent' = sent /\ sent # <<>>
        /\ \A u \in IoThreads : u # t => handler'[u] = handler[u]
        /\ t \notin holders /\ holders \subseteq holders' /\ open' = open
    BY <2>1, QueueTypes, NothingSent
       DEF Q!Handle, Q!SetTimeout, Q!NewTimer, Q!Runner!Enter, Q!Runner!Refuse
  <2> QED
    BY <2>2, QueueTypes
<1>3. ASSUME NEW t \in IoThreads, Q!Step(t)
      PROVE  Harmless
  <2>1. /\ up' = up /\ open' = open
        /\ \/ timer' = timer
           \/ (IdleTimeout => timer' = "armed") /\ handler[t].at = "locked"
        /\ handler[t].at # "idle" /\ sent' = sent
        /\ \A u \in IoThreads : u # t => handler'[u] = handler[u]
        /\ \A u \in holders : u # t => u \in holders'
    BY <1>3, QueueTypes
       DEF Q!Step, Q!PopFront, Q!FailAll, Q!Callback, Q!Return, Q!Call,
           Q!SendFromQueue, Q!SetTimeout, Q!NewTimer, Q!Runner!Leave
  <2> QED
    BY <2>1, QueueTypes, NothingSent
<1> QED
  BY <1>1, <1>2, <1>3 DEF QueueStep

-----------------------------------------------------------------------------
(* The invariant.  Each lemma below shows what is the connection's own of  *)
(* it; the queue's part is QueueKeepsIInv.                                 *)

Own == /\ closed \in BOOLEAN
       /\ closer \in [AppThreads -> {"idle", "checked"}]
       /\ reader \in [at : {"request", "answering", "reading", "arrived", "done"}
                             \cup Running,
                      got : Kinds \cup HandshakeKinds,
                      on : IoThreads \cup {"none"}]
       /\ reader.at \in Running =>
            reader.on \in holders /\ handler[reader.on].at = "idle"
       /\ reads \in 0..MaxReads
       /\ registered \in BOOLEAN /\ stopped \in BOOLEAN
       /\ open
       /\ events \in Seq(Events)
       /\ LoopState /\ EventsInOrder /\ IdleGuardsRead

LEMMA IInvParts == IInv <=> Q!IInv /\ Own
BY DEF IInv, Own, TypeOK, Q!IInv

(* A step that leaves the loop and its callbacks alone. *)
LEMMA ElsewhereKeepsOwn ==
  ASSUME IInv, Harmless, UNCHANGED <<reader, reads, events>>,
         closed' \in BOOLEAN, stopped' \in BOOLEAN,
         closer' \in [AppThreads -> {"idle", "checked"}],
         \/ registered' = registered
         \/ registered' = FALSE /\ (registered => ~up')
  PROVE  Own'
<1> USE DEF IInv, TypeOK, Harmless
<1>1. reader.at \in Running =>
        reader.on \in holders' /\ handler'[reader.on].at = "idle"
  OBVIOUS
<1>2. /\ Handshaking' <=> Handshaking
      /\ HasFrame' <=> HasFrame
      /\ Attached => Attached'
      /\ Talk' <=> Talk
      /\ Dismissed => Dismissed'
      /\ registered' => registered
  BY DEF Handshaking, HasFrame, Attached, Talk, Dismissed
<1>3. LoopState'
  BY <1>2 DEF LoopState
<1>4. EventsInOrder'
  BY DEF EventsInOrder
<1>5. IdleGuardsRead'
  BY DEF IdleGuardsRead, FrameArrived, HandshakeArrived
<1> QED
  BY <1>1, <1>3, <1>4, <1>5 DEF Own

LEMMA OthersKeepOwn ==
  ASSUME IInv,
         \/ AppSend \/ QueueStep \/ ServerStop
         \/ \E a \in AppThreads : CloseCheck(a) \/ CloseSend(a)
  PROVE  Own'
<1>1. closed \in BOOLEAN /\ closer \in [AppThreads -> {"idle", "checked"}]
        /\ stopped \in BOOLEAN /\ registered \in BOOLEAN
  BY DEF IInv, TypeOK
<1>2. CASE AppSend
  BY <1>1, <1>2, SendHarmless, ElsewhereKeepsOwn
     DEF AppSend, NotReader, NotClose
<1>3. CASE QueueStep
  <2>1. Harmless
    BY <1>3, QueueStepHarmless
  <2> QED
    BY <1>1, <1>3, <2>1, ElsewhereKeepsOwn DEF QueueStep, NotReader, NotClose
<1>4. CASE ServerStop
  <2>1. Harmless
    BY <1>4, QueueTypes DEF ServerStop, gate, Harmless
  <2> QED
    BY <1>1, <1>4, <2>1, ElsewhereKeepsOwn DEF ServerStop
<1>5. ASSUME NEW a \in AppThreads, CloseCheck(a)
      PROVE  Own'
  BY <1>1, <1>5, StillHarmless, ElsewhereKeepsOwn DEF CloseCheck, NotReader
<1>6. ASSUME NEW a \in AppThreads, CloseSend(a)
      PROVE  Own'
  BY <1>1, <1>6, SendHarmless, ElsewhereKeepsOwn
     DEF CloseSend, SendCloseFrame, NotReader
<1> QED
  BY <1>2, <1>3, <1>4, <1>5, <1>6

-----------------------------------------------------------------------------
(* The handshake and the reads: nothing is told, nothing registered. *)

LEMMA ArrivesKeepsOwn ==
  ASSUME IInv, UNCHANGED <<queueVars, registered, events>>, NotClose,
         reads' \in 0..MaxReads, NEW k \in Kinds \cup HandshakeKinds, Arrives(k),
         reader.at \in {"request", "answering", "reading"},
         k \in HandshakeKinds => Handshaking,
         k \in Kinds => reader.at = "reading" \/ (k = "error" /\ Handshaking /\ ~up)
  PROVE  Own'
<1> USE DEF IInv, TypeOK, queueVars, gate, NotClose, Arrives, Kinds,
            HandshakeKinds
<1>1. reader' = [reader EXCEPT !.at = "arrived", !.got = k]
  OBVIOUS
<1>2. reader'.at = "arrived" /\ reader'.got = k
  OBVIOUS
<1>3. LoopState'
  BY <1>2 DEF LoopState, Handshaking, HasFrame, Attached, Talk, Dismissed
<1>4. EventsInOrder'
  BY <1>2 DEF EventsInOrder
<1>5. IdleGuardsRead'
  BY <1>2 DEF IdleGuardsRead, FrameArrived, HandshakeArrived, Handshaking
<1> QED
  BY <1>1, <1>2, <1>3, <1>4, <1>5 DEF Own, Running

LEMMA EnvironmentKeepsOwn ==
  ASSUME IInv,
         RequestArrives \/ HandshakeWritten \/ \E k \in Kinds : ReadCompletes(k)
  PROVE  Own'
<1>1. reads \in 0..MaxReads /\ reader.got \in Kinds \cup HandshakeKinds
  BY DEF IInv, TypeOK
<1>2. CASE RequestArrives
  BY <1>1, <1>2, ArrivesKeepsOwn
     DEF RequestArrives, IInv, LoopState, Handshaking, HandshakeKinds, Kinds
<1>3. CASE HandshakeWritten
  BY <1>1, <1>3, ArrivesKeepsOwn
     DEF HandshakeWritten, IInv, LoopState, Handshaking, HandshakeKinds, Kinds
<1>4. ASSUME NEW k \in Kinds, ReadCompletes(k)
      PROVE  Own'
  <2>1. reads' \in 0..MaxReads
    BY <1>1, <1>4, MaxReadsAssumption DEF ReadCompletes
  <2>2. k \notin HandshakeKinds
    BY DEF Kinds, HandshakeKinds
  <2> QED
    BY <1>4, <2>1, <2>2, ArrivesKeepsOwn DEF ReadCompletes
<1> QED
  BY <1>2, <1>3, <1>4

-----------------------------------------------------------------------------
(* The handlers of the loop: what they tell the application. *)

LEMMA Told ==
  ASSUME events \in Seq(Events), NEW e \in Events, Tell(e)
  PROVE  /\ events' \in Seq(Events) /\ Len(events) \in Nat
         /\ Len(events') = Len(events) + 1
         /\ events'[Len(events) + 1] = e
         /\ \A i \in 1..Len(events) : events'[i] = events[i]
         /\ DOMAIN events = 1..Len(events) /\ DOMAIN events' = 1..Len(events')
BY DEF Tell

LEMMA TellOpens ==
  ASSUME events = <<>>, Tell("open")
  PROVE  Talk' /\ EventsInOrder' /\ events' \in Seq(Events)
BY DEF Tell, Talk, EventsInOrder, Events

LEMMA TellErrorAlone ==
  ASSUME events = <<>>, Tell("error")
  PROVE  EventsInOrder' /\ events' \in Seq(Events)
BY DEF Tell, EventsInOrder, Events

LEMMA TellMessage ==
  ASSUME events \in Seq(Events), Talk, Tell("message")
  PROVE  Talk' /\ EventsInOrder' /\ events' \in Seq(Events)
<1>1. "message" \in Events
  BY DEF Events
<1>2. Talk'
  BY <1>1, Told DEF Talk
<1>3. events' # <<"error">>
  BY <1>2 DEF Talk
<1>4. EventsInOrder'
  BY <1>1, <1>2, <1>3, Told DEF Talk, EventsInOrder
<1> QED
  BY <1>1, <1>2, <1>4, Told

LEMMA TellError ==
  ASSUME events \in Seq(Events), Talk, Tell("error"), ~registered'
  PROVE  Dismissed' /\ EventsInOrder' /\ events' \in Seq(Events)
<1>1. "error" \in Events
  BY DEF Events
<1>2. Dismissed'
  BY <1>1, Told DEF Talk, Dismissed
<1>3. events' # <<"error">>
  BY <1>1, Told DEF Talk
<1>4. EventsInOrder'
  BY <1>1, <1>3, Told DEF Talk, EventsInOrder
<1> QED
  BY <1>1, <1>2, <1>4, Told

LEMMA TellClose ==
  ASSUME events \in Seq(Events), Talk \/ Dismissed, Tell("close")
  PROVE  EventsInOrder' /\ events' \in Seq(Events)
<1>1. "close" \in Events
  BY DEF Events
<1>2. events' # <<"error">>
  BY <1>1, Told DEF Talk, Dismissed
<1>3. CASE Talk
  BY <1>1, <1>2, <1>3, Told DEF Talk, EventsInOrder
<1>4. CASE Dismissed
  BY <1>1, <1>2, <1>4, Told DEF Dismissed, EventsInOrder
<1> QED
  BY <1>1, <1>3, <1>4, Told

(* Of the rest of the invariant, what a step of a handler that goes on     *)
(* with got k at place l has to show.                                      *)
LEMMA GoesOnKeepsOwn ==
  ASSUME IInv, reader.at \in Running, Harmless,
         NEW l \in Running, NEW k \in Kinds \cup HandshakeKinds,
         reader' = [reader EXCEPT !.at = l, !.got = k],
         UNCHANGED <<reads, closer, stopped>>, closed' \in BOOLEAN,
         registered' \in BOOLEAN, events' \in Seq(Events),
         LoopState', EventsInOrder'
  PROVE  Own'
<1> USE DEF IInv, TypeOK, Harmless
<1>1. reader'.at = l /\ reader'.on = reader.on
  OBVIOUS
<1>2. reader.on \in holders' /\ handler'[reader.on].at = "idle"
  OBVIOUS
<1>3. IdleGuardsRead'
  BY <1>1 DEF IdleGuardsRead, FrameArrived, HandshakeArrived, Running
<1> QED
  BY <1>1, <1>2, <1>3 DEF Own

(* The same for a step with which the handler returns. *)
LEMMA ReturnsKeepsOwn ==
  ASSUME IInv, Q!ReaderLeaves(reader.on),
         NEW l \in {"answering", "reading", "done"},
         NEW k \in Kinds \cup HandshakeKinds,
         reader' = [reader EXCEPT !.at = l, !.got = k],
         NotClose, UNCHANGED reads,
         registered' \in BOOLEAN, events' \in Seq(Events),
         LoopState', EventsInOrder',
         l = "reading" /\ IdleTimeout => timer' = "armed",
         l = "answering" /\ RequestTimeout => timer' = "armed"
  PROVE  Own'
<1> USE DEF IInv, TypeOK, NotClose
<1>1. reader'.at = l /\ l \notin Running
  BY DEF Running
<1>2. open'
  BY DEF Q!ReaderLeaves, Q!Runner!Leave
<1>3. IdleGuardsRead'
  BY <1>1 DEF IdleGuardsRead, FrameArrived, HandshakeArrived
<1> QED
  BY <1>1, <1>2, <1>3 DEF Own

LEMMA StartKeepsOwn ==
  ASSUME IInv, NEW t \in IoThreads, ReadHandler(t)
  PROVE  Own'
<1> USE DEF IInv, TypeOK, ReadHandler, NotClose
<1>1. /\ t \in holders' /\ open' = open /\ up' = up /\ handler' = handler
      /\ handler[t].at = "idle"
  BY DEF Q!ReaderEnters, Q!Runner!Enter, Q!Runner!Refuse
<1>2. /\ reader' = [reader EXCEPT !.at = "dispatch", !.on = t]
      /\ reader'.at = "dispatch" /\ reader'.got = reader.got /\ reader'.on = t
  BY <1>1
<1>3. LoopState'
  BY <1>1, <1>2
     DEF LoopState, Handshaking, HasFrame, Attached, Talk, Dismissed
<1>4. EventsInOrder'
  BY DEF EventsInOrder
<1>5. IdleGuardsRead'
  BY <1>2 DEF IdleGuardsRead, FrameArrived, HandshakeArrived
<1> QED
  BY <1>1, <1>2, <1>3, <1>4, <1>5 DEF Own, Running

(* What the loop has told and registered when a handler has its lock. *)
LEMMA AtDispatch ==
  ASSUME IInv, reader.at = "dispatch"
  PROVE  /\ reader.got \in HandshakeKinds => ~registered /\ events = <<>>
         /\ reader.got \in {"ping", "message", "toobig"} => Attached /\ Talk
         /\ reader.got = "close" => (Attached /\ Talk) \/ Dismissed
         /\ reader.got = "error" => \/ Attached /\ Talk
                                    \/ ~registered /\ events = <<>>
BY DEF IInv, LoopState, Handshaking, HasFrame, Kinds, HandshakeKinds

LEMMA ReaderFields ==
  ASSUME IInv, NEW l
  PROVE  /\ reader.got \in Kinds \cup HandshakeKinds
         /\ [reader EXCEPT !.at = l] = [reader EXCEPT !.at = l, !.got = reader.got]
         /\ [reader EXCEPT !.at = l].at = l
         /\ [reader EXCEPT !.at = l].got = reader.got
BY DEF IInv, TypeOK

LEMMA HandshakeKeepsOwn ==
  ASSUME IInv, \/ OnHandshake \/ WriteHandshake \/ HandshakeEnds
               \/ Register \/ OnOpen
  PROVE  Own'
<1> USE DEF NotClose
<1>0. /\ registered \in BOOLEAN /\ closed \in BOOLEAN
      /\ events \in Seq(Events) /\ EventsInOrder
      /\ up \in BOOLEAN
  BY QueueTypes DEF IInv, TypeOK
<1>1. CASE WriteHandshake
  <2> USE <1>1 DEF WriteHandshake
  <2>1. PICK answer \in {"accepted", "declined"} :
          reader' = [reader EXCEPT !.at = "answering", !.got = answer]
    OBVIOUS
  <2>2. reader'.at = "answering" /\ reader'.got = answer
    BY <2>1 DEF IInv, TypeOK
  <2>3. ~registered /\ events = <<>>
    BY DEF IInv, LoopState, Handshaking
  <2>4. LoopState'
    BY <2>2, <2>3 DEF LoopState, Handshaking, HasFrame, HandshakeKinds
  <2>5. EventsInOrder'
    BY <1>0 DEF EventsInOrder
  <2> QED
    BY <1>0, <2>1, <2>4, <2>5, ReturnsKeepsOwn DEF HandshakeKinds, RequestTimer
<1>2. CASE HandshakeEnds
  <2> USE <1>2 DEF HandshakeEnds, ReaderGoes
  <2>1. reader'.at = "done" /\ reader'.got = reader.got
    BY ReaderFields
  <2>2. ~registered
    BY AtDispatch DEF HandshakeKinds
  <2>3. LoopState'
    BY <2>1, <2>2 DEF LoopState, Handshaking, HasFrame
  <2>4. EventsInOrder'
    BY <1>0 DEF EventsInOrder
  <2> QED
    BY <1>0, <2>3, <2>4, ReaderFields, ReturnsKeepsOwn
<1>3. CASE Register
  <2> USE <1>3 DEF Register, ReaderGoes
  <2>1. reader'.at = "opening" /\ reader'.got = reader.got
    BY ReaderFields
  <2>2. events = <<>>
    BY AtDispatch DEF HandshakeKinds
  <2>3. LoopState'
    BY <2>1, <2>2 DEF LoopState, Handshaking, HasFrame, Attached
  <2>4. EventsInOrder'
    BY <1>0 DEF EventsInOrder
  <2> QED
    BY <1>0, <2>3, <2>4, ReaderFields, StillHarmless, GoesOnKeepsOwn DEF Running
<1>4. CASE OnOpen
  <2> USE <1>4 DEF OnOpen, ReaderGoes
  <2>1. reader'.at = "again" /\ reader'.got = reader.got
    BY ReaderFields
  <2>2. Attached /\ events = <<>>
    BY DEF IInv, LoopState
  <2>3. Talk' /\ EventsInOrder' /\ events' \in Seq(Events)
    BY <2>2, TellOpens
  <2>4. LoopState'
    BY <2>1, <2>2, <2>3
       DEF LoopState, Handshaking, HasFrame, Attached, queueVars
  <2> QED
    BY <1>0, <2>3, <2>4, ReaderFields, StillHarmless, GoesOnKeepsOwn DEF Running
<1>5. CASE OnHandshake
  <2> USE <1>5 DEF OnHandshake, ReaderGoes
  <2>1. reader'.at = "greeting" /\ reader'.got = reader.got
    BY ReaderFields
  <2>2. ~registered /\ events = <<>>
    BY AtDispatch DEF HandshakeKinds
  <2>3. LoopState'
    BY <2>1, <2>2 DEF LoopState, Handshaking, HasFrame, HandshakeKinds
  <2>4. EventsInOrder'
    BY <1>0 DEF EventsInOrder
  <2> QED
    BY <1>0, <2>3, <2>4, ReaderFields, StillHarmless, GoesOnKeepsOwn DEF Running
<1> QED
  BY <1>1, <1>2, <1>3, <1>4, <1>5

LEMMA EndingKeepsOwn ==
  ASSUME IInv, ReadError \/ ReadEnds
  PROVE  Own'
<1>1. reader'.at = "done" /\ ~registered'
  BY ReaderFields DEF ReadError, ReadEnds, ReaderGoes, Unregister
<1>2. LoopState'
  BY <1>1 DEF LoopState, Handshaking, HasFrame
<1>3. EventsInOrder' /\ events' \in Seq(Events)
  <2>0. events \in Seq(Events)
    BY DEF IInv
  <2>1. CASE ReadError
    <3>1. Tell("error") /\ (Talk \/ events = <<>>)
      BY <2>1, AtDispatch DEF ReadError
    <3> QED
      BY <1>1, <2>0, <3>1, TellError, TellErrorAlone
  <2>2. CASE ReadEnds
    <3>1. Tell("close") /\ (Talk \/ Dismissed)
      BY <2>2 DEF ReadEnds, IInv, LoopState
    <3> QED
      BY <2>0, <3>1, TellClose
  <2> QED
    BY <2>1, <2>2
<1>4. registered' \in BOOLEAN
  BY DEF ReadError, ReadEnds, Unregister
<1> QED
  BY <1>2, <1>3, <1>4, ReaderFields, ReturnsKeepsOwn
     DEF ReadError, ReadEnds, ReaderGoes

LEMMA TooBigKeepsOwn ==
  ASSUME IInv, ReadTooBig
  PROVE  Own'
<1> USE DEF ReadTooBig, Unregister, NotClose
<1>1. reader' = [reader EXCEPT !.at = "dispatch", !.got = "close"]
  BY DEF IInv, TypeOK
<1>2. reader'.at = "dispatch" /\ reader'.got = "close"
  BY <1>1 DEF IInv, TypeOK
<1>3. Dismissed' /\ EventsInOrder' /\ events' \in Seq(Events)
  BY AtDispatch, TellError DEF IInv
<1>4. LoopState'
  BY <1>2, <1>3 DEF LoopState, Handshaking, HasFrame, HandshakeKinds
<1>5. closed' \in BOOLEAN
  BY DEF IInv, TypeOK
<1> QED
  BY <1>1, <1>3, <1>4, <1>5, StillHarmless, GoesOnKeepsOwn DEF Running, Kinds

LEMMA ClosingKeepsOwn ==
  ASSUME IInv, ReadCloseCheck \/ ReadCloseSend
  PROVE  Own'
<1> USE DEF ReaderGoes
<1>0. /\ registered \in BOOLEAN /\ closed \in BOOLEAN
      /\ events \in Seq(Events) /\ EventsInOrder
  BY DEF IInv, TypeOK
<1>1. /\ reader.at \in Running /\ Harmless
      /\ UNCHANGED <<reads, registered, events, closer, stopped>>
      /\ closed' \in BOOLEAN
  BY <1>0, StillHarmless, SendHarmless
     DEF ReadCloseCheck, ReadCloseSend, SendCloseFrame, NotClose, Running
<1>2. PICK l \in {"closing", "ending"} : reader' = [reader EXCEPT !.at = l]
  BY DEF ReadCloseCheck, ReadCloseSend
<1>3. reader'.at = l
  BY <1>2, ReaderFields
<1>4. (Attached /\ Talk) \/ Dismissed
  BY AtDispatch DEF ReadCloseCheck, ReadCloseSend, IInv, LoopState
<1>5. /\ Attached => Attached'
      /\ Talk => Talk'
      /\ Dismissed => Dismissed'
  BY <1>1 DEF Harmless, Attached, Talk, Dismissed
<1>6. LoopState'
  BY <1>3, <1>4, <1>5 DEF LoopState, Handshaking, HasFrame
<1>7. EventsInOrder'
  BY <1>0, <1>1 DEF EventsInOrder
<1> QED
  BY <1>0, <1>1, <1>2, <1>6, <1>7, ReaderFields, GoesOnKeepsOwn DEF Running

LEMMA FrameKeepsOwn ==
  ASSUME IInv, ReadPing \/ ReadMessage
  PROVE  Own'
<1> USE DEF ReaderGoes, NotClose
<1>0. /\ registered \in BOOLEAN /\ closed \in BOOLEAN
      /\ events \in Seq(Events) /\ EventsInOrder
  BY DEF IInv, TypeOK
<1>1. /\ reader.at = "dispatch" /\ Harmless /\ Attached /\ Talk
      /\ UNCHANGED <<reads, registered, closed, closer, stopped>>
      /\ reader' = [reader EXCEPT !.at = "again"]
  BY AtDispatch, StillHarmless, SendHarmless DEF ReadPing, ReadMessage
<1>2. reader'.at = "again"
  BY <1>1, ReaderFields
<1>3. Talk' /\ EventsInOrder' /\ events' \in Seq(Events)
  BY <1>0, <1>1, TellMessage DEF ReadPing, ReadMessage, Talk, EventsInOrder
<1>4. Attached'
  BY <1>1 DEF Harmless, Attached
<1>5. LoopState'
  BY <1>2, <1>3, <1>4 DEF LoopState, Handshaking, HasFrame
<1> QED
  BY <1>0, <1>1, <1>3, <1>5, ReaderFields, GoesOnKeepsOwn DEF Running

LEMMA AgainKeepsOwn ==
  ASSUME IInv, ReadAgain
  PROVE  Own'
<1> USE DEF ReadAgain, ReaderGoes
<1>0. registered \in BOOLEAN /\ events \in Seq(Events) /\ EventsInOrder
  BY DEF IInv, TypeOK
<1>1. reader'.at = "reading"
  BY ReaderFields
<1>2. Attached /\ Talk
  BY DEF IInv, LoopState
<1>3. Attached' /\ Talk' /\ EventsInOrder'
  BY <1>0, <1>2 DEF Attached, Talk, EventsInOrder, Q!ReaderLeaves
<1>4. LoopState'
  BY <1>1, <1>3 DEF LoopState, Handshaking, HasFrame
<1>5. IdleTimeout => timer' = "armed"
  BY DEF Q!SetTimeout, Q!NewTimer
<1> QED
  BY <1>0, <1>3, <1>4, <1>5, ReaderFields, ReturnsKeepsOwn

-----------------------------------------------------------------------------
(* Every step keeps the invariant. *)

LEMMA InitIInv == Init => IInv
<1> SUFFICES ASSUME Init PROVE IInv
  OBVIOUS
<1> USE DEF Init
<1>1. Q!IInv
  BY QueueInit
<1>2. open
  BY DEF Q!Init, Q!Runner!Init
<1>3. LoopState /\ EventsInOrder /\ IdleGuardsRead
  BY DEF LoopState, Handshaking, HasFrame, HandshakeKinds, EventsInOrder,
         IdleGuardsRead, FrameArrived, HandshakeArrived, RequestTimer, Kinds
<1>4. reader.at = "request" /\ "request" \notin Running
  BY DEF Running
<1>5. reader.got \in HandshakeKinds /\ reads \in 0..MaxReads
        /\ events \in Seq(Events)
  BY MaxReadsAssumption DEF HandshakeKinds
<1>6. Own
  BY <1>2, <1>3, <1>4, <1>5 DEF Own
<1> QED
  BY <1>1, <1>6, IInvParts

LEMMA NextIInv == IInv /\ [Next]_vars => IInv'
<1> SUFFICES ASSUME IInv, [Next]_vars PROVE IInv'
  OBVIOUS
<1>1. Q!IInv'
  BY StepsMap, QueueKeepsIInv DEF IInv
<1>2. Own'
  <2>1. CASE UNCHANGED vars
    BY <2>1, StillHarmless, ElsewhereKeepsOwn DEF vars, IInv, TypeOK
  <2>2. CASE ReadStart
    BY <2>2, StartKeepsOwn DEF ReadStart
  <2>3. CASE ReadStep
    BY <2>3, HandshakeKeepsOwn, EndingKeepsOwn, TooBigKeepsOwn,
       ClosingKeepsOwn, FrameKeepsOwn, AgainKeepsOwn DEF ReadStep
  <2> QED
    BY <2>1, <2>2, <2>3, OthersKeepOwn, EnvironmentKeepsOwn DEF Next
<1>3. IInv' <=> Q!IInv' /\ Own'
  BY IInvParts, PTL
<1> QED
  BY <1>1, <1>2, <1>3

(* The invariant of a connection, whatever its peer, the threads of the    *)
(* io_service, the application and stop() do (server_ws.hpp:449-823).      *)
THEOREM Invariance == Spec => []IInv
BY InitIInv, NextIInv, PTL DEF Spec

(* connection_close() and connection_error() take the connection out of    *)
(* endpoint.connections before the loop ends, and stop() takes none out    *)
(* whose loop would go on.                                                 *)
THEOREM RegistryTellsTruth == Spec => []RegistryMatchesLoop
<1>1. IInv => RegistryMatchesLoop
  BY DEF IInv, LoopState, Attached, RegistryMatchesLoop
<1> QED
  BY <1>1, Invariance, PTL

(* on_open first, nothing after on_close, on_error only before it.         *)
THEOREM CallbacksInOrder == Spec => []EventsInOrder
<1>1. IInv => EventsInOrder
  BY DEF IInv
<1> QED
  BY <1>1, Invariance, PTL

(* set_timeout() and cancel_timeout() of both directions never leave a     *)
(* waiting read, or a step of the handshake, without its timer; but for a  *)
(* send during the handshake where timeout_idle is zero.                   *)
THEOREM ReadsAreTimed == Spec => []IdleGuardsRead
<1>1. IInv => IdleGuardsRead
  BY DEF IInv
<1> QED
  BY <1>1, Invariance, PTL

(* The read loop, send_close() and stop() use the send queue only in the   *)
(* ways SendQueue allows for, so what is proved of it holds in their       *)
(* company.                                                                *)
THEOREM KeepsTheQueue == Spec => QueueSpec
<1>1. Init => Q!Init
  BY DEF Init
<1> QED
  BY <1>1, StepsMap, Invariance, PTL DEF Spec, QueueSpec, Q!Spec

(* So callers of send() and send_close() see the ordered channel here too. *)
THEOREM ImplementsChannel == Spec => Q!ChannelSpec
<1>1. Q!Init <=> QP!Init
  BY DEF Q!Init, QP!Init, Q!Runner!Init, QP!Runner!Init, Q!Resting, QP!Resting
<1>2. QP!Spec => QP!ChannelSpec
  BY QueueAssumptions, QP!ImplementsChannel
<1>3. Q!C!Init <=> QP!C!Init
  BY DEF Q!C!Init, QP!C!Init
<1>4. [Q!C!Next]_Q!C!vars <=> [QP!C!Next]_QP!C!vars
  BY DEF Q!C!Next, QP!C!Next, Q!C!vars, QP!C!vars, Q!C!Accept, QP!C!Accept,
         Q!C!Deliver, QP!C!Deliver, Q!C!Tell, QP!C!Tell, Q!C!Break,
         QP!C!Break, Q!C!Shut, QP!C!Shut, Q!C!In, QP!C!In
<1> QED
  BY <1>1, <1>2, <1>3, <1>4, SameNext, KeepsTheQueue, PTL
     DEF QueueSpec, Q!Spec, QP!Spec, Q!ChannelSpec, QP!ChannelSpec,
         Q!C!Spec, QP!C!Spec

(* And they are told in the order of their frames, but for one that        *)
(* another thread has in hand.                                             *)
THEOREM CallersAreToldInOrder == Spec => Q!OvertakenOnlyInHand
<1>1. Q!Init <=> QP!Init
  BY DEF Q!Init, QP!Init, Q!Runner!Init, QP!Runner!Init, Q!Resting, QP!Resting
<1>2. QP!Spec => QP!OvertakenOnlyInHand
  BY QueueAssumptions, QP!CallersAreToldInOrder
<1>3. QP!OvertakenOnlyInHand <=> Q!OvertakenOnlyInHand
  BY DEF QP!OvertakenOnlyInHand, Q!OvertakenOnlyInHand, Q!Told, QP!Told, Q!In, QP!In,
         Q!Todo, QP!Todo, Q!vars, QP!vars, Q!gate, QP!gate
<1> QED
  BY <1>1, <1>2, <1>3, SameNext, KeepsTheQueue, PTL DEF QueueSpec, Q!Spec, QP!Spec
=============================================================================
