------------------------------ MODULE SendQueue ------------------------------
(***************************************************************************)
(* The outgoing half of SocketServerBase::Connection                       *)
(* (src/websocket/server_ws.hpp:162-236): any thread appends frames, at    *)
(* most one asynchronous write is started for the front of the list, and   *)
(* its completion handler, on some thread of the io_service, pops the      *)
(* front, starts the next write and calls back.                            *)
(*                                                                         *)
(* A section under send_queue_mutex is one step: the mutex is all that     *)
(* protects send_queue, and nothing inside blocks.  Asio and the socket    *)
(* are the environment: a pending write succeeds while the socket is up    *)
(* and fails once it is down.  Frames are model values, so a frame is what *)
(* one call of send() queues.                                              *)
(***************************************************************************)
EXTENDS Sequences, Naturals, FiniteSets

CONSTANTS
  Msgs,        \* frames that may be sent
  Silent,      \* those sent without a callback
  IoThreads,   \* threads in io_service::run()
  IdleTimeout  \* timeout_idle # 0

ASSUME SilentAssumption == Silent \subseteq Msgs
ASSUME IdleTimeoutAssumption == IdleTimeout \in BOOLEAN

VARIABLES
  queue,    \* send_queue
  writes,   \* asynchronous writes not yet handled: [msg, res]
  up,       \* the socket is usable
  timer,    \* "armed" when a timer waits to close the connection
  handler,  \* completion handler on each thread: [at, ec, todo]
  open, holders, refused,  \* handler_runner, as Gate describes it
  sent, wire, told         \* histories: queued, written, called back

gate == <<open, holders, refused>>
vars == <<queue, writes, up, timer, handler, gate, sent, wire, told>>

Runner == INSTANCE Gate WITH Threads <- IoThreads

Resting == [at |-> "idle", ec |-> "ok", todo |-> <<>>]

In(x, s) == \E i \in DOMAIN s : s[i] = x

(* What set_timeout() leaves with its default argument: a zero timeout_idle *)
(* drops the timer, any other starts a new one.                            *)
NewTimer == IF IdleTimeout THEN "armed" ELSE "off"

Init == /\ queue = <<>>
        /\ writes = {}
        /\ up = TRUE
        /\ timer \in {"off", "armed"}
        /\ handler = [t \in IoThreads |-> Resting]
        /\ Runner!Init
        /\ sent = <<>>
        /\ wire = <<>>
        /\ told = <<>>

-----------------------------------------------------------------------------
(* Operators marked (faulty) are slips a rewrite of this code might make;  *)
(* the model checker must reject each of them.                             *)

SetTimeout == timer' = NewTimer

(* send_from_queue() on list q: write the front element's buffers, which   *)
(* the list keeps alive.                                                   *)
SendFromQueue(q) ==
  /\ SetTimeout
  /\ writes' = writes \cup {[msg |-> Head(q), res |-> "pending"]}

(* (faulty) Start a write whenever something is queued. *)
SendAlwaysWrites(m) ==
  /\ ~In(m, sent)
  /\ queue' = Append(queue, m)
  /\ sent' = Append(sent, m)
  /\ SendFromQueue(queue')
  /\ UNCHANGED <<up, handler, gate, wire, told>>

(* send(): each call has an OutData of its own, so m is new.  Any thread   *)
(* may call it, a callback of this queue too.                              *)
Send(m) ==
  /\ ~In(m, sent)
  /\ queue' = Append(queue, m)
  /\ sent' = Append(sent, m)
  /\ IF Len(queue') = 1
       THEN SendFromQueue(queue')
       ELSE UNCHANGED <<writes, timer>>
  /\ UNCHANGED <<up, handler, gate, wire, told>>

-----------------------------------------------------------------------------
(* Environment: asio and the socket. *)

WriteSucceeds(w) ==
  /\ w.res = "pending" /\ up
  /\ writes' = (writes \ {w}) \cup {[w EXCEPT !.res = "ok"]}
  /\ wire' = Append(wire, w.msg)
  /\ UNCHANGED <<queue, up, timer, handler, gate, sent, told>>

WriteFails(w) ==
  /\ w.res = "pending" /\ ~up
  /\ writes' = (writes \ {w}) \cup {[w EXCEPT !.res = "error"]}
  /\ UNCHANGED <<queue, up, timer, handler, gate, sent, wire, told>>

(* The peer resets the connection, or somebody calls Connection::close(),  *)
(* which shuts the socket down and cancels what is pending on it.          *)
SocketDown ==
  /\ up
  /\ up' = FALSE
  /\ UNCHANGED <<queue, writes, timer, handler, gate, sent, wire, told>>

(* The idle timer expires: its handler calls close(). *)
TimerFires ==
  /\ timer = "armed"
  /\ timer' = "off"
  /\ up' = FALSE
  /\ UNCHANGED <<queue, writes, handler, gate, sent, wire, told>>

(* The handlers of the read loop (Connection models them) run on the same  *)
(* threads, under the same handler_runner, and share the timer: they       *)
(* cancel it when they start and may set it again before they end, with    *)
(* timeout_idle for the next read or with timeout_request (either may be   *)
(* zero) during the handshake.                                             *)
ReaderEnters(t) ==
  /\ handler[t].at = "idle"
  /\ timer' = "off"
  /\ Runner!Enter(t) \/ Runner!Refuse(t)
  /\ UNCHANGED <<queue, writes, up, handler, sent, wire, told>>

ReaderLeaves(t) ==
  /\ handler[t].at = "idle"
  /\ timer' \in {"off", "armed"}
  /\ Runner!Leave(t)
  /\ UNCHANGED <<queue, writes, up, handler, sent, wire, told>>

-----------------------------------------------------------------------------
(* The completion handler of async_write. *)

(* (faulty) The lock of handler_runner is not asked for. *)
HandleWithoutLock(t, w) ==
  /\ handler[t].at = "idle"
  /\ w.res # "pending"
  /\ writes' = writes \ {w}
  /\ SetTimeout
  /\ handler' = [handler EXCEPT ![t] = [at |-> "locked", ec |-> w.res,
                                        todo |-> <<>>]]
  /\ UNCHANGED <<queue, up, gate, sent, wire, told>>

(* Its head: set_timeout(), then continue_lock().  Without a lock it       *)
(* returns and the list keeps its elements for ever.                       *)
Handle(t, w) ==
  /\ handler[t].at = "idle"
  /\ w.res # "pending"
  /\ writes' = writes \ {w}
  /\ SetTimeout
  /\ \/ /\ Runner!Enter(t)
        /\ handler' = [handler EXCEPT ![t] = [at |-> "locked", ec |-> w.res,
                                              todo |-> <<>>]]
     \/ /\ Runner!Refuse(t)
        /\ UNCHANGED handler
  /\ UNCHANGED <<queue, up, sent, wire, told>>

(* The callbacks of frames ms are to be called, on t. *)
Call(t, ms) == handler' = [handler EXCEPT ![t].at = "calling",
                                          ![t].todo = ms]

(* (faulty) The next write is forgotten. *)
PopOnly(t) ==
  /\ handler[t].at = "locked" /\ handler[t].ec = "ok"
  /\ Call(t, <<Head(queue)>>)
  /\ queue' = Tail(queue)
  /\ UNCHANGED <<writes, timer, up, gate, sent, wire, told>>

(* Its section under send_queue_mutex, after a success: take the callback  *)
(* of the front, whichever frame that is, erase it, start the next write.  *)
PopFront(t) ==
  /\ handler[t].at = "locked" /\ handler[t].ec = "ok"
  /\ Call(t, <<Head(queue)>>)
  /\ queue' = Tail(queue)
  /\ IF queue' # <<>>
       THEN SendFromQueue(queue')
       ELSE UNCHANGED <<writes, timer>>
  /\ UNCHANGED <<up, gate, sent, wire, told>>

(* (faulty) The list is not cleared after its callbacks were collected. *)
FailAllNoClear(t) ==
  /\ handler[t].at = "locked" /\ handler[t].ec = "error"
  /\ Call(t, queue)
  /\ queue' = Tail(queue)
  /\ IF queue' # <<>>
       THEN SendFromQueue(queue')
       ELSE UNCHANGED <<writes, timer>>
  /\ UNCHANGED <<up, gate, sent, wire, told>>

(* The same section after an error: every queued frame has failed. *)
FailAll(t) ==
  /\ handler[t].at = "locked" /\ handler[t].ec = "error"
  /\ Call(t, queue)
  /\ queue' = <<>>
  /\ UNCHANGED <<writes, timer, up, gate, sent, wire, told>>

(* (faulty) The newest callback is called first. *)
CallbackNewestFirst(t) ==
  LET todo == handler[t].todo IN
  /\ handler[t].at = "calling" /\ todo # <<>>
  /\ told' = IF todo[Len(todo)] \in Silent
               THEN told ELSE Append(told, <<todo[Len(todo)], handler[t].ec>>)
  /\ handler' = [handler EXCEPT ![t].todo = SubSeq(todo, 1, Len(todo) - 1)]
  /\ UNCHANGED <<queue, writes, up, timer, gate, sent, wire>>

(* The callbacks run after the mutex is released, one by one; a null one   *)
(* is passed over.                                                         *)
Callback(t) ==
  LET todo == handler[t].todo IN
  /\ handler[t].at = "calling" /\ todo # <<>>
  /\ told' = IF Head(todo) \in Silent
               THEN told ELSE Append(told, <<Head(todo), handler[t].ec>>)
  /\ handler' = [handler EXCEPT ![t].todo = Tail(todo)]
  /\ UNCHANGED <<queue, writes, up, timer, gate, sent, wire>>

(* The handler returns and its SharedLock is destroyed. *)
Return(t) ==
  /\ handler[t].at = "calling" /\ handler[t].todo = <<>>
  /\ handler' = [handler EXCEPT ![t] = Resting]
  /\ Runner!Leave(t)
  /\ UNCHANGED <<queue, writes, up, timer, sent, wire, told>>

(* handler_runner->stop(), from the owner's destructor. *)
StopHandlers ==
  /\ Runner!Close
  /\ UNCHANGED <<queue, writes, up, timer, handler, sent, wire, told>>

-----------------------------------------------------------------------------
Step(t) == PopFront(t) \/ FailAll(t) \/ Callback(t) \/ Return(t)

Begin == \E t \in IoThreads : \E w \in writes : Handle(t, w)

Complete == \E w \in writes : WriteSucceeds(w) \/ WriteFails(w)

Next == \/ \E m \in Msgs : Send(m)
        \/ Complete \/ SocketDown \/ TimerFires
        \/ Begin
        \/ \E t \in IoThreads : Step(t) \/ ReaderEnters(t) \/ ReaderLeaves(t)
        \/ StopHandlers

Spec == Init /\ [][Next]_vars

(* The io_service runs handlers that are ready and they return; the        *)
(* network completes each write, one way or the other.  Begin is strong:   *)
(* read handlers may occupy every thread now and then, but asio's queue is *)
(* first in, first out, so they do not keep a ready handler from its turn. *)
Fairness == /\ WF_vars(Complete)
            /\ SF_vars(Begin)
            /\ \A t \in IoThreads : WF_vars(Step(t)) /\ WF_vars(ReaderLeaves(t))

FairSpec == Spec /\ Fairness

-----------------------------------------------------------------------------
Results == {"ok", "error"}

TypeOK ==
  /\ queue \in Seq(Msgs)
  /\ writes \subseteq [msg : Msgs, res : Results \cup {"pending"}]
  /\ up \in BOOLEAN
  /\ timer \in {"off", "armed"}
  /\ handler \in [IoThreads -> [at : {"idle", "locked", "calling"},
                                ec : Results, todo : Seq(Msgs)]]
  /\ open \in BOOLEAN
  /\ {t \in IoThreads : handler[t].at # "idle"} \subseteq holders
  /\ holders \subseteq IoThreads
  /\ refused \subseteq IoThreads
  /\ sent \in Seq(Msgs) /\ wire \in Seq(Msgs)
  /\ told \in Seq(Msgs \X Results)

Locked(t) == handler[t].at = "locked"

(* asio forbids two overlapping async_write on a socket, whose bytes would *)
(* interleave: send() and the completion handlers never have two writes,   *)
(* or a write and a result not yet popped, at the same time.               *)
OneWriteAtATime ==
  /\ \A v, w \in writes : v = w
  /\ \A t, u \in IoThreads : Locked(t) /\ Locked(u) => t = u
  /\ writes # {} => \A t \in IoThreads : ~Locked(t)

(* The buffers handed to async_write live in the front element of          *)
(* send_queue (server_ws.hpp:167), and the handler dereferences begin():   *)
(* that element stays in front until the handler has popped it.            *)
FrontOwned ==
  /\ \A w \in writes : queue # <<>> /\ w.msg = Head(queue)
  /\ \A t \in IoThreads : Locked(t) => queue # <<>>

(* No lost wakeup: while the server runs, a non-empty list has a write     *)
(* outstanding or a handler about to pop it.  send() starts a write only   *)
(* for the first element, so a list left without one would stay for ever.  *)
QueueIsServed ==
  open /\ queue # <<>> =>
    \/ writes # {}
    \/ \E t \in IoThreads : Locked(t)

-----------------------------------------------------------------------------
(* The strengthening that makes the four above inductive and carries the   *)
(* refinement of Channel: where each frame is, in terms of its place among *)
(* the frames sent.  Frames 1..Departed have left the list, the others are *)
(* the list.                                                               *)

Departed == Len(sent) - Len(queue)

SentOnce == \A i, j \in DOMAIN sent : sent[i] = sent[j] => i = j

QueueIsSuffix == /\ Len(queue) <= Len(sent)
                 /\ \A i \in 1..Len(queue) : queue[i] = sent[Departed + i]

WireIsPrefix == /\ Len(wire) <= Len(sent)
                /\ \A i \in 1..Len(wire) : wire[i] = sent[i]

(* How far the wire is.  A socket that went down stays behind for good.    *)
NotYetWritten == Len(wire) <= Departed /\ (up => Len(wire) = Departed)
FrontWritten == Len(wire) = Departed + 1
FrontFailed == ~up /\ Len(wire) <= Departed

WireProgress ==
  /\ queue = <<>> => NotYetWritten
  /\ \A w \in writes : /\ w.res = "pending" => NotYetWritten
                       /\ w.res = "ok" => FrontWritten
                       /\ w.res = "error" => FrontFailed
  /\ \A t \in IoThreads : Locked(t) =>
       IF handler[t].ec = "ok" THEN FrontWritten ELSE FrontFailed

(* Who is still to be called has left the list, with its true result; he   *)
(* has not been called, and nobody else is about to call him.              *)
Todo(t) == handler[t].todo

TodoIsTrue ==
  \A t \in IoThreads : \A i \in 1..Len(Todo(t)) :
    \E k \in 1..Departed :
      /\ sent[k] = Todo(t)[i]
      /\ IF handler[t].ec = "ok" THEN k <= Len(wire) ELSE k > Len(wire) /\ ~up

ToldIsGone ==
  \A i \in 1..Len(told) : \E k \in 1..Departed : sent[k] = told[i][1]

TodoOnce ==
  \A t, u \in IoThreads :
    \A i \in 1..Len(Todo(t)), j \in 1..Len(Todo(u)) :
      Todo(t)[i] = Todo(u)[j] => t = u /\ i = j

ToldNotTodo ==
  \A i \in 1..Len(told) : \A t \in IoThreads : \A j \in 1..Len(Todo(t)) :
    told[i][1] # Todo(t)[j]

OnlyCallersHaveTodo ==
  \A t \in IoThreads : handler[t].at # "calling" => Todo(t) = <<>>

HoldersKeepOpen == holders # {} => open

Service == OneWriteAtATime /\ FrontOwned /\ QueueIsServed

Places == SentOnce /\ QueueIsSuffix /\ WireIsPrefix /\ WireProgress

Calls == /\ TodoIsTrue /\ ToldIsGone /\ TodoOnce /\ ToldNotTodo
         /\ OnlyCallersHaveTodo /\ HoldersKeepOpen

IInv == TypeOK /\ Service /\ Places /\ Calls

-----------------------------------------------------------------------------
Told(m) == \E i \in DOMAIN told : told[i][1] = m

(* The mutex is released before a callback is called, so that with two io  *)
(* threads one may overtake another.  Only one that is in hand, though: a  *)
(* caller is told before that of an earlier frame only while another       *)
(* thread is just about to tell that one, and with a single io thread (the *)
(* JUCE servers and clients run one) never.                                *)
OvertakenOnlyInHand ==
  [][\A k, l \in DOMAIN sent :
       /\ k < l /\ sent[k] \notin Silent
       /\ ~Told(sent[k]) /\ ~Told(sent[l]) /\ Told(sent[l])'
       => \E t \in IoThreads : In(sent[k], Todo(t)) /\ Todo(t)' = Todo(t)]_vars

(* The callback of every send is called in the end, unless the owner has   *)
(* stopped its handlers: then a pending callback is dropped silently.      *)
EveryCallerTold ==
  \A m \in Msgs \ Silent :
    In(m, sent) ~> (~open \/ Told(m))

C == INSTANCE Channel WITH broken <- ~up

(* send() implements the ordered channel: frames reach the socket whole,   *)
(* once and in the order of the calls; no callback is made twice, reports  *)
(* success for a frame not written or failure for a written one, or comes  *)
(* after stop().                                                           *)
ChannelSpec == C!Spec
=============================================================================
