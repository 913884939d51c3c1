---------------------------- MODULE HttpSession ----------------------------
(***************************************************************************)
(* One connection of the HTTP server, Server<HTTP>                         *)
(* (src/webserver/server_http.hpp), from its acceptance through its        *)
(* keep-alive requests: the chain of reads, the resource function, and the *)
(* Response, whose last owner sends what is left in its stream when it     *)
(* lets go of it, and only then lets the connection read again.            *)
(*                                                                         *)
(* A Response is owned by the application (the argument of the resource    *)
(* function and the copies it keeps, on any thread), by the function's     *)
(* caller, and by every write of its send queue.  What it streams is a     *)
(* sequence of numbered parts; a buffer is the parts it holds.             *)
(*                                                                         *)
(* A handler that only reads, parses and reports (on_error) is one step;   *)
(* one that calls the application holds a lock of handler_runner until it  *)
(* returns.  Where the read handlers call on_error without asking whether  *)
(* it is set and it is not, the exception leaves io_service::run(): for    *)
(* the session that is the end it has anyway (ReadFails), for the server   *)
(* see HandlerThrows in ServerLifecycle.                                   *)
(***************************************************************************)
EXTENDS Sequences, Naturals, FiniteSets

CONSTANTS
  IoThreads,    \* threads of the io_service
  MaxRequests,  \* bound on the requests of the connection
  MaxParts,     \* bound on the parts of all its responses
  MaxQueue      \* bound on the length of its send queue

ASSUME BoundsAssumption == /\ MaxRequests \in Nat \ {0}
                           /\ MaxParts \in Nat /\ MaxQueue \in Nat

VARIABLES
  at,       \* where the session is (see TypeOK)
  on,       \* thread that runs the resource function or on_upgrade
  req,      \* number of the session's request
  up,       \* the socket is usable
  timer,    \* "armed" when a timer waits to close the connection
  inSet,    \* the connection is in connections->set
  resp,     \* the Response: "none", "shared", or "deleting" in its deleter
  user,     \* the application owns the Response
  buf,      \* its streambuf
  queue,    \* its send_queue: what each buffer holds, and from which part on
  writes,   \* asynchronous writes not yet handled: [kind, data, res]
  handler,  \* completion handler of send_from_queue() on each thread
  open, holders, refused,  \* handler_runner, as Gate describes it
  made, wire,              \* histories: parts streamed, parts written
  begun, answered,         \* histories: requests with a Response; sent whole
  missed                   \* history: stop() came before the accept handler

gate == <<open, holders, refused>>
response == <<resp, user, buf, queue, writes, handler>>
history == <<made, wire, begun, answered, missed>>
session == <<at, on, req, up, timer, inSet>>
vars == <<session, response, gate, history>>

Runner == INSTANCE Gate WITH Threads <- IoThreads

Idle == [at |-> "idle", ec |-> "ok"]

Pending(k, d) == [kind |-> k, data |-> d, res |-> "pending"]

(* create_connection() for the acceptor. *)
Init == /\ at = "accepting" /\ on = "none" /\ req = 1
        /\ up = TRUE /\ timer = "off" /\ inSet = TRUE
        /\ resp = "none" /\ user = FALSE
        /\ buf = <<>> /\ queue = <<>> /\ writes = {}
        /\ handler = [t \in IoThreads |-> Idle]
        /\ Runner!Init
        /\ made = 0 /\ wire = <<>> /\ begun = {} /\ answered = {}
        /\ missed = FALSE

-----------------------------------------------------------------------------
(* Operators marked (faulty) are slips a rewrite of this code might make;  *)
(* the model checker must reject each of them.                             *)

(* The last owner of the session goes: the Connection's deleter takes it   *)
(* out of the set, and its timer and socket go with it.                    *)
EndSession == /\ at' = "ended"
              /\ timer' = "off"
              /\ inSet' = FALSE
              /\ UNCHANGED <<on, req, up>>

(* read(): timeout_request is set and the header of request n is awaited.  *)
ReadRequest(n) == /\ at' = "header"
                  /\ req' = n
                  /\ timer' = "armed"
                  /\ UNCHANGED <<on, up, inSet>>

(* The peer's socket is still asio's: it is assigned to the connection     *)
(* when the handler of async_accept() is called.                           *)
Unopened == at \in {"accepting", "accepted"}

(* A client connects, on an acceptor that stop() has not closed; the       *)
(* handler waits for a thread.                                             *)
AcceptCompletes == /\ at = "accepting" /\ inSet
                   /\ at' = "accepted"
                   /\ UNCHANGED <<on, req, up, timer, inSet>>
                   /\ UNCHANGED <<response, gate, history>>

AcceptHandled == /\ at = "accepted" /\ open
                 /\ ReadRequest(req)
                 /\ UNCHANGED <<response, gate, history>>

(* on_error(), or nothing at all without a lock. *)
AcceptFails == /\ at = "accepting" \/ (at = "accepted" /\ ~open)
               /\ EndSession
               /\ UNCHANGED <<response, gate, history>>

Reading == at \in {"header", "body"}

(* The stream ended, the header or a chunk size does not parse, or the     *)
(* lock was refused.                                                       *)
ReadFails == /\ Reading
             /\ EndSession
             /\ UNCHANGED <<response, gate, history>>

(* The announced content does not fit into the streambuf.  The Response    *)
(* built for the answer has no deleter that would send it.                 *)
ReadTooLarge == /\ Reading /\ up /\ open
                /\ begun' = begun \cup {req}
                /\ EndSession
                /\ UNCHANGED <<response, gate, made, wire, answered, missed>>

(* The header announces content, by length or in chunks: read that too,    *)
(* under timeout_content.                                                  *)
ReadBody == /\ at = "header" /\ up /\ open
            /\ at' = "body"
            /\ timer' = "armed"
            /\ UNCHANGED <<on, req, up, inSet, response, gate, history>>

-----------------------------------------------------------------------------
(* find_resource() *)

(* (faulty) The lock of handler_runner is not kept while the application   *)
(* runs.                                                                   *)
EntersUnlocked(t, l) == /\ Reading /\ up /\ open
                        /\ handler[t].at = "idle"
                        /\ UNCHANGED gate
                        /\ at' = l
                        /\ on' = t
                        /\ timer' = IF at = "header" THEN "armed" ELSE timer

Enters(t, l) == /\ Reading /\ up
                /\ handler[t].at = "idle"
                /\ Runner!Enter(t)
                /\ at' = l
                /\ on' = t
                /\ timer' = IF at = "header" THEN "armed" ELSE timer

(* on_upgrade: the connection leaves the set before its socket is moved. *)
Upgrade(t) == /\ Enters(t, "upgrading")
              /\ inSet' = FALSE
              /\ UNCHANGED <<req, up, response, history>>

UpgradeReturns == /\ at = "upgrading"
                  /\ Runner!Leave(on)
                  /\ at' = "upgraded"
                  /\ timer' = "off"
                  /\ UNCHANGED <<on, req, up, inSet, response, history>>

(* A resource matches: write() makes the Response and calls the function. *)
CallResource(t) == /\ Enters(t, "resource")
                   /\ resp' = "shared"
                   /\ user' = TRUE
                   /\ begun' = begun \cup {req}
                   /\ UNCHANGED <<buf, queue, writes, handler>>
                   /\ UNCHANGED <<req, up, inSet>>
                   /\ UNCHANGED <<made, wire, answered, missed>>

(* None does: the session is dropped without a word. *)
NoResource == /\ Reading /\ up /\ open
              /\ EndSession
              /\ UNCHANGED <<response, gate, history>>

-----------------------------------------------------------------------------
(* The Response. *)

(* (faulty) The handler of send_from_queue() does not own the Response. *)
OwnedButNotByWrites(u, l, ws, hs) == u \/ l = "resource"

(* Who still owns it when the application does or does not (u), the        *)
(* session is at l, and ws and hs are its writes and handlers.             *)
Owned(u, l, ws, hs) == \/ u
                       \/ l = "resource"
                       \/ \E w \in ws : w.kind = "part"
                       \/ \E t \in IoThreads : hs[t].at # "idle"

(* Whoever lets go of it last runs the deleter: send_on_delete() writes    *)
(* what is left in the stream.                                             *)
LetGo(u, l, ws, hs) ==
  IF resp = "shared" /\ ~Owned(u, l, ws, hs)
    THEN /\ resp' = "deleting"
         /\ writes' = ws \cup {Pending("last", buf)}
         /\ buf' = <<>>
    ELSE /\ writes' = ws
         /\ UNCHANGED <<resp, buf>>

(* The resource function returns or throws (then on_error() is called),    *)
(* having kept the Response for later or not.                              *)
ResourceReturns(keep) ==
  /\ at = "resource"
  /\ at' = "served"
  /\ user' = (user /\ keep)
  /\ Runner!Leave(on)
  /\ LetGo(user', at', writes, handler)
  /\ UNCHANGED <<on, req, up, timer, inSet, queue, handler, history>>

(* The application writes to the stream, *)
AppWrites ==
  /\ user /\ made < MaxParts
  /\ made' = made + 1
  /\ buf' = Append(buf, made')
  /\ UNCHANGED <<session, resp, user, queue, writes, handler, gate>>
  /\ UNCHANGED <<wire, begun, answered, missed>>

StartWrite(q) == writes' = writes \cup {Pending("part", Head(q).data)}

(* The number of the first part in the stream, or of the next. *)
BufStart == made + 1 - Len(buf)

(* (faulty) Every send() starts a write. *)
AppSendsAtOnce ==
  /\ user /\ Len(queue) < MaxQueue
  /\ queue' = Append(queue, [from |-> BufStart, data |-> buf])
  /\ buf' = <<>>
  /\ writes' = writes \cup {Pending("part", buf)}
  /\ UNCHANGED <<session, resp, user, handler, gate, history>>

(* calls send(), on an empty stream too, *)
AppSends ==
  /\ user /\ Len(queue) < MaxQueue
  /\ queue' = Append(queue, [from |-> BufStart, data |-> buf])
  /\ buf' = <<>>
  /\ IF Len(queue') = 1 THEN StartWrite(queue') ELSE UNCHANGED writes
  /\ UNCHANGED <<session, resp, user, handler, gate, history>>

(* or lets go of it. *)
AppLetsGo ==
  /\ user
  /\ user' = FALSE
  /\ LetGo(user', at, writes, handler)
  /\ UNCHANGED <<session, queue, handler, gate, history>>

-----------------------------------------------------------------------------
(* asio and the socket *)

Completes(w, r) == writes' = (writes \ {w}) \cup {[w EXCEPT !.res = r]}

(* A write of nothing succeeds on any socket. *)
WriteSucceeds(w) ==
  /\ w.res = "pending" /\ (up \/ w.data = <<>>)
  /\ Completes(w, "ok")
  /\ wire' = wire \o w.data
  /\ UNCHANGED <<session, resp, user, buf, queue, handler, gate>>
  /\ UNCHANGED <<made, begun, answered, missed>>

WriteFails(w) ==
  /\ w.res = "pending" /\ ~up
  /\ Completes(w, "error")
  /\ UNCHANGED <<session, resp, user, buf, queue, handler, gate, history>>

SocketDown == /\ up
              /\ up' = FALSE
              /\ UNCHANGED <<at, on, req, timer, inSet, response, gate, history>>

(* A timer that fires while on_upgrade() has the socket would close one    *)
(* that is not there any more; that is left out.                           *)
TimerFires == /\ timer = "armed" /\ at # "upgrading"
              /\ timer' = "off"
              /\ up' = FALSE
              /\ UNCHANGED <<at, on, req, inSet, response, gate, history>>

-----------------------------------------------------------------------------
(* The completion handler of send_from_queue(): a lock, the section under  *)
(* send_queue_mutex, and the return, which lets go of the Response.        *)

PartHandled(t, w) ==
  /\ handler[t].at = "idle"
  /\ w.kind = "part" /\ w.res # "pending"
  /\ Runner!Enter(t)
  /\ writes' = writes \ {w}
  /\ handler' = [handler EXCEPT ![t] = [at |-> "locked", ec |-> w.res]]
  /\ UNCHANGED <<session, resp, user, buf, queue, history>>

PartRefused(t, w) ==
  /\ handler[t].at = "idle"
  /\ w.kind = "part" /\ w.res # "pending"
  /\ Runner!Refuse(t)
  /\ LetGo(user, at, writes \ {w}, handler)
  /\ UNCHANGED <<session, user, queue, handler, history>>

Called(t) == handler' = [handler EXCEPT ![t].at = "calling"]

(* (faulty) The next buffer of the queue is not started. *)
PopOnly(t) ==
  /\ handler[t].at = "locked" /\ handler[t].ec = "ok"
  /\ queue' = Tail(queue)
  /\ Called(t)
  /\ UNCHANGED <<writes, session, resp, user, buf, gate, history>>

PopFront(t) ==
  /\ handler[t].at = "locked" /\ handler[t].ec = "ok"
  /\ queue' = Tail(queue)
  /\ IF queue' # <<>> THEN StartWrite(queue') ELSE UNCHANGED writes
  /\ Called(t)
  /\ UNCHANGED <<session, resp, user, buf, gate, history>>

FailAll(t) ==
  /\ handler[t].at = "locked" /\ handler[t].ec = "error"
  /\ queue' = <<>>
  /\ Called(t)
  /\ UNCHANGED <<session, resp, user, buf, writes, gate, history>>

(* (faulty) The handler's own reference is not counted when it goes. *)
PartReturnsLeak(t) ==
  /\ handler[t].at = "calling"
  /\ handler' = [handler EXCEPT ![t] = Idle]
  /\ Runner!Leave(t)
  /\ UNCHANGED <<resp, buf, writes, session, user, queue, history>>

(* Its callbacks have been called (the application's actions are theirs    *)
(* too) and it returns.                                                    *)
PartReturns(t) ==
  /\ handler[t].at = "calling"
  /\ handler' = [handler EXCEPT ![t] = Idle]
  /\ Runner!Leave(t)
  /\ LetGo(user, at, writes, handler')
  /\ UNCHANGED <<session, user, queue, history>>

-----------------------------------------------------------------------------
(* The handler of send_on_delete(). *)

(* (faulty) A connection is kept alive whatever the write came to. *)
KeepAliveAnyway(w) ==
  /\ w.kind = "last" /\ w.res # "pending" /\ open
  /\ writes' = writes \ {w}
  /\ resp' = "none"
  /\ answered' = answered \cup IF w.res = "ok" THEN {req} ELSE {}
  /\ req < MaxRequests
  /\ ReadRequest(req + 1)
  /\ UNCHANGED <<user, buf, queue, handler, gate, made, wire, begun, missed>>

(* (faulty) The next request is read without a timer. *)
KeepAliveUntimed(w) ==
  /\ w.kind = "last" /\ w.res = "ok" /\ open
  /\ writes' = writes \ {w}
  /\ resp' = "none"
  /\ answered' = answered \cup {req}
  /\ req < MaxRequests
  /\ at' = "header" /\ req' = req + 1 /\ timer' = "off"
  /\ UNCHANGED <<on, up, inSet>>
  /\ UNCHANGED <<user, buf, queue, handler, gate, made, wire, begun, missed>>

(* The client keeps the connection, and the server may. *)
KeepAlive(w) ==
  /\ w.kind = "last" /\ w.res = "ok" /\ open
  /\ writes' = writes \ {w}
  /\ resp' = "none"
  /\ answered' = answered \cup {req}
  /\ req < MaxRequests
  /\ ReadRequest(req + 1)
  /\ UNCHANGED <<user, buf, queue, handler, gate, made, wire, begun, missed>>

(* It is not kept, the write failed, or the lock was refused. *)
Hangup(w) ==
  /\ w.kind = "last" /\ w.res # "pending"
  /\ writes' = writes \ {w}
  /\ resp' = "none"
  /\ answered' = answered \cup IF w.res = "ok" THEN {req} ELSE {}
  /\ EndSession
  /\ UNCHANGED <<user, buf, queue, handler, gate, made, wire, begun, missed>>

-----------------------------------------------------------------------------
(* ServerBase::stop() and the destructor. *)

(* (faulty) The set is cleared without closing what is in it. *)
ServerStopNoClose == /\ inSet
                     /\ inSet' = FALSE
                     /\ missed' = (at = "accepted")
                     /\ UNCHANGED <<at, on, req, up, timer, response, gate>>
                     /\ UNCHANGED <<made, wire, begun, answered>>

(* The acceptor is closed, and every connection of the set; the close() of *)
(* one whose socket is not assigned yet reaches nothing.                   *)
ServerStop == /\ inSet
              /\ inSet' = FALSE
              /\ up' = (up /\ Unopened)
              /\ missed' = (at = "accepted")
              /\ UNCHANGED <<at, on, req, timer, response, gate>>
              /\ UNCHANGED <<made, wire, begun, answered>>

StopHandlers == /\ Runner!Close
                /\ UNCHANGED <<session, response, history>>

-----------------------------------------------------------------------------
Network == \E w \in writes : WriteSucceeds(w) \/ WriteFails(w)

Handle == \E w \in writes : \/ \E t \in IoThreads : \/ PartHandled(t, w)
                                                    \/ PartRefused(t, w)
                            \/ KeepAlive(w) \/ Hangup(w)

Step(t) == PopFront(t) \/ FailAll(t) \/ PartReturns(t)

Next == \/ AcceptCompletes \/ AcceptHandled \/ AcceptFails
        \/ ReadFails \/ ReadTooLarge \/ ReadBody \/ NoResource
        \/ \E t \in IoThreads : Upgrade(t) \/ CallResource(t) \/ Step(t)
        \/ UpgradeReturns \/ \E keep \in BOOLEAN : ResourceReturns(keep)
        \/ AppWrites \/ AppSends \/ AppLetsGo
        \/ Network \/ SocketDown \/ TimerFires
        \/ Handle
        \/ ServerStop \/ StopHandlers

Spec == Init /\ [][Next]_vars

(* Writes complete and the io_service runs their handlers.  Nothing is     *)
(* assumed of clients, nor of the application.                             *)
Fairness == /\ WF_vars(Network)
            /\ WF_vars(Handle)
            /\ \A t \in IoThreads : WF_vars(Step(t))

FairSpec == Spec /\ Fairness

-----------------------------------------------------------------------------
Buffers == [from : Nat, data : Seq(1..MaxParts)]

TypeOK ==
  /\ at \in {"accepting", "accepted", "header", "body", "upgrading",
             "upgraded", "resource", "served", "ended"}
  /\ on \in IoThreads \cup {"none"}
  /\ req \in 1..MaxRequests
  /\ up \in BOOLEAN /\ timer \in {"off", "armed"} /\ inSet \in BOOLEAN
  /\ resp \in {"none", "shared", "deleting"} /\ user \in BOOLEAN
  /\ buf \in Seq(1..MaxParts) /\ queue \in Seq(Buffers)
  /\ writes \subseteq [kind : {"part", "last"}, data : Seq(1..MaxParts),
                       res : {"pending", "ok", "error"}]
  /\ handler \in [IoThreads -> [at : {"idle", "locked", "calling"},
                                ec : {"ok", "error"}]]
  /\ open \in BOOLEAN /\ holders \subseteq IoThreads
  /\ refused \subseteq IoThreads
  /\ made \in 0..MaxParts /\ wire \in Seq(1..MaxParts)
  /\ begun \subseteq 1..MaxRequests /\ answered \subseteq begun
  /\ missed \in BOOLEAN
  /\ at \in {"resource", "upgrading"} => on \in holders
  /\ \A t \in IoThreads : handler[t].at # "idle" => t \in holders

(* The stream's last buffer, written by the deleter, never meets a write   *)
(* of the send queue: however the application, its threads and its         *)
(* callbacks share the Response, one write at most is outstanding.         *)
OneWriteAtATime == \A v, w \in writes : v = w

(* The connection is read again only when nothing is left of the previous  *)
(* response: the requests of a connection are answered one at a time.      *)
NoReadWhileAnswering == Reading => resp = "none" /\ writes = {} /\ ~user

(* Every response begun before the present request is on the wire to its   *)
(* last part.                                                              *)
EarlierAnswered == \A r \in begun : r < req => r \in answered

(* While a connection waits for a request, its content, the application or *)
(* the client's reading of the response, a timer runs: nobody holds a      *)
(* socket for ever.                                                        *)
AlwaysTimed == at \in {"header", "body", "resource", "served"} /\ up =>
                 timer = "armed"

(* server_http.hpp:476, stop() will "Stop accepting new requests, and      *)
(* close current connections.": a connection that has left the set is      *)
(* closed, has never been opened, or is the WebSocket server's, unless     *)
(* stop() met it between its acceptance and the accept handler: that one   *)
(* is read and served on, on a socket that nobody will close.              *)
LeftSetIsDone ==
  ~inSet /\ ~missed =>
    ~up \/ at \in {"accepting", "upgrading", "upgraded", "ended"}

(* A Response nobody refers to is sent, or given up with its socket or its *)
(* server.                                                                 *)
ReleasedIsSent == (resp # "none" /\ ~user /\ at # "resource") ~> resp = "none"

E == INSTANCE Exchange WITH busy <- resp # "none", broken <- ~up

(* The connection keeps the promise of Exchange. *)
ExchangeSpec == E!Spec

-----------------------------------------------------------------------------
(* The strengthening that makes the above inductive and carries the        *)
(* refinement of Exchange. *)

Locked(t) == handler[t].at = "locked"
AllIdle == \A t \in IoThreads : handler[t].at = "idle"

Threads ==
  /\ holders # {} => open
  /\ at \in {"resource", "upgrading"} =>
       on \in IoThreads /\ handler[on].at = "idle"

(* The life of a Response: while it is shared somebody owns it, and only   *)
(* parts of its queue are written; once in its deleter nothing of it is    *)
(* left but the last write; after that, nothing at all.                    *)
NoResponse == resp = "none" =>
  /\ at \notin {"resource", "served"}
  /\ ~user /\ buf = <<>> /\ writes = {} /\ AllIdle
  /\ Unopened \/ Reading => queue = <<>>

Shared == resp = "shared" =>
  /\ at \in {"resource", "served"} /\ req \in begun
  /\ Owned(user, at, writes, handler)
  /\ \A w \in writes : w.kind = "part"

Deleting == resp = "deleting" =>
  /\ at = "served" /\ req \in begun
  /\ ~user /\ buf = <<>> /\ AllIdle
  /\ writes # {} /\ \A w \in writes : w.kind = "last"
  /\ open => queue = <<>>

Life == NoResponse /\ Shared /\ Deleting

(* The send queue, as in SendQueue: one write or one handler at a time has *)
(* its front, and a list that is not empty has one of them.                *)
Service ==
  /\ \A t, u \in IoThreads : Locked(t) /\ Locked(u) => t = u
  /\ writes # {} => \A t \in IoThreads : ~Locked(t)
  /\ \A w \in writes : w.kind = "part" => queue # <<>> /\ w.data = Head(queue).data
  /\ \A t \in IoThreads : Locked(t) => queue # <<>>
  /\ open /\ queue # <<>> => writes # {} \/ \E t \in IoThreads : Locked(t)

FailedIsDown ==
  /\ \A w \in writes : w.res = "error" => ~up
  /\ \A t \in IoThreads : Locked(t) /\ handler[t].ec = "error" => ~up

(* The parts of a Response: buf holds the latest, and the buffers of the   *)
(* queue those before, each from where the one before it ends.             *)
QStart(i) == IF i <= Len(queue) THEN queue[i].from ELSE BufStart

PartsInLine ==
  /\ Len(buf) <= made
  /\ \A j \in 1..Len(buf) : buf[j] = made - Len(buf) + j
  /\ resp = "shared" =>
       \A i \in 1..Len(queue) :
         /\ \A j \in 1..Len(queue[i].data) :
              queue[i].data[j] = queue[i].from + j - 1
         /\ queue[i].from + Len(queue[i].data) = QStart(i + 1)
         /\ queue[i].from + Len(queue[i].data) <= BufStart

(* The wire ends just before part n; or, where a server that is being      *)
(* destroyed has abandoned something, further before it.                   *)
WireEndsAt(n) == /\ \A i \in DOMAIN wire : wire[i] < n
                 /\ up /\ open => Len(wire) = n - 1

(* How far the wire is: up to what is being written or waits for it. *)
WriteInLine(w) ==
  IF w.kind = "part"
    THEN /\ w.res = "pending" => WireEndsAt(QStart(1))
         /\ w.res = "ok" => WireEndsAt(QStart(2))
    ELSE /\ Len(w.data) <= made
         /\ \A j \in 1..Len(w.data) : w.data[j] = made - Len(w.data) + j
         /\ w.res = "pending" => WireEndsAt(made + 1 - Len(w.data))
         /\ w.res = "ok" => WireEndsAt(made + 1)

WireInLine ==
  /\ \A i \in DOMAIN wire : wire[i] < BufStart
  /\ resp # "deleting" /\ queue = <<>> => WireEndsAt(BufStart)
  /\ \A w \in writes : WriteInLine(w)
  /\ \A t \in IoThreads : Locked(t) /\ handler[t].ec = "ok" =>
       WireEndsAt(QStart(2))

IInv == /\ TypeOK /\ OneWriteAtATime /\ EarlierAnswered /\ AlwaysTimed
        /\ Threads /\ Life /\ Service /\ FailedIsDown
        /\ PartsInLine /\ WireInLine

-----------------------------------------------------------------------------
(* server_http.hpp:42, "the content of the response is sent to client when *)
(* the object is about to be destroyed": a Response that is gone, on a     *)
(* sound socket of a running server, has been sent.                        *)
ContentIsSent == resp = "none" /\ up /\ open => begun \subseteq answered
=============================================================================
