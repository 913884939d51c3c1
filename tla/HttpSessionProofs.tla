-------------------------- MODULE HttpSessionProofs --------------------------
(***************************************************************************)
(* Proofs about HttpSession, for any number of io threads, of requests and *)
(* of parts: IInv is an inductive invariant, and the session implements    *)
(* Exchange.  Each action is proved to keep four parts of the invariant:   *)
(* the session and its thread, the send queue, the life of the Response,   *)
(* and the parts on their way to the wire.                                 *)
(***************************************************************************)
EXTENDS HttpSession, SequenceTheorems, TLAPS

SessionOK ==
  /\ at \in {"accepting", "accepted", "header", "body", "upgrading",
             "upgraded", "resource", "served", "ended"}
  /\ on \in IoThreads \cup {"none"}
  /\ req \in 1..MaxRequests
  /\ up \in BOOLEAN /\ timer \in {"off", "armed"} /\ inSet \in BOOLEAN
  /\ open \in BOOLEAN /\ holders \subseteq IoThreads
  /\ refused \subseteq IoThreads
  /\ begun \subseteq 1..MaxRequests /\ answered \subseteq begun
  /\ missed \in BOOLEAN
  /\ at \in {"resource", "upgrading"} => on \in holders
  /\ \A t \in IoThreads : handler[t].at # "idle" => t \in holders

ResponseOK ==
  /\ resp \in {"none", "shared", "deleting"} /\ user \in BOOLEAN
  /\ buf \in Seq(1..MaxParts) /\ queue \in Seq(Buffers)
  /\ writes \subseteq [kind : {"part", "last"}, data : Seq(1..MaxParts),
                       res : {"pending", "ok", "error"}]
  /\ handler \in [IoThreads -> [at : {"idle", "locked", "calling"},
                                ec : {"ok", "error"}]]
  /\ made \in 0..MaxParts /\ wire \in Seq(1..MaxParts)

SessionPart == SessionOK /\ EarlierAnswered /\ AlwaysTimed /\ Threads
QueuePart == ResponseOK /\ OneWriteAtATime /\ Service /\ FailedIsDown
DataPart == PartsInLine /\ WireInLine

LEMMA IInvParts == IInv <=> SessionPart /\ QueuePart /\ Life /\ DataPart
BY DEF IInv, TypeOK, SessionPart, SessionOK, QueuePart, ResponseOK, DataPart

LEMMA InitIInv == Init => IInv
<1> SUFFICES ASSUME Init PROVE IInv
  OBVIOUS
<1> USE BoundsAssumption DEF Init, Runner!Init, Idle
<1>1. SessionPart
  <2>0. 1 \in 1..MaxRequests
    BY ONLY BoundsAssumption
  <2>1. missed \in BOOLEAN
    BY Zenon
  <2>2. SessionOK
    BY <2>0, <2>1 DEF SessionOK
  <2> QED
    BY <2>2 DEF SessionPart, EarlierAnswered, AlwaysTimed, Threads
<1>2. QueuePart
  <2>0. buf \in Seq(1..MaxParts) /\ queue \in Seq(Buffers)
          /\ wire \in Seq(1..MaxParts)
    OBVIOUS
  <2>3. handler \in [IoThreads -> [at : {"idle", "locked", "calling"},
                                  ec : {"ok", "error"}]]
    OBVIOUS
  <2>4. made \in 0..MaxParts
    OBVIOUS
  <2>1. ResponseOK
    BY <2>0, <2>3, <2>4 DEF ResponseOK
  <2>2. OneWriteAtATime /\ Service /\ FailedIsDown
    BY DEF OneWriteAtATime, Service, FailedIsDown, Locked
  <2> QED
    BY <2>1, <2>2 DEF QueuePart
<1>3. Life
  BY DEF Life, NoResponse, Shared, Deleting, AllIdle
<1>4. DataPart
  <2>1. Len(buf) = 0 /\ Len(wire) = 0 /\ DOMAIN wire = {}
    OBVIOUS
  <2>2. PartsInLine
    BY <2>1 DEF PartsInLine
  <2>3. WireEndsAt(BufStart)
    <3>1. BufStart = 1
      BY <2>1 DEF BufStart
    <3> QED
      BY <2>1, <3>1 DEF WireEndsAt
  <2>4. WireInLine
    BY <2>1, <2>3 DEF WireInLine, WriteInLine, Locked
  <2> QED
    BY <2>2, <2>4 DEF DataPart
<1> QED
  BY <1>1, <1>2, <1>3, <1>4, IInvParts

-----------------------------------------------------------------------------
(* The session: its place, its thread, its timer and its entry in the set. *)

(* A Response under way is that of the present request. *)
LEMMA LastIsPresent ==
  ASSUME IInv, NEW w \in writes, w.kind = "last"
  PROVE  at = "served" /\ req \in begun /\ resp = "deleting"
BY DEF IInv, TypeOK, Life, NoResponse, Shared, Deleting

LEMMA SessionStep ==
  ASSUME IInv, Next
  PROVE  SessionPart'
<1>0. /\ SessionPart
      /\ handler \in [IoThreads -> [at : {"idle", "locked", "calling"},
                                    ec : {"ok", "error"}]]
      /\ \A w \in writes : w.res \in {"pending", "ok", "error"}
  BY IInvParts DEF QueuePart, ResponseOK
<1> USE <1>0, BoundsAssumption DEF SessionPart, SessionOK,
        EarlierAnswered, AlwaysTimed, Threads, gate, response, history,
        session, Reading, Unopened
<1>1. CASE AcceptCompletes \/ AcceptHandled \/ ReadBody
  BY <1>1 DEF AcceptCompletes, AcceptHandled, ReadBody, ReadRequest
<1>2. CASE AcceptFails \/ ReadFails \/ NoResource
  BY <1>2 DEF AcceptFails, ReadFails, NoResource, EndSession
<1>13. CASE ReadTooLarge
  <2> USE <1>13 DEF ReadTooLarge, EndSession
  <2>1. begun' \subseteq 1..MaxRequests /\ answered' \subseteq begun'
    OBVIOUS
  <2>2. EarlierAnswered'
    OBVIOUS
  <2>3. SessionOK' /\ AlwaysTimed' /\ Threads'
    BY <2>1
  <2> QED
    BY <2>2, <2>3
<1>3. ASSUME NEW t \in IoThreads, Upgrade(t)
      PROVE  SessionPart'
  BY <1>3 DEF Upgrade, Enters, Runner!Enter
<1>14. ASSUME NEW t \in IoThreads, CallResource(t)
      PROVE  SessionPart'
  BY <1>14 DEF CallResource, Enters, Runner!Enter
<1>4. CASE UpgradeReturns
  BY <1>4 DEF UpgradeReturns, Runner!Leave
<1>5. ASSUME NEW keep \in BOOLEAN, ResourceReturns(keep)
      PROVE  SessionPart'
  BY <1>5 DEF ResourceReturns, Runner!Leave
<1>6. CASE AppWrites \/ AppSends \/ AppLetsGo \/ Network
  <2>1. UNCHANGED <<session, handler, gate, begun, answered, missed>>
    BY <1>6 DEF AppWrites, AppSends, AppLetsGo, Network, WriteSucceeds, WriteFails
  <2> QED
    BY <2>1
<1>7. CASE SocketDown \/ TimerFires \/ ServerStop
  BY <1>7 DEF SocketDown, TimerFires, ServerStop
<1>8. CASE StopHandlers
  BY <1>8 DEF StopHandlers, Runner!Close
<1>9. ASSUME NEW t \in IoThreads, NEW w \in writes, PartHandled(t, w)
      PROVE  SessionPart'
  BY <1>9 DEF PartHandled, Runner!Enter
<1>15. ASSUME NEW t \in IoThreads, NEW w \in writes, PartRefused(t, w)
      PROVE  SessionPart'
  BY <1>15 DEF PartRefused, Runner!Refuse
<1>10. ASSUME NEW t \in IoThreads, Step(t)
       PROVE  SessionPart'
  BY <1>10 DEF Step, PopFront, FailAll, Called, PartReturns, Runner!Leave, Idle
<1>11. ASSUME NEW w \in writes, KeepAlive(w)
       PROVE  SessionPart'
  BY <1>11, LastIsPresent DEF KeepAlive, ReadRequest
<1>12. ASSUME NEW w \in writes, Hangup(w)
       PROVE  SessionPart'
  BY <1>12, LastIsPresent DEF Hangup, EndSession
<1> QED
  BY <1>1, <1>2, <1>3, <1>4, <1>5, <1>6, <1>7, <1>8, <1>9, <1>10, <1>11, <1>12,
     <1>13, <1>14, <1>15 DEF Next, Handle

-----------------------------------------------------------------------------
(* The Response: its queue, its life and its parts. *)

Rest == QueuePart /\ Life /\ DataPart

LEMMA Types ==
  ASSUME IInv
  PROVE  SessionOK /\ ResponseOK
BY DEF IInv, TypeOK, SessionOK, ResponseOK

LEMMA SeqFacts ==
  ASSUME NEW S, NEW s \in Seq(S)
  PROVE  /\ Len(s) \in Nat /\ DOMAIN s = 1..Len(s)
         /\ \A i \in 1..Len(s) : s[i] \in S
BY LenProperties, ElementOfSeq

LEMMA WireIsNumbers ==
  ASSUME IInv
  PROVE  \A i \in DOMAIN wire : wire[i] \in Nat
<1>1. wire \in Seq(1..MaxParts)
  BY Types DEF ResponseOK
<1> QED
  BY <1>1, SeqFacts, BoundsAssumption

(* Whoever has something to do with a Response finds it shared. *)
LEMMA BusyIsShared ==
  ASSUME IInv, \/ user \/ at = "resource"
               \/ \E w \in writes : w.kind = "part"
               \/ \E t \in IoThreads : handler[t].at # "idle"
  PROVE  /\ resp = "shared" /\ at \in {"resource", "served"} /\ req \in begun
         /\ \A w \in writes : w.kind = "part"
BY Types DEF IInv, Life, NoResponse, Shared, Deleting, AllIdle, ResponseOK,
             SessionOK

(* Steps of the session alone. *)
LEMMA SessionKeepsRest ==
  ASSUME IInv, UNCHANGED <<response, made, wire>>,
         up' => up, open' => open,
         \/ at' = at /\ req' = req /\ begun \subseteq begun'
         \/ /\ resp = "none" /\ at' \notin {"resource", "served"}
            /\ at' \in {"accepting", "accepted", "header", "body"} =>
                 Unopened \/ Reading
  PROVE  Rest'
<1> USE DEF IInv, response
<1>1. QueuePart'
  BY Types DEF QueuePart, ResponseOK, OneWriteAtATime, Service, FailedIsDown,
               Locked
<1>2. Life'
  BY DEF Life, NoResponse, Shared, Deleting, AllIdle, Owned, Reading, Unopened
<1>3. PartsInLine'
  BY DEF PartsInLine, QStart, BufStart
<1>4. /\ BufStart' = BufStart
      /\ \A i : QStart(i)' = QStart(i)
      /\ \A n : WireEndsAt(n) => WireEndsAt(n)'
  BY DEF BufStart, QStart, WireEndsAt
<1>5. WireInLine'
  BY <1>4 DEF WireInLine, WriteInLine, Locked
<1> QED
  BY <1>1, <1>2, <1>3, <1>5 DEF Rest, DataPart

LEMMA SessionActionsKeepRest ==
  ASSUME IInv,
         \/ AcceptCompletes \/ AcceptHandled \/ AcceptFails
         \/ ReadFails \/ ReadTooLarge
         \/ ReadBody \/ NoResource \/ SocketDown \/ TimerFires
         \/ ServerStop \/ StopHandlers \/ UpgradeReturns
         \/ \E t \in IoThreads : Upgrade(t)
  PROVE  Rest'
<1>1. at \in {"accepting", "accepted", "header", "body", "upgrading"} =>
        resp = "none"
  BY Types DEF IInv, Life, Shared, Deleting, ResponseOK
<1> USE <1>1 DEF session, history, response, gate, Reading, Unopened
<1>2. CASE AcceptCompletes \/ AcceptHandled \/ ReadBody
  BY <1>2, SessionKeepsRest
     DEF AcceptCompletes, AcceptHandled, ReadBody, ReadRequest
<1>3. CASE AcceptFails \/ ReadFails \/ NoResource
  BY <1>3, SessionKeepsRest DEF AcceptFails, ReadFails, NoResource, EndSession
<1>4. CASE ReadTooLarge
  BY <1>4, SessionKeepsRest DEF ReadTooLarge, EndSession
<1>5. CASE SocketDown \/ TimerFires
  BY <1>5, SessionKeepsRest DEF SocketDown, TimerFires
<1>9. CASE ServerStop
  <2>1. /\ UNCHANGED <<response, made, wire, open, at, req, begun>>
        /\ up' = (up /\ Unopened)
    BY <1>9 DEF ServerStop
  <2>2. up' => up
    BY ONLY <2>1
  <2> QED
    BY <2>1, <2>2, SessionKeepsRest
<1>6. CASE StopHandlers
  BY <1>6, SessionKeepsRest DEF StopHandlers, Runner!Close
<1>7. CASE UpgradeReturns
  BY <1>7, SessionKeepsRest DEF UpgradeReturns, Runner!Leave
<1>8. ASSUME NEW t \in IoThreads, Upgrade(t) PROVE Rest'
  BY <1>8, SessionKeepsRest DEF Upgrade, Enters, Runner!Enter
<1> QED
  BY <1>2, <1>3, <1>4, <1>5, <1>6, <1>7, <1>8, <1>9

(* A Response is made for a session that has nothing left of another. *)
LEMMA CallResourceKeepsRest ==
  ASSUME IInv, NEW t \in IoThreads, CallResource(t)
  PROVE  Rest'
<1> USE DEF CallResource, Enters, Runner!Enter
<1>1. /\ resp = "none" /\ queue = <<>> /\ buf = <<>> /\ writes = {} /\ AllIdle
      /\ at' = "resource" /\ resp' = "shared" /\ req' = req /\ req \in begun'
      /\ UNCHANGED <<buf, queue, writes, handler, made, wire, up, open>>
  BY Types DEF Reading, IInv, Life, NoResponse, Shared, Deleting, ResponseOK
<1>2. QueuePart'
  <2>1. ResponseOK'
    BY <1>1, Types DEF ResponseOK
  <2>2. OneWriteAtATime' /\ Service' /\ FailedIsDown'
    BY <1>1 DEF IInv, OneWriteAtATime, Service, FailedIsDown, Locked
  <2> QED
    BY <2>1, <2>2 DEF QueuePart
<1>3. Life'
  BY <1>1 DEF Life, NoResponse, Shared, Deleting, Owned
<1>4. /\ BufStart' = BufStart
      /\ \A i : QStart(i)' = QStart(i)
      /\ \A n : WireEndsAt(n) => WireEndsAt(n)'
  BY <1>1 DEF BufStart, QStart, WireEndsAt
<1>5. PartsInLine'
  BY <1>1, <1>4 DEF IInv, PartsInLine
<1>6. WireInLine'
  BY <1>1, <1>4 DEF IInv, WireInLine, Locked, AllIdle
<1> QED
  BY <1>2, <1>3, <1>5, <1>6 DEF Rest, DataPart

(* The last owner lets go: what is left in the stream is the last write.   *)
LEMMA DeletingKeepsRest ==
  ASSUME IInv, resp = "shared", at \in {"resource", "served"}, at' = "served",
         resp' = "deleting", user' = FALSE, buf' = <<>>,
         writes' = {Pending("last", buf)}, AllIdle',
         handler' \in [IoThreads -> [at : {"idle", "locked", "calling"},
                                     ec : {"ok", "error"}]],
         UNCHANGED <<queue, made, wire, up, open, req, begun>>,
         open => queue = <<>>
  PROVE  Rest'
<1>0. /\ Len(buf) \in Nat /\ Len(buf) <= made /\ made \in Nat
      /\ buf \in Seq(1..MaxParts) /\ wire \in Seq(1..MaxParts)
  BY Types, BoundsAssumption DEF ResponseOK, IInv, PartsInLine
<1>1. QueuePart'
  <2>1. ResponseOK'
    <3>1. Pending("last", buf) \in [kind : {"part", "last"}, data : Seq(1..MaxParts),
                                   res : {"pending", "ok", "error"}]
      BY <1>0 DEF Pending
    <3>2. buf' \in Seq(1..MaxParts)
      OBVIOUS
    <3> QED
      BY <3>1, <3>2, Types DEF ResponseOK
  <2>2. OneWriteAtATime' /\ Service' /\ FailedIsDown'
    BY DEF IInv, OneWriteAtATime, Service, FailedIsDown, Locked, AllIdle, Pending
  <2> QED
    BY <2>1, <2>2 DEF QueuePart
<1>2. Life'
  BY DEF IInv, Life, NoResponse, Shared, Deleting, Pending
<1>3. BufStart = made + 1 - Len(buf) /\ BufStart' = made + 1
  BY <1>0 DEF BufStart
<1>4. PartsInLine'
  BY <1>0 DEF PartsInLine
<1>5. WireEndsAt(BufStart)
  BY DEF IInv, WireInLine, WireEndsAt
<1>6. WireInLine'
  <2>0. WireInLine /\ PartsInLine
    BY DEF IInv
  <2>1. \A i \in DOMAIN wire' : wire'[i] < BufStart'
    <3>1. \A i \in DOMAIN wire : wire[i] < BufStart
      BY <2>0 DEF WireInLine
    <3>2. \A i \in DOMAIN wire : wire[i] \in Nat
      BY WireIsNumbers
    <3> QED
      BY <1>0, <1>3, <3>1, <3>2
  <2>3. \A j \in 1..Len(buf) : buf[j] = made - Len(buf) + j
    BY <2>0 DEF PartsInLine
  <2> DEFINE w == Pending("last", buf)
  <2>4. w.kind = "last" /\ w.data = buf /\ w.res = "pending"
    BY DEF Pending
  <2>5. \A v \in writes' : v = w
    OBVIOUS
  <2>6. \A t \in IoThreads : ~Locked(t)'
    BY DEF Locked, AllIdle
  <2>7. /\ \A i \in DOMAIN wire' : wire'[i] < made' + 1 - Len(w.data)
        /\ up' /\ open' => Len(wire') = made' + 1 - Len(w.data) - 1
    <3>1. Len(w.data) = Len(buf) /\ made' = made /\ wire' = wire
            /\ up' = up /\ open' = open
      BY <2>4
    <3>2. made' + 1 - Len(w.data) = BufStart
      BY <1>3, <3>1
    <3>3. BufStart \in Int
      BY <1>0, <1>3
    <3> HIDE DEF w
    <3> QED
      BY ONLY <1>0, <1>5, <3>1, <3>2, <3>3 DEF WireEndsAt
  <2> HIDE DEF w
  <2>8. resp' = "deleting" /\ made' = made
    OBVIOUS
  <2>9. ASSUME NEW v \in writes'
        PROVE  WriteInLine(v)'
    <3>1. v = w
      BY <2>5
    <3>2. v.kind = "last" /\ v.data = buf /\ v.res = "pending"
      BY <2>4, <3>1
    <3>3. WireEndsAt(made + 1 - Len(v.data))'
      BY ONLY <1>0, <2>7, <2>8, <3>1, <3>2 DEF WireEndsAt
    <3>4. Len(v.data) <= made' /\ \A j \in 1..Len(v.data) : v.data[j] = made' - Len(v.data) + j
      BY <1>0, <2>3, <2>8, <3>2
    <3> QED
      BY ONLY <3>2, <3>3, <3>4 DEF WriteInLine
  <2> QED
    BY ONLY <2>1, <2>6, <2>8, <2>9 DEF WireInLine
<1> QED
  BY <1>1, <1>2, <1>4, <1>6 DEF Rest, DataPart

(* Nothing moves in the stream, the queue and on the wire. *)
LEMMA DataKept ==
  ASSUME IInv, UNCHANGED <<resp, buf, queue, made, wire>>,
         up' => up, open' => open, writes' \subseteq writes,
         \A t \in IoThreads : Locked(t)' => handler'[t] = handler[t]
  PROVE  DataPart'
<1>1. PartsInLine /\ WireInLine
  BY DEF IInv
<1>2. PartsInLine'
  BY <1>1 DEF PartsInLine, QStart, BufStart
<1>3. /\ BufStart' = BufStart
      /\ \A i : QStart(i)' = QStart(i)
      /\ \A n : WireEndsAt(n) => WireEndsAt(n)'
  BY DEF BufStart, QStart, WireEndsAt
<1>4. \A w : WriteInLine(w) => WriteInLine(w)'
  BY <1>3 DEF WriteInLine
<1>5. \A t \in IoThreads : Locked(t)' => Locked(t)
  BY DEF Locked
<1>6. WireInLine'
  BY <1>1, <1>3, <1>4, <1>5 DEF WireInLine
<1> QED
  BY <1>2, <1>6 DEF DataPart

(* An owner lets go of a Response: the application, the caller of the      *)
(* resource function, or a handler of the queue.                           *)
LEMMA LetGoKeepsRest ==
  ASSUME IInv, resp = "shared", at \in {"resource", "served"},
         at' \in {"resource", "served"}, req \in begun,
         NEW ws, ws \subseteq writes, writes = ws \/ ~open,
         handler' \in [IoThreads -> [at : {"idle", "locked", "calling"},
                                     ec : {"ok", "error"}]],
         \A t \in IoThreads : \/ handler'[t] = handler[t]
                              \/ ~Locked(t) /\ handler'[t].at = "idle",
         user' \in BOOLEAN,
         LetGo(user', at', ws, handler'),
         UNCHANGED <<queue, made, wire, up, open, req, begun>>
  PROVE  Rest'
<1>0. /\ \A w \in writes : w.kind = "part"
      /\ Service /\ OneWriteAtATime /\ FailedIsDown
  BY DEF IInv, Life, Shared
<1>1. CASE Owned(user', at', ws, handler')
  <2>1. writes' = ws /\ resp' = resp /\ buf' = buf
    BY <1>1 DEF LetGo
  <2>2. Life'
    BY <1>0, <1>1, <2>1 DEF Life, NoResponse, Shared, Deleting, Owned
  <2>3. ResponseOK'
    BY <2>1, Types DEF ResponseOK
  <2>4. \A t \in IoThreads : Locked(t)' => Locked(t) /\ handler'[t] = handler[t]
    BY DEF Locked
  <2>5. \A t \in IoThreads : Locked(t) => Locked(t)'
    BY DEF Locked
  <2>6. OneWriteAtATime' /\ FailedIsDown'
    BY <1>0, <2>1, <2>4 DEF OneWriteAtATime, FailedIsDown
  <2>7. Service'
    BY <1>0, <2>1, <2>4, <2>5 DEF Service
  <2>8. DataPart'
    BY <2>1, <2>4, DataKept
  <2> QED
    BY <2>2, <2>3, <2>6, <2>7, <2>8 DEF Rest, QueuePart
<1>2. CASE ~Owned(user', at', ws, handler')
  <2>1. user' = FALSE /\ at' = "served" /\ AllIdle' /\ ws = {}
    BY <1>0, <1>2 DEF Owned, AllIdle
  <2>2. /\ resp' = "deleting" /\ buf' = <<>>
        /\ writes' = {Pending("last", buf)}
    BY <1>2, <2>1 DEF LetGo
  <2>3. open => queue = <<>>
    BY <1>0, <2>1 DEF Service, Locked, AllIdle
  <2> QED
    BY <2>1, <2>2, <2>3, DeletingKeepsRest
<1> QED
  BY <1>1, <1>2

LEMMA LetGoActionsKeepRest ==
  ASSUME IInv,
         \/ \E keep \in BOOLEAN : ResourceReturns(keep)
         \/ AppLetsGo
         \/ \E t \in IoThreads, w \in writes : PartRefused(t, w)
         \/ \E t \in IoThreads : PartReturns(t)
  PROVE  Rest'
<1>0. /\ user \in BOOLEAN
      /\ handler \in [IoThreads -> [at : {"idle", "locked", "calling"},
                                    ec : {"ok", "error"}]]
  BY Types DEF ResponseOK
<1>1. ASSUME NEW keep \in BOOLEAN, ResourceReturns(keep) PROVE Rest'
  <2>1. resp = "shared" /\ req \in begun
    BY <1>1, BusyIsShared DEF ResourceReturns
  <2> QED
    BY <1>0, <1>1, <2>1, LetGoKeepsRest
       DEF ResourceReturns, Runner!Leave, history
<1>2. CASE AppLetsGo
  <2>1. resp = "shared" /\ req \in begun /\ at \in {"resource", "served"}
    BY <1>2, BusyIsShared DEF AppLetsGo
  <2> QED
    BY <1>0, <1>2, <2>1, LetGoKeepsRest
       DEF AppLetsGo, session, gate, history
<1>3. ASSUME NEW t \in IoThreads, NEW w \in writes, PartRefused(t, w) PROVE Rest'
  <2>1. resp = "shared" /\ req \in begun /\ at \in {"resource", "served"}
    BY <1>3, BusyIsShared DEF PartRefused
  <2>2. ~open /\ UNCHANGED <<handler, user, at, open>>
    BY <1>3 DEF PartRefused, Runner!Refuse, session
  <2> QED
    BY <1>0, <1>3, <2>1, <2>2, LetGoKeepsRest DEF PartRefused, session, history
<1>4. ASSUME NEW t \in IoThreads, PartReturns(t) PROVE Rest'
  <2>1. resp = "shared" /\ req \in begun /\ at \in {"resource", "served"}
    BY <1>4, BusyIsShared DEF PartReturns
  <2>2. /\ handler' \in [IoThreads -> [at : {"idle", "locked", "calling"},
                                       ec : {"ok", "error"}]]
        /\ \A u \in IoThreads : \/ handler'[u] = handler[u]
                                \/ ~Locked(u) /\ handler'[u].at = "idle"
    BY <1>0, <1>4 DEF PartReturns, Idle, Locked
  <2> QED
    BY <1>0, <1>4, <2>1, <2>2, LetGoKeepsRest
       DEF PartReturns, Runner!Leave, session, history
<1> QED
  BY <1>1, <1>2, <1>3, <1>4

-----------------------------------------------------------------------------
(* The stream: what the application writes and sends. *)

LEMMA Numbers ==
  ASSUME IInv
  PROVE  /\ made \in Nat /\ Len(buf) \in Nat /\ Len(queue) \in Nat
         /\ BufStart = made + 1 - Len(buf) /\ BufStart \in Nat /\ BufStart > 0
         /\ DOMAIN buf = 1..Len(buf) /\ DOMAIN queue = 1..Len(queue)
         /\ Len(wire) \in Nat /\ DOMAIN wire = 1..Len(wire)
         /\ \A i \in DOMAIN wire : wire[i] \in Nat
         /\ \A i \in 1..Len(queue) : /\ queue[i].from \in Nat
                                     /\ queue[i].data \in Seq(1..MaxParts)
                                     /\ Len(queue[i].data) \in Nat
<1>1. /\ buf \in Seq(1..MaxParts) /\ queue \in Seq(Buffers)
      /\ wire \in Seq(1..MaxParts) /\ made \in 0..MaxParts /\ Len(buf) <= made
  BY Types DEF ResponseOK, IInv, PartsInLine
<1>2. \A i \in 1..Len(queue) : /\ queue[i].from \in Nat
                                /\ queue[i].data \in Seq(1..MaxParts)
  <2>1. \A i \in 1..Len(queue) : queue[i] \in Buffers
    BY <1>1, SeqFacts
  <2> QED
    BY <2>1 DEF Buffers
<1>3. made \in Nat /\ Len(buf) \in Nat
  BY <1>1, BoundsAssumption
<1>4. BufStart = made + 1 - Len(buf) /\ BufStart \in Nat /\ BufStart > 0
  BY <1>1, <1>3 DEF BufStart
<1>5. \A i \in 1..Len(queue) : Len(queue[i].data) \in Nat
  BY <1>2, LenProperties
<1> QED
  BY <1>1, <1>2, <1>3, <1>4, <1>5, SeqFacts, WireIsNumbers

LEMMA AppWritesKeepsRest ==
  ASSUME IInv, AppWrites
  PROVE  Rest'
<1>0. /\ made' = made + 1 /\ made' \in 1..MaxParts /\ buf' = Append(buf, made')
      /\ UNCHANGED <<resp, user, queue, writes, handler, wire, up, open, at, req, begun>>
      /\ user
  BY Numbers, BoundsAssumption DEF AppWrites, session, gate
<1>1. resp = "shared" /\ \A w \in writes : w.kind = "part"
  BY <1>0, BusyIsShared
<1>2. /\ buf \in Seq(1..MaxParts) /\ buf' \in Seq(1..MaxParts)
      /\ Len(buf') = Len(buf) + 1
      /\ \A j \in 1..Len(buf) : buf'[j] = buf[j]
      /\ buf'[Len(buf) + 1] = made'
  BY <1>0, Types, AppendProperties DEF ResponseOK
<1>3. QueuePart'
  <2>1. ResponseOK'
    <3>1. made' \in 0..MaxParts
      BY <1>0, BoundsAssumption
    <3> QED
      BY <1>0, <1>2, <3>1, Types DEF ResponseOK
  <2>2. OneWriteAtATime' /\ Service' /\ FailedIsDown'
    BY <1>0 DEF IInv, OneWriteAtATime, Service, FailedIsDown, Locked
  <2> QED
    BY <2>1, <2>2 DEF QueuePart
<1>4. Life'
  BY <1>0, <1>1 DEF IInv, Life, NoResponse, Shared, Deleting, Owned
<1>5. /\ BufStart' = BufStart
      /\ \A i : QStart(i)' = QStart(i)
      /\ \A n : WireEndsAt(n) => WireEndsAt(n)'
  <2>1. BufStart' = BufStart
    BY <1>0, <1>2, Numbers DEF BufStart
  <2> QED
    BY <1>0, <2>1 DEF QStart, WireEndsAt
<1>6. PartsInLine'
  <2>1. PartsInLine
    BY DEF IInv
  <2>2. Len(buf') <= made'
    BY <1>0, <1>2, <2>1, Numbers DEF PartsInLine
  <2>3. \A j \in 1..Len(buf') : buf'[j] = made' - Len(buf') + j
    <3> TAKE j \in 1..Len(buf')
    <3>1. CASE j = Len(buf) + 1
      BY <1>0, <1>2, <3>1, Numbers
    <3>2. CASE j \in 1..Len(buf)
      BY <1>0, <1>2, <2>1, <3>2, Numbers DEF PartsInLine
    <3> QED
      BY <1>2, <3>1, <3>2, Numbers
  <2> QED
    BY <1>0, <1>5, <2>1, <2>2, <2>3 DEF PartsInLine
<1>7. WireInLine'
  <2>1. WireInLine
    BY DEF IInv
  <2>2. \A w \in writes : WriteInLine(w)'
    BY <1>1, <1>5, <2>1 DEF WireInLine, WriteInLine
  <2> QED
    BY <1>0, <1>5, <2>1, <2>2 DEF WireInLine, Locked
<1> QED
  BY <1>3, <1>4, <1>6, <1>7 DEF Rest, DataPart

LEMMA AppSendsKeepsRest ==
  ASSUME IInv, AppSends
  PROVE  Rest'
<1> DEFINE b == [from |-> BufStart, data |-> buf]
<1>0. /\ user /\ buf' = <<>> /\ queue' = Append(queue, b)
      /\ UNCHANGED <<resp, user, handler, made, wire, up, open, at, req, begun>>
  BY DEF AppSends, session, gate, history
<1>1. resp = "shared" /\ \A w \in writes : w.kind = "part"
  BY <1>0, BusyIsShared
<1> DEFINE L == Len(queue)
<1>11. b \in Buffers
  BY Types, Numbers DEF ResponseOK, Buffers
<1>12. b.from = BufStart /\ b.data = buf
  OBVIOUS
<1> HIDE DEF b
<1>2. /\ buf \in Seq(1..MaxParts) /\ queue \in Seq(Buffers)
      /\ queue' \in Seq(Buffers) /\ L \in Nat
      /\ Len(queue') = L + 1 /\ queue'[L + 1] = b
      /\ \A i \in 1..L : queue'[i] = queue[i]
  BY <1>0, <1>11, Types, AppendProperties, LenProperties DEF ResponseOK
<1>3. Len(buf) \in Nat
  BY Numbers
<1>4. /\ queue' # <<>>
      /\ Head(queue') = IF L = 0 THEN b ELSE queue[1]
  BY <1>2
<1>5. /\ writes' = IF L = 0 THEN writes \cup {Pending("part", buf)} ELSE writes
      /\ L = 0 => writes = {} /\ \A t \in IoThreads : ~Locked(t)
  <2>1. Service
    BY DEF IInv
  <2>2. L = 0 => queue = <<>>
    BY <1>2, EmptySeq
  <2>3. L = 0 => writes = {} /\ \A t \in IoThreads : ~Locked(t)
    BY <1>1, <2>1, <2>2 DEF Service
  <2>4. writes' = IF L = 0 THEN writes \cup {Pending("part", buf)} ELSE writes
    BY <1>2, <1>4, <1>12 DEF AppSends, StartWrite
  <2> QED
    BY <2>3, <2>4
<1>6. QueuePart'
  <2>1. ResponseOK'
    <3>1. Pending("part", buf) \in [kind : {"part", "last"}, data : Seq(1..MaxParts),
                                   res : {"pending", "ok", "error"}]
      BY <1>2 DEF Pending
    <3>2. buf' \in Seq(1..MaxParts)
      BY <1>0
    <3> QED
      BY <1>0, <1>2, <1>5, <3>1, <3>2, Types DEF ResponseOK
  <2>2. OneWriteAtATime' /\ FailedIsDown'
    BY <1>0, <1>5 DEF IInv, OneWriteAtATime, FailedIsDown, Locked, Pending
  <2>3. Service'
    <3>1. Service /\ \A t \in IoThreads : Locked(t)' = Locked(t)
      BY <1>0 DEF IInv, Locked
    <3>2. CASE L = 0
      <4>1. /\ \A w \in writes' : w.data = buf
            /\ writes' # {} /\ Head(queue').data = buf
        <5>1. writes' = {Pending("part", buf)} /\ Head(queue').data = buf
          BY <1>4, <1>5, <1>12, <3>2
        <5> QED
          BY <5>1 DEF Pending
      <4>2. \A t \in IoThreads : ~Locked(t)'
        BY <1>5, <3>1, <3>2
      <4> QED
        BY <1>4, <4>1, <4>2 DEF Service
    <3>3. CASE L # 0
      <4>1. queue # <<>> /\ Head(queue) = Head(queue')
        BY <1>2, <1>4, <3>3
      <4>2. writes' = writes
        BY <1>5, <3>3
      <4> QED
        BY <1>0, <1>4, <3>1, <4>1, <4>2 DEF Service
    <3> QED
      BY <3>2, <3>3
  <2> QED
    BY <2>1, <2>2, <2>3 DEF QueuePart
<1>7. Life'
  BY <1>0, <1>1, <1>5 DEF IInv, Life, NoResponse, Shared, Deleting, Owned, Pending
<1>8. /\ BufStart' = made + 1 /\ BufStart = made + 1 - Len(buf)
      /\ BufStart = b.from /\ BufStart \in Nat /\ made \in Nat
      /\ \A i \in 1..(L + 1) : QStart(i)' = QStart(i)
      /\ \A i : i = L + 2 => QStart(i)' = made + 1
  <2>1. BufStart' = made + 1
    BY <1>0, Numbers DEF BufStart
  <2>2. BufStart = b.from
    BY <1>12
  <2>3. \A i \in 1..(L + 1) : QStart(i)' = QStart(i)
    BY <1>2, <2>2 DEF QStart
  <2>4. \A i : i = L + 2 => QStart(i)' = made + 1
    BY <1>2, <2>1 DEF QStart
  <2> QED
    BY <2>1, <2>2, <2>3, <2>4, Numbers
<1>9. PartsInLine'
  <2>1. PartsInLine
    BY DEF IInv
  <2>2. /\ Len(buf') <= made'
        /\ \A j \in 1..Len(buf') : buf'[j] = made' - Len(buf') + j
    BY <1>0, Numbers
  <2>3. ASSUME NEW i \in 1..Len(queue')
        PROVE  /\ \A j \in 1..Len(queue'[i].data) :
                    queue'[i].data[j] = queue'[i].from + j - 1
               /\ queue'[i].from + Len(queue'[i].data) = QStart(i + 1)'
               /\ queue'[i].from + Len(queue'[i].data) <= BufStart'
    <3>1. CASE i \in 1..L
      <4>1. queue'[i] = queue[i] /\ QStart(i + 1)' = QStart(i + 1)
        BY <1>2, <1>8, <3>1
      <4>2. /\ \A j \in 1..Len(queue[i].data) :
                 queue[i].data[j] = queue[i].from + j - 1
            /\ queue[i].from + Len(queue[i].data) = QStart(i + 1)
            /\ queue[i].from + Len(queue[i].data) <= BufStart
        BY <1>1, <2>1, <3>1 DEF PartsInLine
      <4>3. queue[i].from \in Nat /\ Len(queue[i].data) \in Nat
        BY <3>1, Numbers
      <4> QED
        BY <1>3, <1>8, <4>1, <4>2, <4>3
    <3>2. CASE i = L + 1
      <4>0. i + 1 = L + 2
        BY <1>2, <3>2
      <4>1. queue'[i] = b /\ QStart(i + 1)' = made + 1
        BY <1>2, <1>8, <3>2, <4>0
      <4>2. \A j \in 1..Len(buf) : buf[j] = made - Len(buf) + j
        BY <2>1 DEF PartsInLine
      <4>3. \A j \in 1..Len(buf) : buf[j] = BufStart + j - 1
        BY <1>3, <1>8, <4>2
      <4>4. BufStart + Len(buf) = made + 1 /\ BufStart + Len(buf) <= BufStart'
        BY <1>3, <1>8
      <4> QED
        BY <1>12, <4>1, <4>3, <4>4
    <3>3. i \in 1..L \/ i = L + 1
      BY <1>2
    <3> QED
      BY <3>1, <3>2, <3>3
  <2> QED
    BY <2>2, <2>3 DEF PartsInLine
<1>10. WireInLine'
  <2>1. WireInLine
    BY DEF IInv
  <2>2. \A n : WireEndsAt(n) => WireEndsAt(n)'
    BY <1>0 DEF WireEndsAt
  <2>3. \A i \in DOMAIN wire' : wire'[i] < BufStart'
    <3>1. \A i \in DOMAIN wire : wire[i] < BufStart /\ wire[i] \in Nat
      BY <2>1, Numbers DEF WireInLine
    <3> QED
      BY <1>0, <1>3, <1>8, <3>1
  <2>4. L # 0 => QStart(2)' = QStart(2) /\ QStart(1)' = QStart(1)
    BY <1>2, <1>8
  <2>5. ASSUME NEW w \in writes'
        PROVE  WriteInLine(w)'
    <3>1. CASE L = 0
      <4>1. w.kind = "part" /\ w.res = "pending"
        BY <1>5, <3>1 DEF Pending
      <4>2. QStart(1)' = BufStart /\ WireEndsAt(BufStart)
        <5>1. QStart(1) = BufStart
          BY <3>1 DEF QStart
        <5>2. queue = <<>>
          BY <1>2, <3>1, EmptySeq
        <5> QED
          BY <1>1, <1>2, <1>8, <2>1, <5>1, <5>2 DEF WireInLine
      <4> QED
        BY <2>2, <4>1, <4>2 DEF WriteInLine
    <3>2. CASE L # 0
      <4>1. w.kind = "part" /\ WriteInLine(w)
        BY <1>1, <1>5, <2>1, <3>2 DEF WireInLine
      <4> QED
        BY <2>2, <2>4, <3>2, <4>1 DEF WriteInLine
    <3> QED
      BY <3>1, <3>2
  <2>6. ASSUME NEW t \in IoThreads, Locked(t)', handler'[t].ec = "ok"
        PROVE  WireEndsAt(QStart(2))'
    <3>1. Locked(t) /\ handler[t].ec = "ok" /\ L # 0
      BY <1>0, <1>5, <2>6 DEF Locked
    <3> QED
      BY <2>1, <2>2, <2>4, <3>1 DEF WireInLine
  <2> QED
    BY <1>4, <2>3, <2>5, <2>6 DEF WireInLine
<1> QED
  BY <1>6, <1>7, <1>9, <1>10 DEF Rest, DataPart

-----------------------------------------------------------------------------
(* The writes of a Response and their handlers. *)

(* While a write is outstanding there is no other, and no handler.         *)
LEMMA TheWrite ==
  ASSUME IInv, NEW w \in writes
  PROVE  /\ writes = {w} /\ resp \in {"shared", "deleting"}
         /\ \A t \in IoThreads : ~Locked(t)
         /\ resp = "shared" <=> w.kind = "part"
         /\ w \in [kind : {"part", "last"}, data : Seq(1..MaxParts),
                   res : {"pending", "ok", "error"}]
         /\ WriteInLine(w)
         /\ w.kind = "part" => queue # <<>> /\ w.data = Head(queue).data
<1>1. Service /\ OneWriteAtATime /\ Life /\ WireInLine
  BY DEF IInv
<1>2. /\ resp \in {"none", "shared", "deleting"}
      /\ w \in [kind : {"part", "last"}, data : Seq(1..MaxParts),
                res : {"pending", "ok", "error"}]
  BY Types DEF ResponseOK
<1>3. writes = {w}
  BY <1>1 DEF OneWriteAtATime
<1>4. resp \in {"shared", "deleting"} /\ (resp = "shared" <=> w.kind = "part")
  BY <1>1, <1>2 DEF Life, NoResponse, Shared, Deleting
<1> QED
  BY <1>1, <1>2, <1>3, <1>4 DEF Service, WireInLine

LEMMA WriteFailsKeepsRest ==
  ASSUME IInv, NEW w \in writes, WriteFails(w)
  PROVE  Rest'
<1> DEFINE v == [w EXCEPT !.res = "error"]
<1>0. /\ writes' = {v} /\ ~up
      /\ UNCHANGED <<at, req, begun, resp, user, buf, queue, handler, made, wire, up, open>>
  BY TheWrite DEF WriteFails, Completes, session, gate, history
<1>1. /\ v \in [kind : {"part", "last"}, data : Seq(1..MaxParts),
                res : {"pending", "ok", "error"}]
      /\ v.kind = w.kind /\ v.data = w.data /\ v.res = "error"
  BY TheWrite
<1> HIDE DEF v
<1>2. QueuePart'
  <2>1. ResponseOK'
    BY <1>0, <1>1, Types DEF ResponseOK
  <2>2. OneWriteAtATime' /\ FailedIsDown'
    BY <1>0, <1>1 DEF IInv, OneWriteAtATime, FailedIsDown, Locked
  <2>3. Service'
    BY <1>0, <1>1, TheWrite DEF Service, Locked
  <2> QED
    BY <2>1, <2>2, <2>3 DEF QueuePart
<1>3. Life'
  BY <1>0, <1>1, TheWrite DEF IInv, Life, NoResponse, Shared, Deleting, AllIdle, Owned
<1>4. PartsInLine'
  BY <1>0 DEF IInv, PartsInLine, QStart, BufStart
<1>5. WireInLine'
  <2>1. /\ BufStart' = BufStart
        /\ \A n : WireEndsAt(n) => WireEndsAt(n)'
    BY <1>0 DEF BufStart, WireEndsAt
  <2>2. WriteInLine(v)'
    BY <1>0, <1>1, TheWrite DEF WriteInLine
  <2>3. \A t \in IoThreads : ~Locked(t)'
    BY <1>0, TheWrite DEF Locked
  <2>4. WireInLine
    BY DEF IInv
  <2> QED
    BY <1>0, <2>1, <2>2, <2>3, <2>4 DEF WireInLine
<1> QED
  BY <1>2, <1>3, <1>4, <1>5 DEF Rest, DataPart

(* What a write that is pending carries follows what is on the wire.       *)
LEMMA WriteFollows ==
  ASSUME IInv, NEW w \in writes, w.res = "pending"
  PROVE  /\ w.data \in Seq(1..MaxParts) /\ Len(w.data) \in Nat
         /\ \E m \in Nat :
              /\ WireEndsAt(m)
              /\ \A j \in 1..Len(w.data) : w.data[j] = m + j - 1
              /\ m + Len(w.data) <= made + 1
              /\ w.kind = "part" => /\ m + Len(w.data) = QStart(2)
                                    /\ m + Len(w.data) <= BufStart
              /\ w.kind = "last" => m + Len(w.data) = made + 1
<1>1. /\ w.data \in Seq(1..MaxParts) /\ Len(w.data) \in Nat
      /\ \A j \in 1..Len(w.data) : w.data[j] \in Nat
  <2>1. w.data \in Seq(1..MaxParts)
    BY TheWrite
  <2> QED
    BY <2>1, SeqFacts, BoundsAssumption
<1>2. CASE w.kind = "part"
  <2> DEFINE m == queue[1].from
  <2>1. queue # <<>> /\ w.data = queue[1].data /\ resp = "shared" /\ 1 \in 1..Len(queue)
    <3>1. queue \in Seq(Buffers)
      BY Types DEF ResponseOK
    <3>2. queue # <<>> /\ w.data = Head(queue).data /\ resp = "shared"
      BY <1>2, TheWrite
    <3> QED
      BY <3>1, <3>2, EmptySeq, LenProperties
  <2>2. /\ \A j \in 1..Len(w.data) : w.data[j] = m + j - 1
        /\ m + Len(w.data) = QStart(2)
        /\ m + Len(w.data) <= BufStart
    BY <2>1 DEF IInv, PartsInLine
  <2>3. WireEndsAt(m)
    BY <1>2, <2>1, TheWrite DEF WriteInLine, QStart
  <2>4. m \in Nat
    BY <2>1, Numbers
  <2> HIDE DEF m
  <2>5. BufStart <= made + 1 /\ BufStart \in Nat /\ made \in Nat
    BY Numbers
  <2>6. m + Len(w.data) <= made + 1
    BY <1>1, <2>2, <2>4, <2>5
  <2> QED
    BY <1>1, <1>2, <2>2, <2>3, <2>4, <2>6
<1>3. CASE w.kind = "last"
  <2> DEFINE k == Len(w.data)
             m == made + 1 - k
  <2>1. /\ k <= made
        /\ \A j \in 1..k : w.data[j] = made - k + j
        /\ WireEndsAt(m)
    BY <1>3, TheWrite DEF WriteInLine
  <2>2. k \in Nat /\ m \in Nat /\ m + k = made + 1 /\ made \in Nat
    <3>1. k \in Nat /\ made \in Nat /\ k <= made
      BY <1>1, <2>1, Numbers
    <3> HIDE DEF k
    <3> QED
      BY ONLY <3>1 DEF m
  <2> HIDE DEF k, m
  <2>3. \A j \in 1..k : w.data[j] = m + j - 1
    BY ONLY <2>1, <2>2
  <2>4. m + k <= made + 1
    BY <2>2
  <2> QED
    BY <1>1, <1>3, <2>1, <2>2, <2>3, <2>4 DEF k
<1> QED
  BY <1>2, <1>3, TheWrite

LEMMA WriteSucceedsKeepsRest ==
  ASSUME IInv, NEW w \in writes, WriteSucceeds(w)
  PROVE  Rest'
<1> DEFINE v == [w EXCEPT !.res = "ok"]
<1>0. /\ writes' = {v} /\ wire' = wire \o w.data /\ w.res = "pending"
      /\ UNCHANGED <<at, req, begun, resp, user, buf, queue, handler, made, up, open>>
  BY TheWrite DEF WriteSucceeds, Completes, session, gate
<1>1. /\ v \in [kind : {"part", "last"}, data : Seq(1..MaxParts),
                res : {"pending", "ok", "error"}]
      /\ v.kind = w.kind /\ v.data = w.data /\ v.res = "ok"
  BY TheWrite
<1> HIDE DEF v
<1> DEFINE k == Len(w.data)
<1>2. PICK m \in Nat : /\ WireEndsAt(m)
                       /\ \A j \in 1..k : w.data[j] = m + j - 1
                       /\ w.kind = "part" => m + k = QStart(2) /\ m + k <= BufStart
                       /\ w.kind = "last" => m + k = made + 1
  BY <1>0, WriteFollows
<1>3. k \in Nat /\ w.data \in Seq(1..MaxParts) /\ wire \in Seq(1..MaxParts)
  BY <1>0, WriteFollows, Types DEF ResponseOK
<1>4. /\ wire' \in Seq(1..MaxParts) /\ Len(wire') = Len(wire) + k
      /\ \A i \in 1..(Len(wire) + k) :
           wire'[i] = IF i <= Len(wire) THEN wire[i] ELSE w.data[i - Len(wire)]
  BY <1>0, <1>3, ConcatProperties
<1>5. Len(wire) \in Nat /\ DOMAIN wire = 1..Len(wire) /\ DOMAIN wire' = 1..(Len(wire) + k)
      /\ \A i \in 1..Len(wire) : wire[i] \in Nat
  BY <1>3, <1>4, Numbers, SeqFacts
<1> HIDE DEF k
<1>6. ASSUME NEW i \in DOMAIN wire'
      PROVE  wire'[i] < m + k
  <2>1. CASE i \in 1..Len(wire)
    <3>1. wire'[i] = wire[i]
      BY <1>3, <1>4, <1>5, <2>1
    <3>2. wire[i] < m /\ wire[i] \in Nat
      BY <1>2, <1>5, <2>1 DEF WireEndsAt
    <3> QED
      BY <1>2, <1>3, <3>1, <3>2
  <2>2. CASE i \notin 1..Len(wire)
    <3> DEFINE j == i - Len(wire)
    <3>1. j \in 1..k /\ ~(i <= Len(wire)) /\ i \in 1..(Len(wire) + k)
      BY <1>3, <1>5, <2>2
    <3>2. wire'[i] = w.data[j]
      BY <1>4, <3>1
    <3> HIDE DEF j
    <3>3. wire'[i] = m + j - 1
      BY <1>2, <3>1, <3>2
    <3> QED
      BY ONLY <1>2, <1>3, <3>1, <3>3
  <2> QED
    BY <2>1, <2>2
<1>7. ASSUME NEW e, e = m + k
      PROVE  WireEndsAt(e)'
  <2>1. up' /\ open' => Len(wire') = m + k - 1
    <3>1. up /\ open => Len(wire) = m - 1
      BY <1>2 DEF WireEndsAt
    <3>2. UNCHANGED <<up, open>>
      BY <1>0
    <3>3. Len(wire') = Len(wire) + k /\ Len(wire) \in Nat /\ k \in Nat /\ m \in Nat
      BY <1>3, <1>4, <1>5
    <3> QED
      BY ONLY <3>1, <3>2, <3>3
  <2>2. m \in Nat /\ k \in Nat
    BY <1>3
  <2> QED
    BY ONLY <1>6, <1>7, <2>1, <2>2 DEF WireEndsAt
<1>8. QueuePart'
  <2>1. ResponseOK'
    BY <1>0, <1>1, <1>4, Types DEF ResponseOK
  <2>2. OneWriteAtATime' /\ FailedIsDown'
    BY <1>0, <1>1 DEF IInv, OneWriteAtATime, FailedIsDown, Locked
  <2>3. Service'
    BY <1>0, <1>1, TheWrite DEF Service, Locked
  <2> QED
    BY <2>1, <2>2, <2>3 DEF QueuePart
<1>9. Life'
  BY <1>0, <1>1, TheWrite DEF IInv, Life, NoResponse, Shared, Deleting, AllIdle, Owned
<1>10. PartsInLine'
  BY <1>0 DEF IInv, PartsInLine, QStart, BufStart
<1>11. WireInLine'
  <2>1. BufStart' = BufStart /\ QStart(2)' = QStart(2)
    BY <1>0 DEF BufStart, QStart
  <2>2. w.kind = "last" => resp = "deleting" /\ BufStart = made + 1
    <3>1. w.kind = "last" => resp = "deleting" /\ Len(buf) = 0
      BY TheWrite DEF IInv, Life, Deleting
    <3> QED
      BY <3>1, Numbers
  <2>3. w.kind \in {"part", "last"} /\ (w.kind = "part" => queue # <<>>)
    BY TheWrite
  <2>4. \A i \in DOMAIN wire' : wire'[i] < BufStart'
    <3>1. ASSUME NEW i \in DOMAIN wire' PROVE wire'[i] < BufStart
      <4>1. m + k <= BufStart /\ BufStart \in Nat
        BY <1>2, <1>3, <2>2, <2>3, Numbers
      <4>2. wire'[i] \in Nat
        <5>1. wire'[i] \in 1..MaxParts
          BY <1>4, SeqFacts
        <5> QED
          BY <5>1, BoundsAssumption
      <4> QED
        BY <1>2, <1>3, <1>6, <4>1, <4>2
    <3> QED
      BY <2>1, <3>1
  <2>5. WriteInLine(v)'
    <3>1. CASE w.kind = "part"
      <4>1. WireEndsAt(QStart(2))'
        BY <1>2, <1>7, <2>1, <3>1
      <4> QED
        BY <1>1, <3>1, <4>1 DEF WriteInLine
    <3>2. CASE w.kind = "last"
      <4>1. WireEndsAt(made + 1)'
        BY <1>0, <1>2, <1>7, <3>2
      <4>2. /\ Len(w.data) <= made
            /\ \A j \in 1..Len(w.data) : w.data[j] = made - Len(w.data) + j
        BY <3>2, TheWrite DEF WriteInLine
      <4> QED
        BY <1>0, <1>1, <3>2, <4>1, <4>2 DEF WriteInLine
    <3> QED
      BY <2>3, <3>1, <3>2
  <2>6. \A t \in IoThreads : ~Locked(t)'
    BY <1>0, TheWrite DEF Locked
  <2> QED
    BY <1>0, <2>2, <2>3, <2>4, <2>5, <2>6 DEF WireInLine
<1> QED
  BY <1>8, <1>9, <1>10, <1>11 DEF Rest, DataPart

LEMMA PartHandledKeepsRest ==
  ASSUME IInv, NEW t \in IoThreads, NEW w \in writes, PartHandled(t, w)
  PROVE  Rest'
<1>0. /\ writes' = {} /\ w.kind = "part" /\ w.res \in {"ok", "error"}
      /\ handler[t].at = "idle" /\ open
      /\ handler' = [handler EXCEPT ![t] = [at |-> "locked", ec |-> w.res]]
      /\ UNCHANGED <<at, req, begun, resp, user, buf, queue, made, wire, up, open>>
  BY TheWrite DEF PartHandled, Runner!Enter, session, history
<1>1. resp = "shared" /\ queue # <<>> /\ \A u \in IoThreads : ~Locked(u)
  BY <1>0, TheWrite
<1>2. /\ handler \in [IoThreads -> [at : {"idle", "locked", "calling"},
                                    ec : {"ok", "error"}]]
      /\ handler' \in [IoThreads -> [at : {"idle", "locked", "calling"},
                                     ec : {"ok", "error"}]]
      /\ Locked(t)' /\ handler'[t].ec = w.res
      /\ \A u \in IoThreads \ {t} : handler'[u] = handler[u]
  BY <1>0, Types DEF ResponseOK, Locked
<1>3. \A u \in IoThreads : Locked(u)' => u = t
  BY <1>1, <1>2 DEF Locked
<1>4. QueuePart'
  <2>1. ResponseOK'
    BY <1>0, <1>2, Types DEF ResponseOK
  <2>2. OneWriteAtATime'
    BY <1>0 DEF OneWriteAtATime
  <2>3. FailedIsDown'
    <3>1. w.res = "error" => ~up
      BY DEF IInv, FailedIsDown
    <3> QED
      BY <1>0, <1>2, <1>3, <3>1 DEF FailedIsDown
  <2>4. Service'
    BY <1>0, <1>1, <1>2, <1>3 DEF Service
  <2> QED
    BY <2>1, <2>2, <2>3, <2>4 DEF QueuePart
<1>5. Life'
  <2>1. at \in {"resource", "served"} /\ req \in begun
    BY <1>1 DEF IInv, Life, Shared
  <2>2. handler'[t].at # "idle"
    BY <1>2 DEF Locked
  <2> QED
    BY <1>0, <1>1, <2>1, <2>2 DEF Life, NoResponse, Shared, Deleting, Owned
<1>6. PartsInLine'
  BY <1>0 DEF IInv, PartsInLine, QStart, BufStart
<1>7. WireInLine'
  <2>1. /\ BufStart' = BufStart /\ QStart(2)' = QStart(2)
        /\ \A n : WireEndsAt(n) => WireEndsAt(n)'
    BY <1>0 DEF BufStart, QStart, WireEndsAt
  <2>2. w.res = "ok" => WireEndsAt(QStart(2))
    BY <1>0, TheWrite DEF WriteInLine
  <2>3. WireInLine
    BY DEF IInv
  <2> QED
    BY <1>0, <1>1, <1>2, <1>3, <2>1, <2>2, <2>3 DEF WireInLine
<1> QED
  BY <1>4, <1>5, <1>6, <1>7 DEF Rest, DataPart

(* The handler that has the queue finds no write, and a shared Response. *)
LEMMA TheHandler ==
  ASSUME IInv, NEW t \in IoThreads, Locked(t)
  PROVE  /\ resp = "shared" /\ at \in {"resource", "served"} /\ req \in begun
         /\ writes = {} /\ queue # <<>>
         /\ \A u \in IoThreads : Locked(u) => u = t
<1>1. Service
  BY DEF IInv
<1>2. handler[t].at # "idle"
  BY DEF Locked
<1> QED
  BY <1>1, <1>2, BusyIsShared DEF Service

LEMMA FailAllKeepsRest ==
  ASSUME IInv, NEW t \in IoThreads, FailAll(t)
  PROVE  Rest'
<1>0. /\ Locked(t) /\ handler[t].ec = "error" /\ queue' = <<>>
      /\ handler' = [handler EXCEPT ![t].at = "calling"]
      /\ UNCHANGED <<at, req, begun, resp, user, buf, writes, made, wire, up, open>>
  BY DEF FailAll, Called, Locked, session, history, gate
<1>1. /\ handler \in [IoThreads -> [at : {"idle", "locked", "calling"},
                                    ec : {"ok", "error"}]]
      /\ handler' \in [IoThreads -> [at : {"idle", "locked", "calling"},
                                     ec : {"ok", "error"}]]
      /\ handler'[t].at = "calling"
      /\ \A u \in IoThreads \ {t} : handler'[u] = handler[u]
  BY <1>0, Types DEF ResponseOK
<1>2. ~up /\ writes = {} /\ resp = "shared" /\ \A u \in IoThreads : ~Locked(u)'
  <2>1. ~up
    BY <1>0 DEF IInv, FailedIsDown
  <2> QED
    BY <1>0, <1>1, <2>1, TheHandler DEF Locked
<1>3. QueuePart'
  <2>1. ResponseOK'
    <3>1. queue' \in Seq(Buffers)
      BY <1>0
    <3> QED
      BY <1>0, <1>1, <3>1, Types DEF ResponseOK
  <2> QED
    BY <1>0, <1>2, <2>1 DEF QueuePart, OneWriteAtATime, Service, FailedIsDown
<1>4. Life'
  BY <1>0, <1>1, <1>2, TheHandler DEF Life, NoResponse, Shared, Deleting, Owned
<1>5. PartsInLine'
  <2>1. Len(queue') = 0 /\ BufStart' = BufStart
    BY <1>0 DEF BufStart
  <2> QED
    BY <1>0, <2>1 DEF IInv, PartsInLine
<1>6. WireInLine'
  <2>1. BufStart' = BufStart /\ \A i \in DOMAIN wire : wire[i] < BufStart
    BY <1>0 DEF IInv, WireInLine, BufStart
  <2>2. WireEndsAt(BufStart)'
    BY <1>0, <1>2, <2>1 DEF WireEndsAt
  <2> QED
    BY <1>0, <1>2, <2>1, <2>2 DEF WireInLine
<1> QED
  BY <1>3, <1>4, <1>5, <1>6 DEF Rest, DataPart

LEMMA PopFrontKeepsRest ==
  ASSUME IInv, NEW t \in IoThreads, PopFront(t)
  PROVE  Rest'
<1>0. /\ Locked(t) /\ handler[t].ec = "ok" /\ queue' = Tail(queue)
      /\ handler' = [handler EXCEPT ![t].at = "calling"]
      /\ UNCHANGED <<at, req, begun, resp, user, buf, made, wire, up, open>>
  BY DEF PopFront, Called, Locked, session, history, gate
<1>1. /\ handler \in [IoThreads -> [at : {"idle", "locked", "calling"},
                                    ec : {"ok", "error"}]]
      /\ handler' \in [IoThreads -> [at : {"idle", "locked", "calling"},
                                     ec : {"ok", "error"}]]
      /\ handler'[t].at = "calling"
      /\ \A u \in IoThreads \ {t} : handler'[u] = handler[u]
  BY <1>0, Types DEF ResponseOK
<1>2. writes = {} /\ resp = "shared" /\ queue # <<>> /\ \A u \in IoThreads : ~Locked(u)'
  BY <1>0, <1>1, TheHandler DEF Locked
<1> DEFINE L == Len(queue)
<1>3. /\ queue \in Seq(Buffers) /\ queue' \in Seq(Buffers)
      /\ L \in Nat /\ L > 0 /\ Len(queue') = L - 1
      /\ \A i \in 1..(L - 1) : queue'[i] = queue[i + 1]
  <2>1. queue \in Seq(Buffers) /\ queue # <<>>
    BY <1>2, Types DEF ResponseOK
  <2>2. /\ Tail(queue) \in Seq(Buffers) /\ Len(Tail(queue)) = L - 1
        /\ \A i \in 1..Len(Tail(queue)) : Tail(queue)[i] = queue[i + 1]
    BY ONLY <2>1, HeadTailProperties
  <2>3. L \in Nat /\ L > 0
    BY <2>1, EmptySeq, LenProperties
  <2> QED
    BY <1>0, <2>1, <2>2, <2>3
<1>4. /\ queue' = <<>> => L = 1 /\ writes' = {}
      /\ queue' # <<>> => L > 1 /\ writes' = {Pending("part", queue'[1].data)}
  <2>1. queue' = <<>> => L = 1
    BY <1>3
  <2>2. queue' # <<>> => L > 1
    BY <1>3, EmptySeq
  <2>3. queue' = <<>> => writes' = {}
    BY <1>2 DEF PopFront
  <2>4. queue' # <<>> => writes' = {Pending("part", Head(queue').data)}
    BY <1>2 DEF PopFront, StartWrite
  <2> QED
    BY <2>1, <2>2, <2>3, <2>4
<1> HIDE DEF L
<1>5. \A w \in writes' : w.kind = "part" /\ w.data = queue'[1].data /\ w.res = "pending"
  BY <1>4 DEF Pending
<1>6. QueuePart'
  <2>1. ResponseOK'
    <3>1. queue' # <<>> => queue'[1].data \in Seq(1..MaxParts)
      <4>1. queue' # <<>> => queue'[1] \in Buffers
        BY <1>3, <1>4, SeqFacts
      <4> QED
        BY <4>1 DEF Buffers
    <3>2. writes' \subseteq [kind : {"part", "last"}, data : Seq(1..MaxParts),
                             res : {"pending", "ok", "error"}]
      BY <1>4, <3>1 DEF Pending
    <3> QED
      BY <1>0, <1>1, <1>3, <3>2, Types DEF ResponseOK
  <2>2. OneWriteAtATime' /\ FailedIsDown'
    BY <1>2, <1>4, <1>5 DEF OneWriteAtATime, FailedIsDown
  <2>3. Service'
    <3>1. \A w \in writes' : queue' # <<>> /\ w.data = Head(queue').data
      BY <1>4, <1>5
    <3>2. queue' # <<>> => writes' # {}
      BY <1>4
    <3> QED
      BY <1>2, <3>1, <3>2 DEF Service
  <2> QED
    BY <2>1, <2>2, <2>3 DEF QueuePart
<1>7. Life'
  BY <1>0, <1>1, <1>2, <1>5, TheHandler DEF Life, NoResponse, Shared, Deleting, Owned
<1>8. /\ BufStart' = BufStart /\ \A n : WireEndsAt(n) => WireEndsAt(n)'
      /\ \A i \in 1..L : QStart(i)' = QStart(i + 1)
  <2>1. BufStart' = BufStart /\ \A n : WireEndsAt(n) => WireEndsAt(n)'
    BY <1>0 DEF BufStart, WireEndsAt
  <2>2. ASSUME NEW i \in 1..L PROVE QStart(i)' = QStart(i + 1)
    <3>1. CASE i = L
      <4>1. ~(i <= Len(queue')) /\ ~(i + 1 <= Len(queue))
        BY <1>3, <3>1 DEF L
      <4> QED
        BY ONLY <2>1, <4>1 DEF QStart
    <3>2. CASE i \in 1..(L - 1)
      <4>1. i <= Len(queue') /\ i + 1 <= Len(queue) /\ queue'[i] = queue[i + 1]
        BY <1>3, <3>2 DEF L
      <4> QED
        BY ONLY <4>1 DEF QStart
    <3> QED
      BY <1>3, <3>1, <3>2
  <2> QED
    BY <2>1, <2>2
<1>9. PartsInLine'
  <2>1. PartsInLine
    BY DEF IInv
  <2>2. ASSUME NEW i \in 1..Len(queue')
        PROVE  /\ \A j \in 1..Len(queue'[i].data) :
                    queue'[i].data[j] = queue'[i].from + j - 1
               /\ queue'[i].from + Len(queue'[i].data) = QStart(i + 1)'
               /\ queue'[i].from + Len(queue'[i].data) <= BufStart'
    <3> DEFINE h == i + 1
    <3>0. h \in 1..L /\ queue'[i] = queue[h]
      BY <1>3
    <3>1. h \in 1..L /\ queue'[i] = queue[h] /\ QStart(h)' = QStart(h + 1)
      <4> HIDE DEF h
      <4> QED
        BY <1>8, <3>0
    <3>2. /\ \A j \in 1..Len(queue[h].data) :
               queue[h].data[j] = queue[h].from + j - 1
          /\ queue[h].from + Len(queue[h].data) = QStart(h + 1)
          /\ queue[h].from + Len(queue[h].data) <= BufStart
      BY <1>2, <2>1, <3>1 DEF PartsInLine, L
    <3> QED
      BY <1>8, <3>1, <3>2
  <2>3. /\ Len(buf') <= made'
        /\ \A j \in 1..Len(buf') : buf'[j] = made' - Len(buf') + j
    BY <1>0, <2>1 DEF PartsInLine
  <2> QED
    BY <2>2, <2>3 DEF PartsInLine
<1>10. WireInLine'
  <2>1. /\ \A i \in DOMAIN wire' : wire'[i] < BufStart'
        /\ WireEndsAt(QStart(2))
    BY <1>0, <1>8 DEF IInv, WireInLine
  <2>2. queue' = <<>> => WireEndsAt(BufStart)'
    <3>1. queue' = <<>> => QStart(2) = BufStart
      <4>1. queue' = <<>> => ~(2 <= Len(queue))
        BY <1>4 DEF L
      <4> QED
        BY ONLY <4>1 DEF QStart
    <3> QED
      BY <1>8, <2>1, <3>1
  <2>3. WireEndsAt(QStart(1))'
    BY <1>3, <1>8, <2>1
  <2>4. \A w \in writes' : WriteInLine(w)'
    BY <1>5, <2>3 DEF WriteInLine
  <2> QED
    BY <1>2, <2>1, <2>2, <2>4 DEF WireInLine
<1> QED
  BY <1>6, <1>7, <1>9, <1>10 DEF Rest, DataPart

-----------------------------------------------------------------------------
(* The last write of a Response and what comes after it. *)

LEMMA LastHandledKeepsRest ==
  ASSUME IInv, NEW w \in writes, KeepAlive(w) \/ Hangup(w)
  PROVE  Rest'
<1>0. /\ w.kind = "last" /\ w.res \in {"ok", "error"}
      /\ writes' = {} /\ resp' = "none"
      /\ UNCHANGED <<user, buf, queue, handler, made, wire, up, open>>
  BY TheWrite DEF KeepAlive, Hangup, ReadRequest, EndSession, gate
<1>1. /\ resp = "deleting" /\ ~user /\ buf = <<>> /\ AllIdle
      /\ open => queue = <<>>
  BY <1>0, TheWrite DEF IInv, Life, Deleting
<1>2. at' = "ended" \/ (at' = "header" /\ open)
  BY DEF KeepAlive, Hangup, ReadRequest, EndSession
<1>3. \A t \in IoThreads : ~Locked(t)'
  BY <1>0, <1>1 DEF Locked, AllIdle
<1>4. QueuePart'
  <2>1. ResponseOK'
    BY <1>0, Types DEF ResponseOK
  <2> QED
    BY <1>0, <1>1, <1>3, <2>1 DEF QueuePart, OneWriteAtATime, Service, FailedIsDown
<1>5. Life'
  BY <1>0, <1>1, <1>2 DEF Life, NoResponse, Shared, Deleting, AllIdle, Reading,
                          Unopened
<1>6. PartsInLine'
  BY <1>0 DEF IInv, PartsInLine
<1>7. WireInLine'
  <2>1. BufStart' = BufStart /\ BufStart = made + 1 /\ made \in Nat
    BY <1>0, <1>1, Numbers DEF BufStart
  <2>2. \A i \in DOMAIN wire : wire[i] < BufStart
    BY DEF IInv, WireInLine
  <2>3. CASE w.res = "ok"
    <3>1. WireEndsAt(made + 1)
      BY <1>0, <2>3, TheWrite DEF WriteInLine
    <3>2. WireEndsAt(BufStart)'
      BY <1>0, <2>1, <3>1 DEF WireEndsAt
    <3> QED
      BY <1>0, <1>3, <2>1, <2>2, <3>2 DEF WireInLine
  <2>4. CASE w.res = "error"
    <3>1. ~up
      BY <2>4 DEF IInv, FailedIsDown
    <3>2. WireEndsAt(BufStart)'
      BY <1>0, <2>1, <2>2, <3>1 DEF WireEndsAt
    <3> QED
      BY <1>0, <1>3, <2>1, <2>2, <3>2 DEF WireInLine
  <2> QED
    BY <1>0, <2>3, <2>4
<1> QED
  BY <1>4, <1>5, <1>6, <1>7 DEF Rest, DataPart

-----------------------------------------------------------------------------
(* The theorems. *)

LEMMA NextIInv ==
  ASSUME IInv, Next
  PROVE  IInv'
<1>1. SessionPart'
  BY SessionStep
<1>2. Rest'
  <2>1. CASE \/ AcceptCompletes \/ AcceptHandled \/ AcceptFails
             \/ ReadFails \/ ReadTooLarge
             \/ ReadBody \/ NoResource \/ SocketDown \/ TimerFires
             \/ ServerStop \/ StopHandlers \/ UpgradeReturns
             \/ \E t \in IoThreads : Upgrade(t)
    BY <2>1, SessionActionsKeepRest
  <2>2. ASSUME NEW t \in IoThreads, CallResource(t) PROVE Rest'
    BY <2>2, CallResourceKeepsRest
  <2>3. CASE \/ \E keep \in BOOLEAN : ResourceReturns(keep)
             \/ AppLetsGo
             \/ \E t \in IoThreads, w \in writes : PartRefused(t, w)
             \/ \E t \in IoThreads : PartReturns(t)
    BY <2>3, LetGoActionsKeepRest
  <2>4. CASE AppWrites
    BY <2>4, AppWritesKeepsRest
  <2>5. CASE AppSends
    BY <2>5, AppSendsKeepsRest
  <2>6. ASSUME NEW w \in writes, WriteSucceeds(w) \/ WriteFails(w) PROVE Rest'
    BY <2>6, WriteSucceedsKeepsRest, WriteFailsKeepsRest
  <2>7. ASSUME NEW t \in IoThreads, NEW w \in writes, PartHandled(t, w) PROVE Rest'
    BY <2>7, PartHandledKeepsRest
  <2>8. ASSUME NEW t \in IoThreads, PopFront(t) \/ FailAll(t) PROVE Rest'
    BY <2>8, PopFrontKeepsRest, FailAllKeepsRest
  <2>9. ASSUME NEW w \in writes, KeepAlive(w) \/ Hangup(w) PROVE Rest'
    BY <2>9, LastHandledKeepsRest
  <2> QED
    BY <2>1, <2>2, <2>3, <2>4, <2>5, <2>6, <2>7, <2>8, <2>9
       DEF Next, Step, Network, Handle
<1>3. (SessionPart /\ Rest => IInv)'
  BY ONLY IInvParts DEF Rest, IInv, TypeOK, SessionPart, SessionOK, QueuePart, ResponseOK, DataPart
<1> QED
  BY <1>1, <1>2, <1>3

LEMMA StutterIInv ==
  ASSUME IInv, UNCHANGED vars
  PROVE  IInv'
<1> USE DEF vars, session, response, gate, history
<1>1. SessionPart'
  BY IInvParts DEF SessionPart, SessionOK, EarlierAnswered, AlwaysTimed, Threads
<1>2. Rest'
  BY SessionKeepsRest
<1> QED
  BY <1>1, <1>2 DEF Rest, IInv, TypeOK, SessionPart, SessionOK, QueuePart, ResponseOK,
                    DataPart

(* The inductive invariant holds in every reachable state: whoever shares  *)
(* the Response, the last to let go starts the last write, alone, and the  *)
(* parts on the wire, in the queue and in the stream follow one another.   *)
THEOREM Invariance == Spec => []IInv
<1>1. IInv /\ [Next]_vars => IInv'
  BY NextIInv, StutterIInv
<1> QED
  BY InitIInv, <1>1, PTL DEF Spec

(* send_on_delete() never meets a write of send_from_queue().              *)
THEOREM WritesAlone == Spec => []OneWriteAtATime
<1>1. IInv => OneWriteAtATime
  BY DEF IInv
<1> QED
  BY Invariance, <1>1, PTL

LEMMA ReadingAlone == IInv => NoReadWhileAnswering
BY Types DEF IInv, NoReadWhileAnswering, Reading, Life, NoResponse, Shared, Deleting,
             ResponseOK

(* The handler of send_on_delete() alone reads the connection again: when  *)
(* it does nothing of the last response is left, in any thread.            *)
THEOREM AnsweredBeforeRead == Spec => []NoReadWhileAnswering
BY Invariance, ReadingAlone, PTL

(* A connection that goes on has sent every response it began.             *)
THEOREM InOrder == Spec => []EarlierAnswered
<1>1. IInv => EarlierAnswered
  BY DEF IInv
<1> QED
  BY Invariance, <1>1, PTL

(* No state of the session holds a sound socket without a timer.           *)
THEOREM Timed == Spec => []AlwaysTimed
<1>1. IInv => AlwaysTimed
  BY DEF IInv
<1> QED
  BY Invariance, <1>1, PTL

(* stop() leaves one connection only to itself: the one that is accepted   *)
(* while its handler waits (server_http.hpp:484-488, 805).  No other comes *)
(* to be read on an open socket once it is out of the set.                 *)
THEOREM StopMissesOneOnly == Spec => []LeftSetIsDone
<1>1. Init => LeftSetIsDone
  BY DEF Init, LeftSetIsDone
<1>2. ASSUME IInv, LeftSetIsDone, [Next]_vars
      PROVE  LeftSetIsDone'
  <2> USE <1>2 DEF LeftSetIsDone, session, history, response, gate
  <2>1. CASE AcceptCompletes \/ AcceptHandled \/ ReadBody
    BY <2>1 DEF AcceptCompletes, AcceptHandled, ReadBody, ReadRequest
  <2>2. CASE AcceptFails \/ ReadFails \/ NoResource \/ ReadTooLarge
    BY <2>2 DEF AcceptFails, ReadFails, NoResource, ReadTooLarge, EndSession
  <2>3. ASSUME NEW t \in IoThreads, Upgrade(t) PROVE LeftSetIsDone'
    BY <2>3 DEF Upgrade, Enters
  <2>4. ASSUME NEW t \in IoThreads, CallResource(t) PROVE LeftSetIsDone'
    BY <2>4 DEF CallResource, Enters, Reading
  <2>5. CASE UpgradeReturns
    BY <2>5 DEF UpgradeReturns
  <2>6. ASSUME NEW keep \in BOOLEAN, ResourceReturns(keep)
        PROVE  LeftSetIsDone'
    BY <2>6 DEF ResourceReturns
  <2>7. CASE \/ AppWrites \/ AppSends \/ AppLetsGo \/ Network
             \/ StopHandlers \/ UNCHANGED vars
    BY <2>7 DEF AppWrites, AppSends, AppLetsGo, Network, WriteSucceeds,
                WriteFails, StopHandlers, vars
  <2>8. CASE SocketDown \/ TimerFires
    BY <2>8 DEF SocketDown, TimerFires
  <2>9. CASE ServerStop
    BY <2>9 DEF ServerStop, Unopened
  <2>10. ASSUME NEW t \in IoThreads, Step(t) PROVE LeftSetIsDone'
    BY <2>10 DEF Step, PopFront, FailAll, PartReturns
  <2>11. ASSUME NEW t \in IoThreads, NEW w \in writes,
                PartHandled(t, w) \/ PartRefused(t, w)
         PROVE  LeftSetIsDone'
    BY <2>11 DEF PartHandled, PartRefused
  <2>12. ASSUME NEW w \in writes, KeepAlive(w) PROVE LeftSetIsDone'
    BY <2>12, LastIsPresent DEF KeepAlive, ReadRequest
  <2>13. ASSUME NEW w \in writes, Hangup(w) PROVE LeftSetIsDone'
    BY <2>13 DEF Hangup, EndSession
  <2> QED
    BY <2>1, <2>2, <2>3, <2>4, <2>5, <2>6, <2>7, <2>8, <2>9, <2>10, <2>11,
       <2>12, <2>13 DEF Next, Handle
<1> QED
  BY <1>1, <1>2, Invariance, PTL DEF Spec

-----------------------------------------------------------------------------
(* The session implements Exchange. *)

LEMMA InitExchange == Init => E!Init
BY DEF Init, Runner!Init, E!Init

(* One write that succeeds is one delivery, unless it carries nothing.     *)
LEMMA WriteDelivers ==
  ASSUME IInv, NEW w \in writes, WriteSucceeds(w)
  PROVE  [E!Next]_E!vars
<1>0. /\ wire' = wire \o w.data /\ w.res = "pending" /\ (up \/ w.data = <<>>)
      /\ UNCHANGED <<resp, made, up, open>>
  BY DEF WriteSucceeds, session, gate
<1> DEFINE k == Len(w.data)
<1>1. PICK m \in Nat : /\ WireEndsAt(m)
                       /\ \A j \in 1..k : w.data[j] = m + j - 1
                       /\ m + k <= made + 1
  BY <1>0, WriteFollows
<1>2. k \in Nat /\ w.data \in Seq(1..MaxParts) /\ wire \in Seq(1..MaxParts)
      /\ made \in 0..MaxParts
  BY <1>0, WriteFollows, Types DEF ResponseOK
<1>3. CASE w.data = <<>>
  <2>1. wire' = wire
    BY <1>0, <1>2, <1>3, ConcatEmptySeq
  <2> QED
    BY <1>0, <2>1 DEF E!vars
<1>4. CASE w.data # <<>>
  <2>1. k > 0
    BY <1>2, <1>4, EmptySeq
  <2>2. w.data[1] = m /\ w.data[1] \in 1..MaxParts
    <3>1. \A j \in 1..k : w.data[j] \in 1..MaxParts
      BY <1>2, SeqFacts
    <3> QED
      BY <1>1, <1>2, <2>1, <3>1
  <2> HIDE DEF k
  <2> DEFINE n == m + k - 1
  <2>3. m \in 1..MaxParts /\ n \in 1..MaxParts /\ m <= n /\ n <= made
        /\ n - m + 1 = k
    BY <1>1, <1>2, <2>1, <2>2, BoundsAssumption
  <2>4. w.data = [i \in 1..k |-> m + i - 1]
    <3>1. w.data = [i \in 1..k |-> w.data[i]]
      BY <1>2, SeqFacts DEF k
    <3> QED
      BY <1>1, <3>1
  <2> HIDE DEF n
  <2>5. IF open THEN m = Len(wire) + 1 ELSE \A i \in DOMAIN wire : wire[i] < m
    <3>1. Len(wire) \in Nat
      BY Numbers
    <3> QED
      BY <1>0, <1>1, <1>4, <3>1 DEF WireEndsAt
  <2>6. resp # "none" /\ up
    BY <1>0, <1>4, TheWrite
  <2>7. E!Deliver(m, n)
    BY <1>0, <2>3, <2>4, <2>5, <2>6 DEF E!Deliver
  <2> QED
    BY <2>3, <2>7 DEF E!Next
<1> QED
  BY <1>3, <1>4

LEMMA StepExchange ==
  ASSUME IInv, [Next]_vars
  PROVE  [E!Next]_E!vars
<1> USE DEF E!vars, gate, session, response, history
<1>1. CASE UNCHANGED vars
  BY <1>1 DEF vars
<1>2. CASE \/ AcceptCompletes \/ AcceptHandled \/ AcceptFails
           \/ ReadFails \/ ReadTooLarge
           \/ ReadBody \/ NoResource \/ UpgradeReturns
  BY <1>2 DEF AcceptCompletes, AcceptHandled, AcceptFails, ReadFails,
              ReadTooLarge, ReadBody, NoResource, UpgradeReturns, ReadRequest, EndSession, Runner!Leave
<1>3. ASSUME NEW t \in IoThreads, Upgrade(t) PROVE [E!Next]_E!vars
  BY <1>3 DEF Upgrade, Enters, Runner!Enter
<1>4. ASSUME NEW t \in IoThreads, CallResource(t) PROVE [E!Next]_E!vars
  <2>1. Reading /\ up /\ open /\ resp' = "shared" /\ UNCHANGED <<made, wire, up, open>>
    BY <1>4 DEF CallResource, Enters, Runner!Enter
  <2>2. resp = "none"
    BY <2>1, ReadingAlone DEF NoReadWhileAnswering
  <2> QED
    BY <2>1, <2>2 DEF E!Next, E!Begin
<1>5. CASE SocketDown \/ TimerFires \/ ServerStop
  BY <1>5 DEF SocketDown, TimerFires, ServerStop, E!Next, E!Break
<1>6. CASE StopHandlers
  BY <1>6 DEF StopHandlers, Runner!Close, E!Next, E!Shut
<1>7. CASE AppWrites
  <2>1. resp = "shared"
    BY <1>7, BusyIsShared DEF AppWrites
  <2> QED
    BY <1>7, <2>1 DEF AppWrites, E!Next, E!Make
<1>8. CASE AppSends
  BY <1>8 DEF AppSends
<1>9. ASSUME \/ \E keep \in BOOLEAN : ResourceReturns(keep)
             \/ AppLetsGo
             \/ \E t \in IoThreads, w \in writes : PartRefused(t, w)
             \/ \E t \in IoThreads : PartReturns(t)
      PROVE  [E!Next]_E!vars
  <2>1. UNCHANGED <<made, wire, up, open>>
    BY <1>9 DEF ResourceReturns, AppLetsGo, PartRefused, PartReturns,
                Runner!Leave, Runner!Refuse
  <2>2. resp' = resp \/ (resp = "shared" /\ resp' = "deleting")
    BY <1>9 DEF ResourceReturns, AppLetsGo, PartRefused, PartReturns, LetGo
  <2> QED
    BY <2>1, <2>2
<1>10. ASSUME NEW w \in writes, WriteSucceeds(w) PROVE [E!Next]_E!vars
  BY <1>10, WriteDelivers
<1>11. ASSUME NEW w \in writes, WriteFails(w) PROVE [E!Next]_E!vars
  BY <1>11 DEF WriteFails
<1>12. ASSUME NEW t \in IoThreads, NEW w \in writes, PartHandled(t, w)
       PROVE  [E!Next]_E!vars
  BY <1>12 DEF PartHandled, Runner!Enter
<1>13. ASSUME NEW t \in IoThreads, PopFront(t) \/ FailAll(t)
       PROVE  [E!Next]_E!vars
  BY <1>13 DEF PopFront, FailAll
<1>14. ASSUME NEW w \in writes, KeepAlive(w) \/ Hangup(w)
       PROVE  [E!Next]_E!vars
  <2>1. /\ w.kind = "last" /\ w.res # "pending" /\ resp' = "none"
        /\ UNCHANGED <<made, wire, up, open>>
    BY <1>14 DEF KeepAlive, Hangup, ReadRequest, EndSession
  <2>2. resp # "none" /\ w.res \in {"ok", "error"}
    BY <2>1, TheWrite
  <2>3. Len(wire) = made \/ ~up \/ ~open
    <3>1. w.res = "error" => ~up
      BY DEF IInv, FailedIsDown
    <3>2. w.res = "ok" => WireEndsAt(made + 1)
      BY <2>1, TheWrite DEF WriteInLine
    <3>3. Len(wire) \in Nat /\ made \in Nat
      BY Numbers
    <3> QED
      BY <2>2, <3>1, <3>2, <3>3 DEF WireEndsAt
  <2> QED
    BY <2>1, <2>2, <2>3 DEF E!Next, E!Finish
<1> QED
  BY <1>1, <1>2, <1>3, <1>4, <1>5, <1>6, <1>7, <1>8, <1>9, <1>10, <1>11, <1>12,
     <1>13, <1>14 DEF Next, Step, Network, Handle

(* Every behaviour of the session is one of Exchange: what the application *)
(* streams reaches the socket in that order and without a gap, and a       *)
(* response ends with all of it out, a dead socket or a stopped server.    *)
THEOREM ImplementsExchange == Spec => ExchangeSpec
BY Invariance, InitExchange, StepExchange, PTL DEF Spec, ExchangeSpec, E!Spec
=============================================================================
