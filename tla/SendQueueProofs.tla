--------------------------- MODULE SendQueueProofs ---------------------------
(***************************************************************************)
(* Proofs about SendQueue, for any frames, any number of io threads and    *)
(* any number of senders: IInv is an inductive invariant; from it follow   *)
(* that writes never overlap, that their buffers stay in the list, that no *)
(* frame is left without a write, and that the queue implements Channel;   *)
(* with CallsInOrder, that callers are told in order.                      *)
(***************************************************************************)
EXTENDS SendQueue, SequenceTheorems, TLAPS

LEMMA Lengths ==
  ASSUME TypeOK, Places
  PROVE  /\ Len(queue) \in Nat /\ Len(sent) \in Nat /\ Len(wire) \in Nat
         /\ Departed \in Nat
         /\ Departed + Len(queue) = Len(sent)
         /\ Len(wire) <= Len(sent)
  BY DEF TypeOK, Places, QueueIsSuffix, WireIsPrefix, Departed

(* The front of a non-empty list is the next frame to leave. *)
LEMMA FrontPlace ==
  ASSUME TypeOK, Places, queue # <<>>
  PROVE  /\ Head(queue) = sent[Departed + 1]
         /\ Head(queue) \in Msgs
         /\ Len(queue) >= 1
         /\ Departed + 1 \in 1..Len(sent)
<1>1. Head(queue) = queue[1] /\ Len(queue) >= 1 /\ Head(queue) \in Msgs
  BY DEF TypeOK
<1>2. queue[1] = sent[Departed + 1]
  BY <1>1 DEF Places, QueueIsSuffix
<1> QED
  BY <1>1, <1>2, Lengths

(* A thread with something to do is a holder of the runner's lock. *)
LEMMA BusyHolds ==
  ASSUME TypeOK, HoldersKeepOpen, NEW t \in IoThreads, handler[t].at # "idle"
  PROVE  t \in holders /\ open
  BY DEF TypeOK, HoldersKeepOpen

LEMMA InitIInv == Init => IInv
<1> SUFFICES ASSUME Init PROVE IInv
  OBVIOUS
<1> USE DEF Init, Runner!Init, Resting
<1>1. TypeOK
  BY DEF TypeOK, NewTimer, Results
<1>2. Service
  BY DEF Service, OneWriteAtATime, FrontOwned, QueueIsServed, Locked
<1>3. Places
  BY DEF Places, SentOnce, QueueIsSuffix, WireIsPrefix, WireProgress,
         NotYetWritten, Departed, Locked
<1>4. Calls
  BY DEF Calls, TodoIsTrue, ToldIsGone, TodoOnce, ToldNotTodo, Todo,
         OnlyCallersHaveTodo, HoldersKeepOpen
<1> QED
  BY <1>1, <1>2, <1>3, <1>4 DEF IInv

-----------------------------------------------------------------------------
(* send() *)

LEMMA SendKeepsIInv ==
  ASSUME IInv, NEW m \in Msgs, Send(m)
  PROVE  IInv'
<1> USE DEF IInv, Send, gate
<1>1. /\ queue' = Append(queue, m) /\ queue' \in Seq(Msgs)
      /\ Len(queue') = Len(queue) + 1 /\ queue' # <<>>
      /\ \A i \in 1..Len(queue) : queue'[i] = queue[i]
      /\ queue'[Len(queue) + 1] = m
  BY DEF TypeOK
<1>2. /\ sent' = Append(sent, m) /\ sent' \in Seq(Msgs)
      /\ Len(sent') = Len(sent) + 1
      /\ \A i \in 1..Len(sent) : sent'[i] = sent[i]
      /\ sent'[Len(sent) + 1] = m
  BY DEF TypeOK
<1>3. \A i \in 1..Len(sent) : sent[i] # m
  BY DEF In, TypeOK
<1>4. Departed' = Departed
  BY <1>1, <1>2, Lengths DEF Departed
<1>5. TypeOK' /\ Service' /\ WireProgress'
  <2>1. CASE queue = <<>>
    <3>1. Head(queue') = m /\ Len(queue') = 1
      BY <1>1, <2>1
    <3>2. writes' = {[msg |-> m, res |-> "pending"]}
      BY <2>1, <3>1 DEF Service, FrontOwned, SendFromQueue
    <3>3. \A t \in IoThreads : ~Locked(t)
      BY <2>1 DEF Service, FrontOwned
    <3>4. TypeOK'
      BY <1>1, <1>2, <3>1, <3>2
         DEF TypeOK, SendFromQueue, SetTimeout, NewTimer, Results
    <3>5. Service'
      BY <1>1, <3>1, <3>2, <3>3
         DEF Service, OneWriteAtATime, FrontOwned, QueueIsServed, Locked
    <3>6. WireProgress'
      BY <1>1, <1>4, <2>1, <3>2, <3>3
         DEF Places, WireProgress, NotYetWritten, FrontWritten, FrontFailed,
             Locked
    <3> QED
      BY <3>4, <3>5, <3>6
  <2>2. CASE queue # <<>>
    <3>1. Head(queue') = Head(queue)
      BY <1>1, <2>2 DEF TypeOK
    <3>2. UNCHANGED <<writes, timer>>
      BY <1>1, <2>2 DEF TypeOK
    <3>3. TypeOK'
      BY <1>1, <1>2, <3>2 DEF TypeOK
    <3>4. Service'
      BY <1>1, <2>2, <3>1, <3>2
         DEF Service, OneWriteAtATime, FrontOwned, QueueIsServed, Locked
    <3>5. WireProgress'
      BY <1>1, <1>4, <3>2
         DEF Places, WireProgress, NotYetWritten, FrontWritten, FrontFailed,
             Locked
    <3> QED
      BY <3>3, <3>4, <3>5
  <2> QED
    BY <2>1, <2>2
<1>6. SentOnce'
  BY <1>2, <1>3, Lengths DEF Places, SentOnce, TypeOK
<1>7. QueueIsSuffix'
  <2> HIDE DEF Send
  <2>1. \A i \in 1..Len(queue) : Departed + i \in 1..Len(sent)
    BY Lengths
  <2>2. Departed + (Len(queue) + 1) = Len(sent) + 1
    BY Lengths
  <2>3. ASSUME NEW i \in 1..Len(queue') PROVE queue'[i] = sent'[Departed + i]
    <3>1. CASE i \in 1..Len(queue)
      BY <1>1, <1>2, <2>1, <3>1 DEF Places, QueueIsSuffix
    <3>2. CASE i = Len(queue) + 1
      BY <1>1, <1>2, <2>2, <3>2
    <3> QED
      BY <1>1, <3>1, <3>2, Lengths
  <2>4. Len(queue') <= Len(sent')
    BY <1>1, <1>2, Lengths
  <2> QED
    BY <1>4, <2>3, <2>4 DEF QueueIsSuffix
<1>8. WireIsPrefix'
  BY <1>2, Lengths DEF Places, WireIsPrefix
<1>9. Calls'
  <2>1. TodoIsTrue'
    BY <1>2, <1>4, Lengths DEF Calls, TodoIsTrue, Todo
  <2>2. ToldIsGone'
    BY <1>2, <1>4, Lengths DEF Calls, ToldIsGone
  <2> QED
    BY <2>1, <2>2
       DEF Calls, TodoOnce, ToldNotTodo, OnlyCallersHaveTodo, HoldersKeepOpen, Todo
<1> QED
  BY <1>5, <1>6, <1>7, <1>8, <1>9 DEF Places

-----------------------------------------------------------------------------
(* The environment: asio and the socket. *)

LEMMA WriteSucceedsKeepsIInv ==
  ASSUME IInv, NEW w \in writes, WriteSucceeds(w)
  PROVE  IInv'
<1> USE DEF IInv, WriteSucceeds, gate
<1>1. writes = {w} /\ writes' = {[msg |-> w.msg, res |-> "ok"]}
  BY DEF TypeOK, Service, OneWriteAtATime
<1>2. queue # <<>> /\ w.msg = Head(queue) /\ \A t \in IoThreads : ~Locked(t)
  BY DEF Service, FrontOwned, OneWriteAtATime
<1>3. w.msg = sent[Departed + 1] /\ w.msg \in Msgs /\ Departed + 1 \in 1..Len(sent)
  BY <1>2, FrontPlace
<1>4. Len(wire) = Departed
  BY DEF Places, WireProgress, NotYetWritten
<1>5. /\ wire' \in Seq(Msgs) /\ Len(wire') = Departed + 1
      /\ \A i \in 1..Len(wire) : wire'[i] = wire[i]
      /\ wire'[Departed + 1] = sent[Departed + 1]
  BY <1>3, <1>4 DEF TypeOK
<1>6. Departed' = Departed
  BY DEF Departed
<1>7. TypeOK'
  BY <1>1, <1>3, <1>5 DEF TypeOK, Results
<1>8. Service'
  BY <1>1, <1>2 DEF Service, OneWriteAtATime, FrontOwned, QueueIsServed, Locked
<1>9. Places'
  <2>1. WireIsPrefix'
    BY <1>3, <1>4, <1>5, Lengths DEF Places, WireIsPrefix
  <2>2. WireProgress'
    BY <1>1, <1>2, <1>5, <1>6 DEF WireProgress, FrontWritten, Locked
  <2> QED
    BY <1>6, <2>1, <2>2 DEF Places, SentOnce, QueueIsSuffix
<1>10. Calls'
  <2>1. TodoIsTrue'
    BY <1>4, <1>5, <1>6, Lengths DEF Calls, TodoIsTrue, Todo
  <2> QED
    BY <1>6, <2>1 DEF Calls, ToldIsGone, TodoOnce, ToldNotTodo, Todo,
                      OnlyCallersHaveTodo, HoldersKeepOpen
<1> QED
  BY <1>7, <1>8, <1>9, <1>10

LEMMA WriteFailsKeepsIInv ==
  ASSUME IInv, NEW w \in writes, WriteFails(w)
  PROVE  IInv'
<1> USE DEF IInv, WriteFails, gate
<1>1. writes = {w} /\ writes' = {[msg |-> w.msg, res |-> "error"]}
  BY DEF TypeOK, Service, OneWriteAtATime
<1>2. queue # <<>> /\ w.msg = Head(queue) /\ \A t \in IoThreads : ~Locked(t)
  BY DEF Service, FrontOwned, OneWriteAtATime
<1>3. ~up /\ Len(wire) <= Departed
  BY DEF Places, WireProgress, NotYetWritten
<1>4. Departed' = Departed
  BY DEF Departed
<1>5. TypeOK'
  BY <1>1 DEF TypeOK, Results
<1>6. Service'
  BY <1>1, <1>2 DEF Service, OneWriteAtATime, FrontOwned, QueueIsServed, Locked
<1>7. Places'
  <2>1. WireProgress'
    BY <1>1, <1>2, <1>3, <1>4 DEF WireProgress, FrontFailed, Locked
  <2> QED
    BY <1>4, <2>1 DEF Places, SentOnce, QueueIsSuffix, WireIsPrefix
<1>8. Calls'
  BY <1>4 DEF Calls, TodoIsTrue, ToldIsGone, TodoOnce, ToldNotTodo, Todo,
              OnlyCallersHaveTodo, HoldersKeepOpen
<1> QED
  BY <1>5, <1>6, <1>7, <1>8

(* Losing the socket only weakens what is claimed of the wire. *)
LEMMA DownKeepsIInv ==
  ASSUME IInv, up' = FALSE, timer' \in {timer, "off"},
         UNCHANGED <<queue, writes, handler, gate, sent, wire, told>>
  PROVE  IInv'
<1> USE DEF IInv, gate
<1>1. Departed' = Departed
  BY DEF Departed
<1>2. TypeOK'
  BY DEF TypeOK
<1>3. Service'
  BY DEF Service, OneWriteAtATime, FrontOwned, QueueIsServed, Locked
<1>4. Places'
  BY <1>1 DEF Places, SentOnce, QueueIsSuffix, WireIsPrefix, WireProgress,
              NotYetWritten, FrontWritten, FrontFailed, Locked
<1>5. Calls'
  BY <1>1 DEF Calls, TodoIsTrue, ToldIsGone, TodoOnce, ToldNotTodo, Todo,
              OnlyCallersHaveTodo, HoldersKeepOpen
<1> QED
  BY <1>2, <1>3, <1>4, <1>5

(* So do steps that change only the timer and who else holds the lock. *)
LEMMA ReaderKeepsIInv ==
  ASSUME IInv, UNCHANGED <<queue, writes, up, handler, sent, wire, told>>,
         timer' \in {"off", "armed"}, open' \in BOOLEAN, open' => open,
         refused' \subseteq IoThreads, holders' \subseteq IoThreads,
         {t \in IoThreads : handler[t].at # "idle"} \subseteq holders',
         holders' # {} => open'
  PROVE  IInv'
<1> USE DEF IInv
<1>1. Departed' = Departed
  BY DEF Departed
<1>2. TypeOK'
  BY DEF TypeOK
<1>3. Service'
  BY DEF Service, OneWriteAtATime, FrontOwned, QueueIsServed, Locked
<1>4. Places'
  BY <1>1 DEF Places, SentOnce, QueueIsSuffix, WireIsPrefix, WireProgress,
              NotYetWritten, FrontWritten, FrontFailed, Locked
<1>5. Calls'
  BY <1>1 DEF Calls, TodoIsTrue, ToldIsGone, TodoOnce, ToldNotTodo, Todo,
              OnlyCallersHaveTodo, HoldersKeepOpen
<1> QED
  BY <1>2, <1>3, <1>4, <1>5
-----------------------------------------------------------------------------
(* The completion handler *)

(* The lock granted or refused: the write is no longer outstanding, its    *)
(* result is in the hands of the handler or lost with the server.          *)
LEMMA HandleKeepsIInv ==
  ASSUME IInv, NEW t \in IoThreads, NEW w \in writes, Handle(t, w)
  PROVE  IInv'
<1> USE DEF IInv, Handle
<1>1. writes = {w} /\ writes' = {} /\ w.res \in Results
  BY DEF TypeOK, Service, OneWriteAtATime
<1>2. queue # <<>> /\ w.msg = Head(queue) /\ \A u \in IoThreads : ~Locked(u)
  BY DEF Service, FrontOwned, OneWriteAtATime
<1>3. IF w.res = "ok" THEN FrontWritten ELSE FrontFailed
  BY <1>1 DEF Places, WireProgress, Results
<1>4. Departed' = Departed
  BY DEF Departed
<1>5. timer' \in {"off", "armed"}
  BY DEF SetTimeout, NewTimer
<1>6. Todo(t) = <<>>
  BY DEF Calls, OnlyCallersHaveTodo
<1>7. CASE Runner!Enter(t) /\ handler' = [handler EXCEPT
             ![t] = [at |-> "locked", ec |-> w.res, todo |-> <<>>]]
  <2> USE DEF Runner!Enter
  <2>1. /\ handler'[t] = [at |-> "locked", ec |-> w.res, todo |-> <<>>]
        /\ \A u \in IoThreads : u # t => handler'[u] = handler[u]
    BY <1>7 DEF TypeOK
  <2>2. TypeOK'
    BY <1>1, <1>5, <1>7 DEF TypeOK, Results
  <2>3. Service'
    BY <1>1, <1>2, <2>1
       DEF Service, OneWriteAtATime, FrontOwned, QueueIsServed, Locked
  <2>4. Places'
    <3>1. WireProgress'
      BY <1>1, <1>2, <1>3, <1>4, <2>1
         DEF WireProgress, FrontWritten, FrontFailed, Locked
    <3> QED
      BY <1>4, <3>1 DEF Places, SentOnce, QueueIsSuffix, WireIsPrefix
  <2>5. \A u \in IoThreads : Todo(u)' = Todo(u)
    BY <1>6, <2>1 DEF Todo
  <2>6. TodoIsTrue'
    BY <1>4, <1>6, <2>1, <2>5 DEF Calls, TodoIsTrue, Todo
  <2>7. Calls'
    BY <1>4, <1>7, <2>1, <2>5, <2>6 DEF Calls, ToldIsGone, TodoOnce, ToldNotTodo,
       OnlyCallersHaveTodo, HoldersKeepOpen
  <2> QED
    BY <2>2, <2>3, <2>4, <2>7
<1>8. CASE Runner!Refuse(t) /\ UNCHANGED handler
  <2> USE DEF Runner!Refuse
  <2>1. TypeOK'
    BY <1>1, <1>5, <1>8 DEF TypeOK
  <2>2. Service'
    BY <1>1, <1>2, <1>8
       DEF Service, OneWriteAtATime, FrontOwned, QueueIsServed, Locked
  <2>3. Places'
    BY <1>1, <1>2, <1>4, <1>8
       DEF Places, SentOnce, QueueIsSuffix, WireIsPrefix, WireProgress, Locked
  <2>4. Calls'
    BY <1>4, <1>8 DEF Calls, TodoIsTrue, ToldIsGone, TodoOnce, ToldNotTodo, Todo,
                      OnlyCallersHaveTodo, HoldersKeepOpen
  <2> QED
    BY <2>1, <2>2, <2>3, <2>4
<1> QED
  BY <1>7, <1>8

(* The section under the mutex hands the callbacks of the first n frames   *)
(* of the list to t.  Both ways through it keep the claims about calls.    *)
LEMMA CollectKeepsCalls ==
  ASSUME IInv, NEW t \in IoThreads, NEW ms \in Seq(Msgs), Locked(t), Call(t, ms),
         UNCHANGED <<up, gate, sent, wire, told>>,
         Len(ms) <= Len(queue), Departed' = Departed + Len(ms),
         \A i \in 1..Len(ms) : ms[i] = sent[Departed + i],
         \A i \in 1..Len(ms) :
           IF handler[t].ec = "ok" THEN Departed + i <= Len(wire)
                                   ELSE Departed + i > Len(wire) /\ ~up
  PROVE  Calls'
<1> USE DEF IInv
<1>1. /\ handler'[t].at = "calling" /\ handler'[t].ec = handler[t].ec
      /\ Todo(t)' = ms
      /\ \A u \in IoThreads : u # t => handler'[u] = handler[u]
  BY DEF TypeOK, Call, Todo
<1>2. \A u \in IoThreads : u # t => Todo(u)' = Todo(u)
  BY <1>1 DEF Todo
<1>3. \A i \in 1..Len(ms) : Departed + i \in 1..Len(sent) /\ Departed + i \in 1..Departed'
  BY Lengths
<1>4. \A k \in 1..Departed : k \in 1..Departed' /\ k \in 1..Len(sent)
  BY Lengths
<1>5. \A k \in 1..Departed : \A i \in 1..Len(ms) : sent[k] # ms[i]
  <2> SUFFICES ASSUME NEW k \in 1..Departed, NEW i \in 1..Len(ms),
                      sent[k] = sent[Departed + i]
               PROVE  FALSE
    OBVIOUS
  <2>1. k \in DOMAIN sent /\ Departed + i \in DOMAIN sent
    BY <1>3, <1>4 DEF TypeOK
  <2>2. k = Departed + i
    BY <2>1 DEF Places, SentOnce
  <2> QED
    BY <2>2, Lengths
<1>6. \A i, j \in 1..Len(ms) : ms[i] = ms[j] => i = j
  <2> SUFFICES ASSUME NEW i \in 1..Len(ms), NEW j \in 1..Len(ms),
                      sent[Departed + i] = sent[Departed + j]
               PROVE  i = j
    OBVIOUS
  <2>1. Departed + i \in DOMAIN sent /\ Departed + j \in DOMAIN sent
    BY <1>3 DEF TypeOK
  <2>2. Departed + i = Departed + j
    BY <2>1 DEF Places, SentOnce
  <2> QED
    BY <2>2, Lengths
<1>7. TodoIsTrue'
  <2>1. ASSUME NEW u \in IoThreads, u # t, NEW i \in 1..Len(Todo(u))
        PROVE  \E k \in 1..Departed' :
                 /\ sent[k] = Todo(u)[i]
                 /\ IF handler[u].ec = "ok" THEN k <= Len(wire)
                                            ELSE k > Len(wire) /\ ~up
    BY <1>4, <2>1 DEF Calls, TodoIsTrue
  <2> QED
    BY <1>1, <1>2, <1>3, <2>1 DEF TodoIsTrue
<1>8. ToldIsGone'
  BY <1>4 DEF Calls, ToldIsGone
<1>9. \A u \in IoThreads : \A i \in 1..Len(Todo(u)) :
        \E k \in 1..Departed : sent[k] = Todo(u)[i]
  BY DEF Calls, TodoIsTrue
<1>10. TodoOnce'
  <2> SUFFICES ASSUME NEW u \in IoThreads, NEW v \in IoThreads,
                      NEW i \in 1..Len(Todo(u)'), NEW j \in 1..Len(Todo(v)'),
                      Todo(u)'[i] = Todo(v)'[j]
               PROVE  u = v /\ i = j
    BY DEF TodoOnce
  <2>1. CASE u = t /\ v = t
    BY <1>1, <1>6, <2>1
  <2>2. CASE u # t /\ v # t
    BY <1>2, <2>2 DEF Calls, TodoOnce
  <2>3. CASE u = t /\ v # t
    BY <1>1, <1>2, <1>5, <1>9, <2>3
  <2>4. CASE u # t /\ v = t
    BY <1>1, <1>2, <1>5, <1>9, <2>4
  <2> QED
    BY <2>1, <2>2, <2>3, <2>4
<1>11. ToldNotTodo'
  BY <1>1, <1>2, <1>5 DEF Calls, ToldNotTodo, ToldIsGone
<1>12. OnlyCallersHaveTodo' /\ HoldersKeepOpen'
  BY <1>1, <1>2 DEF Calls, OnlyCallersHaveTodo, HoldersKeepOpen, gate
<1> QED
  BY <1>7, <1>8, <1>10, <1>11, <1>12 DEF Calls

LEMMA CollectKeepsType ==
  ASSUME TypeOK, NEW t \in IoThreads, NEW ms \in Seq(Msgs), Locked(t), Call(t, ms),
         UNCHANGED <<up, gate, sent, wire, told>>,
         queue' \in Seq(Msgs), timer' \in {"off", "armed"},
         writes' \subseteq [msg : Msgs, res : Results \cup {"pending"}]
  PROVE  TypeOK'
<1> USE DEF TypeOK, gate
<1>1. handler' \in [IoThreads -> [at : {"idle", "locked", "calling"},
                                  ec : Results, todo : Seq(Msgs)]]
  BY DEF Call
<1>2. \A u \in IoThreads : handler'[u].at # "idle" => handler[u].at # "idle"
  BY DEF Call, Locked
<1> QED
  BY <1>1, <1>2

LEMMA PopFrontKeepsIInv ==
  ASSUME IInv, NEW t \in IoThreads, PopFront(t)
  PROVE  IInv'
<1> USE DEF IInv, PopFront, gate
<1>1. /\ Locked(t) /\ writes = {} /\ queue # <<>>
      /\ \A u \in IoThreads : Locked(u) => u = t
  BY DEF Locked, Service, OneWriteAtATime, FrontOwned
<1>2. /\ Head(queue) = sent[Departed + 1] /\ Head(queue) \in Msgs
      /\ Len(queue) >= 1
  BY <1>1, FrontPlace
<1>3. Len(wire) = Departed + 1
  BY <1>1 DEF Places, WireProgress, FrontWritten
<1>4. /\ queue' \in Seq(Msgs) /\ Len(queue') = Len(queue) - 1
      /\ \A i \in 1..Len(queue') : queue'[i] = queue[i + 1]
  BY <1>1, HeadTailProperties DEF TypeOK
<1>5. Departed' = Departed + 1
  BY <1>4, Lengths DEF Departed
<1>6. /\ handler'[t].at = "calling" /\ handler'[t].ec = "ok"
      /\ \A u \in IoThreads : ~Locked(u)'
  BY <1>1 DEF TypeOK, Call, Locked
<1>7. /\ writes' = IF queue' = <<>> THEN {}
                   ELSE {[msg |-> Head(queue'), res |-> "pending"]}
      /\ timer' \in {"off", "armed"}
  BY <1>1 DEF SendFromQueue, SetTimeout, NewTimer, TypeOK
<1>8. queue' # <<>> => Head(queue') \in Msgs
  BY <1>4
<1>9. TypeOK'
  <2>1. writes' \subseteq [msg : Msgs, res : Results \cup {"pending"}]
    BY <1>7, <1>8
  <2> DEFINE ms == <<Head(queue)>>
  <2>2. /\ ms \in Seq(Msgs) /\ Call(t, ms)
        /\ UNCHANGED <<up, gate, sent, wire, told>>
    BY <1>2
  <2> HIDE DEF PopFront, ms
  <2> QED
    BY <1>1, <1>4, <1>7, <2>1, <2>2, CollectKeepsType
<1>10. Service'
  <2> HIDE DEF PopFront, IInv
  <2>1. OneWriteAtATime' /\ FrontOwned'
    BY <1>6, <1>7 DEF OneWriteAtATime, FrontOwned, Locked
  <2>2. QueueIsServed'
    BY <1>7 DEF QueueIsServed
  <2> QED
    BY <2>1, <2>2 DEF Service
<1>11. QueueIsSuffix'
  <2>1. \A i \in 1..Len(queue') : /\ i + 1 \in 1..Len(queue)
                                  /\ Departed + (i + 1) = (Departed + 1) + i
    BY <1>4, Lengths
  <2>2. \A i \in 1..Len(queue') : queue'[i] = sent[Departed + 1 + i]
    BY <1>4, <2>1 DEF Places, QueueIsSuffix
  <2> QED
    BY <1>4, <1>5, <2>2, Lengths DEF QueueIsSuffix
<1>12. WireProgress'
  BY <1>3, <1>5, <1>6, <1>7 DEF WireProgress, NotYetWritten
<1>13. Places'
  BY <1>11, <1>12 DEF Places, SentOnce, WireIsPrefix
<1>14. Calls'
  <2> DEFINE ms == <<Head(queue)>>
  <2>1. ms \in Seq(Msgs) /\ Len(ms) = 1 /\ ms[1] = sent[Departed + 1]
    BY <1>2
  <2>2. Departed + 1 <= Len(wire) /\ handler[t].ec = "ok"
    BY <1>3, Lengths
  <2>3. Call(t, ms) /\ UNCHANGED <<up, gate, sent, wire, told>>
    OBVIOUS
  <2> HIDE DEF ms, PopFront
  <2>4. \A i \in 1..Len(ms) : i = 1
    BY <2>1
  <2> QED
    BY <1>1, <1>2, <1>5, <2>1, <2>2, <2>3, <2>4, CollectKeepsCalls
<1> QED
  BY <1>9, <1>10, <1>13, <1>14

LEMMA FailAllKeepsIInv ==
  ASSUME IInv, NEW t \in IoThreads, FailAll(t)
  PROVE  IInv'
<1> USE DEF IInv, FailAll, gate
<1>1. /\ Locked(t) /\ writes = {}
      /\ \A u \in IoThreads : Locked(u) => u = t
  BY DEF Locked, Service, OneWriteAtATime
<1>2. ~up /\ Len(wire) <= Departed /\ handler[t].ec = "error"
  BY <1>1 DEF Places, WireProgress, FrontFailed
<1>3. Departed' = Departed + Len(queue) /\ Departed' = Len(sent)
  BY Lengths DEF Departed
<1>4. /\ handler'[t].at = "calling" /\ \A u \in IoThreads : ~Locked(u)'
  BY <1>1 DEF TypeOK, Call, Locked
<1>5. TypeOK'
  <2>1. /\ queue \in Seq(Msgs) /\ Call(t, queue) /\ queue' \in Seq(Msgs)
        /\ timer' \in {"off", "armed"} /\ UNCHANGED <<up, gate, sent, wire, told>>
        /\ writes' \subseteq [msg : Msgs, res : Results \cup {"pending"}]
    BY DEF TypeOK
  <2> HIDE DEF FailAll
  <2> QED
    BY <1>1, <2>1, CollectKeepsType
<1>6. Service'
  BY <1>1, <1>4 DEF Service, OneWriteAtATime, FrontOwned, QueueIsServed
<1>7. Places'
  <2>1. WireProgress'
    BY <1>1, <1>2, <1>3, <1>4, Lengths DEF WireProgress, NotYetWritten
  <2>2. QueueIsSuffix'
    BY Lengths DEF QueueIsSuffix
  <2> QED
    BY <2>1, <2>2 DEF Places, SentOnce, WireIsPrefix
<1>8. Calls'
  <2>1. /\ queue \in Seq(Msgs)
        /\ \A i \in 1..Len(queue) : queue[i] = sent[Departed + i]
    BY DEF TypeOK, Places, QueueIsSuffix
  <2>2. \A i \in 1..Len(queue) : Departed + i > Len(wire)
    BY <1>2, Lengths
  <2>3. Call(t, queue) /\ UNCHANGED <<up, gate, sent, wire, told>>
    OBVIOUS
  <2>4. Len(queue) <= Len(queue)
    BY Lengths
  <2> HIDE DEF FailAll
  <2> QED
    BY <1>1, <1>2, <1>3, <2>1, <2>2, <2>3, <2>4, CollectKeepsCalls
<1> QED
  BY <1>5, <1>6, <1>7, <1>8

(* One callback: its frame moves from what is still to be called to what   *)
(* has been, or is passed over.                                            *)
LEMMA CallbackKeepsIInv ==
  ASSUME IInv, NEW t \in IoThreads, Callback(t)
  PROVE  IInv'
<1> USE DEF IInv, Callback, gate
<1>1. /\ handler[t].at = "calling" /\ Todo(t) # <<>> /\ Todo(t) \in Seq(Msgs)
      /\ handler' = [handler EXCEPT ![t].todo = Tail(Todo(t))]
      /\ UNCHANGED <<queue, writes, up, timer, gate, sent, wire>>
  BY DEF TypeOK, Todo
<1>2. \/ told' = told
      \/ told' = Append(told, <<Head(Todo(t)), handler[t].ec>>)
  BY DEF Todo
<1> HIDE DEF Callback
<1>3. /\ Todo(t)' \in Seq(Msgs) /\ Len(Todo(t)') = Len(Todo(t)) - 1
      /\ \A i \in 1..Len(Todo(t)') : Todo(t)'[i] = Todo(t)[i + 1]
      /\ Head(Todo(t)) = Todo(t)[1] /\ Head(Todo(t)) \in Msgs
      /\ Len(Todo(t)) >= 1 /\ Tail(Todo(t)) \in Seq(Msgs)
  <2>1. Todo(t)' = Tail(Todo(t))
    BY <1>1 DEF TypeOK, Todo
  <2> QED
    BY <1>1, <2>1, HeadTailProperties
<1>4. /\ \A u \in IoThreads : /\ handler'[u].at = handler[u].at
                              /\ handler'[u].ec = handler[u].ec
      /\ \A u \in IoThreads : u # t => Todo(u)' = Todo(u)
  BY <1>1 DEF TypeOK, Todo
<1>5. Departed' = Departed
  BY <1>1 DEF Departed
<1>6. \A i \in 1..Len(Todo(t)') : i + 1 \in 1..Len(Todo(t)) /\ i + 1 # 1
  BY <1>1, <1>3
<1>7. TypeOK'
  <2>1. handler' \in [IoThreads -> [at : {"idle", "locked", "calling"},
                                    ec : Results, todo : Seq(Msgs)]]
    BY <1>1, <1>3 DEF TypeOK
  <2>2. told' \in Seq(Msgs \X Results)
    <3>1. /\ <<Head(Todo(t)), handler[t].ec>> \in Msgs \X Results
          /\ told \in Seq(Msgs \X Results)
      BY <1>3 DEF TypeOK
    <3> QED
      BY <1>2, <3>1, AppendProperties
  <2> QED
    BY <1>1, <1>4, <2>1, <2>2 DEF TypeOK
<1>8. Service'
  BY <1>1, <1>4 DEF Service, OneWriteAtATime, FrontOwned, QueueIsServed, Locked
<1>9. Places'
  BY <1>1, <1>4, <1>5 DEF Places, SentOnce, QueueIsSuffix, WireIsPrefix,
     WireProgress, NotYetWritten, FrontWritten, FrontFailed, Locked
<1>10. TodoIsTrue'
  <2>1. ASSUME NEW u \in IoThreads, NEW i \in 1..Len(Todo(u)')
        PROVE  \E k \in 1..Departed :
                 /\ sent[k] = Todo(u)'[i]
                 /\ IF handler[u].ec = "ok" THEN k <= Len(wire)
                                            ELSE k > Len(wire) /\ ~up
    <3>1. PICK j \in 1..Len(Todo(u)) : Todo(u)'[i] = Todo(u)[j]
      BY <1>3, <1>4, <1>6
    <3> QED
      BY <3>1 DEF Calls, TodoIsTrue
  <2> QED
    BY <1>1, <1>4, <1>5, <2>1 DEF TodoIsTrue
<1>11. TodoOnce'
  <2> SUFFICES ASSUME NEW u \in IoThreads, NEW v \in IoThreads,
                      NEW i \in 1..Len(Todo(u)'), NEW j \in 1..Len(Todo(v)'),
                      Todo(u)'[i] = Todo(v)'[j]
               PROVE  u = v /\ i = j
    BY DEF TodoOnce
  <2>1. PICK p \in 1..Len(Todo(u)) :
          Todo(u)'[i] = Todo(u)[p] /\ p = IF u = t THEN i + 1 ELSE i
    BY <1>3, <1>4, <1>6
  <2>2. PICK q \in 1..Len(Todo(v)) :
          Todo(v)'[j] = Todo(v)[q] /\ q = IF v = t THEN j + 1 ELSE j
    BY <1>3, <1>4, <1>6
  <2>3. Todo(u)[p] = Todo(v)[q] /\ TodoOnce
    BY <2>1, <2>2 DEF Calls
  <2> HIDE DEF IInv
  <2>5. u = v /\ p = q
    BY <2>3 DEF TodoOnce
  <2>4. i \in Int /\ j \in Int
    OBVIOUS
  <2> QED
    BY <2>1, <2>2, <2>4, <2>5
<1>12. \A u \in IoThreads : \A j \in 1..Len(Todo(u)') :
         /\ \E k \in 1..Len(Todo(u)) : Todo(u)'[j] = Todo(u)[k]
         /\ Todo(u)'[j] # Head(Todo(t))
  <2> SUFFICES ASSUME NEW u \in IoThreads, NEW j \in 1..Len(Todo(u)')
               PROVE  /\ \E k \in 1..Len(Todo(u)) : Todo(u)'[j] = Todo(u)[k]
                      /\ Todo(u)'[j] # Head(Todo(t))
    OBVIOUS
  <2>0. 1 \in 1..Len(Todo(t))
    BY <1>1, <1>3
  <2>1. CASE u = t
    BY <1>3, <1>6, <2>0, <2>1 DEF Calls, TodoOnce
  <2>2. CASE u # t
    BY <1>3, <1>4, <2>0, <2>2 DEF Calls, TodoOnce
  <2> QED
    BY <2>1, <2>2
<1>13. \A i \in 1..Len(told') : \/ i \in 1..Len(told) /\ told'[i] = told[i]
                                \/ told'[i][1] = Head(Todo(t))
  <2> DEFINE new == <<Head(Todo(t)), handler[t].ec>>
  <2>1. new \in Msgs \X Results /\ told \in Seq(Msgs \X Results)
    BY <1>3 DEF TypeOK
  <2>2. new[1] = Head(Todo(t))
    OBVIOUS
  <2> HIDE DEF new
  <2>3. CASE told' = told
    BY <2>3
  <2>4. CASE told' = Append(told, new)
    BY <2>1, <2>2, <2>4, AppendProperties
  <2> QED
    BY <1>2, <2>3, <2>4 DEF new
<1>14. ToldIsGone'
  <2>1. \E k \in 1..Departed : sent[k] = Head(Todo(t))
    BY <1>1, <1>3 DEF Calls, TodoIsTrue
  <2> QED
    BY <1>1, <1>5, <1>13, <2>1 DEF Calls, ToldIsGone
<1>15. ToldNotTodo'
  BY <1>12, <1>13 DEF Calls, ToldNotTodo
<1>16. OnlyCallersHaveTodo' /\ HoldersKeepOpen'
  BY <1>1, <1>4 DEF Calls, OnlyCallersHaveTodo, HoldersKeepOpen
<1> QED
  BY <1>7, <1>8, <1>9, <1>10, <1>11, <1>14, <1>15, <1>16 DEF Calls

LEMMA ReturnKeepsIInv ==
  ASSUME IInv, NEW t \in IoThreads, Return(t)
  PROVE  IInv'
<1> USE DEF IInv, Return, Runner!Leave
<1>1. /\ handler'[t] = Resting /\ Todo(t)' = <<>>
      /\ \A u \in IoThreads : u # t => handler'[u] = handler[u]
  BY DEF TypeOK, Todo, Resting
<1>2. \A u \in IoThreads : Todo(u)' = Todo(u)
  BY <1>1 DEF Todo, Resting
<1>3. \A u \in IoThreads : Locked(u)' <=> Locked(u)
  BY <1>1 DEF Locked, Resting
<1>4. Departed' = Departed
  BY DEF Departed
<1>5. TypeOK'
  BY <1>1 DEF TypeOK, Resting, Results
<1>6. Service'
  BY <1>3 DEF Service, OneWriteAtATime, FrontOwned, QueueIsServed
<1>7. Places'
  BY <1>1, <1>3, <1>4 DEF Places, SentOnce, QueueIsSuffix, WireIsPrefix,
     WireProgress, NotYetWritten, FrontWritten, FrontFailed, Resting, Locked
<1>8. Calls'
  <2>1. TodoIsTrue'
    BY <1>1, <1>2, <1>4 DEF Calls, TodoIsTrue, Todo
  <2>2. ToldIsGone' /\ ToldNotTodo'
    BY <1>2, <1>4 DEF Calls, ToldIsGone, ToldNotTodo
  <2>4. TodoOnce'
    BY <1>2 DEF Calls, TodoOnce
  <2>3. OnlyCallersHaveTodo' /\ HoldersKeepOpen'
    BY <1>1, <1>2 DEF Calls, OnlyCallersHaveTodo, HoldersKeepOpen
  <2> QED
    BY <2>1, <2>2, <2>3, <2>4 DEF Calls
<1> QED
  BY <1>5, <1>6, <1>7, <1>8

-----------------------------------------------------------------------------
(* Every step keeps the invariant. *)
LEMMA NextIInv == IInv /\ [Next]_vars => IInv'
<1> SUFFICES ASSUME IInv, [Next]_vars PROVE IInv'
  OBVIOUS
<1>1. CASE UNCHANGED vars
  BY <1>1, ReaderKeepsIInv DEF vars, gate, IInv, TypeOK, Calls, HoldersKeepOpen
<1>2. ASSUME NEW m \in Msgs, Send(m) PROVE IInv'
  BY <1>2, SendKeepsIInv
<1>3. CASE Complete
  BY <1>3, WriteSucceedsKeepsIInv, WriteFailsKeepsIInv DEF Complete
<1>4. CASE SocketDown \/ TimerFires
  BY <1>4, DownKeepsIInv DEF SocketDown, TimerFires
<1>5. CASE Begin
  BY <1>5, HandleKeepsIInv DEF Begin
<1>6. ASSUME NEW t \in IoThreads, Step(t) PROVE IInv'
  BY <1>6, PopFrontKeepsIInv, FailAllKeepsIInv, CallbackKeepsIInv,
     ReturnKeepsIInv DEF Step
<1>7. ASSUME NEW t \in IoThreads, ReaderEnters(t) PROVE IInv'
  <2> USE DEF ReaderEnters, Runner!Enter, Runner!Refuse
  <2> QED
    BY <1>7, ReaderKeepsIInv DEF IInv, TypeOK, Calls, HoldersKeepOpen
<1>8. ASSUME NEW t \in IoThreads, ReaderLeaves(t) PROVE IInv'
  <2> USE DEF ReaderLeaves, Runner!Leave
  <2> QED
    BY <1>8, ReaderKeepsIInv
       DEF IInv, TypeOK, Calls, HoldersKeepOpen, NewTimer
<1>9. CASE StopHandlers
  BY <1>9, ReaderKeepsIInv
     DEF StopHandlers, Runner!Close, IInv, TypeOK, Calls, HoldersKeepOpen
<1> QED
  BY <1>1, <1>2, <1>3, <1>4, <1>5, <1>6, <1>7, <1>8, <1>9 DEF Next

(* The invariant of send() and its completion handlers, with any number of *)
(* threads calling and any number running handlers (server_ws.hpp:162-236). *)
THEOREM Invariance == Spec => []IInv
BY InitIInv, NextIInv, PTL DEF Spec

(* send() may be called from anywhere, and a second frame may be queued    *)
(* while the handler of the first is on its way: still no two writes       *)
(* overlap on the socket.                                                  *)
THEOREM WritesNeverOverlap == Spec => []OneWriteAtATime
<1>1. IInv => OneWriteAtATime
  BY DEF IInv, Service
<1> QED
  BY <1>1, Invariance, PTL

(* The buffers of a write, and the element its handler takes off the list, *)
(* are those of the front of the list.                                     *)
THEOREM BuffersStay == Spec => []FrontOwned
<1>1. IInv => FrontOwned
  BY DEF IInv, Service
<1> QED
  BY <1>1, Invariance, PTL

(* No interleaving of send() with the end of a write leaves a queued frame *)
(* with nobody to write it.                                                *)
THEOREM NoLostWakeup == Spec => []QueueIsServed
<1>1. IInv => QueueIsServed
  BY DEF IInv, Service
<1> QED
  BY <1>1, Invariance, PTL

-----------------------------------------------------------------------------
(* Steps of the queue are steps of the channel. *)

LEMMA DeliverStep ==
  ASSUME IInv, NEW w \in writes, WriteSucceeds(w)
  PROVE  C!Deliver
<1> USE DEF IInv
<1>1. queue # <<>> /\ w.msg = Head(queue)
  BY DEF Service, FrontOwned
<1>2. w.msg = sent[Departed + 1] /\ Departed + 1 \in 1..Len(sent)
  BY <1>1, FrontPlace
<1>3. Len(wire) = Departed /\ up
  BY DEF WriteSucceeds, Places, WireProgress, NotYetWritten
<1> QED
  BY <1>2, <1>3, Lengths DEF WriteSucceeds, C!Deliver, gate

(* A frame in a thread's hands is one that was sent and not yet reported,  *)
(* and the result it carries is the true one.                              *)
LEMMA TellStep ==
  ASSUME IInv, NEW t \in IoThreads, Callback(t)
  PROVE  UNCHANGED C!vars \/ \E m \in Msgs, ec \in Results : C!Tell(m, ec)
<1> USE DEF IInv
<1> DEFINE m == Head(Todo(t))
           ec == handler[t].ec
<1>1. /\ Todo(t) # <<>> /\ Todo(t) \in Seq(Msgs) /\ ec \in Results
      /\ \/ told' = told
         \/ told' = Append(told, <<m, ec>>)
      /\ UNCHANGED <<sent, wire, up, open>>
  BY DEF Callback, Todo, TypeOK, gate
<1>2. m = Todo(t)[1] /\ 1 \in 1..Len(Todo(t)) /\ m \in Msgs
  BY <1>1
<1>3. open
  BY BusyHolds DEF Callback, Calls
<1>4. PICK k \in 1..Departed :
        sent[k] = m /\ IF ec = "ok" THEN k <= Len(wire) ELSE k > Len(wire) /\ ~up
  BY <1>2 DEF Calls, TodoIsTrue
<1>5. \A i \in DOMAIN told : told[i][1] # m
  <2>1. DOMAIN told = 1..Len(told)
    BY DEF TypeOK
  <2> QED
    BY <1>2, <2>1 DEF Calls, ToldNotTodo
<1> HIDE DEF m, ec
<1>6. k \in DOMAIN sent /\ k \in Nat /\ k >= 1
  BY Lengths DEF TypeOK
<1>7. IF ec = "ok" THEN C!In(m, wire) ELSE ~up /\ ~C!In(m, wire)
  <2>1. CASE ec = "ok"
    BY <1>4, <1>6, <2>1 DEF C!In, Places, WireIsPrefix, TypeOK
  <2>2. CASE ec # "ok"
    <3>1. ASSUME NEW i \in DOMAIN wire, wire[i] = m PROVE FALSE
      <4>1. i \in 1..Len(wire) /\ i \in DOMAIN sent /\ sent[i] = m
        BY <3>1, Lengths DEF Places, WireIsPrefix, TypeOK
      <4>2. i = k
        BY <1>4, <1>6, <4>1 DEF Places, SentOnce
      <4> QED
        BY <1>4, <2>2, <4>1, <4>2, Lengths
    <3> QED
      BY <1>4, <2>2, <3>1 DEF C!In
  <2> QED
    BY <2>1, <2>2
<1>8. C!In(m, sent)
  BY <1>4, <1>6 DEF C!In
<1>9. CASE told' = told
  BY <1>1, <1>9 DEF C!vars
<1>10. CASE told' = Append(told, <<m, ec>>)
  <2>1. C!Tell(m, ec)
    BY <1>1, <1>3, <1>5, <1>7, <1>8, <1>10 DEF C!Tell
  <2> QED
    BY <1>1, <1>2, <2>1
<1> QED
  BY <1>1, <1>9, <1>10

LEMMA StepsMap == IInv /\ [Next]_vars => [C!Next]_C!vars
<1> SUFFICES ASSUME IInv, [Next]_vars PROVE [C!Next]_C!vars
  OBVIOUS
<1> USE DEF C!vars
<1>1. CASE UNCHANGED vars
  BY <1>1 DEF vars, gate
<1>2. ASSUME NEW m \in Msgs, Send(m) PROVE C!Next
  <2>1. C!Accept(m)
    BY <1>2 DEF Send, C!Accept, In, C!In, gate
  <2> QED
    BY <2>1 DEF C!Next
<1>3. CASE Complete
  <2>1. ASSUME NEW w \in writes, WriteSucceeds(w) PROVE C!Next
    BY <2>1, DeliverStep DEF C!Next
  <2>2. ASSUME NEW w \in writes, WriteFails(w) PROVE UNCHANGED C!vars
    BY <2>2 DEF WriteFails, gate
  <2> QED
    BY <1>3, <2>1, <2>2 DEF Complete
<1>4. CASE SocketDown \/ TimerFires
  <2>1. C!Break
    BY <1>4 DEF SocketDown, TimerFires, C!Break, gate
  <2> QED
    BY <2>1 DEF C!Next
<1>5. CASE Begin
  BY <1>5 DEF Begin, Handle, Runner!Enter, Runner!Refuse
<1>6. ASSUME NEW t \in IoThreads, Step(t) PROVE [C!Next]_C!vars
  <2>1. CASE Callback(t)
    BY <2>1, TellStep DEF C!Next, Results
  <2>2. CASE PopFront(t) \/ FailAll(t) \/ Return(t)
    BY <2>2 DEF PopFront, FailAll, Return, Runner!Leave, gate
  <2> QED
    BY <1>6, <2>1, <2>2 DEF Step
<1>7. ASSUME NEW t \in IoThreads, ReaderEnters(t) \/ ReaderLeaves(t)
      PROVE  UNCHANGED C!vars
  BY <1>7 DEF ReaderEnters, ReaderLeaves, Runner!Enter, Runner!Refuse,
              Runner!Leave
<1>8. CASE StopHandlers
  <2>1. C!Shut
    BY <1>8 DEF StopHandlers, Runner!Close, C!Shut
  <2> QED
    BY <2>1 DEF C!Next
<1> QED
  BY <1>1, <1>2, <1>3, <1>4, <1>5, <1>6, <1>7, <1>8 DEF Next

(* Whatever the threads do, what callers of send() see is the channel:     *)
(* frames go out whole, once and in order, and each callback is made once, *)
(* with the true result, and never after stop().                           *)
THEOREM ImplementsChannel == Spec => ChannelSpec
<1>1. Init => C!Init
  BY DEF Init, Runner!Init, C!Init
<1> QED
  BY <1>1, StepsMap, Invariance, PTL DEF Spec, ChannelSpec, C!Spec

-----------------------------------------------------------------------------
(* Callbacks in order.  Who has left the list is called, or about to be;   *)
(* and each thread calls in the order of the frames.                       *)

DepartedIsDue ==
  \A k \in 1..Departed :
    \/ sent[k] \in Silent \/ Told(sent[k])
    \/ \E t \in IoThreads : In(sent[k], Todo(t))

TodoInOrder ==
  \A t \in IoThreads : \A i, j \in 1..Len(Todo(t)) : \A k, l \in 1..Len(sent) :
    i < j /\ sent[k] = Todo(t)[i] /\ sent[l] = Todo(t)[j] => k < l

CallsInOrder == DepartedIsDue /\ TodoInOrder

LEMMA TodoIsSeq ==
  ASSUME TypeOK, NEW t \in IoThreads
  PROVE  /\ Todo(t) \in Seq(Msgs) /\ Len(Todo(t)) \in Nat
         /\ DOMAIN Todo(t) = 1..Len(Todo(t))
  BY DEF TypeOK, Todo

LEMMA SentIsSeq ==
  ASSUME TypeOK
  PROVE  sent \in Seq(Msgs) /\ Len(sent) \in Nat /\ DOMAIN sent = 1..Len(sent)
  BY DEF TypeOK

LEMMA InitOrder == Init => CallsInOrder
BY DEF Init, CallsInOrder, DepartedIsDue, TodoInOrder, Departed, Todo, Resting

(* Steps that call nobody and take nothing off the list.                   *)
LEMMA QuietKeepsOrder ==
  ASSUME CallsInOrder, UNCHANGED <<sent, told>>, Departed' = Departed,
         \A t \in IoThreads : Todo(t)' = Todo(t)
  PROVE  CallsInOrder'
<1>1. DepartedIsDue'
  BY DEF CallsInOrder, DepartedIsDue, Told
<1>2. TodoInOrder'
  BY DEF CallsInOrder, TodoInOrder
<1> QED
  BY <1>1, <1>2 DEF CallsInOrder

LEMMA SendKeepsOrder ==
  ASSUME IInv, CallsInOrder, NEW m \in Msgs, Send(m)
  PROVE  CallsInOrder'
<1>1. /\ ~In(m, sent) /\ queue' = Append(queue, m) /\ sent' = Append(sent, m)
      /\ UNCHANGED <<handler, told>>
  BY DEF Send
<1>2. sent \in Seq(Msgs) /\ queue \in Seq(Msgs) /\ TypeOK /\ Places /\ TodoIsTrue
  BY DEF IInv, TypeOK, Calls
<1>3. /\ Len(sent') = Len(sent) + 1 /\ sent'[Len(sent) + 1] = m
      /\ \A k \in 1..Len(sent) : sent'[k] = sent[k] /\ sent[k] # m
      /\ Len(queue') = Len(queue) + 1
  BY <1>1, <1>2, SentIsSeq, AppendProperties DEF In
<1>4. Departed' = Departed /\ \A k \in 1..Departed : k \in 1..Len(sent)
  BY <1>2, <1>3, Lengths DEF Departed
<1>5. \A t \in IoThreads : Todo(t)' = Todo(t)
  BY <1>1 DEF Todo
<1>6. \A x : Told(x)' <=> Told(x)
  BY <1>1 DEF Told
<1>7. DepartedIsDue'
  BY <1>3, <1>4, <1>5, <1>6 DEF CallsInOrder, DepartedIsDue
<1>8. TodoInOrder'
  <2> SUFFICES ASSUME NEW t \in IoThreads, NEW i \in 1..Len(Todo(t)), NEW j \in 1..Len(Todo(t)),
                      NEW k \in 1..Len(sent'), NEW l \in 1..Len(sent'),
                      i < j, sent'[k] = Todo(t)[i], sent'[l] = Todo(t)[j]
               PROVE  k < l
    BY <1>5 DEF TodoInOrder
  <2>1. \A p \in 1..Len(Todo(t)) : Todo(t)[p] # m
    BY <1>2, <1>3, <1>4 DEF TodoIsTrue
  <2>2. k \in 1..Len(sent) /\ l \in 1..Len(sent)
    BY <1>2, <1>3, <2>1, SentIsSeq
  <2> QED
    BY <1>3, <2>2 DEF CallsInOrder, TodoInOrder
<1> QED
  BY <1>7, <1>8 DEF CallsInOrder

(* The section under the mutex.                                            *)
LEMMA CollectKeepsOrder ==
  ASSUME IInv, CallsInOrder, NEW t \in IoThreads, NEW ms \in Seq(Msgs), Locked(t), Call(t, ms),
         UNCHANGED <<sent, told>>,
         Len(ms) <= Len(queue), Departed' = Departed + Len(ms),
         \A i \in 1..Len(ms) : ms[i] = sent[Departed + i]
  PROVE  CallsInOrder'
<1>1. /\ TypeOK /\ Places /\ SentOnce /\ Todo(t) = <<>>
  BY DEF IInv, Places, Calls, OnlyCallersHaveTodo, Locked
<1>2. /\ Todo(t)' = ms
      /\ \A u \in IoThreads : u # t => Todo(u)' = Todo(u)
  BY <1>1 DEF TypeOK, Call, Todo
<1>3. Departed \in Nat /\ Len(ms) \in Nat /\ Departed + Len(ms) <= Len(sent) /\ DOMAIN ms = 1..Len(ms)
  BY <1>1, Lengths
<1>4. \A u \in IoThreads : \A x : In(x, Todo(u)) => u # t
  BY <1>1 DEF In
<1>5. DepartedIsDue'
  <2> SUFFICES ASSUME NEW k \in 1..Departed'
               PROVE  \/ sent[k] \in Silent \/ Told(sent[k])
                      \/ \E u \in IoThreads : In(sent[k], Todo(u)')
    BY DEF DepartedIsDue, Told, In
  <2>1. CASE k \in 1..Departed
    BY <1>2, <1>4, <2>1 DEF CallsInOrder, DepartedIsDue
  <2>2. CASE k \notin 1..Departed
    <3> DEFINE i == k - Departed
    <3>1. i \in 1..Len(ms) /\ Departed + i = k
      BY <1>3, <2>2
    <3> HIDE DEF i
    <3>2. In(sent[k], ms)
      BY <1>3, <3>1 DEF In
    <3> QED
      BY <1>2, <3>2
  <2> QED
    BY <2>1, <2>2
<1>6. TodoInOrder'
  <2> SUFFICES ASSUME NEW u \in IoThreads,
                      NEW i \in 1..Len(Todo(u)'), NEW j \in 1..Len(Todo(u)'),
                      NEW k \in 1..Len(sent), NEW l \in 1..Len(sent),
                      i < j, sent[k] = Todo(u)'[i], sent[l] = Todo(u)'[j]
               PROVE  k < l
    BY DEF TodoInOrder
  <2>1. CASE u # t
    BY <1>2, <2>1 DEF CallsInOrder, TodoInOrder
  <2>2. CASE u = t
    <3>1. /\ i \in 1..Len(ms) /\ j \in 1..Len(ms)
          /\ sent[k] = sent[Departed + i] /\ sent[l] = sent[Departed + j]
      BY <1>2, <2>2
    <3>2. Departed + i \in 1..Len(sent) /\ Departed + j \in 1..Len(sent)
      BY <1>1, <1>3, <3>1, SentIsSeq
    <3>3. k = Departed + i /\ l = Departed + j
      BY <1>1, <3>1, <3>2, SentIsSeq DEF SentOnce
    <3> QED
      BY <1>3, <3>1, <3>3
  <2> QED
    BY <2>1, <2>2
<1> QED
  BY <1>5, <1>6 DEF CallsInOrder

LEMMA PopFrontKeepsOrder ==
  ASSUME IInv, CallsInOrder, NEW t \in IoThreads, PopFront(t)
  PROVE  CallsInOrder'
<1>1. /\ Locked(t) /\ Call(t, <<Head(queue)>>) /\ queue' = Tail(queue)
      /\ UNCHANGED <<sent, told>>
  BY DEF PopFront, Locked
<1>2. TypeOK /\ Places /\ queue # <<>> /\ queue \in Seq(Msgs)
  BY <1>1 DEF IInv, TypeOK, Service, FrontOwned
<1>3. /\ Head(queue) = sent[Departed + 1] /\ Head(queue) \in Msgs /\ Len(queue) >= 1
  BY <1>2, FrontPlace
<1>4. Len(queue') = Len(queue) - 1
  BY <1>1, <1>2, HeadTailProperties
<1>5. Departed' = Departed + 1
  BY <1>1, <1>2, <1>4, Lengths DEF Departed
<1> DEFINE ms == <<Head(queue)>>
<1>6. ms \in Seq(Msgs) /\ Len(ms) = 1 /\ ms[1] = Head(queue)
  BY <1>3
<1>7. Call(t, ms)
  BY <1>1
<1> HIDE DEF ms
<1>8. \A i \in 1..Len(ms) : ms[i] = sent[Departed + i]
  BY <1>3, <1>6
<1> QED
  BY <1>1, <1>3, <1>5, <1>6, <1>7, <1>8, CollectKeepsOrder

LEMMA FailAllKeepsOrder ==
  ASSUME IInv, CallsInOrder, NEW t \in IoThreads, FailAll(t)
  PROVE  CallsInOrder'
<1>1. /\ Locked(t) /\ Call(t, queue) /\ queue' = <<>> /\ UNCHANGED <<sent, told>>
  BY DEF FailAll, Locked
<1>2. TypeOK /\ Places /\ queue \in Seq(Msgs)
  BY DEF IInv, TypeOK
<1>3. Departed' = Departed + Len(queue) /\ Len(queue) <= Len(queue)
  BY <1>1, <1>2, Lengths DEF Departed
<1>4. \A i \in 1..Len(queue) : queue[i] = sent[Departed + i]
  BY <1>2 DEF Places, QueueIsSuffix
<1> QED
  BY <1>1, <1>2, <1>3, <1>4, CollectKeepsOrder

(* What a callback does to the lists of those to be called and called.     *)
LEMMA Called ==
  ASSUME TypeOK, NEW t \in IoThreads, Callback(t)
  PROVE  /\ Todo(t) # <<>> /\ Len(Todo(t)) \in Nat \ {0}
         /\ Len(Todo(t)') = Len(Todo(t)) - 1
         /\ \A i \in 1..Len(Todo(t)') : Todo(t)'[i] = Todo(t)[i + 1]
         /\ \A u \in IoThreads : u # t => Todo(u)' = Todo(u)
         /\ \A x : Told(x)' <=> Told(x) \/ (x = Todo(t)[1] /\ x \notin Silent)
         /\ UNCHANGED <<sent, queue>>
<1>1. /\ Todo(t) # <<>> /\ UNCHANGED <<sent, queue>>
      /\ handler' = [handler EXCEPT ![t].todo = Tail(Todo(t))]
      /\ told' = IF Head(Todo(t)) \in Silent
                   THEN told ELSE Append(told, <<Head(Todo(t)), handler[t].ec>>)
  BY DEF Callback, Todo
<1>2. /\ Todo(t)' = Tail(Todo(t))
      /\ \A u \in IoThreads : u # t => Todo(u)' = Todo(u)
  BY <1>1 DEF TypeOK, Todo
<1>3. Todo(t) \in Seq(Msgs) /\ handler[t].ec \in Results
  BY DEF TypeOK, Todo
<1>4. /\ Len(Todo(t)) \in Nat \ {0} /\ Len(Todo(t)') = Len(Todo(t)) - 1
      /\ \A i \in 1..Len(Todo(t)') : Todo(t)'[i] = Todo(t)[i + 1]
      /\ Head(Todo(t)) = Todo(t)[1] /\ Head(Todo(t)) \in Msgs
  <2> DEFINE s == Todo(t)
  <2>1. s \in Seq(Msgs) /\ s # <<>>
    BY <1>1, <1>3
  <2> HIDE DEF s
  <2>2. /\ Len(s) \in Nat \ {0} /\ Len(Tail(s)) = Len(s) - 1
        /\ \A i \in 1..Len(Tail(s)) : Tail(s)[i] = s[i + 1]
        /\ Head(s) = s[1] /\ Head(s) \in Msgs
    BY <2>1, HeadTailProperties
  <2> QED
    BY <1>2, <2>2 DEF s
<1>5. ASSUME NEW x PROVE Told(x)' <=> Told(x) \/ (x = Todo(t)[1] /\ x \notin Silent)
  <2> DEFINE h == Head(Todo(t))
             new == <<h, handler[t].ec>>
  <2>1. /\ new \in Msgs \X Results /\ told \in Seq(Msgs \X Results)
        /\ new[1] = h /\ h = Todo(t)[1]
    BY <1>3, <1>4 DEF TypeOK
  <2>2. told' = IF h \in Silent THEN told ELSE Append(told, new)
    BY <1>1
  <2> HIDE DEF h, new
  <2>3. CASE h \in Silent
    BY <2>1, <2>2, <2>3 DEF Told
  <2>4. CASE h \notin Silent
    <3>1. /\ Len(told) \in Nat /\ DOMAIN told = 1..Len(told)
          /\ DOMAIN told' = 1..(Len(told) + 1)
          /\ \A i \in 1..Len(told) : told'[i] = told[i]
          /\ told'[Len(told) + 1] = new
      BY <2>1, <2>2, <2>4, AppendProperties
    <3>2. ASSUME Told(x) PROVE Told(x)'
      BY <3>1, <3>2 DEF Told
    <3>3. ASSUME x = h PROVE Told(x)'
      BY <2>1, <3>1, <3>3 DEF Told
    <3>4. ASSUME Told(x)', x # h PROVE Told(x)
      BY <2>1, <3>1, <3>4 DEF Told
    <3> QED
      BY <2>1, <2>4, <3>2, <3>3, <3>4
  <2> QED
    BY <2>3, <2>4
<1> QED
  BY <1>1, <1>2, <1>4, <1>5

LEMMA CallbackKeepsOrder ==
  ASSUME IInv, CallsInOrder, NEW t \in IoThreads, Callback(t)
  PROVE  CallsInOrder'
<1>1. TypeOK /\ Departed' = Departed
  BY DEF IInv, Callback, Departed
<1>2. /\ Todo(t) # <<>> /\ Len(Todo(t)) \in Nat \ {0}
      /\ Len(Todo(t)') = Len(Todo(t)) - 1
      /\ \A i \in 1..Len(Todo(t)') : Todo(t)'[i] = Todo(t)[i + 1]
      /\ \A u \in IoThreads : u # t => Todo(u)' = Todo(u)
      /\ UNCHANGED <<sent, queue>>
  BY <1>1, Called
<1>3. \A x : Told(x)' <=> Told(x) \/ (x = Todo(t)[1] /\ x \notin Silent)
  BY <1>1, Called
<1>4. \A u \in IoThreads : DOMAIN Todo(u) = 1..Len(Todo(u))
  BY <1>1, TodoIsSeq
<1>5. DOMAIN Todo(t)' = 1..Len(Todo(t)')
  <2>1. Todo(t)' = Tail(Todo(t))
    BY <1>1 DEF TypeOK, Callback, Todo
  <2>2. Tail(Todo(t)) \in Seq(Msgs)
    BY <1>1, <1>2, TodoIsSeq, HeadTailProperties
  <2> QED
    BY <2>1, <2>2, LenProperties
<1>6. DepartedIsDue'
  <2> SUFFICES ASSUME NEW k \in 1..Departed, sent[k] \notin Silent, ~Told(sent[k])'
               PROVE  \E u \in IoThreads : In(sent[k], Todo(u)')
    BY <1>1, <1>2 DEF DepartedIsDue, In
  <2>1. ~Told(sent[k]) /\ sent[k] # Todo(t)[1]
    BY <1>2, <1>3 DEF Told
  <2>2. PICK u \in IoThreads : In(sent[k], Todo(u))
    BY <2>1 DEF CallsInOrder, DepartedIsDue
  <2>3. PICK i \in 1..Len(Todo(u)) : Todo(u)[i] = sent[k]
    BY <1>4, <2>2 DEF In
  <2>4. CASE u = t
    <3>1. i - 1 \in 1..Len(Todo(t)') /\ i = (i - 1) + 1
      BY <1>2, <2>1, <2>3, <2>4
    <3>2. Todo(t)'[i - 1] = sent[k]
      BY <1>2, <2>3, <2>4, <3>1
    <3> QED
      BY <1>5, <3>1, <3>2 DEF In
  <2>5. CASE u # t
    BY <1>2, <2>2, <2>5
  <2> QED
    BY <2>4, <2>5
<1>7. TodoInOrder'
  <2> SUFFICES ASSUME NEW u \in IoThreads,
                      NEW i \in 1..Len(Todo(u)'), NEW j \in 1..Len(Todo(u)'),
                      NEW k \in 1..Len(sent), NEW l \in 1..Len(sent),
                      i < j, sent[k] = Todo(u)'[i], sent[l] = Todo(u)'[j]
               PROVE  k < l
    BY <1>2 DEF TodoInOrder
  <2>1. CASE u # t
    BY <1>2, <2>1 DEF CallsInOrder, TodoInOrder
  <2>2. CASE u = t
    <3>1. /\ i + 1 \in 1..Len(Todo(t)) /\ j + 1 \in 1..Len(Todo(t)) /\ i + 1 < j + 1
          /\ sent[k] = Todo(t)[i + 1] /\ sent[l] = Todo(t)[j + 1]
      BY <1>2, <2>2
    <3> QED
      BY <3>1 DEF CallsInOrder, TodoInOrder
  <2> QED
    BY <2>1, <2>2
<1> QED
  BY <1>6, <1>7 DEF CallsInOrder

LEMMA NextOrder ==
  ASSUME IInv, CallsInOrder, [Next]_vars
  PROVE  CallsInOrder'
<1>1. TypeOK /\ OnlyCallersHaveTodo
  BY DEF IInv, Calls
<1>2. ASSUME UNCHANGED <<queue, handler, sent, told>> PROVE CallsInOrder'
  BY <1>2, QuietKeepsOrder DEF Departed, Todo
<1>3. ASSUME NEW m \in Msgs, Send(m) PROVE CallsInOrder'
  BY <1>3, SendKeepsOrder
<1>4. ASSUME NEW t \in IoThreads, NEW w \in writes, Handle(t, w) PROVE CallsInOrder'
  <2>1. \A u \in IoThreads : Todo(u)' = Todo(u)
    <3>1. Todo(t) = <<>>
      BY <1>1, <1>4 DEF Handle, OnlyCallersHaveTodo
    <3>2. \/ handler' = handler
          \/ handler' = [handler EXCEPT ![t] = [at |-> "locked", ec |-> w.res, todo |-> <<>>]]
      BY <1>4 DEF Handle
    <3>3. ASSUME NEW u \in IoThreads,
                 handler' = [handler EXCEPT ![t] = [at |-> "locked", ec |-> w.res, todo |-> <<>>]]
          PROVE  Todo(u)' = Todo(u)
      <4>1. DOMAIN handler = IoThreads
        BY <1>1 DEF TypeOK
      <4>2. CASE u = t
        BY <3>1, <3>3, <4>1, <4>2 DEF Todo
      <4>3. CASE u # t
        BY <3>3, <4>1, <4>3 DEF Todo
      <4> QED
        BY <4>2, <4>3
    <3> QED
      BY <3>2, <3>3 DEF Todo
  <2>2. UNCHANGED <<queue, sent, told>>
    BY <1>4 DEF Handle
  <2> QED
    BY <2>1, <2>2, QuietKeepsOrder DEF Departed
<1>5. ASSUME NEW t \in IoThreads, Return(t) PROVE CallsInOrder'
  <2>1. \A u \in IoThreads : Todo(u)' = Todo(u)
    BY <1>1, <1>5 DEF Return, Todo, TypeOK, Resting
  <2>2. UNCHANGED <<queue, sent, told>>
    BY <1>5 DEF Return
  <2> QED
    BY <2>1, <2>2, QuietKeepsOrder DEF Departed
<1>6. ASSUME NEW t \in IoThreads, Step(t) PROVE CallsInOrder'
  BY <1>5, <1>6, PopFrontKeepsOrder, FailAllKeepsOrder, CallbackKeepsOrder DEF Step
<1>7. CASE Begin
  BY <1>4, <1>7 DEF Begin
<1>8. CASE Complete
  BY <1>2, <1>8 DEF Complete, WriteSucceeds, WriteFails
<1>9. CASE SocketDown \/ TimerFires \/ StopHandlers
  BY <1>2, <1>9 DEF SocketDown, TimerFires, StopHandlers
<1>10. ASSUME NEW t \in IoThreads, ReaderEnters(t) \/ ReaderLeaves(t) PROVE CallsInOrder'
  BY <1>2, <1>10 DEF ReaderEnters, ReaderLeaves
<1>11. CASE UNCHANGED vars
  BY <1>2, <1>11 DEF vars
<1> QED
  BY <1>3, <1>6, <1>7, <1>8, <1>9, <1>10, <1>11 DEF Next

(* Nobody is told before an earlier one whom no other thread has in hand.  *)
LEMMA OvertakesInHand ==
  ASSUME IInv, CallsInOrder, NEW t \in IoThreads, Callback(t),
         NEW k \in DOMAIN sent, NEW l \in DOMAIN sent, k < l, sent[k] \notin Silent,
         ~Told(sent[k]), ~Told(sent[l]), Told(sent[l])'
  PROVE  \E u \in IoThreads : In(sent[k], Todo(u)) /\ Todo(u)' = Todo(u)
<1>1. TypeOK /\ SentOnce /\ TodoIsTrue /\ Places
  BY DEF IInv, Places, Calls
<1>2. /\ Len(Todo(t)) \in Nat \ {0}
      /\ \A u \in IoThreads : u # t => Todo(u)' = Todo(u)
      /\ UNCHANGED sent
  BY <1>1, Called
<1>3. \A x : Told(x)' <=> Told(x) \/ (x = Todo(t)[1] /\ x \notin Silent)
  BY <1>1, Called
<1>4. sent[l] = Todo(t)[1] /\ k \in 1..Len(sent) /\ l \in 1..Len(sent)
  <2>1. sent[l] = Todo(t)[1]
    BY <1>2, <1>3 DEF Told
  <2> QED
    BY <1>1, <2>1, SentIsSeq
<1>5. l \in 1..Departed
  <2>1. 1 \in 1..Len(Todo(t))
    BY <1>2
  <2>2. PICK p \in 1..Departed : sent[p] = Todo(t)[1]
    BY <1>1, <2>1 DEF TodoIsTrue
  <2>3. p \in 1..Len(sent)
    BY <1>1, Lengths
  <2>4. p = l
    BY <1>1, <1>4, <2>2, <2>3, SentIsSeq DEF SentOnce
  <2> QED
    BY <2>4
<1>6. k \in 1..Departed
  BY <1>1, <1>4, <1>5, Lengths
<1>7. PICK u \in IoThreads : In(sent[k], Todo(u))
  BY <1>6 DEF CallsInOrder, DepartedIsDue
<1>8. u # t
  <2> SUFFICES ASSUME u = t PROVE FALSE
    OBVIOUS
  <2>1. PICK i \in 1..Len(Todo(t)) : Todo(t)[i] = sent[k]
    BY <1>1, <1>7, TodoIsSeq DEF In
  <2>2. i # 1
    <3>1. ASSUME i = 1 PROVE FALSE
      <4>1. sent[k] = sent[l]
        BY <1>4, <2>1, <3>1
      <4>2. k = l
        BY <1>1, <4>1 DEF SentOnce
      <4> QED
        BY <1>4, <4>2
    <3> QED
      BY <3>1
  <2>3. 1 \in 1..Len(Todo(t)) /\ 1 < i
    BY <1>2, <2>2
  <2>4. l < k
    BY <1>4, <2>1, <2>3 DEF CallsInOrder, TodoInOrder
  <2> QED
    BY <1>4, <2>4
<1> QED
  BY <1>2, <1>7, <1>8

LEMMA OnlyCallbacksTell ==
  ASSUME IInv, [Next]_vars, NEW l \in DOMAIN sent, ~Told(sent[l]), Told(sent[l])'
  PROVE  \E t \in IoThreads : Callback(t)
<1>1. told' # told
  <2> SUFFICES ASSUME told' = told PROVE FALSE
    OBVIOUS
  <2>1. sent'[l] = sent[l]
    <3>1. \/ UNCHANGED sent
          \/ \E m \in Msgs : sent' = Append(sent, m)
      BY DEF Next, Send, Complete, WriteSucceeds, WriteFails, SocketDown, TimerFires, Begin,
             Handle, Step, PopFront, FailAll, Callback, Return, ReaderEnters, ReaderLeaves,
             StopHandlers, vars
    <3>2. sent \in Seq(Msgs) /\ l \in 1..Len(sent)
      BY DEF IInv, TypeOK
    <3> QED
      BY <3>1, <3>2, AppendProperties
  <2> QED
    BY <2>1 DEF Told
<1> QED
  BY <1>1 DEF Next, Send, Complete, WriteSucceeds, WriteFails, SocketDown, TimerFires, Begin,
              Handle, Step, PopFront, FailAll, Return, ReaderEnters, ReaderLeaves,
              StopHandlers, vars

(* A caller hears of its frame before the caller of an earlier one only    *)
(* while another thread is about to tell that one: callbacks run without   *)
(* the mutex, but what a thread collects under it is in order              *)
(* (server_ws.hpp:170-201).                                                *)
THEOREM CallersAreToldInOrder == Spec => OvertakenOnlyInHand
<1> DEFINE Fair == \A k, l \in DOMAIN sent :
                     /\ k < l /\ sent[k] \notin Silent
                     /\ ~Told(sent[k]) /\ ~Told(sent[l]) /\ Told(sent[l])'
                     => \E t \in IoThreads : In(sent[k], Todo(t)) /\ Todo(t)' = Todo(t)
<1>1. IInv /\ CallsInOrder /\ [Next]_vars => [Fair]_vars
  <2> SUFFICES ASSUME IInv, CallsInOrder, [Next]_vars,
                      NEW k \in DOMAIN sent, NEW l \in DOMAIN sent,
                      k < l, sent[k] \notin Silent,
                      ~Told(sent[k]), ~Told(sent[l]), Told(sent[l])'
               PROVE  \E t \in IoThreads : In(sent[k], Todo(t)) /\ Todo(t)' = Todo(t)
    OBVIOUS
  <2>1. PICK t \in IoThreads : Callback(t)
    BY OnlyCallbacksTell
  <2> QED
    BY <2>1, OvertakesInHand
<1>2. IInv /\ CallsInOrder /\ [Next]_vars => CallsInOrder'
  BY NextOrder
<1>3. Spec => [][Fair]_vars
  <2> HIDE DEF Fair
  <2> QED
    BY InitOrder, Invariance, <1>1, <1>2, PTL DEF Spec
<1> QED
  BY <1>3 DEF OvertakenOnlyInHand
=============================================================================
