----------------------------- MODULE ScopeRunner -----------------------------
(***************************************************************************)
(* SimpleWeb::ScopeRunner (src/common/utility.hpp:432-478), one step per   *)
(* access to the shared std::atomic<long>.                                 *)
(*                                                                         *)
(* A thread of the io_service calls continue_lock() at the head of every   *)
(* asynchronous handler and drops the lock at its end; a destructor (or a  *)
(* handler, nothing prevents it) calls stop().                             *)
(***************************************************************************)
EXTENDS Integers, FiniteSets

CONSTANT Threads

ASSUME ThreadsAssumption == IsFiniteSet(Threads)

VARIABLES
  count,     \* the atomic: number of locks, or -1 once stopped
  pc,        \* where each thread is: "ready", "cas" (in the loop of
             \* continue_lock) or "spin" (in the loop of stop)
  expected,  \* the local of continue_lock
  holders,   \* threads that own a SharedLock
  refused,   \* threads whose latest continue_lock() returned nullptr
  stopped    \* history: threads to which a stop() has returned

vars == <<count, pc, expected, holders, refused, stopped>>

Init == /\ count = 0
        /\ pc = [t \in Threads |-> "ready"]
        /\ expected = [t \in Threads |-> 0]
        /\ holders = {}
        /\ refused = {}
        /\ stopped = {}

(* Operators named "... (faulty)" in their comment are slips that a rewrite *)
(* of this class might make; the model checker must reject each of them.   *)

Goto(t, l) == pc' = [pc EXCEPT ![t] = l]

-----------------------------------------------------------------------------
(* continue_lock().  The loop condition is local to the thread, so it is   *)
(* evaluated in the step that last wrote `expected'.                       *)

(* (faulty) `expected > 0' in the loop condition. *)
ObserveZeroRefused(t) ==
  /\ expected' = [expected EXCEPT ![t] = count]
  /\ IF count > 0
       THEN Goto(t, "cas") /\ UNCHANGED refused
       ELSE Goto(t, "ready") /\ refused' = refused \cup {t}
  /\ UNCHANGED <<count, holders, stopped>>

(* (faulty) The loop does not look at the sign. *)
ObserveNeverRefuses(t) == /\ expected' = [expected EXCEPT ![t] = count]
                          /\ Goto(t, "cas")
                          /\ UNCHANGED <<count, holders, refused, stopped>>

(* `expected' takes the value read from count: go on trying, or give up.   *)
Observe(t) == /\ expected' = [expected EXCEPT ![t] = count]
              /\ IF count >= 0
                   THEN Goto(t, "cas") /\ UNCHANGED refused
                   ELSE Goto(t, "ready") /\ refused' = refused \cup {t}
              /\ UNCHANGED <<count, holders, stopped>>

(* A handler owns at most one lock: asio runs it from its event loop and   *)
(* no handler of this code takes a second one.                             *)
Load(t) == /\ pc[t] = "ready"
           /\ t \notin holders
           /\ Observe(t)

(* (faulty) A plain store in place of the compare-and-exchange. *)
CasSucceedsBlind(t) == /\ pc[t] = "cas"
                       /\ count' = expected[t] + 1
                       /\ holders' = holders \cup {t}
                       /\ refused' = refused \ {t}
                       /\ Goto(t, "ready")
                       /\ UNCHANGED <<expected, stopped>>

CasSucceeds(t) == /\ pc[t] = "cas"
                  /\ count = expected[t]
                  /\ count' = expected[t] + 1
                  /\ holders' = holders \cup {t}
                  /\ refused' = refused \ {t}
                  /\ Goto(t, "ready")
                  /\ UNCHANGED <<expected, stopped>>

(* compare_exchange_weak() reloads `expected'.  A spurious failure reloads *)
(* the value it had and changes nothing: it is a stuttering step.          *)
CasFails(t) == /\ pc[t] = "cas"
               /\ count # expected[t]
               /\ Observe(t)

(* ~SharedLock() *)
Release(t) == /\ pc[t] = "ready"
              /\ t \in holders
              /\ count' = count - 1
              /\ holders' = holders \ {t}
              /\ UNCHANGED <<pc, expected, refused, stopped>>

-----------------------------------------------------------------------------
(* stop().  A failed exchange resets `expected' to 0 and spins: no change. *)

(* Nothing keeps a handler that holds a lock from destroying its server,   *)
(* and so from calling stop().                                             *)
StopCall(t) == /\ pc[t] = "ready"
               /\ Goto(t, "spin")
               /\ UNCHANGED <<count, expected, holders, refused, stopped>>

StopReturns(t) == /\ Goto(t, "ready")
                  /\ stopped' = stopped \cup {t}
                  /\ UNCHANGED <<expected, holders, refused>>

(* (faulty) stop() does not wait for the last lock. *)
StopSucceedsLastHolder(t) == /\ pc[t] = "spin"
                             /\ count \in {0, 1}
                             /\ count' = -1
                             /\ StopReturns(t)

StopSucceeds(t) == /\ pc[t] = "spin"
                   /\ count = 0
                   /\ count' = -1
                   /\ StopReturns(t)

(* (faulty) A second stop() does not recognise the -1 of the first. *)
StopNeverAlreadyDone(t) == /\ pc[t] = "spin"
                           /\ count < -1
                           /\ StopReturns(t)
                           /\ UNCHANGED count

StopAlreadyDone(t) == /\ pc[t] = "spin"
                      /\ count < 0
                      /\ StopReturns(t)
                      /\ UNCHANGED count

-----------------------------------------------------------------------------
(* Everything a thread does that is not the decision to call.              *)
Proceed(t) == \/ CasSucceeds(t) \/ CasFails(t) \/ Release(t)
              \/ StopSucceeds(t) \/ StopAlreadyDone(t)

Next == \E t \in Threads : Load(t) \/ StopCall(t) \/ Proceed(t)

Spec == Init /\ [][Next]_vars

(* Threads are scheduled and handlers return; nobody is obliged to call.   *)
Fairness == \A t \in Threads : WF_vars(Proceed(t))

FairSpec == Spec /\ Fairness

-----------------------------------------------------------------------------
TypeOK == /\ count \in Int
          /\ pc \in [Threads -> {"ready", "cas", "spin"}]
          /\ expected \in [Threads -> Int]
          /\ holders \subseteq Threads
          /\ refused \subseteq Threads
          /\ stopped \subseteq Threads

(* The counter is exact at every instant, whatever interleaving of loads,  *)
(* exchanges and decrements produced it: it is the number of locks, or -1  *)
(* and then there is none.                                                 *)
CountExact == \/ count = Cardinality(holders)
              \/ count = -1 /\ holders = {}

(* The destructor's guarantee (utility.hpp:455): once any stop() has       *)
(* returned, no handler is inside the object, and none will be again.      *)
StoppedIsEmpty == stopped # {} => holders = {}

(* continue_lock() gives nullptr only to handlers of a stopped object.     *)
RefusedOnlyIfClosed == refused # {} => count = -1

(* The part of the state that CountExact forgets: a thread in the loop has *)
(* not got its lock yet and tries with a count it has really seen.         *)
CasPending == \A t \in Threads :
                pc[t] = "cas" => t \notin holders /\ expected[t] >= 0

StoppedIsClosed == stopped # {} => count = -1

IInv == /\ TypeOK
        /\ CountExact
        /\ CasPending
        /\ StoppedIsClosed
        /\ RefusedOnlyIfClosed

(* A handler that calls stop() on the runner whose lock it holds never     *)
(* returns from it: HTTP server and client destructors run from their own  *)
(* handlers hang (server_http.hpp:494-497, client_ws.hpp:338-341).         *)
SelfStopHangs == [][\A t \in holders : pc[t] = "spin" => pc'[t] = "spin"]_vars

(* stop() returns once handlers have ceased to arrive, provided no handler *)
(* is itself waiting in stop().  Without the first premise two handlers    *)
(* whose locks overlap for ever keep the counter above zero.               *)
Quiet == /\ \A t \in Threads : pc[t] # "cas"
         /\ \A t \in holders : pc[t] # "spin"

StopEventuallyReturns ==
  <>[]Quiet => \A t \in Threads : pc[t] = "spin" ~> pc[t] = "ready"

(* A handler caught in the loop of continue_lock() by a stop() is refused: *)
(* it neither spins for ever nor slips in.                                 *)
LateHandlerRefused ==
  \A t \in Threads : (count = -1 /\ pc[t] = "cas") ~> t \in refused

G == INSTANCE Gate WITH open <- count # -1

(* The counter implements the gate: every lock that is granted, refused,   *)
(* dropped or shut out is a step of the one-shot gate.                     *)
GateSpec == G!Spec
=============================================================================
