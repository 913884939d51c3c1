-------------------------- MODULE ScopeRunnerProofs --------------------------
(***************************************************************************)
(* Proofs about ScopeRunner, for every finite set of threads: IInv is an   *)
(* inductive invariant, from which follow the exactness of the counter,    *)
(* the emptiness of a stopped runner, the hang of a handler that stops its *)
(* own runner, and the refinement of Gate.                                 *)
(***************************************************************************)
EXTENDS ScopeRunner, FiniteSetTheorems, TLAPS

(* Counting locks: a subset of the threads is finite, and taking or        *)
(* dropping one lock moves its cardinality by one.                         *)
LEMMA HoldersFinite ==
  ASSUME NEW S \in SUBSET Threads
  PROVE  IsFiniteSet(S) /\ Cardinality(S) \in Nat
  BY ThreadsAssumption, FS_Subset, FS_CardinalityType

LEMMA OneMoreHolder ==
  ASSUME NEW S \in SUBSET Threads, NEW t \in Threads, t \notin S
  PROVE  Cardinality(S \cup {t}) = Cardinality(S) + 1
  BY HoldersFinite, FS_AddElement

LEMMA OneHolderLess ==
  ASSUME NEW S \in SUBSET Threads, NEW t \in S
  PROVE  Cardinality(S \ {t}) = Cardinality(S) - 1
  BY HoldersFinite, FS_RemoveElement

(* A counter of zero or below leaves nobody inside.                        *)
LEMMA NoCountNoHolder ==
  ASSUME TypeOK, CountExact, count <= 0
  PROVE  holders = {}
<1>1. IsFiniteSet(holders) /\ Cardinality(holders) \in Nat
  BY HoldersFinite DEF TypeOK
<1>2. CASE count = -1 /\ holders = {}
  BY <1>2
<1>3. CASE count = Cardinality(holders)
  <2>1. Cardinality(holders) = 0
    BY <1>1, <1>3
  <2> QED
    BY <1>1, <2>1, FS_EmptySet
<1> QED
  BY <1>2, <1>3 DEF CountExact

-----------------------------------------------------------------------------
(* The constructor establishes the invariant. *)
LEMMA InitIInv == Init => IInv
<1> SUFFICES ASSUME Init PROVE IInv
  OBVIOUS
<1>1. CountExact
  BY FS_EmptySet DEF Init, CountExact
<1> QED
  BY <1>1 DEF Init, IInv, TypeOK, CasPending, StoppedIsClosed,
              RefusedOnlyIfClosed

(* Reading the counter, at the head of continue_lock() or after a failed   *)
(* exchange.                                                               *)
LEMMA ObserveKeepsIInv ==
  ASSUME IInv, NEW t \in Threads, t \notin holders, Observe(t)
  PROVE  IInv'
<1> USE DEF IInv, Observe, Goto
<1>1. TypeOK'
  BY DEF TypeOK
<1>2. CountExact'
  BY DEF CountExact
<1>3. CasPending'
  BY DEF TypeOK, CasPending
<1>4. StoppedIsClosed' 
  BY DEF StoppedIsClosed
<1>5. RefusedOnlyIfClosed'
  <2>1. CASE count >= 0
    BY <2>1 DEF RefusedOnlyIfClosed
  <2>2. CASE ~(count >= 0)
    <3>1. count = -1
      BY <2>2, HoldersFinite DEF TypeOK, CountExact
    <3> QED
      BY <3>1 DEF RefusedOnlyIfClosed
  <2> QED
    BY <2>1, <2>2
<1> QED
  BY <1>1, <1>2, <1>3, <1>4, <1>5

(* Every step keeps the invariant. *)
LEMMA NextIInv == IInv /\ [Next]_vars => IInv'
<1> SUFFICES ASSUME IInv, [Next]_vars PROVE IInv'
  OBVIOUS
<1>0. CASE UNCHANGED vars
  BY <1>0 DEF vars, IInv, TypeOK, CountExact, CasPending, StoppedIsClosed,
              RefusedOnlyIfClosed
<1>1. ASSUME NEW t \in Threads, Load(t) PROVE IInv'
  BY <1>1, ObserveKeepsIInv DEF Load
<1>2. ASSUME NEW t \in Threads, CasSucceeds(t) PROVE IInv'
  <2> USE <1>2 DEF IInv, CasSucceeds, Goto
  <2>1. t \notin holders /\ count >= 0 /\ count \in Int
    BY DEF TypeOK, CasPending
  <2>2. TypeOK'
    BY DEF TypeOK
  <2>3. CountExact'
    <3>1. Cardinality(holders') = Cardinality(holders) + 1
      BY <2>1, OneMoreHolder DEF TypeOK
    <3> QED
      BY <2>1, <3>1 DEF CountExact
  <2>4. CasPending'
    BY DEF TypeOK, CasPending
  <2>5. stopped = {} /\ refused = {}
    BY <2>1 DEF StoppedIsClosed, RefusedOnlyIfClosed
  <2> QED
    BY <2>2, <2>3, <2>4, <2>5 DEF StoppedIsClosed, RefusedOnlyIfClosed
<1>3. ASSUME NEW t \in Threads, CasFails(t) PROVE IInv'
  BY <1>3, ObserveKeepsIInv DEF CasFails, IInv, CasPending
<1>4. ASSUME NEW t \in Threads, Release(t) PROVE IInv'
  <2> USE <1>4 DEF IInv, Release
  <2>1. Cardinality(holders') = Cardinality(holders) - 1
    BY OneHolderLess DEF TypeOK
  <2>2. count = Cardinality(holders) /\ count \in Nat
    BY HoldersFinite DEF TypeOK, CountExact
  <2>3. TypeOK'
    BY DEF TypeOK
  <2>4. CountExact'
    BY <2>1, <2>2 DEF CountExact
  <2>5. CasPending'
    BY DEF CasPending
  <2>6. stopped = {} /\ refused = {}
    BY <2>2 DEF StoppedIsClosed, RefusedOnlyIfClosed
  <2> QED
    BY <2>3, <2>4, <2>5, <2>6 DEF StoppedIsClosed, RefusedOnlyIfClosed
<1>5. ASSUME NEW t \in Threads, StopCall(t) PROVE IInv'
  <2> USE <1>5 DEF IInv, StopCall, Goto
  <2>1. TypeOK'
    BY DEF TypeOK
  <2>2. CasPending'
    BY DEF TypeOK, CasPending
  <2> QED
    BY <2>1, <2>2 DEF CountExact, StoppedIsClosed, RefusedOnlyIfClosed
<1>6. ASSUME NEW t \in Threads, StopSucceeds(t) PROVE IInv'
  <2> USE <1>6 DEF IInv, StopSucceeds, StopReturns, Goto
  <2>1. holders = {}
    BY NoCountNoHolder
  <2>2. TypeOK'
    BY DEF TypeOK
  <2>3. CasPending'
    BY DEF TypeOK, CasPending
  <2> QED
    BY <2>1, <2>2, <2>3 DEF CountExact, StoppedIsClosed, RefusedOnlyIfClosed
<1>7. ASSUME NEW t \in Threads, StopAlreadyDone(t) PROVE IInv'
  <2> USE <1>7 DEF IInv, StopAlreadyDone, StopReturns, Goto
  <2>1. count = -1
    BY HoldersFinite DEF TypeOK, CountExact
  <2>2. TypeOK'
    BY DEF TypeOK
  <2>3. CasPending'
    BY DEF TypeOK, CasPending
  <2> QED
    BY <2>1, <2>2, <2>3 DEF CountExact, StoppedIsClosed, RefusedOnlyIfClosed
<1> QED
  BY <1>0, <1>1, <1>2, <1>3, <1>4, <1>5, <1>6, <1>7 DEF Next, Proceed

(* The counter of continue_lock()/~SharedLock()/stop() is exact in every   *)
(* reachable state, and with it everything else IInv says.                 *)
THEOREM Invariance == Spec => []IInv
  BY InitIInv, NextIInv, PTL DEF Spec

(* No handler is inside, nor ever will be, once a stop() has returned.     *)
THEOREM StoppedMeansEmpty == Spec => []StoppedIsEmpty
<1>1. IInv => StoppedIsEmpty
  BY NoCountNoHolder DEF IInv, StoppedIsClosed, StoppedIsEmpty
<1> QED
  BY <1>1, Invariance, PTL

(* A handler that stops the runner whose lock it holds never returns.      *)
THEOREM SelfStopNeverReturns == Spec => SelfStopHangs
<1>1. IInv /\ [Next]_vars
        => [\A t \in holders : pc[t] = "spin" => pc'[t] = "spin"]_vars
  <2> SUFFICES ASSUME IInv, Next, NEW t \in holders, pc[t] = "spin"
               PROVE  pc'[t] = "spin"
    OBVIOUS
  <2>1. t \in Threads /\ pc \in [Threads -> {"ready", "cas", "spin"}]
    BY DEF IInv, TypeOK
  <2>2. ~(count <= 0) /\ count \in Int
    BY NoCountNoHolder DEF IInv, TypeOK
  <2>3. PICK u \in Threads : Load(u) \/ StopCall(u) \/ Proceed(u)
    BY DEF Next
  <2>4. ~StopSucceeds(u) /\ ~StopAlreadyDone(u)
    BY <2>2 DEF StopSucceeds, StopAlreadyDone
  <2>5. CASE Release(u)
    BY <2>5 DEF Release
  <2>6. CASE Load(u) \/ StopCall(u) \/ CasSucceeds(u) \/ CasFails(u)
    <3>1. u # t
      BY <2>6 DEF Load, StopCall, CasSucceeds, CasFails
    <3>2. \E l : pc' = [pc EXCEPT ![u] = l]
      BY <2>6 DEF Load, StopCall, CasSucceeds, CasFails, Observe, Goto
    <3> QED
      BY <2>1, <3>1, <3>2
  <2> QED
    BY <2>3, <2>4, <2>5, <2>6 DEF Proceed
<1> QED
  BY <1>1, Invariance, PTL DEF Spec, SelfStopHangs

-----------------------------------------------------------------------------
(* Refinement: initial states map to initial states ... *)
LEMMA InitGate == Init => G!Init
  BY DEF Init, G!Init

(* ... and every step to a step of the gate or a stutter. *)
LEMMA StepGate == IInv /\ [Next]_vars => [G!Next]_(G!vars)
<1> SUFFICES ASSUME IInv, [Next]_vars PROVE [G!Next]_(G!vars)
  OBVIOUS
<1> USE DEF G!vars
<1>0. CASE UNCHANGED vars
  BY <1>0 DEF vars
<1>a. ASSUME NEW t \in Threads, t \notin holders, Observe(t)
      PROVE  G!Refuse(t) \/ UNCHANGED G!vars
  <2>1. CASE count >= 0
    BY <1>a, <2>1 DEF Observe
  <2>2. CASE ~(count >= 0)
    <3>1. count = -1
      BY <2>2, HoldersFinite DEF IInv, TypeOK, CountExact
    <3> QED
      BY <1>a, <2>2, <3>1 DEF Observe, G!Refuse
  <2> QED
    BY <2>1, <2>2
<1>1. ASSUME NEW t \in Threads, Load(t) PROVE G!Refuse(t) \/ UNCHANGED G!vars
  BY <1>1, <1>a DEF Load
<1>2. ASSUME NEW t \in Threads, CasSucceeds(t) PROVE G!Enter(t)
  BY <1>2 DEF CasSucceeds, G!Enter, IInv, TypeOK, CasPending
<1>3. ASSUME NEW t \in Threads, CasFails(t)
      PROVE  G!Refuse(t) \/ UNCHANGED G!vars
  BY <1>3, <1>a DEF CasFails, IInv, CasPending
<1>4. ASSUME NEW t \in Threads, Release(t) PROVE G!Leave(t)
  <2>1. count = Cardinality(holders) /\ count \in Nat /\ count # 0
    <3>1. count = Cardinality(holders) /\ count \in Nat
      BY <1>4, HoldersFinite DEF IInv, TypeOK, CountExact, Release
    <3>2. ~(count <= 0)
      BY <1>4, NoCountNoHolder DEF IInv, Release
    <3> QED
      BY <3>1, <3>2
  <2> QED
    BY <1>4, <2>1 DEF Release, G!Leave
<1>5. ASSUME NEW t \in Threads, StopCall(t) PROVE UNCHANGED G!vars
  BY <1>5 DEF StopCall
<1>6. ASSUME NEW t \in Threads, StopSucceeds(t) PROVE G!Close
  BY <1>6, NoCountNoHolder DEF IInv, StopSucceeds, StopReturns, G!Close
<1>7. ASSUME NEW t \in Threads, StopAlreadyDone(t) PROVE UNCHANGED G!vars
  BY <1>7 DEF StopAlreadyDone, StopReturns
<1> QED
  BY <1>0, <1>1, <1>2, <1>3, <1>4, <1>5, <1>6, <1>7
     DEF Next, Proceed, G!Next

(* The atomic counter implements the one-shot gate. *)
THEOREM ImplementsGate == Spec => GateSpec
  BY InitGate, StepGate, Invariance, PTL DEF Spec, GateSpec, G!Spec
=============================================================================
