-------------------------------- MODULE Gate --------------------------------
(***************************************************************************)
(* What SimpleWeb::ScopeRunner (src/common/utility.hpp) promises, without  *)
(* its atomic counter: a gate that asynchronous handlers pass before they  *)
(* touch a server or client object, and that is shut for good by whoever   *)
(* destroys that object.                                                   *)
(*                                                                         *)
(*   open     no stop() has succeeded yet                                  *)
(*   holders  the threads that own a SharedLock                            *)
(*   refused  the threads whose latest continue_lock() gave nullptr        *)
(***************************************************************************)
CONSTANT Threads

VARIABLES open, holders, refused

vars == <<open, holders, refused>>

Init == /\ open = TRUE
        /\ holders = {}
        /\ refused = {}

(* continue_lock() returns a lock. *)
Enter(t) == /\ open
            /\ t \notin holders
            /\ holders' = holders \cup {t}
            /\ refused' = refused \ {t}
            /\ UNCHANGED open

(* continue_lock() returns nullptr. *)
Refuse(t) == /\ ~open
             /\ t \notin holders
             /\ refused' = refused \cup {t}
             /\ UNCHANGED <<open, holders>>

(* The SharedLock is destroyed. *)
Leave(t) == /\ t \in holders
            /\ holders' = holders \ {t}
            /\ UNCHANGED <<open, refused>>

(* stop() succeeds: only an empty gate can be shut. *)
Close == /\ open
         /\ holders = {}
         /\ open' = FALSE
         /\ UNCHANGED <<holders, refused>>

Next == \/ \E t \in Threads : Enter(t) \/ Refuse(t) \/ Leave(t)
        \/ Close

Spec == Init /\ [][Next]_vars
=============================================================================
