------------------------------- MODULE Mutex -------------------------------
(***************************************************************************)
(* What a lock promises, whatever implements it: at most one owner at a    *)
(* time, a free lock is the only one that can be taken, and only its owner *)
(* gives it back.  Free is not an owner.  Module Spinlock implements it.   *)
(***************************************************************************)
CONSTANTS Owners, Free

VARIABLE owner

Init == owner = Free

Acquire(o) == owner = Free /\ owner' = o

Release(o) == owner = o /\ owner' = Free

Next == \E o \in Owners : Acquire(o) \/ Release(o)

Spec == Init /\ [][Next]_owner
=============================================================================
