------------------------------ MODULE Spinlock ------------------------------
(***************************************************************************)
(* kernel/misc/spinlock.c: the test-and-test-and-set lock, with the        *)
(* interrupt flag it manipulates.                                          *)
(*                                                                         *)
(* A caller is a context of a CPU: level 1 is the code that runs with      *)
(* interrupts enabled, level k+1 an interrupt handler that interrupted     *)
(* level k.  Every level may take the lock, as the timer handler does      *)
(* (KernelSwitchProcess), so a lock that could be interrupted while held   *)
(* would spin against itself.                                              *)
(***************************************************************************)
EXTENDS Naturals

CONSTANTS
  Cpus,       \* the processors that share the lock
  MaxNest     \* BOUND: levels of nested interrupts explored per processor

ASSUME NestAssumption == MaxNest \in Nat \ {0}

VARIABLES
  locked,     \* the lock byte: lock->lock
  intr,       \* intr[c]: RFLAGS.IF of processor c
  level,      \* level[c]: the context processor c executes
  pc          \* pc[c][l]: where context l of processor c is

vars == <<locked, intr, level, pc>>

Levels == 1..MaxNest

\* Goto(c, l): the context that processor c executes moves on to label l.
Goto(c, l) == pc' = [pc EXCEPT ![c][level[c]] = l]
At(c, l) == pc[c][level[c]] = l

Init ==
  /\ locked = 0
  /\ intr = [c \in Cpus |-> TRUE]
  /\ level = [c \in Cpus |-> 1]
  /\ pc = [c \in Cpus |-> [l \in Levels |-> "idle"]]

-----------------------------------------------------------------------------
(* lock()                                                                  *)

CliMissing(c) ==
  /\ At(c, "idle")
  /\ Goto(c, "test")
  /\ UNCHANGED <<locked, intr, level>>

Cli(c) ==
  /\ At(c, "idle")
  /\ intr' = [intr EXCEPT ![c] = FALSE]
  /\ Goto(c, "test")
  /\ UNCHANGED <<locked, level>>

\* while(atomic_load(&lock->lock)) pause;
Spin(c) ==
  /\ At(c, "test")
  /\ locked # 0
  /\ UNCHANGED vars

Test(c) ==
  /\ At(c, "test")
  /\ locked = 0
  /\ Goto(c, "exchange")
  /\ UNCHANGED <<locked, intr, level>>

ExchangeIgnored(c) ==
  /\ At(c, "exchange")
  /\ locked' = 1
  /\ Goto(c, "critical")
  /\ UNCHANGED <<intr, level>>

\* if(!__atomic_exchange_n(&lock->lock, 1, __ATOMIC_ACQUIRE)) break;
Exchange(c) ==
  /\ At(c, "exchange")
  /\ locked' = 1
  /\ Goto(c, IF locked = 0 THEN "critical" ELSE "test")
  /\ UNCHANGED <<intr, level>>

-----------------------------------------------------------------------------
(* unlock(): the byte is cleared first, then interrupts are enabled,       *)
(* whatever the flag was when lock() was called.                           *)

StoreMissing(c) ==
  /\ At(c, "critical")
  /\ Goto(c, "sti")
  /\ UNCHANGED <<locked, intr, level>>

Store(c) ==
  /\ At(c, "critical")
  /\ locked' = 0
  /\ Goto(c, "sti")
  /\ UNCHANGED <<intr, level>>

Sti(c) ==
  /\ At(c, "sti")
  /\ intr' = [intr EXCEPT ![c] = TRUE]
  /\ Goto(c, "idle")
  /\ UNCHANGED <<locked, level>>

-----------------------------------------------------------------------------
(* The hardware: every vector is an interrupt gate (type 0x8E), so the     *)
(* handler starts with the flag cleared and iretq restores it.             *)

Interrupt(c) ==
  /\ intr[c]
  /\ level[c] < MaxNest
  /\ intr' = [intr EXCEPT ![c] = FALSE]
  /\ level' = [level EXCEPT ![c] = @ + 1]
  /\ UNCHANGED <<locked, pc>>

Iret(c) ==
  /\ At(c, "idle")
  /\ level[c] > 1
  /\ intr' = [intr EXCEPT ![c] = TRUE]
  /\ level' = [level EXCEPT ![c] = @ - 1]
  /\ UNCHANGED <<locked, pc>>

-----------------------------------------------------------------------------
\* The steps the processor takes by itself once it has called lock().
Progress(c) == Test(c) \/ Exchange(c) \/ Store(c) \/ Sti(c)

Next == \E c \in Cpus : Cli(c) \/ Spin(c) \/ Progress(c) \/ Interrupt(c) \/ Iret(c)

\* A processor keeps executing, and a handler that is done returns: nothing in
\* the code blocks it.  Interrupts arrive or not: no fairness.
Fairness == \A c \in Cpus : WF_vars(Progress(c)) /\ WF_vars(Iret(c))

Spec == Init /\ [][Next]_vars

FairSpec == Spec /\ Fairness

-----------------------------------------------------------------------------
Labels == {"idle", "test", "exchange", "critical", "sti"}

TypeOK ==
  /\ locked \in {0, 1}
  /\ intr \in [Cpus -> BOOLEAN]
  /\ level \in [Cpus -> Levels]
  /\ pc \in [Cpus -> [Levels -> Labels]]

Holds(c, l) == pc[c][l] = "critical"

\* Between lock() and unlock() no other context, on this processor or another,
\* is in the same section (spinlock.c:6-14).
MutualExclusion ==
  \A c, d \in Cpus, k, l \in Levels :
    Holds(c, k) /\ Holds(d, l) => c = d /\ k = l

\* A context that is spinning for the lock or holds it is the one its
\* processor executes, with interrupts off: no handler can come on top of it
\* and spin for a lock that only the interrupted context can release.
NeverInterrupted ==
  \A c \in Cpus, l \in Levels :
    pc[c][l] # "idle" => l = level[c] /\ ~intr[c]

\* Strengthening used by the proof: the byte says exactly whether some
\* context is in the section.
LockedIffHeld == locked = 1 <=> \E c \in Cpus, l \in Levels : Holds(c, l)

\* A lock that is held is released again: the holder cannot be stopped on the
\* way by an interrupt handler of its own processor that wants the lock.
EventuallyReleased == locked = 1 ~> locked = 0

\* The section is handed over as an abstract lock does: a context takes it only
\* when it is free, and only the holder gives it back (spinlock.c:12, 17).
Contexts == Cpus \X Levels
Nobody == <<0, 0>>
Holders == {x \in Contexts : Holds(x[1], x[2])}
Holder == IF Holders = {} THEN Nobody ELSE CHOOSE x \in Holders : TRUE
Abstract == INSTANCE Mutex WITH Owners <- Contexts, Free <- Nobody, owner <- Holder
ImplementsMutex == Abstract!Spec
=============================================================================
