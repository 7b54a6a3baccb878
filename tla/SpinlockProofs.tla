--------------------------- MODULE SpinlockProofs ---------------------------
(***************************************************************************)
(* Proofs about Spinlock, for any set of processors and any depth of       *)
(* nested interrupts.                                                      *)
(***************************************************************************)
EXTENDS Spinlock, TLAPS

\* The inductive invariant: mutual exclusion alone is not inductive, since it
\* does not say that the lock byte is set while a context is in the section,
\* nor that the context that moves is the only active one of its processor.
IInv == TypeOK /\ NeverInterrupted /\ LockedIffHeld /\ MutualExclusion

LEMMA InitIInv == Init => IInv
BY NestAssumption
DEF Init, IInv, TypeOK, NeverInterrupted, LockedIffHeld, MutualExclusion,
    Holds, Levels, Labels

\* What the steps of one processor leave alone, and where its context goes.
LEMMA GotoEffect ==
  ASSUME TypeOK, NEW c \in Cpus, NEW l \in Labels, Goto(c, l)
  PROVE  /\ pc' \in [Cpus -> [Levels -> Labels]]
         /\ pc'[c][level[c]] = l
         /\ \A d \in Cpus, k \in Levels :
              d # c \/ k # level[c] => pc'[d][k] = pc[d][k]
BY DEF TypeOK, Goto

\* What the flag is after one processor has set or cleared its own.
LEMMA FlagEffect ==
  ASSUME TypeOK, NEW c \in Cpus, NEW b \in BOOLEAN, intr' = [intr EXCEPT ![c] = b]
  PROVE  /\ intr' \in [Cpus -> BOOLEAN]
         /\ intr'[c] = b
         /\ \A d \in Cpus : d # c => intr'[d] = intr[d]
<1>1. intr \in [Cpus -> BOOLEAN]
  BY DEF TypeOK
<1>2. intr' \in [Cpus -> BOOLEAN]
  BY <1>1, Zenon
<1>3. intr'[c] = b
  BY <1>1, Zenon
<1>4. \A d \in Cpus : d # c => intr'[d] = intr[d]
  BY <1>1, Zenon
<1> QED
  BY <1>2, <1>3, <1>4

\* A step that neither writes the byte nor moves a context into or out of the
\* section keeps the two facts that relate them.
LEMMA SectionUntouched ==
  ASSUME IInv, locked' = locked,
         \A c \in Cpus, l \in Levels : Holds(c, l)' <=> Holds(c, l)
  PROVE  LockedIffHeld' /\ MutualExclusion'
BY DEF IInv, LockedIffHeld, MutualExclusion

LEMMA NextIInv == IInv /\ [Next]_vars => IInv'
<1> SUFFICES ASSUME IInv, [Next]_vars
             PROVE  IInv'
  OBVIOUS
<1> USE DEF IInv
<1>1. ASSUME NEW c \in Cpus, Cli(c)
      PROVE  IInv'
  <2>1. /\ pc' \in [Cpus -> [Levels -> Labels]]
        /\ pc'[c][level[c]] = "test"
        /\ \A d \in Cpus, k \in Levels :
              d # c \/ k # level[c] => pc'[d][k] = pc[d][k]
    BY <1>1, GotoEffect DEF Cli, Labels
  <2>a. /\ intr' \in [Cpus -> BOOLEAN]
        /\ intr'[c] = FALSE
        /\ \A d \in Cpus : d # c => intr'[d] = intr[d]
    BY <1>1, FlagEffect DEF Cli
  <2>b. TypeOK'
    BY <1>1, <2>1, <2>a DEF Cli, TypeOK
  <2>c. NeverInterrupted'
    <3> SUFFICES ASSUME NEW d \in Cpus, NEW k \in Levels, pc'[d][k] # "idle"
                 PROVE  k = level'[d] /\ ~intr'[d]
      BY DEF NeverInterrupted
    <3>1. level' = level
      BY <1>1 DEF Cli
    <3>2. CASE d # c
      BY <2>1, <2>a, <3>1, <3>2 DEF NeverInterrupted
    <3>3. CASE d = c
      BY <2>1, <2>a, <3>1, <3>3, <1>1 DEF NeverInterrupted
    <3> QED
      BY <3>2, <3>3
  <2>2. TypeOK' /\ NeverInterrupted'
    BY <2>b, <2>c
  <2>3. \A d \in Cpus, k \in Levels : Holds(d, k)' <=> Holds(d, k)
    BY <1>1, <2>1 DEF Cli, At, Holds
  <2> QED
    BY <1>1, <2>2, <2>3, SectionUntouched DEF Cli
<1>2. ASSUME NEW c \in Cpus, Test(c)
      PROVE  IInv'
  <2>1. /\ pc' \in [Cpus -> [Levels -> Labels]]
        /\ pc'[c][level[c]] = "exchange"
        /\ \A d \in Cpus, k \in Levels :
              d # c \/ k # level[c] => pc'[d][k] = pc[d][k]
    BY <1>2, GotoEffect DEF Test, Labels
  <2>2. TypeOK' /\ NeverInterrupted'
    BY <1>2, <2>1 DEF Test, At, TypeOK, NeverInterrupted
  <2>3. \A d \in Cpus, k \in Levels : Holds(d, k)' <=> Holds(d, k)
    BY <1>2, <2>1 DEF Test, At, Holds
  <2> QED
    BY <1>2, <2>2, <2>3, SectionUntouched DEF Test
<1>3. ASSUME NEW c \in Cpus, Exchange(c)
      PROVE  IInv'
  <2> DEFINE to == IF locked = 0 THEN "critical" ELSE "test"
  <2>1. /\ pc' \in [Cpus -> [Levels -> Labels]]
        /\ pc'[c][level[c]] = to
        /\ \A d \in Cpus, k \in Levels :
              d # c \/ k # level[c] => pc'[d][k] = pc[d][k]
    BY <1>3, GotoEffect DEF Exchange, Labels
  <2>2. TypeOK' /\ NeverInterrupted'
    BY <1>3, <2>1 DEF Exchange, At, TypeOK, NeverInterrupted
  <2>3. CASE locked = 0
    <3>1. \A d \in Cpus, k \in Levels : ~Holds(d, k)
      BY <2>3 DEF LockedIffHeld
    <3> QED
      BY <1>3, <2>1, <2>2, <2>3, <3>1
      DEF Exchange, TypeOK, LockedIffHeld, MutualExclusion, Holds
  <2>4. CASE locked # 0
    <3>1. locked = 1 /\ locked' = 1
      BY <1>3, <2>4 DEF Exchange, TypeOK
    <3>2. \A d \in Cpus, k \in Levels : Holds(d, k)' <=> Holds(d, k)
      BY <1>3, <2>1, <2>4 DEF Exchange, At, Holds
    <3> QED
      BY <2>2, <3>1, <3>2 DEF LockedIffHeld, MutualExclusion
  <2> QED
    BY <2>3, <2>4
<1>4. ASSUME NEW c \in Cpus, Store(c)
      PROVE  IInv'
  <2>1. /\ pc' \in [Cpus -> [Levels -> Labels]]
        /\ pc'[c][level[c]] = "sti"
        /\ \A d \in Cpus, k \in Levels :
              d # c \/ k # level[c] => pc'[d][k] = pc[d][k]
    BY <1>4, GotoEffect DEF Store, Labels
  <2>2. TypeOK' /\ NeverInterrupted'
    BY <1>4, <2>1 DEF Store, At, TypeOK, NeverInterrupted
  <2>3. level[c] \in Levels /\ Holds(c, level[c])
    BY <1>4 DEF Store, At, TypeOK, Holds
  <2>4. \A d \in Cpus, k \in Levels : ~Holds(d, k)'
    BY <2>1, <2>3 DEF MutualExclusion, Holds
  <2> QED
    BY <1>4, <2>2, <2>4 DEF Store, LockedIffHeld, MutualExclusion
<1>5. ASSUME NEW c \in Cpus, Sti(c)
      PROVE  IInv'
  <2>1. /\ pc' \in [Cpus -> [Levels -> Labels]]
        /\ pc'[c][level[c]] = "idle"
        /\ \A d \in Cpus, k \in Levels :
              d # c \/ k # level[c] => pc'[d][k] = pc[d][k]
    BY <1>5, GotoEffect DEF Sti, Labels
  <2>a. /\ intr' \in [Cpus -> BOOLEAN]
        /\ intr'[c] = TRUE
        /\ \A d \in Cpus : d # c => intr'[d] = intr[d]
    BY <1>5, FlagEffect DEF Sti
  <2>b. TypeOK'
    BY <1>5, <2>1, <2>a DEF Sti, TypeOK
  <2>c. NeverInterrupted'
    <3> SUFFICES ASSUME NEW d \in Cpus, NEW k \in Levels, pc'[d][k] # "idle"
                 PROVE  k = level'[d] /\ ~intr'[d]
      BY DEF NeverInterrupted
    <3>1. level' = level
      BY <1>5 DEF Sti
    <3>2. CASE d # c
      BY <2>1, <2>a, <3>1, <3>2 DEF NeverInterrupted
    <3>3. CASE d = c
      BY <2>1, <3>3 DEF NeverInterrupted
    <3> QED
      BY <3>2, <3>3
  <2>2. TypeOK' /\ NeverInterrupted'
    BY <2>b, <2>c
  <2>3. \A d \in Cpus, k \in Levels : Holds(d, k)' <=> Holds(d, k)
    BY <1>5, <2>1 DEF Sti, At, Holds
  <2> QED
    BY <1>5, <2>2, <2>3, SectionUntouched DEF Sti
<1>6. ASSUME NEW c \in Cpus, Interrupt(c)
      PROVE  IInv'
  <2>1. level[c] + 1 \in Levels
    BY <1>6, NestAssumption DEF Interrupt, TypeOK, Levels
  <2>2. \A l \in Levels : pc[c][l] = "idle"
    BY <1>6 DEF Interrupt, NeverInterrupted
  <2>3. TypeOK' /\ NeverInterrupted'
    BY <1>6, <2>1, <2>2 DEF Interrupt, TypeOK, NeverInterrupted
  <2> QED
    BY <1>6, <2>3, SectionUntouched DEF Interrupt, Holds
<1>7. ASSUME NEW c \in Cpus, Iret(c)
      PROVE  IInv'
  <2>1. level[c] - 1 \in Levels
    BY <1>7, NestAssumption DEF Iret, TypeOK, Levels
  <2>2. \A l \in Levels : pc[c][l] = "idle"
    BY <1>7 DEF Iret, At, NeverInterrupted
  <2>3. TypeOK' /\ NeverInterrupted'
    BY <1>7, <2>1, <2>2 DEF Iret, TypeOK, NeverInterrupted
  <2> QED
    BY <1>7, <2>3, SectionUntouched DEF Iret, Holds
<1>8. CASE UNCHANGED vars
  BY <1>8 DEF vars, TypeOK, NeverInterrupted, LockedIffHeld, MutualExclusion, Holds
<1> QED
  BY <1>1, <1>2, <1>3, <1>4, <1>5, <1>6, <1>7, <1>8 DEF Next, Progress, Spin

LEMMA Invariance == Spec => []IInv
BY InitIInv, NextIInv, PTL DEF Spec

\* Every reachable state is well typed.
THEOREM TypeCorrect == Spec => []TypeOK
BY Invariance, PTL DEF IInv

\* The section between lock() and unlock() (spinlock.c:6-19) has at most one
\* context in it, whatever the number of processors.
THEOREM Exclusion == Spec => []MutualExclusion
BY Invariance, PTL DEF IInv

\* No handler runs on top of a context that spins for the lock or holds it:
\* cli before the loop (spinlock.c:7), sti after the store (spinlock.c:18).
THEOREM HolderRuns == Spec => []NeverInterrupted
BY Invariance, PTL DEF IInv

-----------------------------------------------------------------------------
(* The lock implements Mutex: the owner is the context in the section.     *)

LEMMA NobodyHolds == ASSUME Holders = {} PROVE Holder = Nobody
BY DEF Holder

LEMMA OneHolder == ASSUME NEW x \in Contexts, Holders = {x} PROVE Holder = x
BY DEF Holder

\* While the byte is clear nobody is in the section.
LEMMA FreeIsEmpty == ASSUME IInv, locked = 0 PROVE Holders = {}
BY DEF IInv, LockedIffHeld, Holders, Contexts

\* Who is in the section is alone in it.
LEMMA HolderIsAlone ==
  ASSUME IInv, NEW c \in Cpus, NEW l \in Levels, Holds(c, l)
  PROVE  Holders = {<<c, l>>}
<1>1. <<c, l>> \in Holders
  BY DEF Holders, Contexts
<1>2. \A x \in Holders : x = <<c, l>>
  <2> SUFFICES ASSUME NEW x \in Holders PROVE x = <<c, l>>
    OBVIOUS
  <2>1. PICK d \in Cpus, k \in Levels : x = <<d, k>>
    BY DEF Holders, Contexts
  <2>2. Holds(d, k)
    BY <2>1 DEF Holders
  <2> QED  BY <2>1, <2>2 DEF IInv, MutualExclusion
<1> QED  BY <1>1, <1>2

\* The same of the next state.
LEMMA NextHolder ==
  ASSUME IInv', NEW c \in Cpus, NEW l \in Levels, Holds(c, l)'
  PROVE  Holder' = <<c, l>>
<1>1. <<c, l>> \in Holders'
  BY DEF Holders, Contexts
<1>2. \A x \in Holders' : x = <<c, l>>
  <2> SUFFICES ASSUME NEW x \in Holders' PROVE x = <<c, l>>
    OBVIOUS
  <2>1. PICK d \in Cpus, k \in Levels : x = <<d, k>>
    BY DEF Holders, Contexts
  <2>2. Holds(d, k)'
    BY <2>1 DEF Holders
  <2> QED  BY <2>1, <2>2 DEF IInv, MutualExclusion
<1>3. Holders' = {<<c, l>>}
  BY <1>1, <1>2
<1> QED  BY <1>3 DEF Holder

LEMMA NextNobody ==
  ASSUME IInv', locked' = 0
  PROVE  Holder' = Nobody
<1>1. Holders' = {}
  BY DEF IInv, LockedIffHeld, Holders, Contexts
<1> QED  BY <1>1 DEF Holder

\* A step of a context between labels outside the section leaves the owner alone.
LEMMA OwnerStays ==
  ASSUME \A c \in Cpus, l \in Levels : Holds(c, l)' <=> Holds(c, l)
  PROVE  Holder' = Holder
<1>1. Holders' = Holders
  BY DEF Holders, Contexts
<1> QED  BY <1>1 DEF Holder

\* Every step takes a free lock, is the owner's release, or leaves the owner alone.
LEMMA StepIsMutexStep ==
  ASSUME IInv, IInv', [Next]_vars
  PROVE  [Abstract!Next]_Holder
<1> USE DEF Abstract!Next, Abstract!Acquire, Abstract!Release
<1>1. ASSUME NEW c \in Cpus, NEW from \in Labels \ {"critical"}, NEW to \in Labels \ {"critical"},
             At(c, from), Goto(c, to)
      PROVE  Holder' = Holder
  <2>1. \A d \in Cpus, k \in Levels : Holds(d, k)' <=> Holds(d, k)
    BY <1>1, GotoEffect DEF IInv, Holds, At
  <2> QED  BY <2>1, OwnerStays
<1>2. ASSUME NEW c \in Cpus, Exchange(c), locked = 0
      PROVE  Abstract!Next
  <2>1. PICK l \in Levels : l = level[c]
    BY DEF IInv, TypeOK
  <2>2. Holder = Nobody
    BY <1>2, FreeIsEmpty, NobodyHolds
  <2>3. Holds(c, l)'
    BY <1>2, <2>1, GotoEffect DEF IInv, Holds, Exchange, Labels
  <2>4. Holder' = <<c, l>>
    BY <2>3, NextHolder
  <2> QED  BY <2>1, <2>2, <2>4 DEF Contexts
<1>3. ASSUME NEW c \in Cpus, Store(c)
      PROVE  Abstract!Next
  <2>1. level[c] \in Levels /\ Holds(c, level[c])
    BY <1>3 DEF IInv, TypeOK, Store, At, Holds
  <2>2. Holder = <<c, level[c]>> /\ <<c, level[c]>> \in Contexts
    BY <2>1, HolderIsAlone, OneHolder DEF Contexts
  <2>3. Holder' = Nobody
    BY <1>3, NextNobody DEF Store
  <2> QED  BY <2>2, <2>3
<1>4. ASSUME NEW c \in Cpus, Cli(c) \/ Test(c) \/ Sti(c) \/ (Exchange(c) /\ locked # 0)
      PROVE  Holder' = Holder
  <2>1. PICK from \in Labels \ {"critical"}, to \in Labels \ {"critical"} : At(c, from) /\ Goto(c, to)
    <3>1. {"idle", "test", "exchange", "sti"} \subseteq Labels \ {"critical"}
      BY DEF Labels
    <3>2. CASE Cli(c)
      BY <3>1, <3>2 DEF Cli
    <3>3. CASE Test(c)
      BY <3>1, <3>3 DEF Test
    <3>4. CASE Sti(c)
      BY <3>1, <3>4 DEF Sti
    <3>5. CASE Exchange(c) /\ locked # 0
      BY <3>1, <3>5 DEF Exchange
    <3> QED  BY <1>4, <3>2, <3>3, <3>4, <3>5
  <2> QED  BY <2>1, <1>1
<1>5. ASSUME UNCHANGED pc
      PROVE  Holder' = Holder
  BY <1>5, OwnerStays DEF Holds
<1> QED
  BY <1>2, <1>3, <1>4, <1>5 DEF Next, Progress, Spin, Interrupt, Iret, vars

\* The spinlock hands its section over as Mutex does (spinlock.c:12, 17), whatever the
\* processors and however deep their handlers nest.
THEOREM RefinesMutex == Spec => ImplementsMutex
<1>1. Init => Abstract!Init
  <2> SUFFICES ASSUME Init PROVE Holder = Nobody
    BY DEF Abstract!Init
  <2>1. Holders = {}
    BY DEF Init, Holders, Holds, Contexts
  <2> QED  BY <2>1, NobodyHolds
<1>2. IInv /\ IInv' /\ [Next]_vars => [Abstract!Next]_Holder
  BY StepIsMutexStep
<1> QED  BY <1>1, <1>2, Invariance, PTL DEF Spec, ImplementsMutex, Abstract!Spec
=============================================================================
