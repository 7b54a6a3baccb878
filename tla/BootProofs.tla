------------------------------ MODULE BootProofs ------------------------------
(***************************************************************************)
(* The safety of what runs while the machine starts.  SmpBoot, for a MADT  *)
(* of any length, any number of names looked up, and any set of processors *)
(* that answer; Init, Next and Spec are its.  Then the walk of Pci, for    *)
(* any number of busses, slots and functions.                              *)
(***************************************************************************)
EXTENDS SmpBoot, Pci, FiniteSetTheorems, NaturalsInduction, WellFoundedInduction, TLAPS

Off == "off"
Alone == {"trampoline", "gdt", "print", "signal"}
HasStack == {"gdt", "print", "signal", "halt"}
LoadedTss == {"print", "signal", "halt"}
Rounds == {"store", "clear", "ipi", "spin"}

Types ==
  /\ madt \in Seq(Kinds) /\ processor_count \in Nat
  /\ processor_count + Len(madt) <= MaxEntries
  /\ alive \subseteq Names
  /\ i \in 2..(LastIndex + 1) /\ wait \in {0, 1}
  /\ stack_pointer \in Nat /\ mapped \in BOOLEAN /\ rsp0 \in Nat
  /\ bsp \in {"parse", "unmap", "done"} \cup Rounds
  /\ ap \in [Names -> {Off, "fault", "halt"} \cup Alone]
  /\ rsp \in [Names -> Nat]

\* Where the bootstrap processor is says what it has prepared.
Prepared ==
  /\ bsp = "parse" => i = 2 /\ wait = 0 /\ rsp0 = Boot
  /\ bsp \in Rounds => mapped /\ i <= LastIndex
  /\ bsp \in {"unmap", "done"} => i = LastIndex + 1
  /\ bsp \in {"clear", "ipi"} => i <= processor_count
  /\ bsp \in {"clear", "ipi", "spin"} => stack_pointer = i
  /\ bsp = "ipi" => wait = 0

\* The processors of earlier rounds are halted, those of later rounds are off, and
\* in between there is at most the one of this round, for which wait is clear.
OneRound ==
  \A p \in Names :
    /\ p < i /\ Boot < p /\ p <= processor_count => ap[p] = "halt"
    /\ p < i /\ (p = Boot \/ processor_count < p) => ap[p] = Off
    /\ p > i => ap[p] = Off
    /\ p = i /\ (bsp # "spin" \/ processor_count < p) => ap[p] = Off
    /\ p = i /\ bsp = "spin" /\ p <= processor_count =>
         /\ ap[p] \in {Off, "halt"} \cup Alone
         /\ wait = 1 => ap[p] = "halt"

\* A round is left only by an answer, so there is a second processor from then on.
Answered == wait = 1 \/ i > 2 => 2 <= processor_count

\* Each processor that has fetched a stack has its own; the TSS has the stack of the
\* last one that filled it in.
Stacks ==
  /\ \A p \in Names : rsp[p] = IF ap[p] \in HasStack THEN p ELSE None
  /\ rsp0 = Boot \/ (rsp0 \in Names /\ ap[rsp0] \in LoadedTss)
  /\ \A p \in Names : ap[p] \in LoadedTss => p <= rsp0

IInv == Types /\ Prepared /\ OneRound /\ Answered /\ Stacks

-----------------------------------------------------------------------------
LEMMA Initially == Init => IInv
<1> SUFFICES ASSUME Init PROVE IInv
  OBVIOUS
<1>1. madt \in Seq(Kinds) /\ Len(madt) <= MaxEntries
  BY SmpAssumption DEF Init, Tables
<1>2. Types
  <2>1. mapped \in BOOLEAN /\ bsp = "parse"
    BY Zenon DEF Init
  <2>2. ap \in [Names -> {Off, "fault", "halt"} \cup Alone] /\ rsp \in [Names -> Nat]
    BY DEF Init, Off, None
  <2>3. alive \subseteq Names /\ processor_count = 0 /\ wait = 0 /\ i = 2
    BY DEF Init
  <2>4. stack_pointer \in Nat /\ rsp0 \in Nat /\ i \in 2..(LastIndex + 1)
    BY <2>3, SmpAssumption DEF Init, None, Boot
  <2> QED  BY <1>1, <2>1, <2>2, <2>3, <2>4 DEF Types
<1>3. Prepared /\ OneRound /\ Answered
  BY SmpAssumption DEF Init, Prepared, OneRound, Answered, Rounds, Off, Names, Boot
<1>4. Stacks
  BY DEF Init, Stacks, HasStack, LoadedTss
<1> QED  BY <1>2, <1>3, <1>4 DEF IInv

\* The processor that executes kernel code is the one of this round.
LEMMA TheOneThatRuns ==
  ASSUME IInv, NEW p \in Names, ap[p] \in Alone
  PROVE  /\ p = i /\ 2 <= p /\ p <= processor_count /\ bsp = "spin"
         /\ wait = 0 /\ mapped /\ stack_pointer = p
<1>1. p \in Nat /\ i \in Nat /\ processor_count \in Nat /\ 2 <= i
  BY SmpAssumption DEF IInv, Types, Names
<1>2. ap[p] # Off /\ ap[p] # "halt"
  BY DEF Alone, Off
<1>3. p = i /\ bsp = "spin" /\ p <= processor_count
  BY <1>1, <1>2, SmpAssumption DEF IInv, OneRound, Boot, Names
<1> QED
  BY <1>1, <1>2, <1>3 DEF IInv, OneRound, Types, Prepared, Rounds

-----------------------------------------------------------------------------
(* The steps of the bootstrap processor.                                   *)

LEMMA ParseEntryKeeps == ASSUME IInv, ParseEntry PROVE IInv'
<1>1. /\ madt' \in Seq(Kinds) /\ Len(madt') = Len(madt) - 1
      /\ processor_count' \in {processor_count, processor_count + 1}
  BY DEF IInv, Types, ParseEntry
<1>2. Types'
  BY <1>1, SmpAssumption DEF IInv, Types, ParseEntry
<1>3. Prepared'
  BY DEF IInv, Prepared, ParseEntry, Rounds
<1>4. OneRound'
  BY DEF IInv, Types, Prepared, OneRound, ParseEntry, Boot, Names
<1>5. Answered' /\ Stacks'
  BY DEF IInv, Prepared, Answered, Stacks, ParseEntry
<1> QED  BY <1>2, <1>3, <1>4, <1>5 DEF IInv

LEMMA CopyTrampolineKeeps == ASSUME IInv, CopyTrampoline PROVE IInv'
<1> USE DEF CopyTrampoline, IInv
<1>1. Types'
  BY DEF Types, Rounds
<1>2. Prepared'
  BY SmpAssumption DEF Prepared, Rounds
<1>3. OneRound'
  BY DEF Types, OneRound
<1>4. Answered' /\ Stacks'
  BY DEF Answered, Stacks
<1> QED  BY <1>1, <1>2, <1>3, <1>4

LEMMA StoreStackKeeps == ASSUME IInv, StoreStack PROVE IInv'
<1> USE DEF StoreStack, IInv
<1>1. Types'
  BY SmpAssumption DEF Types, Rounds
<1>2. Prepared'
  BY DEF Prepared, Rounds
<1>3. OneRound'
  BY DEF Types, OneRound, Names
<1>4. Answered' /\ Stacks'
  BY DEF Answered, Stacks
<1> QED  BY <1>1, <1>2, <1>3, <1>4

LEMMA ClearWaitKeeps == ASSUME IInv, ClearWait PROVE IInv'
<1> USE DEF ClearWait, IInv
<1>1. Types'
  BY DEF Types, Rounds
<1>2. Prepared'
  BY DEF Prepared, Rounds
<1>3. OneRound'
  BY DEF OneRound
<1>4. Answered' /\ Stacks'
  BY DEF Answered, Stacks
<1> QED  BY <1>1, <1>2, <1>3, <1>4

LEMMA SendIpiKeeps == ASSUME IInv, SendIpi PROVE IInv'
<1>1. /\ i \in Names /\ i <= processor_count /\ ap[i] = Off /\ wait = 0
      /\ i \in Nat /\ i >= 2 /\ processor_count \in Nat
  BY SmpAssumption DEF IInv, Types, Prepared, OneRound, SendIpi, Names
<1>2. /\ ap' \in [Names -> {Off, "fault", "halt"} \cup Alone]
      /\ \A p \in Names : p # i => ap'[p] = ap[p]
      /\ ap'[i] \in {Off, "trampoline"}
  BY <1>1 DEF IInv, Types, SendIpi, Alone
<1>3. Types'
  BY <1>2 DEF IInv, Types, SendIpi, Rounds
<1>4. Prepared'
  BY DEF IInv, Prepared, SendIpi, Rounds
<1>5. OneRound'
  BY <1>1, <1>2 DEF IInv, OneRound, SendIpi, Alone, Names
<1>6. Answered'
  BY DEF IInv, Answered, SendIpi
<1>7. Stacks'
  BY <1>1, <1>2 DEF IInv, Stacks, SendIpi, HasStack, LoadedTss, Off
<1> QED  BY <1>3, <1>4, <1>5, <1>6, <1>7 DEF IInv

LEMMA SpinKeeps == ASSUME IInv, Spin PROVE IInv'
<1>1. /\ wait = 1 /\ i \in Nat /\ 2 <= i /\ i <= LastIndex /\ i' = i + 1 /\ bsp' # "spin"
      /\ processor_count \in Nat /\ bsp' = IF i < LastIndex THEN "store" ELSE "unmap"
  BY SmpAssumption DEF IInv, Types, Prepared, Spin, Rounds
<1>2. Types'
  BY <1>1, SmpAssumption DEF IInv, Types, Spin, Rounds
<1>3. Prepared'
  BY <1>1, SmpAssumption DEF IInv, Prepared, Spin, Rounds
<1>4. OneRound'
  BY <1>1 DEF IInv, OneRound, Spin, Names, Boot
<1>5. Answered' /\ Stacks'
  BY <1>1 DEF IInv, Answered, Stacks, Spin
<1> QED  BY <1>2, <1>3, <1>4, <1>5 DEF IInv

LEMMA UnmapTrampolineKeeps == ASSUME IInv, UnmapTrampoline PROVE IInv'
<1> USE DEF UnmapTrampoline, IInv
<1>1. Types'
  BY Zenon DEF Types, Rounds
<1>2. Prepared'
  BY DEF Prepared, Rounds
<1>3. OneRound'
  BY DEF OneRound
<1>4. Answered' /\ Stacks'
  BY DEF Answered, Stacks
<1> QED  BY <1>1, <1>2, <1>3, <1>4

-----------------------------------------------------------------------------
(* The steps of the others: ap[p] goes from one place to the next.         *)

Moves(p, to) ==
  /\ ap[p] \in Alone /\ ap' = [ap EXCEPT ![p] = to]
  /\ UNCHANGED <<madt, processor_count, alive, i, stack_pointer, mapped, bsp>>

\* Within the round, a step of its processor up to its answer disturbs nobody.
LEMMA MoveKeeps ==
  ASSUME IInv, NEW p \in Names, NEW to \in Alone \cup {"halt"}, Moves(p, to),
         wait' = IF to = "halt" THEN 1 ELSE wait
  PROVE  /\ Prepared' /\ OneRound' /\ Answered'
         /\ rsp' \in [Names -> Nat] /\ rsp0' \in Nat => Types'
         /\ ap'[p] = to /\ \A q \in Names : q # p => ap'[q] = ap[q]
<1>1. /\ p = i /\ 2 <= p /\ p <= processor_count /\ bsp = "spin" /\ wait = 0
      /\ processor_count \in Nat /\ i \in Nat
  BY TheOneThatRuns, SmpAssumption DEF Moves, IInv, Types
<1>2. /\ ap' \in [Names -> {Off, "fault", "halt"} \cup Alone]
      /\ ap'[p] = to /\ \A q \in Names : q # p => ap'[q] = ap[q]
  BY DEF IInv, Types, Moves
<1>3. rsp' \in [Names -> Nat] /\ rsp0' \in Nat => Types'
  BY <1>2 DEF IInv, Types, Moves
<1>4. Prepared'
  BY <1>1 DEF IInv, Prepared, Moves, Rounds
<1>5. OneRound'
  BY <1>1, <1>2 DEF IInv, OneRound, Moves, Names
<1>6. Answered'
  BY <1>1 DEF IInv, Answered, Moves
<1> QED  BY <1>2, <1>3, <1>4, <1>5, <1>6

LEMMA TrampolineKeeps == ASSUME IInv, NEW p \in Names, Trampoline(p) PROVE IInv'
<1>1. ap[p] = "trampoline" /\ ap[p] \in Alone
  BY DEF Trampoline, Alone
<1>2. mapped /\ stack_pointer = p /\ p \in Nat
  BY <1>1, TheOneThatRuns DEF Names
<1>3. Moves(p, "gdt") /\ rsp' = [rsp EXCEPT ![p] = p] /\ UNCHANGED <<wait, rsp0>>
  BY <1>1, <1>2 DEF Trampoline, Moves
<1>4. /\ rsp' \in [Names -> Nat] /\ rsp'[p] = p /\ \A q \in Names : q # p => rsp'[q] = rsp[q]
      /\ rsp0' \in Nat
  BY <1>2, <1>3 DEF IInv, Types
<1>5. /\ Prepared' /\ OneRound' /\ Answered' /\ Types'
      /\ ap'[p] = "gdt" /\ \A q \in Names : q # p => ap'[q] = ap[q]
  BY <1>3, <1>4, MoveKeeps DEF Alone
<1>6. Stacks'
  BY <1>1, <1>3, <1>4, <1>5 DEF IInv, Stacks, HasStack, LoadedTss
<1> QED  BY <1>5, <1>6 DEF IInv

LEMMA LoadGdtKeeps == ASSUME IInv, NEW p \in Names, LoadGdt(p) PROVE IInv'
<1>1. ap[p] = "gdt" /\ ap[p] \in Alone
  BY DEF LoadGdt, Alone
<1>2. Moves(p, "print") /\ UNCHANGED <<wait, rsp>>
  BY <1>1 DEF LoadGdt, Moves
<1>3. rsp0' = p /\ p \in Nat /\ rsp' \in [Names -> Nat]
  BY <1>1 DEF IInv, Types, Stacks, HasStack, LoadGdt, Names
<1>4. /\ Prepared' /\ OneRound' /\ Answered' /\ Types'
      /\ ap'[p] = "print" /\ \A q \in Names : q # p => ap'[q] = ap[q]
  BY <1>2, <1>3, MoveKeeps DEF Alone
<1>5. \A q \in Names : ap[q] \in LoadedTss => q <= p
  <2>1. p = i /\ i \in Nat
    BY <1>1, TheOneThatRuns, SmpAssumption DEF IInv, Types
  <2> QED  BY <2>1 DEF IInv, OneRound, LoadedTss, Off, Names
<1>6. Stacks'
  BY <1>1, <1>2, <1>3, <1>4, <1>5 DEF IInv, Stacks, HasStack, LoadedTss
<1> QED  BY <1>4, <1>6 DEF IInv

LEMMA LoadIdtAndPrintKeeps == ASSUME IInv, NEW p \in Names, LoadIdtAndPrint(p) PROVE IInv'
<1>1. ap[p] = "print" /\ ap[p] \in Alone
  BY DEF LoadIdtAndPrint, Alone
<1>2. Moves(p, "signal") /\ UNCHANGED <<wait, rsp, rsp0>>
  BY <1>1 DEF LoadIdtAndPrint, Moves
<1>3. /\ Prepared' /\ OneRound' /\ Answered' /\ Types'
      /\ ap'[p] = "signal" /\ \A q \in Names : q # p => ap'[q] = ap[q]
  BY <1>2, MoveKeeps DEF Alone, IInv, Types
<1>4. Stacks'
  BY <1>1, <1>2, <1>3 DEF IInv, Stacks, HasStack, LoadedTss
<1> QED  BY <1>3, <1>4 DEF IInv

LEMMA SignalKeeps == ASSUME IInv, NEW p \in Names, Signal(p) PROVE IInv'
<1>1. ap[p] = "signal" /\ ap[p] \in Alone
  BY DEF Signal, Alone
<1>2. Moves(p, "halt") /\ wait' = 1 /\ UNCHANGED <<rsp, rsp0>>
  BY <1>1 DEF Signal, Moves
<1>3. /\ Prepared' /\ OneRound' /\ Answered' /\ Types'
      /\ ap'[p] = "halt" /\ \A q \in Names : q # p => ap'[q] = ap[q]
  BY <1>2, MoveKeeps DEF IInv, Types
<1>4. Stacks'
  BY <1>1, <1>2, <1>3 DEF IInv, Stacks, HasStack, LoadedTss
<1> QED  BY <1>3, <1>4 DEF IInv

LEMMA StutterKeeps == ASSUME IInv, UNCHANGED vars PROVE IInv'
BY DEF vars, IInv, Types, Prepared, OneRound, Answered, Stacks

LEMMA Inductive == ASSUME IInv, [Next]_vars PROVE IInv'
BY ParseEntryKeeps, CopyTrampolineKeeps, StoreStackKeeps, ClearWaitKeeps, SendIpiKeeps, SpinKeeps,
   UnmapTrampolineKeeps, TrampolineKeeps, LoadGdtKeeps, LoadIdtAndPrintKeeps, SignalKeeps,
   StutterKeeps DEF Next, Bsp, Ap

LEMMA Invariance == Spec => []IInv
BY Initially, Inductive, PTL DEF Spec

-----------------------------------------------------------------------------
(* The theorems.                                                           *)

\* A processor that executes ap_start is alone in the kernel, the bootstrap processor
\* spins for its answer (acpi.c:122, 161).
THEOREM OneProcessorAtATime == Spec => []OneAtATime
<1>1. IInv => OneAtATime
  <2> SUFFICES ASSUME IInv, Running # {}
               PROVE  Cardinality(Running) = 1 /\ bsp = "spin"
    BY DEF OneAtATime
  <2>1. \A p \in Running : p = i /\ bsp = "spin"
    BY TheOneThatRuns DEF Running, Alone
  <2>2. Running = {i}
    BY <2>1
  <2>3. Cardinality({i}) = 1
    BY FS_Singleton
  <2> QED  BY <2>1, <2>2, <2>3
<1> QED  BY <1>1, Invariance, PTL

\* The word at 0x8F00 still holds a processor's own stack when it fetches it (ap.s:37-38).
THEOREM StacksAreOwn == Spec => []OwnStack
<1>1. IInv => OwnStack
  BY DEF IInv, Stacks, OwnStack
<1> QED  BY <1>1, Invariance, PTL

\* No processor is still on its way to the trampoline when that is unmapped (acpi.c:164).
THEOREM TrampolineIsThere == Spec => []TrampolineStays
<1>1. IInv => TrampolineStays
  <2> SUFFICES ASSUME IInv, NEW p \in Names
               PROVE  ap[p] # "fault" /\ (ap[p] = "trampoline" => mapped)
    BY DEF TrampolineStays
  <2>1. ap[p] = "trampoline" => mapped
    BY TheOneThatRuns DEF Alone
  <2>2. ap[p] # "fault"
    <3>1. p \in Nat /\ 1 <= p /\ i \in Nat /\ processor_count \in Nat
      BY SmpAssumption DEF IInv, Types, Names
    <3> QED  BY <3>1 DEF IInv, OneRound, Off, Alone, Boot
  <2> QED  BY <2>1, <2>2
<1> QED  BY <1>1, Invariance, PTL

\* When HalInitializeProcessors returns, all that were started are halted, and the stack
\* the TSS is left with is that of the last one, which nothing uses (gdt.c:51-53).
THEOREM LandingStack == Spec => []LandingStackIsFree
<1>1. IInv => LandingStackIsFree
  <2> SUFFICES ASSUME IInv, bsp = "done"
               PROVE  /\ \A p \in Started : ap[p] = "halt" /\ p <= rsp0
                      /\ rsp0 \in Started
    BY DEF LandingStackIsFree
  <2>1. i = LastIndex + 1 /\ LastIndex \in Nat /\ LastIndex >= 2 /\ processor_count \in Nat
    BY SmpAssumption DEF IInv, Types, Prepared
  <2>2. 2 <= processor_count /\ processor_count <= MaxEntries
    BY <2>1, SmpAssumption DEF IInv, Answered, Types
  <2>3. \A p \in Started : ap[p] = "halt" /\ p <= rsp0
    BY <2>1 DEF IInv, OneRound, Stacks, Started, LoadedTss, Names, Boot
  <2>4. 2 \in Started
    BY <2>1, <2>2, SmpAssumption DEF Started, Names, Boot
  <2>5. rsp0 # Boot /\ rsp0 \in Names /\ ap[rsp0] \in LoadedTss
    BY <2>3, <2>4 DEF IInv, Stacks, Boot
  <2>6. rsp0 <= processor_count /\ rsp0 <= LastIndex
    BY <2>1, <2>5 DEF IInv, OneRound, LoadedTss, Off, Names, Boot
  <2> QED  BY <2>3, <2>5, <2>6 DEF Started
<1> QED  BY <1>1, Invariance, PTL

-----------------------------------------------------------------------------
(* The walk over the PCI busses.                                           *)

Frames == [bus : Int, dev : 0..Slots, func : 0..(Functions - 1)]
Things == [name : Nat, address : Addresses, type : {0, 1}, header : Headers]

WalkTypes ==
  /\ config \in Machines
  /\ stack \in Seq(Frames)
  /\ device_count \in Nat
  /\ children \in Seq(Things)

\* What HalCheckPciDevice does not pass over, on a bus that the walk comes to.
InSlot(a) == Present(<<a[1], a[2], 0>>) /\ (a[3] = 0 \/ config[<<a[1], a[2], 0>>].multi)

\* What the loops of a call have left behind them.
Behindhand(a, frame) == a[2] < frame.dev \/ (a[2] = frame.dev /\ a[3] < frame.func)
\* The calls under way that still come to a.
Ahead(a) == {k \in 1..Len(stack) : Byte(stack[k].bus) = a[1] /\ ~Behindhand(a, stack[k])}

\* An inner loop runs only behind a function 0 with the bit 0x80.
InnerLoops ==
  \A k \in 1..Len(stack) : stack[k].func > 0 =>
    stack[k].dev < Slots /\ InSlot(<<Byte(stack[k].bus), stack[k].dev, 1>>)

NamedInOrder ==
  device_count = Len(children) /\ \A k \in 1..Len(children) : children[k].name = k - 1

ListInv == WalkTypes /\ InnerLoops /\ NamedInOrder

\* Each time that the walk was sent to a bus, each function of it was listed, or still
\* lies ahead of the loops.
Counted ==
  \A a \in Addresses :
    IF Visible(a)
    THEN Cardinality(Listings(a)) + Cardinality(Ahead(a)) = Entries(a[1])
    ELSE Listings(a) = {}

WalkInv == ListInv /\ Counted

LEMMA ByteOf ==
  /\ \A b \in Bus : Byte(b) = b /\ Char(b) \in Int /\ Byte(Char(b)) = b
  /\ \A n \in Int : Byte(n) \in Bus
<1>1. ASSUME NEW b \in Bus PROVE Byte(b) = b /\ Char(b) \in Int
  BY PciAssumption DEF Bus, Byte, Char
<1>2. ASSUME NEW b \in Bus PROVE (b - Busses) % Busses = b
  BY PciAssumption DEF Bus
<1>3. ASSUME NEW b \in Bus PROVE Byte(Char(b)) = b
  BY <1>1, <1>2, PciAssumption DEF Bus, Byte, Char
<1>4. ASSUME NEW n \in Int PROVE Byte(n) \in Bus
  BY PciAssumption DEF Bus, Byte
<1> QED  BY <1>1, <1>3, <1>4

LEMMA PartsOf ==
  ASSUME NEW a \in Addresses
  PROVE  /\ a = <<a[1], a[2], a[3]>>
         /\ a[1] \in Bus /\ a[2] \in 0..(Slots - 1) /\ a[3] \in 0..(Functions - 1)
BY DEF Addresses

LEMMA TopParts ==
  ASSUME WalkTypes, stack # <<>>
  PROVE  /\ Len(stack) \in Nat \ {0} /\ Len(stack) \in 1..Len(stack)
         /\ Top = stack[Len(stack)] /\ Top \in Frames
         /\ Byte(Top.bus) \in Bus
         /\ Walking => Here \in Addresses
         /\ Here[1] = Byte(Top.bus) /\ Here[2] = Top.dev /\ Here[3] = Top.func
<1>1. Len(stack) \in Nat \ {0} /\ Len(stack) \in 1..Len(stack)
  BY DEF WalkTypes
<1>2. Top = stack[Len(stack)] /\ Top \in Frames
  BY <1>1 DEF WalkTypes, Top
<1>3. Byte(Top.bus) \in Bus
  BY <1>2, ByteOf DEF Frames
<1>4. Here[1] = Byte(Top.bus) /\ Here[2] = Top.dev /\ Here[3] = Top.func
  BY DEF Here
<1>5. Walking => Here \in Addresses
  BY <1>2, <1>3, PciAssumption DEF Walking, Here, Addresses, Frames
<1> QED  BY <1>1, <1>2, <1>3, <1>4, <1>5

\* What a step of the loops leaves behind.
LEMMA AdvanceParts ==
  ASSUME NEW multi \in BOOLEAN, WalkTypes, Walking
  PROVE  /\ Advance(multi) \in Frames /\ Advance(multi).bus = Top.bus
         /\ Advance(multi).func > 0 =>
              /\ Advance(multi).dev = Top.dev
              /\ Top.func > 0 \/ multi
         /\ \A a \in Addresses :
              Behindhand(a, Advance(multi)) <=>
                \/ Behindhand(a, Top)
                \/ a[2] = Top.dev /\ (a[3] = Top.func \/ (Top.func = 0 /\ ~multi))
<1>1. Top \in Frames /\ Top.dev < Slots
  BY TopParts DEF Walking
<1>2. \A a \in Addresses : a[2] \in 0..(Slots - 1) /\ a[3] \in 0..(Functions - 1)
  BY PartsOf
<1>3. CASE (Top.func = 0 /\ ~multi) \/ Top.func = Functions - 1
  <2>1. Advance(multi) = [Top EXCEPT !.dev = Top.dev + 1, !.func = 0]
    BY <1>3 DEF Advance
  <2>2. Advance(multi) = [bus |-> Top.bus, dev |-> Top.dev + 1, func |-> 0]
    BY <2>1, <1>1 DEF Frames
  <2> QED  BY <2>2, <1>1, <1>2, <1>3, PciAssumption DEF Frames, Behindhand
<1>4. CASE ~((Top.func = 0 /\ ~multi) \/ Top.func = Functions - 1)
  <2>1. Advance(multi) = [Top EXCEPT !.func = Top.func + 1]
    BY <1>4 DEF Advance
  <2>2. Advance(multi) = [bus |-> Top.bus, dev |-> Top.dev, func |-> Top.func + 1]
    BY <2>1, <1>1 DEF Frames
  <2> QED  BY <2>2, <1>1, <1>2, <1>4, PciAssumption DEF Frames, Behindhand
<1> QED  BY <1>3, <1>4

LEMMA SameMachine ==
  ASSUME UNCHANGED config
  PROVE  /\ \A a : InSlot(a)' = InSlot(a) /\ Present(a)' = Present(a)
         /\ \A a : Visible(a)' = Visible(a)
         /\ \A a, n : PciObject(a, n)' = PciObject(a, n)
BY DEF InSlot, Present, Visible, PciObject

\* The frame of the innermost call is replaced.
LEMMA ContinueParts ==
  ASSUME WalkTypes, stack # <<>>, NEW f \in Frames
  PROVE  /\ Continue(f) \in Seq(Frames) /\ Len(Continue(f)) = Len(stack)
         /\ Continue(f)[Len(stack)] = f
         /\ \A k \in 1..Len(stack) : k # Len(stack) => Continue(f)[k] = stack[k]
BY TopParts DEF WalkTypes, Continue

\* The header that decides about x, and what makes it a bridge.
LEMMA ObjectParts ==
  ASSUME WalkTypes, NEW a \in DOMAIN config, InSlot(a), NEW n \in Nat
  PROVE  LET x == PciObject(a, n)
             zero == <<a[1], a[2], 0>>
         IN  /\ x \in Things /\ x.address = a
             /\ a[3] # 0 => config[zero].multi = TRUE
             /\ x.type = 1 => /\ a[3] = 0 /\ zero = a /\ x.header = config[a]
                              /\ config[a].layout = 1 /\ ~config[a].multi
             /\ x.header = config[a]
<1> DEFINE zero == <<a[1], a[2], 0>>
<1>1. a \in Addresses /\ a = <<a[1], a[2], a[3]>> /\ config[a] \in Headers
  BY PartsOf, PciAssumption DEF WalkTypes
<1>2. zero \in DOMAIN config /\ config[zero] \in Headers
  BY PciAssumption DEF WalkTypes, InSlot, Present
<1>3. a[3] # 0 => config[zero].multi = TRUE
  BY <1>2 DEF InSlot, Headers
<1>4. a[3] = 0 => zero = a
  BY <1>1
<1> HIDE DEF zero
<1>5. PciObject(a, n)
        = [name |-> n, address |-> a,
           type |-> IF config[zero].layout = 1 /\ ~config[zero].multi THEN 1 ELSE 0,
           header |-> IF config[zero].layout = 1 /\ ~config[zero].multi
                      THEN config[zero] ELSE config[a]]
  BY DEF PciObject, zero
<1>6. PciObject(a, n) \in Things
  BY <1>1, <1>2, <1>5 DEF Things
<1> QED  BY <1>3, <1>4, <1>5, <1>6 DEF zero

\* Where the loops stand, there is a function 0 that lets them.
LEMMA HereInSlot ==
  ASSUME ListInv, Walking, Present(Here)
  PROVE  Here \in DOMAIN config /\ InSlot(Here)
<1>1. WalkTypes /\ stack # <<>>
  BY DEF ListInv, Walking
<1>2. /\ Len(stack) \in 1..Len(stack) /\ Top = stack[Len(stack)] /\ Here \in Addresses
      /\ Here[1] = Byte(Top.bus) /\ Here[2] = Top.dev /\ Here[3] = Top.func /\ Top \in Frames
  BY <1>1, TopParts
<1>3. Here \in DOMAIN config /\ Here = <<Here[1], Here[2], Here[3]>>
  BY <1>2, PartsOf DEF Present
<1>4. CASE Top.func = 0
  BY <1>2, <1>3, <1>4 DEF InSlot, Present
<1>5. CASE Top.func > 0
  <2>1. InSlot(<<Here[1], Here[2], 1>>)
    BY <1>2, <1>5 DEF ListInv, InnerLoops
  <2> QED  BY <1>3, <2>1 DEF InSlot
<1> QED  BY <1>2, <1>3, <1>4, <1>5 DEF Frames

\* How the walk goes on from a function that is there.
LEMMA PastHere ==
  ASSUME ListInv, Walking, Present(Here),
         NEW f, f = Advance(PciObject(Here, device_count).header.multi)
  PROVE  /\ f \in Frames /\ f.bus = Top.bus
         /\ f.func > 0 => f.dev < Slots /\ InSlot(<<Here[1], f.dev, 1>>)
         /\ \A a \in DOMAIN config :
              InSlot(a) /\ a[1] = Here[1] =>
                (Behindhand(a, f) <=> Behindhand(a, Top) \/ a = Here)
<1> DEFINE x == PciObject(Here, device_count)
           multi == x.header.multi
<1>1. WalkTypes /\ stack # <<>> /\ device_count \in Nat
  BY DEF ListInv, Walking, WalkTypes
<1>2. /\ Len(stack) \in 1..Len(stack) /\ Top = stack[Len(stack)] /\ Here \in Addresses
      /\ Here[1] = Byte(Top.bus) /\ Here[2] = Top.dev /\ Here[3] = Top.func /\ Top \in Frames
      /\ Here = <<Here[1], Here[2], Here[3]>>
  BY <1>1, TopParts, PartsOf
<1>3. Here \in DOMAIN config /\ InSlot(Here)
  BY HereInSlot
<1>4. x.header = config[Here] /\ config[Here] \in Headers
  BY <1>1, <1>3, ObjectParts, PciAssumption DEF WalkTypes
<1>5. multi \in BOOLEAN /\ multi = config[Here].multi
  BY <1>4 DEF Headers
<1> HIDE DEF x, multi
<1>6. f = Advance(multi)
  BY DEF x, multi
<1>7. /\ f \in Frames /\ f.bus = Top.bus
      /\ f.func > 0 => f.dev = Top.dev /\ (Top.func > 0 \/ multi)
      /\ \A a \in Addresses :
           Behindhand(a, f) <=>
             \/ Behindhand(a, Top)
             \/ a[2] = Top.dev /\ (a[3] = Top.func \/ (Top.func = 0 /\ ~multi))
  BY <1>1, <1>5, <1>6, AdvanceParts
<1>8. Present(<<Here[1], Top.dev, 0>>)
      /\ (Top.func > 0 => config[<<Here[1], Top.dev, 0>>].multi)
      /\ (Top.func = 0 => <<Here[1], Top.dev, 0>> = Here)
  BY <1>2, <1>3 DEF InSlot, Frames
<1>9. f.func > 0 => f.dev < Slots /\ InSlot(<<Here[1], f.dev, 1>>)
  <2> SUFFICES ASSUME f.func > 0 PROVE f.dev < Slots /\ InSlot(<<Here[1], f.dev, 1>>)
    OBVIOUS
  <2> DEFINE zero == <<Here[1], Top.dev, 0>>
  <2>1. f.dev = Top.dev /\ f.dev < Slots /\ Present(zero)
    BY <1>7, <1>8 DEF Walking
  <2>2. config[zero].multi
    BY <1>2, <1>5, <1>7, <1>8 DEF Frames
  <2> QED  BY <2>1, <2>2 DEF InSlot
<1>10. ASSUME NEW a \in DOMAIN config, InSlot(a), a[1] = Here[1]
       PROVE  Behindhand(a, f) <=> Behindhand(a, Top) \/ a = Here
  <2>1. a \in Addresses /\ a = <<a[1], a[2], a[3]>>
    BY <1>1, PartsOf, PciAssumption DEF WalkTypes
  <2>2. ASSUME a[2] = Top.dev, Top.func = 0, ~multi PROVE a = Here
    <3>1. <<a[1], a[2], 0>> = Here
      BY <1>8, <1>10, <2>2
    <3>2. a[3] = 0
      BY <1>5, <1>10, <2>2, <3>1 DEF InSlot
    <3> QED  BY <2>1, <3>1, <3>2
  <2>3. a[2] = Top.dev /\ a[3] = Top.func <=> a = Here
    BY <1>2, <1>10, <2>1
  <2> QED  BY <1>7, <2>1, <2>2, <2>3
<1> QED  BY <1>7, <1>9, <1>10

\* The calls under way after AddPciDevice.
LEMMA AddedCalls ==
  ASSUME ListInv, AddPciDevice
  PROVE  LET x == PciObject(Here, device_count)
             f == Advance(x.header.multi)
             L == Len(stack)
         IN  /\ stack' \in Seq(Frames)
             /\ Len(stack') = IF x.type = 1 THEN L + 1 ELSE L
             /\ stack'[L] = f
             /\ \A k \in 1..L : k # L => stack'[k] = stack[k]
             /\ x.type = 1 => stack'[L + 1] = Frame(Char(Followed(x)))
<1> DEFINE x == PciObject(Here, device_count)
           f == Advance(x.header.multi)
           on == Continue(f)
           g == Frame(Char(Followed(x)))
<1>1. /\ stack' = IF x.type = 1 THEN Append(on, g) ELSE on
      /\ Walking /\ Present(Here) /\ stack # <<>> /\ WalkTypes
  BY DEF AddPciDevice, Walking, ListInv
<1>2. f \in Frames
  BY <1>1, PastHere
<1>3. x.type = 1 => g \in Frames
  <2> SUFFICES ASSUME x.type = 1 PROVE g \in Frames
    OBVIOUS
  <2>1. x \in Things
    BY <1>1, HereInSlot, ObjectParts DEF WalkTypes
  <2>2. Char(Followed(x)) \in Int
    BY <2>1, ByteOf DEF Things, Headers, Followed
  <2> QED  BY <2>2, PciAssumption DEF Frame, Frames
<1>4. /\ on \in Seq(Frames) /\ Len(on) = Len(stack) /\ on[Len(stack)] = f
      /\ \A k \in 1..Len(stack) : k # Len(stack) => on[k] = stack[k]
      /\ Len(stack) \in Nat \ {0}
  BY <1>1, <1>2, ContinueParts, TopParts
<1> HIDE DEF x, f, on, g
<1>5. CASE x.type = 1
  <2>1. stack' = Append(on, g) /\ g \in Frames
    BY <1>1, <1>3, <1>5
  <2>2. Len(stack') = Len(stack) + 1 /\ stack' \in Seq(Frames)
        /\ stack'[Len(stack) + 1] = g /\ \A k \in 1..Len(stack) : stack'[k] = on[k]
    BY <1>4, <2>1
  <2> QED  BY <1>4, <1>5, <2>2 DEF x, f, g
<1>6. CASE x.type # 1
  BY <1>1, <1>4, <1>6 DEF x, f
<1> QED  BY <1>5, <1>6

\* The calls under way after SkipAbsent and after Return.
LEMMA SkippedCalls ==
  ASSUME WalkTypes, SkipAbsent
  PROVE  LET f == Advance(FALSE)
             L == Len(stack)
         IN  /\ stack' \in Seq(Frames) /\ Len(stack') = L /\ stack'[L] = f
             /\ \A k \in 1..L : k # L => stack'[k] = stack[k]
             /\ f.bus = Top.bus
             /\ f.func > 0 => f.dev = Top.dev /\ Top.func > 0
             /\ \A a \in Addresses :
                  Behindhand(a, f) <=>
                    Behindhand(a, Top) \/ (a[2] = Top.dev /\ (a[3] = Top.func \/ Top.func = 0))
<1> DEFINE f == Advance(FALSE)
<1>1. Walking /\ stack' = Continue(f) /\ stack # <<>>
  BY DEF SkipAbsent, Walking
<1>2. /\ f \in Frames /\ f.bus = Top.bus
      /\ f.func > 0 => f.dev = Top.dev /\ Top.func > 0
      /\ \A a \in Addresses :
           Behindhand(a, f) <=>
             Behindhand(a, Top) \/ (a[2] = Top.dev /\ (a[3] = Top.func \/ Top.func = 0))
  BY <1>1, AdvanceParts
<1> HIDE DEF f
<1> QED  BY <1>1, <1>2, ContinueParts DEF f

LEMMA ReturnedCalls ==
  ASSUME WalkTypes, Return
  PROVE  /\ Len(stack) \in Nat \ {0} /\ Top = stack[Len(stack)] /\ Top.dev = Slots
         /\ stack' \in Seq(Frames) /\ Len(stack') = Len(stack) - 1
         /\ \A k \in 1..(Len(stack) - 1) : stack'[k] = stack[k]
<1> DEFINE L == Len(stack)
<1>1. stack # <<>> /\ Top.dev = Slots /\ stack' = SubSeq(stack, 1, L - 1)
  BY DEF Return
<1>2. L \in Nat \ {0} /\ Top = stack[L]
  BY <1>1, TopParts
<1>3. stack \in Seq(Frames) /\ L = Len(stack) /\ L - 1 \in 0..L
  BY <1>1, <1>2 DEF WalkTypes
<1> HIDE DEF L
<1>4. \A k \in 1..(L - 1) : k \in 1..L /\ stack[k] \in Frames
  BY <1>3
<1>5. SubSeq(stack, 1, L - 1) = [k \in 1..(L - 1) |-> stack[k]]
  BY <1>3
<1> QED  BY <1>1, <1>2, <1>3, <1>4, <1>5

LEMMA ListSkips ==
  ASSUME ListInv, SkipAbsent
  PROVE  ListInv'
<1> DEFINE L == Len(stack)
           f == Advance(FALSE)
<1>1. Walking /\ stack # <<>> /\ WalkTypes /\ UNCHANGED <<config, device_count, children>>
  BY DEF SkipAbsent, Walking, ListInv
<1>2. /\ stack' \in Seq(Frames) /\ Len(stack') = L /\ stack'[L] = f
      /\ \A k \in 1..L : k # L => stack'[k] = stack[k]
      /\ f.bus = Top.bus /\ (f.func > 0 => f.dev = Top.dev /\ Top.func > 0)
      /\ L \in 1..L /\ Top = stack[L]
  BY <1>1, SkippedCalls, TopParts
<1> HIDE DEF f, L
<1>3. \A k \in 1..L : Byte(stack'[k].bus) = Byte(stack[k].bus)
  BY <1>2
<1>4. ASSUME NEW k \in 1..L, stack'[k].func > 0
      PROVE  stack'[k].dev = stack[k].dev /\ stack[k].func > 0
  BY <1>2, <1>4
<1>5. InnerLoops'
  BY <1>1, <1>2, <1>3, <1>4, SameMachine DEF ListInv, InnerLoops, L
<1> QED  BY <1>1, <1>2, <1>5 DEF ListInv, NamedInOrder, WalkTypes

LEMMA ListAdds ==
  ASSUME ListInv, AddPciDevice
  PROVE  ListInv'
<1> DEFINE x == PciObject(Here, device_count)
           f == Advance(x.header.multi)
           L == Len(stack)
<1>1. /\ Walking /\ Present(Here) /\ stack # <<>> /\ WalkTypes
      /\ device_count' = device_count + 1 /\ children' = Append(children, x)
      /\ UNCHANGED config
  BY DEF AddPciDevice, Walking, ListInv, NextNumber
<1>2. x \in Things /\ x.name = device_count /\ device_count \in Nat
  BY <1>1, HereInSlot, ObjectParts DEF WalkTypes, PciObject
<1>3. f.bus = Top.bus /\ (f.func > 0 => f.dev < Slots /\ InSlot(<<Here[1], f.dev, 1>>))
  BY <1>1, PastHere
<1>4. /\ stack' \in Seq(Frames) /\ Len(stack') = IF x.type = 1 THEN L + 1 ELSE L
      /\ stack'[L] = f /\ \A k \in 1..L : k # L => stack'[k] = stack[k]
      /\ x.type = 1 => stack'[L + 1] = Frame(Char(Followed(x)))
  BY AddedCalls
<1>5. L \in Nat \ {0} /\ Top = stack[L] /\ Here[1] = Byte(Top.bus)
  BY <1>1, TopParts
<1> HIDE DEF x, f, L
<1>6. WalkTypes'
  BY <1>1, <1>2, <1>4 DEF WalkTypes
<1>7. NamedInOrder'
  BY <1>1, <1>2 DEF ListInv, NamedInOrder, WalkTypes
<1>8. InnerLoops'
  <2> SUFFICES ASSUME NEW k \in 1..Len(stack'), stack'[k].func > 0
               PROVE  stack'[k].dev < Slots /\ InSlot(<<Byte(stack'[k].bus), stack'[k].dev, 1>>)
    BY <1>1, SameMachine DEF InnerLoops
  <2>1. k \in 1..L
    BY <1>4, <1>5 DEF Frame
  <2>2. CASE k = L
    BY <1>3, <1>4, <1>5, <2>2
  <2>3. CASE k # L
    BY <1>4, <2>1, <2>3 DEF ListInv, InnerLoops, L
  <2> QED  BY <2>2, <2>3
<1> QED  BY <1>6, <1>7, <1>8 DEF ListInv

LEMMA ListReturns ==
  ASSUME ListInv, Return
  PROVE  ListInv'
<1> DEFINE L == Len(stack)
<1>1. WalkTypes /\ UNCHANGED <<config, device_count, children>>
  BY DEF Return, ListInv
<1>2. /\ L \in Nat \ {0} /\ stack' \in Seq(Frames) /\ Len(stack') = L - 1
      /\ \A k \in 1..(L - 1) : stack'[k] = stack[k]
  BY <1>1, ReturnedCalls
<1> HIDE DEF L
<1>3. \A k \in 1..(L - 1) : k \in 1..L
  BY <1>2
<1> QED  BY <1>1, <1>2, <1>3, SameMachine DEF ListInv, InnerLoops, NamedInOrder, WalkTypes, L

LEMMA ListBegins ==
  ASSUME PciInit
  PROVE  ListInv
<1>1. config \in Machines /\ stack = <<Frame(0)>> /\ device_count = 0 /\ children = <<>>
  BY DEF PciInit
<1>2. Frame(0) \in Frames /\ Frame(0).func = 0
  BY PciAssumption DEF Frame, Frames
<1>3. Len(stack) = 1 /\ stack[1] = Frame(0) /\ stack \in Seq(Frames)
  BY <1>1, <1>2
<1>4. WalkTypes
  BY <1>1, <1>3 DEF WalkTypes
<1>5. InnerLoops
  BY <1>2, <1>3 DEF InnerLoops
<1>6. NamedInOrder
  BY <1>1 DEF NamedInOrder
<1> QED  BY <1>4, <1>5, <1>6 DEF ListInv

\* The list grows in order on every machine.
LEMMA ListStep == ListInv /\ [PciNext]_pci_vars => ListInv'
<1> SUFFICES ASSUME ListInv, [PciNext]_pci_vars PROVE ListInv'
  OBVIOUS
<1>1. CASE UNCHANGED pci_vars
  BY <1>1, SameMachine DEF pci_vars, ListInv, WalkTypes, InnerLoops, NamedInOrder
<1> QED  BY <1>1, ListSkips, ListAdds, ListReturns DEF PciNext, Stopped

\* Counting places among the first n.
LEMMA Places ==
  ASSUME NEW n \in Nat, NEW S, S \subseteq 1..n
  PROVE  /\ Cardinality(S) \in Nat
         /\ Cardinality(S \cup {n + 1}) = Cardinality(S) + 1
         /\ \A k \in S : Cardinality(S \ {k}) = Cardinality(S) - 1
<1>1. IsFiniteSet(1..n)
  BY FS_Interval
<1>2. IsFiniteSet(S)
  BY <1>1, FS_Subset
<1>3. n + 1 \notin S
  OBVIOUS
<1> QED  BY <1>2, <1>3, FS_CardinalityType, FS_AddElement, FS_RemoveElement

LEMMA CountedSets ==
  ASSUME WalkTypes, NEW a, NEW b
  PROVE  /\ Len(stack) \in Nat /\ Ahead(a) \subseteq 1..Len(stack)
         /\ Len(children) \in Nat /\ Listings(a) \subseteq 1..Len(children)
         /\ SentTo(b) \subseteq 1..Len(children)
         /\ Cardinality(Ahead(a)) \in Nat /\ Cardinality(Listings(a)) \in Nat
         /\ Cardinality(SentTo(b)) \in Nat
<1>1. Len(stack) \in Nat /\ Len(children) \in Nat
  BY DEF WalkTypes
<1>2. /\ Ahead(a) \subseteq 1..Len(stack) /\ Listings(a) \subseteq 1..Len(children)
      /\ SentTo(b) \subseteq 1..Len(children)
  BY DEF Ahead, Listings, SentTo
<1> QED  BY <1>1, <1>2, Places

LEMMA VisibleParts ==
  ASSUME NEW a
  PROVE  Visible(a) <=> Present(a) /\ InSlot(a)
BY DEF Visible, InSlot

\* A function that is not there lies behind the loops without having been listed.
LEMMA CountSkips ==
  ASSUME WalkInv, SkipAbsent
  PROVE  Counted'
<1> DEFINE L == Len(stack)
           f == Advance(FALSE)
<1>1. /\ Walking /\ ~Present(Here) /\ stack # <<>> /\ WalkTypes
      /\ UNCHANGED <<config, device_count, children>>
  BY DEF SkipAbsent, Walking, WalkInv, ListInv
<1>2. /\ f.bus = Top.bus
      /\ \A a \in Addresses :
           Behindhand(a, f) <=>
             Behindhand(a, Top) \/ (a[2] = Top.dev /\ (a[3] = Top.func \/ Top.func = 0))
      /\ Len(stack') = L /\ stack'[L] = f
      /\ \A k \in 1..L : k # L => stack'[k] = stack[k]
  BY <1>1, SkippedCalls
<1> HIDE DEF f
<1>3. /\ L \in 1..L /\ Top = stack[L]
      /\ Here[1] = Byte(Top.bus) /\ Here[2] = Top.dev /\ Here[3] = Top.func
      /\ Here \in Addresses
  BY <1>1, TopParts
<1> HIDE DEF L
<1>4. ASSUME NEW a \in Addresses, Visible(a), a[1] = Byte(Top.bus)
      PROVE  Behindhand(a, f) <=> Behindhand(a, Top)
  <2>1. a = <<a[1], a[2], a[3]>> /\ Here = <<Here[1], Here[2], Here[3]>>
    BY <1>3, PartsOf
  <2>2. Present(a) /\ Present(<<a[1], a[2], 0>>)
    BY <1>4 DEF Visible
  <2>3. ~(a[2] = Top.dev /\ (a[3] = Top.func \/ Top.func = 0))
    BY <1>1, <1>3, <1>4, <2>1, <2>2
  <2> QED  BY <1>2, <2>3
<1>5. ASSUME NEW a \in Addresses, Visible(a)
      PROVE  Ahead(a)' = Ahead(a)
  <2>1. ASSUME NEW k \in 1..L
        PROVE  (Byte(stack'[k].bus) = a[1] /\ ~Behindhand(a, stack'[k]))
                 <=> (Byte(stack[k].bus) = a[1] /\ ~Behindhand(a, stack[k]))
    BY <1>2, <1>3, <1>4, <1>5
  <2> QED  BY <1>2, <2>1 DEF Ahead, L
<1>6. \A a : Listings(a)' = Listings(a) /\ Entries(a)' = Entries(a)
  BY <1>1 DEF Listings, Entries, SentTo
<1>7. \A a : Visible(a)' = Visible(a)
  BY <1>1, SameMachine
<1> QED  BY <1>5, <1>6, <1>7 DEF WalkInv, Counted

\* The function before which the loops stand moves from what lies ahead to the list; a
\* bridge puts everything on its bus ahead once more.
LEMMA CountAdds ==
  ASSUME WalkInv, AddPciDevice
  PROVE  Counted'
<1> DEFINE x == PciObject(Here, device_count)
           f == Advance(x.header.multi)
           L == Len(stack)
           N == Len(children)
           s == Followed(x)
           Sent(b) == x.type = 1 /\ s = b
<1>1. /\ Walking /\ Present(Here) /\ stack # <<>> /\ WalkTypes
      /\ children' = Append(children, x) /\ UNCHANGED config
  BY DEF AddPciDevice, Walking, WalkInv, ListInv
<1>2. /\ ListInv /\ Here \in DOMAIN config /\ InSlot(Here) /\ device_count \in Nat
  BY <1>1, HereInSlot DEF WalkInv, WalkTypes
<1>3. x \in Things /\ x.address = Here
  BY <1>1, <1>2, ObjectParts
<1>4. /\ f.bus = Top.bus
      /\ \A a \in DOMAIN config :
           InSlot(a) /\ a[1] = Here[1] => (Behindhand(a, f) <=> Behindhand(a, Top) \/ a = Here)
  BY <1>1, <1>2, PastHere
<1>5. /\ Len(stack') = IF x.type = 1 THEN L + 1 ELSE L
      /\ stack'[L] = f /\ \A k \in 1..L : k # L => stack'[k] = stack[k]
      /\ x.type = 1 => stack'[L + 1] = Frame(Char(s))
  BY <1>2, AddedCalls
<1>6. /\ L \in Nat \ {0} /\ Top = stack[L] /\ Here[1] = Byte(Top.bus) /\ Here[2] = Top.dev
      /\ Here[3] = Top.func /\ Here \in Addresses /\ Top \in Frames
  BY <1>1, TopParts
<1>7. N \in Nat
  BY <1>1 DEF WalkTypes
<1> HIDE DEF f, L
<1>8. /\ Len(children') = N + 1 /\ children'[N + 1] = x
      /\ \A k \in 1..N : children'[k] = children[k]
  BY <1>1, <1>3 DEF WalkTypes
<1> HIDE DEF x, N
<1>9. s \in Bus /\ s = x.header.io_limit
  BY <1>3 DEF Things, Headers, Followed
<1>10. ASSUME NEW a
       PROVE  Listings(a)' = IF a = Here THEN Listings(a) \cup {N + 1} ELSE Listings(a)
  BY <1>3, <1>7, <1>8 DEF Listings, N
<1>11. ASSUME NEW b
       PROVE  SentTo(b)' = IF Sent(b) THEN SentTo(b) \cup {N + 1} ELSE SentTo(b)
  BY <1>7, <1>8, <1>9 DEF SentTo, N
<1> HIDE DEF s
<1>12. x.type = 1 => /\ Byte(stack'[L + 1].bus) = s
                     /\ stack'[L + 1].func = 0 /\ stack'[L + 1].dev = 0
  BY <1>5, <1>9, ByteOf DEF Frame
<1> HIDE DEF Sent
<1>13. ASSUME NEW a \in Addresses, Visible(a)
       PROVE  /\ Ahead(a)' = (Ahead(a) \ (IF a = Here THEN {L} ELSE {}))
                               \cup (IF Sent(a[1]) THEN {L + 1} ELSE {})
              /\ a = Here => L \in Ahead(a)
  <2>1. a \in DOMAIN config /\ InSlot(a) /\ a[2] \in Nat /\ a[3] \in Nat
    BY <1>13, VisibleParts, PartsOf, PciAssumption DEF Present
  <2>2. Ahead(a)' = {k \in 1..Len(stack') : Byte(stack'[k].bus) = a[1] /\ ~Behindhand(a, stack'[k])}
    BY DEF Ahead
  <2>3. ASSUME NEW k \in 1..L
        PROVE  (Byte(stack'[k].bus) = a[1] /\ ~Behindhand(a, stack'[k]))
                 <=> k \in Ahead(a) /\ ~(k = L /\ a = Here)
    <3>1. k \in Ahead(a) <=> Byte(stack[k].bus) = a[1] /\ ~Behindhand(a, stack[k])
      BY DEF Ahead, L
    <3>2. CASE k # L
      BY <1>5, <3>1, <3>2
    <3>3. CASE k = L
      BY <1>4, <1>5, <1>6, <2>1, <3>1, <3>3
    <3> QED  BY <3>2, <3>3
  <2>4. ASSUME x.type = 1
        PROVE  (Byte(stack'[L + 1].bus) = a[1] /\ ~Behindhand(a, stack'[L + 1])) <=> s = a[1]
    BY <1>12, <2>1, <2>4 DEF Behindhand
  <2>5. Ahead(a) \subseteq 1..L
    BY DEF Ahead, L
  <2>6. a = Here => L \in Ahead(a)
    BY <1>6, PciAssumption DEF Ahead, Behindhand, Frames, L
  <2>7. CASE x.type = 1
    <3>1. 1..Len(stack') = 1..L \cup {L + 1}
      BY <1>5, <1>6, <2>7
    <3> QED  BY <2>2, <2>3, <2>4, <2>5, <2>6, <2>7, <3>1 DEF Sent
  <2>8. CASE x.type # 1
    <3>1. Len(stack') = L
      BY <1>5, <2>8
    <3> QED  BY <2>2, <2>3, <2>5, <2>6, <2>8, <3>1 DEF Sent
  <2> QED  BY <2>7, <2>8
<1>14. \A a : Visible(a)' = Visible(a)
  BY <1>1, SameMachine
<1>15. Visible(Here)
  BY <1>1, <1>2, VisibleParts
<1>16. ASSUME NEW a \in Addresses, Visible(a)
       PROVE  Cardinality(Listings(a)') + Cardinality(Ahead(a)') = Entries(a[1])'
  <2>1. /\ Ahead(a) \subseteq 1..L /\ Listings(a) \subseteq 1..N /\ SentTo(a[1]) \subseteq 1..N
        /\ Cardinality(Ahead(a)) \in Nat /\ Cardinality(Listings(a)) \in Nat
        /\ Cardinality(SentTo(a[1])) \in Nat
    BY <1>1, CountedSets DEF L, N
  <2> DEFINE here == IF a = Here THEN 1 ELSE 0
             sent == IF Sent(a[1]) THEN 1 ELSE 0
             rest == Ahead(a) \ (IF a = Here THEN {L} ELSE {})
  <2>2. Cardinality(Listings(a)') = Cardinality(Listings(a)) + here
    BY <1>7, <1>10, <2>1, Places
  <2>3. Cardinality(SentTo(a[1])') = Cardinality(SentTo(a[1])) + sent
    BY <1>7, <1>11, <2>1, Places
  <2>4. rest \subseteq 1..L /\ Cardinality(rest) = Cardinality(Ahead(a)) - here
    <3>1. CASE a = Here
      BY <1>6, <1>13, <1>16, <2>1, <3>1, Places
    <3>2. CASE a # Here
      BY <2>1, <3>2
    <3> QED  BY <3>1, <3>2
  <2>5. Cardinality(Ahead(a)') = Cardinality(rest) + sent
    <3>1. CASE Sent(a[1])
      <4>1. Ahead(a)' = rest \cup {L + 1}
        BY <1>13, <1>16, <3>1
      <4> HIDE DEF rest
      <4> QED  BY <1>6, <2>4, <3>1, <4>1, Places
    <3>2. CASE ~Sent(a[1])
      <4>1. Ahead(a)' = rest
        BY <1>13, <1>16, <3>2
      <4> QED  BY <2>1, <2>4, <3>2, <4>1
    <3> QED  BY <3>1, <3>2
  <2>6. Cardinality(Listings(a)) + Cardinality(Ahead(a)) = Entries(a[1])
    BY <1>16 DEF WalkInv, Counted
  <2>7. Entries(a[1])' = Cardinality(SentTo(a[1])') + (IF a[1] = 0 THEN 1 ELSE 0)
        /\ Entries(a[1]) = Cardinality(SentTo(a[1])) + (IF a[1] = 0 THEN 1 ELSE 0)
    BY DEF Entries
  <2>8. here \in {0, 1} /\ sent \in {0, 1}
    OBVIOUS
  <2> HIDE DEF here, sent, rest
  <2> QED  BY <2>1, <2>2, <2>3, <2>4, <2>5, <2>6, <2>7, <2>8
<1>17. ASSUME NEW a \in Addresses, ~Visible(a)
       PROVE  Listings(a)' = {}
  BY <1>10, <1>15, <1>17 DEF WalkInv, Counted
<1> QED  BY <1>14, <1>16, <1>17 DEF Counted

\* Nothing lies ahead of a call that returns.
LEMMA CountReturns ==
  ASSUME WalkInv, Return
  PROVE  Counted'
<1> DEFINE L == Len(stack)
<1>1. UNCHANGED <<config, device_count, children>> /\ WalkTypes
  BY DEF Return, WalkInv, ListInv
<1>2. /\ L \in Nat \ {0} /\ stack[L].dev = Slots /\ Len(stack') = L - 1
      /\ \A k \in 1..(L - 1) : stack'[k] = stack[k]
  BY <1>1, ReturnedCalls
<1> HIDE DEF L
<1>3. ASSUME NEW a \in Addresses
      PROVE  Ahead(a)' = Ahead(a)
  <2>1. Behindhand(a, stack[L])
    BY <1>2, PartsOf, PciAssumption DEF Behindhand
  <2>2. \A k \in 1..L : k = L \/ k \in 1..(L - 1)
    BY <1>2
  <2>3. \A k \in 1..(L - 1) : k \in 1..L
    BY <1>2
  <2>4. Ahead(a)' = {k \in 1..(L - 1) : Byte(stack[k].bus) = a[1] /\ ~Behindhand(a, stack[k])}
    BY <1>2 DEF Ahead
  <2>5. Ahead(a) = {k \in 1..L : Byte(stack[k].bus) = a[1] /\ ~Behindhand(a, stack[k])}
    BY DEF Ahead, L
  <2> QED  BY <2>1, <2>2, <2>3, <2>4, <2>5
<1>4. \A a : Listings(a)' = Listings(a) /\ Entries(a)' = Entries(a)
  BY <1>1 DEF Listings, Entries, SentTo
<1>5. \A a : Visible(a)' = Visible(a)
  BY <1>1, SameMachine
<1> QED  BY <1>3, <1>4, <1>5 DEF WalkInv, Counted

\* Before the first call everything on bus 0 lies ahead, once.
LEMMA CountBegins ==
  ASSUME PciInit
  PROVE  Counted
<1>1. stack = <<Frame(0)>> /\ children = <<>>
  BY DEF PciInit
<1>2. 0 \in Bus /\ Byte(0) = 0
  BY PciAssumption, ByteOf DEF Bus
<1>3. Len(stack) = 1 /\ stack[1] = [bus |-> 0, dev |-> 0, func |-> 0] /\ Len(children) = 0
  BY <1>1 DEF Frame
<1>4. \A a : Listings(a) = {} /\ SentTo(a) = {}
  BY <1>3 DEF Listings, SentTo
<1>5. Cardinality({}) = 0 /\ Cardinality({1}) = 1
  BY FS_EmptySet, FS_Singleton
<1>6. ASSUME NEW a \in Addresses
      PROVE  Ahead(a) = IF a[1] = 0 THEN {1} ELSE {}
  <2>1. a[2] \in Nat /\ a[3] \in Nat
    BY PartsOf, PciAssumption
  <2>2. ~Behindhand(a, stack[1])
    BY <1>3, <2>1 DEF Behindhand
  <2> QED  BY <1>2, <1>3, <2>2 DEF Ahead
<1>7. \A a \in Addresses : Cardinality(Ahead(a)) = IF a[1] = 0 THEN 1 ELSE 0
  BY <1>5, <1>6
<1> QED  BY <1>4, <1>5, <1>7 DEF Counted, Entries

LEMMA WalkSafe == PciSpec => []WalkInv
<1>1. PciInit => WalkInv
  BY ListBegins, CountBegins DEF WalkInv
<1>2. WalkInv /\ [PciNext]_pci_vars => WalkInv'
  <2> SUFFICES ASSUME WalkInv, [PciNext]_pci_vars PROVE WalkInv'
    OBVIOUS
  <2>1. ListInv'
    BY ListStep DEF WalkInv
  <2>2. CASE UNCHANGED pci_vars
    <3>1. UNCHANGED <<config, stack, device_count, children>>
      BY <2>2 DEF pci_vars
    <3>2. \A a : Visible(a)' = Visible(a)
      BY <3>1, SameMachine
    <3>3. \A a : Listings(a)' = Listings(a) /\ Ahead(a)' = Ahead(a) /\ Entries(a)' = Entries(a)
      BY <3>1 DEF Listings, Ahead, Entries, SentTo
    <3> QED  BY <2>1, <3>2, <3>3 DEF WalkInv, Counted
  <2> QED  BY <2>1, <2>2, CountSkips, CountAdds, CountReturns DEF PciNext, Stopped, WalkInv
<1> QED  BY <1>1, <1>2, PTL DEF PciSpec

\* On every machine, with bridges anywhere and any byte in the register that the
\* walk takes for a bus number, HalCheckPciBus lists each visible function of a bus
\* once for each time it is sent there, and nothing else, for any number of busses,
\* slots and functions.
THEOREM PciListsPerEntry == PciSpec => []ListedPerEntry
<1>1. ASSUME WalkInv PROVE ListedPerEntry
  <2> SUFFICES ASSUME NEW a \in Addresses
               PROVE  LET times == Cardinality(Listings(a))
                      IN  IF Visible(a)
                          THEN times <= Entries(a[1]) /\ (stack = <<>> => times = Entries(a[1]))
                          ELSE times = 0
    BY DEF ListedPerEntry
  <2>1. Cardinality({}) = 0
    BY FS_EmptySet
  <2>2. Cardinality(Listings(a)) \in Nat /\ Cardinality(Ahead(a)) \in Nat
    BY <1>1, CountedSets DEF WalkInv, ListInv
  <2>3. stack = <<>> => Ahead(a) = {}
    BY DEF Ahead
  <2>4. IF Visible(a) THEN Cardinality(Listings(a)) + Cardinality(Ahead(a)) = Entries(a[1])
        ELSE Listings(a) = {}
    BY <1>1 DEF WalkInv, Counted
  <2>5. CASE Visible(a)
    <3>1. stack = <<>> => Cardinality(Ahead(a)) = 0
      BY <2>1, <2>3
    <3> QED  BY <2>2, <2>4, <2>5, <3>1
  <2>6. CASE ~Visible(a)
    BY <2>1, <2>4, <2>6
  <2> QED  BY <2>5, <2>6
<1> QED  BY <1>1, WalkSafe, PTL

LEMMA SmallestNumber ==
  ASSUME NEW S, S \subseteq Nat, S # {}
  PROVE  Min(S) \in S /\ \A n \in S : Min(S) <= n
<1> DEFINE R == OpToRel(<, Nat)
<1>1. IsWellFoundedOn(R, Nat)
  BY NatLessThanWellFounded
<1> HIDE DEF R
<1>2. PICK m \in S : \A n \in S : ~(<<n, m>> \in R)
  BY <1>1, WFMin
<1>3. \A n \in S : ~(n < m)
  BY <1>2 DEF R, OpToRel
<1>4. \A n \in S : m <= n
  BY <1>3
<1> QED  BY <1>4 DEF Min

-----------------------------------------------------------------------------
(* The search.                                                             *)

Of(class) == {k \in 1..Len(children) : children[k].header.class_code = class}
\* What is found from place l on: the one with number n among those of the class.
Wanted(class, l, n) ==
  {k \in Of(class) : l < k /\ Cardinality({j \in Of(class) : l < j /\ j < k}) = n}
Answer(class, l, n) ==
  IF Wanted(class, l, n) = {} THEN Null ELSE Min(Wanted(class, l, n))

SearchStep(class, number, g) ==
  [l \in 0..Len(children) |->
     [n \in 0..number |->
        LET x == Named(l)
        IN  IF x = Null THEN Null
            ELSE IF children[x].header.class_code # class THEN g[l + 1][n]
            ELSE IF n > 0 THEN g[l + 1][n - 1]
            ELSE x]]

LEMMA NamedPlace ==
  ASSUME ListInv, NEW l \in 0..Len(children)
  PROVE  Named(l) = IF l < Len(children) THEN l + 1 ELSE Null
<1>1. Len(children) \in Nat /\ \A k \in 1..Len(children) : children[k].name = k - 1
  BY DEF ListInv, NamedInOrder, WalkTypes
<1> DEFINE at == {k \in 1..Len(children) : children[k].name = l}
<1>2. at = IF l < Len(children) THEN {l + 1} ELSE {}
  BY <1>1
<1>3. Named(l) = IF at = {} THEN Null ELSE Min(at)
  BY DEF Named
<1> HIDE DEF at
<1>4. at \subseteq Nat
  BY <1>1, <1>2
<1>5. at # {} => Min(at) \in at
  BY <1>4, SmallestNumber
<1> QED  BY <1>2, <1>3, <1>5

\* One more before k where the place l + 1 is of the class.
LEMMA OneMore ==
  ASSUME ListInv, NEW class, NEW l \in 0..(Len(children) - 1), NEW k \in Of(class), l + 1 < k
  PROVE  Cardinality({j \in Of(class) : l < j /\ j < k})
           = Cardinality({j \in Of(class) : l + 1 < j /\ j < k})
               + (IF l + 1 \in Of(class) THEN 1 ELSE 0)
<1> DEFINE A == {j \in Of(class) : l < j /\ j < k}
           B == {j \in Of(class) : l + 1 < j /\ j < k}
<1>1. Len(children) \in Nat /\ Of(class) \subseteq 1..Len(children)
  BY DEF ListInv, WalkTypes, Of
<1>2. IsFiniteSet(1..Len(children))
  BY <1>1, FS_Interval
<1>3. IsFiniteSet(B)
  <2>1. B \subseteq 1..Len(children)
    BY <1>1
  <2> HIDE DEF B
  <2> QED  BY <1>2, <2>1, FS_Subset
<1>4. A = B \cup (IF l + 1 \in Of(class) THEN {l + 1} ELSE {}) /\ l + 1 \notin B
  BY <1>1
<1> HIDE DEF A, B
<1>5. Cardinality(B) \in Nat
  BY <1>3, FS_CardinalityType
<1>6. CASE l + 1 \in Of(class)
  <2>1. A = B \cup {l + 1}
    BY <1>4, <1>6
  <2>2. Cardinality(A) = Cardinality(B) + 1
    BY <1>3, <1>4, <2>1, FS_AddElement
  <2> QED  BY <1>6, <2>2 DEF A, B
<1>7. CASE l + 1 \notin Of(class)
  <2>1. A = B
    BY <1>4, <1>7
  <2>2. Cardinality(A) = Cardinality(B) + 0
    BY <1>5, <2>1
  <2> QED  BY <1>7, <2>2 DEF A, B
<1> QED  BY <1>6, <1>7

\* What is wanted from place l on is wanted from place l + 1 on, with one less to
\* pass where l + 1 is of the class, unless it is l + 1 itself.
LEMMA WantedStep ==
  ASSUME ListInv, NEW class, NEW l \in 0..(Len(children) - 1), NEW n \in Nat
  PROVE  /\ l + 1 \notin Of(class) => Wanted(class, l, n) = Wanted(class, l + 1, n)
         /\ l + 1 \in Of(class) /\ n > 0 => Wanted(class, l, n) = Wanted(class, l + 1, n - 1)
         /\ l + 1 \in Of(class) /\ n = 0 => Answer(class, l, n) = l + 1
<1> DEFINE C(a, k) == Cardinality({j \in Of(class) : a < j /\ j < k})
<1>1. Len(children) \in Nat /\ Of(class) \subseteq 1..Len(children)
  BY DEF ListInv, WalkTypes, Of
<1>2. \A k \in Of(class) : l + 1 < k => C(l, k) = C(l + 1, k) + (IF l + 1 \in Of(class) THEN 1 ELSE 0)
  BY OneMore
<1>3. C(l, l + 1) = 0
  <2>1. {j \in Of(class) : l < j /\ j < l + 1} = {}
    BY <1>1
  <2> QED  BY <2>1, FS_EmptySet
<1>4. \A k \in Of(class) : C(l + 1, k) \in Nat
  <2> SUFFICES ASSUME NEW k \in Of(class)
               PROVE  Cardinality({j \in Of(class) : l + 1 < j /\ j < k}) \in Nat
    OBVIOUS
  <2> DEFINE B == {j \in Of(class) : l + 1 < j /\ j < k}
  <2>1. B \subseteq 1..Len(children)
    BY <1>1
  <2>2. IsFiniteSet(1..Len(children))
    BY <1>1, FS_Interval
  <2> HIDE DEF B
  <2>3. Cardinality(B) \in Nat
    BY <2>1, <2>2, FS_Subset, FS_CardinalityType
  <2> QED  BY <2>3 DEF B
<1>5. \A a, m : \A k : k \in Wanted(class, a, m) <=> k \in Of(class) /\ a < k /\ C(a, k) = m
  BY DEF Wanted
<1> HIDE DEF C
<1>6. \A k \in Of(class) : l < k <=> l + 1 < k \/ k = l + 1
  BY <1>1
<1>7. ASSUME l + 1 \notin Of(class)
      PROVE  Wanted(class, l, n) = Wanted(class, l + 1, n)
  <2>1. \A k \in Of(class) : l + 1 < k => C(l, k) = C(l + 1, k)
    BY <1>2, <1>4, <1>7
  <2>2. \A k : k \in Wanted(class, l, n) <=> k \in Wanted(class, l + 1, n)
    BY <1>5, <1>6, <1>7, <2>1
  <2> QED  BY <2>2
<1>8. ASSUME l + 1 \in Of(class), n > 0
      PROVE  Wanted(class, l, n) = Wanted(class, l + 1, n - 1)
  <2>1. \A k \in Of(class) : l + 1 < k => (C(l, k) = n <=> C(l + 1, k) = n - 1)
    BY <1>2, <1>4, <1>8
  <2>2. C(l, l + 1) # n /\ ~(l + 1 < l + 1)
    BY <1>3, <1>8
  <2>3. \A k : k \in Wanted(class, l, n) <=> k \in Wanted(class, l + 1, n - 1)
    BY <1>5, <1>6, <2>1, <2>2
  <2> QED  BY <2>3
<1>9. ASSUME l + 1 \in Of(class), n = 0
      PROVE  Answer(class, l, n) = l + 1
  <2> DEFINE W == Wanted(class, l, n)
  <2>1. l + 1 \in W /\ \A k \in W : k \in Nat /\ l + 1 <= k
    BY <1>1, <1>3, <1>5, <1>6, <1>9
  <2>2. Answer(class, l, n) = IF W = {} THEN Null ELSE Min(W)
    BY DEF Answer
  <2> HIDE DEF W
  <2>3. Min(W) \in W /\ Min(W) <= l + 1
    BY <2>1, SmallestNumber
  <2> QED  BY <2>1, <2>2, <2>3
<1> QED  BY <1>7, <1>8, <1>9

\* The search gives the answers, from the end of the list backwards.
LEMMA AnswersFollow ==
  ASSUME ListInv, NEW class, NEW number \in Nat, NEW g,
         NEW l \in 0..Len(children), NEW n \in 0..number,
         l < Len(children) => \A m \in 0..number : g[l + 1][m] = Answer(class, l + 1, m)
  PROVE  SearchStep(class, number, g)[l][n] = Answer(class, l, n)
<1> DEFINE x == Named(l)
<1>1. Len(children) \in Nat /\ n \in Nat
  BY DEF ListInv, WalkTypes
<1>2. SearchStep(class, number, g)[l][n]
        = IF x = Null THEN Null
          ELSE IF children[x].header.class_code # class THEN g[l + 1][n]
          ELSE IF n > 0 THEN g[l + 1][n - 1]
          ELSE x
  BY DEF SearchStep
<1>3. x = IF l < Len(children) THEN l + 1 ELSE Null
  BY NamedPlace
<1> HIDE DEF x
<1>4. CASE l < Len(children)
  <2>1. x = l + 1 /\ x # Null /\ l \in 0..(Len(children) - 1)
    BY <1>1, <1>3, <1>4 DEF Null
  <2>2. l + 1 \in Of(class) <=> children[x].header.class_code = class
    BY <1>1, <1>4, <2>1 DEF Of
  <2>3. CASE l + 1 \notin Of(class)
    BY <1>1, <1>2, <1>4, <2>1, <2>2, <2>3, WantedStep DEF Answer
  <2>4. CASE l + 1 \in Of(class) /\ n > 0
    <3>1. n - 1 \in 0..number
      BY <1>1, <2>4
    <3>2. Wanted(class, l, n) = Wanted(class, l + 1, n - 1)
      BY <1>1, <2>1, <2>4, WantedStep
    <3> QED  BY <1>2, <1>4, <2>1, <2>2, <2>4, <3>1, <3>2 DEF Answer
  <2>5. CASE l + 1 \in Of(class) /\ n = 0
    BY <1>1, <1>2, <2>1, <2>2, <2>5, WantedStep
  <2> QED  BY <1>1, <2>3, <2>4, <2>5
<1>5. CASE l = Len(children)
  <2>1. Wanted(class, l, n) = {}
    BY <1>1, <1>5 DEF Wanted, Of
  <2> QED  BY <1>2, <1>3, <1>5, <2>1 DEF Answer
<1> QED  BY <1>1, <1>4, <1>5

LEMMA SearchAnswers ==
  ASSUME ListInv, NEW class, NEW number \in Nat
  PROVE  HalSearchForPciDevice(class, number) = Answer(class, 0, number)
<1> DEFINE L == Len(children)
           f == [l \in 0..L |-> [n \in 0..number |-> Answer(class, l, n)]]
           from == CHOOSE g : g = SearchStep(class, number, g)
<1>1. L \in Nat
  BY DEF ListInv, WalkTypes
<1>2. f = SearchStep(class, number, f)
  <2>1. ASSUME NEW l \in 0..L, NEW n \in 0..number
        PROVE  SearchStep(class, number, f)[l][n] = Answer(class, l, n)
    <3>1. l < L => \A m \in 0..number : f[l + 1][m] = Answer(class, l + 1, m)
      BY <1>1
    <3> HIDE DEF f
    <3> QED  BY <3>1, AnswersFollow
  <2> DEFINE h == SearchStep(class, number, f)
  <2>2. h = [l \in 0..L |-> h[l]] /\ \A l \in 0..L : h[l] = [n \in 0..number |-> h[l][n]]
    BY DEF SearchStep
  <2>3. \A l \in 0..L, n \in 0..number : h[l][n] = Answer(class, l, n)
    BY <2>1
  <2> HIDE DEF h, L
  <2>4. \A l \in 0..L : h[l] = [n \in 0..number |-> Answer(class, l, n)]
    BY <2>2, <2>3
  <2>5. h = f
    BY <2>2, <2>4
  <2> QED  BY <2>5 DEF h
<1> HIDE DEF f
<1>3. from = SearchStep(class, number, from)
  BY <1>2
<1>4. HalSearchForPciDevice(class, number) = from[0][number]
  BY DEF HalSearchForPciDevice, SearchStep
<1> HIDE DEF from
<1> DEFINE Wrong == {d \in 0..L : \E n \in 0..number : from[L - d][n] # Answer(class, L - d, n)}
<1>5. Wrong = {}
  <2> SUFFICES ASSUME Wrong # {} PROVE FALSE
    OBVIOUS
  <2>1. Wrong \subseteq Nat
    BY <1>1
  <2> HIDE DEF Wrong, L
  <2> DEFINE d == Min(Wrong)
  <2>2. d \in Wrong /\ \A c \in Wrong : d <= c
    BY <2>1, SmallestNumber
  <2> HIDE DEF d
  <2>3. d \in 0..L /\ L - d \in 0..L /\ (L - d < L => d - 1 \in 0..L /\ L - (d - 1) = L - d + 1)
    BY <1>1, <2>2 DEF Wrong
  <2>4. L - d < L => \A m \in 0..number : from[L - d + 1][m] = Answer(class, L - d + 1, m)
    <3> SUFFICES ASSUME L - d < L, NEW m \in 0..number
                 PROVE  from[L - d + 1][m] = Answer(class, L - d + 1, m)
      OBVIOUS
    <3>1. d - 1 \notin Wrong
      BY <2>1, <2>2, <2>3
    <3> QED  BY <2>3, <3>1 DEF Wrong
  <2>5. \A n \in 0..number : from[L - d][n] = Answer(class, L - d, n)
    BY <1>3, <2>3, <2>4, AnswersFollow DEF L
  <2> QED  BY <2>2, <2>5 DEF Wrong
<1>6. L \in 0..L /\ L - L = 0 /\ number \in 0..number
  BY <1>1
<1>7. L \notin Wrong
  BY <1>5
<1> HIDE DEF L
<1> QED  BY <1>4, <1>6, <1>7

\* HalSearchForPciDevice answers as its callers expect on every machine and at every
\* moment of the walk: names run on without a gap, so that the search ends only at the
\* end of the list.
THEOREM PciSearchFinds == PciSpec => []SearchFinds
<1>1. PciInit => ListInv
  BY ListBegins
<1>2. ListInv => SearchFinds
  <2> SUFFICES ASSUME ListInv, NEW class \in {"disk", "other"}, NEW number \in 0..Len(children)
               PROVE  LET of == {k \in 1..Len(children) : children[k].header.class_code = class}
                          wanted == {k \in of : Cardinality({j \in of : j < k}) = number}
                      IN  HalSearchForPciDevice(class, number)
                            = IF wanted = {} THEN Null ELSE Min(wanted)
    BY DEF SearchFinds
  <2>1. HalSearchForPciDevice(class, number) = Answer(class, 0, number)
    BY SearchAnswers DEF ListInv, WalkTypes
  <2>2. Of(class) \subseteq Nat \ {0}
    BY DEF Of, ListInv, WalkTypes
  <2>3. \A k \in Of(class) :
          0 < k /\ {j \in Of(class) : 0 < j /\ j < k} = {j \in Of(class) : j < k}
    BY <2>2
  <2>4. Wanted(class, 0, number) = {k \in Of(class) : Cardinality({j \in Of(class) : j < k}) = number}
    BY <2>3 DEF Wanted
  <2> QED  BY <2>1, <2>4 DEF Answer, Of
<1> QED  BY <1>1, <1>2, ListStep, PTL DEF PciSpec
===============================================================================
