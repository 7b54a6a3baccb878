------------------------------ MODULE SmpBoot ------------------------------
(***************************************************************************)
(* Bringing up the application processors: the MADT walk of KernelParseAcpi*)
(* and CreateProcessor, HalInitializeProcessors on the bootstrap processor,*)
(* ap.s and ap_start on each of the others.                                *)
(*                                                                         *)
(* The processors meet in four places of memory without a lock: the flag   *)
(* wait, the word at 0x8F00 from which the trampoline takes its stack, the *)
(* page 0x8000 that holds the trampoline, and the one TSS.                 *)
(***************************************************************************)
EXTENDS Naturals, Sequences, FiniteSets

CONSTANTS
  MaxEntries,  \* BOUND: entries of the MADT
  LastIndex    \* the last name that is looked up: Processor9

ASSUME SmpAssumption == MaxEntries \in Nat /\ LastIndex \in Nat \ {0, 1}

Names == 1..MaxEntries
Boot == 1               \* the firmware lists the bootstrap processor first
None == 0

VARIABLES
  madt,           \* the entries not yet walked
  processor_count,
  alive,          \* the processors that answer a startup IPI
  i,              \* the loop counter of HalInitializeProcessors
  wait,
  stack_pointer,  \* the word at 0x8F00: whose initial stack it points to
  mapped,         \* 0x8000 is mapped in kernel_pml4
  rsp0,           \* tss.rsp0: whose stack
  bsp,            \* where the bootstrap processor is
  ap,             \* ap[p]: where processor p is
  rsp             \* rsp[p]: the stack it took

vars == <<madt, processor_count, alive, i, wait, stack_pointer, mapped, rsp0, bsp, ap, rsp>>

Kinds == {"lapic", "ioapic"}
Tables == UNION {[1..n -> Kinds] : n \in 1..MaxEntries}

Init ==
  /\ madt \in {t \in Tables : t[1] = "lapic"}
  /\ processor_count = 0
  /\ alive \in SUBSET (Names \ {Boot})
  /\ i = 2
  /\ wait = 0
  /\ stack_pointer = None
  /\ mapped = FALSE
  /\ rsp0 = Boot                 \* KernelStart called KernelLoadGdt first
  /\ bsp = "parse"
  /\ ap = [p \in Names |-> "off"]
  /\ rsp = [p \in Names |-> None]

-----------------------------------------------------------------------------
(* The bootstrap processor.                                                *)

\* One entry of the MADT: a local APIC makes the next Processor object, even
\* if its flags say that the processor is disabled.
ParseEntry ==
  /\ bsp = "parse" /\ madt # <<>>
  /\ madt' = Tail(madt)
  /\ processor_count' = IF Head(madt) = "lapic" THEN processor_count + 1
                                                ELSE processor_count
  /\ UNCHANGED <<alive, i, wait, stack_pointer, mapped, rsp0, bsp, ap, rsp>>

\* The trampoline is copied to 0x8000 and CR3 to 0x8C00.
CopyTrampoline ==
  /\ bsp = "parse" /\ madt = <<>>
  /\ mapped' = TRUE
  /\ bsp' = "store"
  /\ UNCHANGED <<madt, processor_count, alive, i, wait, stack_pointer, rsp0, ap, rsp>>

StoreNothing ==
  /\ bsp = "store"
  /\ stack_pointer' = 2
  /\ bsp' = IF i <= processor_count THEN "clear" ELSE "spin"
  /\ UNCHANGED <<madt, processor_count, alive, i, wait, mapped, rsp0, ap, rsp>>

\* The stack of this round goes to 0x8F00, then the object is looked up.
StoreStack ==
  /\ bsp = "store"
  /\ stack_pointer' = i
  /\ bsp' = IF i <= processor_count THEN "clear" ELSE "spin"
  /\ UNCHANGED <<madt, processor_count, alive, i, wait, mapped, rsp0, ap, rsp>>

ClearNothing ==
  /\ bsp = "clear"
  /\ bsp' = "ipi"
  /\ UNCHANGED <<madt, processor_count, alive, i, wait, stack_pointer, mapped, rsp0, ap, rsp>>

ClearWait ==
  /\ bsp = "clear"
  /\ wait' = 0
  /\ bsp' = "ipi"
  /\ UNCHANGED <<madt, processor_count, alive, i, stack_pointer, mapped, rsp0, ap, rsp>>

\* INIT, then one startup IPI: a processor that is there starts at 0x8000.
SendIpi ==
  /\ bsp = "ipi"
  /\ ap' = IF i \in alive THEN [ap EXCEPT ![i] = "trampoline"] ELSE ap
  /\ bsp' = "spin"
  /\ UNCHANGED <<madt, processor_count, alive, i, wait, stack_pointer, mapped, rsp0, rsp>>

SpinOnce ==
  /\ bsp = "spin"
  /\ i' = i + 1
  /\ bsp' = IF i < LastIndex THEN "store" ELSE "unmap"
  /\ UNCHANGED <<madt, processor_count, alive, wait, stack_pointer, mapped, rsp0, ap, rsp>>

\* do pause while(!wait), also in the rounds that started nobody.
Spin ==
  /\ bsp = "spin"
  /\ wait # 0
  /\ i' = i + 1
  /\ bsp' = IF i < LastIndex THEN "store" ELSE "unmap"
  /\ UNCHANGED <<madt, processor_count, alive, wait, stack_pointer, mapped, rsp0, ap, rsp>>

UnmapTrampoline ==
  /\ bsp = "unmap"
  /\ mapped' = FALSE
  /\ bsp' = "done"
  /\ UNCHANGED <<madt, processor_count, alive, i, wait, stack_pointer, rsp0, ap, rsp>>

-----------------------------------------------------------------------------
(* An application processor: ap.s, then ap_start with interrupts off.      *)

Trampoline(p) ==
  /\ ap[p] = "trampoline"
  /\ IF mapped
     THEN /\ rsp' = [rsp EXCEPT ![p] = stack_pointer]
          /\ ap' = [ap EXCEPT ![p] = "gdt"]
     ELSE ap' = [ap EXCEPT ![p] = "fault"] /\ UNCHANGED rsp
  /\ UNCHANGED <<madt, processor_count, alive, i, wait, stack_pointer, mapped, rsp0, bsp>>

LoadGdtOnly(p) ==
  /\ ap[p] = "gdt"
  /\ ap' = [ap EXCEPT ![p] = "print"]
  /\ UNCHANGED <<madt, processor_count, alive, i, wait, stack_pointer, mapped, rsp0, bsp, rsp>>

\* KernelLoadGdt fills in the TSS that all processors share.
LoadGdt(p) ==
  /\ ap[p] = "gdt"
  /\ rsp0' = rsp[p]
  /\ ap' = [ap EXCEPT ![p] = "print"]
  /\ UNCHANGED <<madt, processor_count, alive, i, wait, stack_pointer, mapped, bsp, rsp>>

\* HalLoadIdtAp, and a line on the serial port.
LoadIdtAndPrint(p) ==
  /\ ap[p] = "print"
  /\ ap' = [ap EXCEPT ![p] = "signal"]
  /\ UNCHANGED <<madt, processor_count, alive, i, wait, stack_pointer, mapped, rsp0, bsp, rsp>>

SignalNothing(p) ==
  /\ ap[p] = "signal"
  /\ ap' = [ap EXCEPT ![p] = "halt"]
  /\ UNCHANGED <<madt, processor_count, alive, i, wait, stack_pointer, mapped, rsp0, bsp, rsp>>

\* wait = 1, then hlt for good: cli in the trampoline was never undone.
Signal(p) ==
  /\ ap[p] = "signal"
  /\ wait' = 1
  /\ ap' = [ap EXCEPT ![p] = "halt"]
  /\ UNCHANGED <<madt, processor_count, alive, i, stack_pointer, mapped, rsp0, bsp, rsp>>

-----------------------------------------------------------------------------
Bsp == ParseEntry \/ CopyTrampoline \/ StoreStack \/ ClearWait \/ SendIpi \/ Spin
       \/ UnmapTrampoline

Ap(p) == Trampoline(p) \/ LoadGdt(p) \/ LoadIdtAndPrint(p) \/ Signal(p)

Next == Bsp \/ \E p \in Names : Ap(p)

\* Each processor executes on its own.
Spec == Init /\ [][Next]_vars /\ WF_vars(Bsp) /\ \A p \in Names : WF_vars(Ap(p))

-----------------------------------------------------------------------------
Running == {p \in Names : ap[p] \in {"trampoline", "gdt", "print", "signal"}}

\* The hand-shake over wait serialises the processors: one that executes kernel
\* code is alone in it, the bootstrap processor spins meanwhile (acpi.c:122,
\* 150, 161).  The TSS, the serial port and 0x8F00 have no other protection.
OneAtATime == Running # {} => Cardinality(Running) = 1 /\ bsp = "spin"

\* Every processor runs on the initial stack of its own index, although it
\* reads the word a later round overwrites (acpi.c:145-146, ap.s:37-38).
OwnStack == \A p \in Names : rsp[p] \in {None, p}

\* No processor ever fetches from the trampoline page after it is unmapped
\* (acpi.c:164): a wait that is over means that the last one has left it.
TrampolineStays ==
  \A p \in Names : ap[p] # "fault" /\ (ap[p] = "trampoline" => mapped)

Started == {p \in Names : p # Boot /\ p <= processor_count /\ p <= LastIndex}

\* When the function returns, every processor that was found has initialised
\* itself and is halted, none is still on its way; and the stack that the
\* bootstrap processor will use for every entry from ring 3 is the one of the
\* last processor started: nothing that still runs, the boot code included,
\* uses it (gdt.c:51-53).
LandingStackIsFree ==
  bsp = "done" =>
    /\ \A p \in Started : ap[p] = "halt" /\ p <= rsp0
    /\ rsp0 \in Started

\* Boot gets past the processors if there is one to start and all that were
\* found answer.  Neither can be dropped: wait is 0 until some processor sets
\* it, and nothing times out.
Completes ==
  (bsp = "store" /\ Started # {} /\ Started \subseteq alive) ~> bsp = "done"
=============================================================================
