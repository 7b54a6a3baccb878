----------------------------- MODULE Scheduler -----------------------------
(***************************************************************************)
(* Processes and preemption: kernel/arch/task.c, kernel/arch/irq.s and the *)
(* dispatch of kernel/arch/idt.c, on the bootstrap processor (the others   *)
(* are halted for good by ap_start, see module SmpBoot).                   *)
(*                                                                         *)
(* A task is named by its process id.  The machine is modelled down to     *)
(* what a context switch can get wrong: the interrupt flag, CR3, the pair  *)
(* of GS bases that swapgs exchanges, and the kernel stacks as memory, in  *)
(* which a push overwrites whatever the slot held.  There is one stack per *)
(* task, and one more at tss.rsp0, where the processor lands whenever it   *)
(* leaves user mode, whichever task is current (gdt.c:53).                 *)
(***************************************************************************)
EXTENDS Naturals, FiniteSets

CONSTANTS
  MaxTasks,    \* BOUND: processes created in a behaviour
  MaxFrames,   \* BOUND: frames on one stack, limits the nesting of interrupts
  UserBodies,  \* the tasks whose code ends in switch_to_user
  Syscalls,    \* what user code asks for: a subset of {"clone", "other"}
  FreshWords   \* what a word of fresh memory may hold: malloc clears nothing

Tasks == 1..MaxTasks
Null == 0
Wild == MaxTasks + 1    \* an address that is no task
Links == 0..(MaxTasks + 1)

ASSUME SchedulerAssumption ==
  /\ MaxTasks \in Nat \ {0}
  /\ MaxFrames \in Nat \ {0, 1}
  /\ UserBodies \subseteq Tasks
  /\ Syscalls \subseteq {"clone", "other"}
  /\ FreshWords \subseteq {Null, Wild}

VARIABLES
  process_id,     \* the last id given
  first_task,     \* head of the circular list
  current_task,
  prev_task,
  next,           \* next[t]: the link of t
  spinlock,       \* the lock of task.c
  rsp,            \* rsp[t]: the stack pointer saved in task t
  timer,          \* the local APIC timer runs (HalEnableTimer)
  ifl,            \* RFLAGS.IF
  cr3,            \* the task whose page structure is loaded
  gs,             \* the active GS base, and the one swapgs brings in
  stack,          \* stack[r][i]: slot i of stack r
  sp,             \* the stack pointer: a stack and how many slots are used
  who,            \* the context whose registers are in the processor
  user,           \* it runs in ring 3
  pc,             \* the code that runs
  traversal       \* traversal_list of the creation in progress

list == <<process_id, first_task, next, traversal>>
turnVars == <<current_task, prev_task, spinlock, cr3>>
machine == <<ifl, gs, stack, sp, who, user>>
vars == <<list, turnVars, rsp, timer, machine, pc>>

-----------------------------------------------------------------------------
(* Stacks.                                                                 *)

Rsp0 == 0
Stacks == Tasks \cup {Rsp0}
Pointers == [stack : Stacks, used : 0..MaxFrames]
EmptyStack(r) == [stack |-> r, used |-> 0]

\* "isr": the registers and the iretq frame of an interrupted context;
\* "switch": the callee-saved registers and return address of switch_task;
\* "data": anything else.
Kinds == {"isr", "switch", "data"}
Resumable == {"body", "pop", "iret", "iretq"}
Frames == [kind : Kinds, who : Tasks \cup {0}, user : BOOLEAN, pc : Resumable]

Isr(t, ring3, at) == [kind |-> "isr", who |-> t, user |-> ring3, pc |-> at]
Switch(t, at) == [kind |-> "switch", who |-> t, user |-> FALSE, pc |-> at]
Data == [kind |-> "data", who |-> 0, user |-> FALSE, pc |-> "body"]

Top == stack[sp.stack][sp.used]
Finds(kind) == sp.used > 0 /\ Top.kind = kind
Drop == [sp EXCEPT !.used = @ - 1]

\* Push(p, f): frame f is written above p, and the stack pointer follows.
Push(p, f) ==
  /\ stack' = [stack EXCEPT ![p.stack][p.used + 1] = f]
  /\ sp' = [p EXCEPT !.used = @ + 1]

\* The stack an interrupt uses: the current one, or tss.rsp0 from ring 3.
Landing == IF user THEN EmptyStack(Rsp0) ELSE sp

Swapgs == gs' = <<gs[2], gs[1]>>

\* Handlers compare the interrupted code segment before they exchange.
SwapgsAlways(ring3) == Swapgs
SwapgsIf(ring3) == IF ring3 THEN Swapgs ELSE UNCHANGED gs

\* Every vector is an interrupt gate: type 0x8E, 0xEE for system calls.
TrapGate == user' = FALSE /\ UNCHANGED ifl
Gate == user' = FALSE /\ ifl' = FALSE

-----------------------------------------------------------------------------
Init ==
  /\ process_id = 0 /\ first_task = Null /\ traversal = Null
  /\ current_task = Null /\ prev_task = Null
  /\ next = [t \in Tasks |-> Null]
  /\ spinlock = 0
  /\ rsp = [t \in Tasks |-> EmptyStack(t)]
  /\ timer = FALSE /\ ifl = FALSE
  /\ cr3 = 1
  /\ gs = <<"user", "kernel">>
  /\ stack = [r \in Stacks |-> [i \in 1..MaxFrames |-> Data]]
  /\ sp = EmptyStack(1)
  /\ who = 1 /\ user = FALSE
  /\ pc = "body"

\* The frames a creation builds by hand on the stack of the new task: one that
\* switch_task returns from into the body of the task, or, for a clone, into
\* resume_user, which returns to ring 3 from a second frame below it.
Prepare(t, clone) ==
  LET frames == IF clone THEN <<Isr(t, TRUE, "body"), Switch(t, "iret")>>
                         ELSE <<Switch(t, "body")>>
      n == IF clone THEN 2 ELSE 1
  IN  /\ rsp' = [rsp EXCEPT ![t] = [stack |-> t, used |-> n]]
      /\ stack' = [stack EXCEPT ![t] =
                     [i \in 1..MaxFrames |-> IF i <= n THEN frames[i] ELSE @[i]]]

(* KernelInitializeProcess, called while the kernel boots with interrupts  *)
(* off.  The first task is the boot code itself: its frame is never used.  *)

InitializeFirst ==
  /\ pc = "body" /\ ~timer /\ first_task = Null
  /\ process_id' = process_id + 1
  /\ first_task' = process_id'
  /\ current_task' = process_id'
  /\ \E w \in FreshWords : next' = [next EXCEPT ![process_id'] = w]
  /\ Prepare(process_id', FALSE)
  /\ UNCHANGED <<prev_task, spinlock, cr3, timer, ifl, gs, sp, who, user, pc,
                 traversal>>

InitializeNext ==
  /\ pc = "body" /\ ~timer /\ first_task # Null
  /\ process_id < MaxTasks
  /\ process_id' = process_id + 1
  /\ traversal' = first_task
  /\ pc' = "scan"
  /\ UNCHANGED <<first_task, next, turnVars, rsp, timer, machine>>

ScanNothing ==
  /\ pc = "scan"
  /\ pc' = "link"
  /\ UNCHANGED <<list, turnVars, rsp, timer, machine>>

\* while(traversal_list->next){ if(== first_task) break; ... }, in both callers.
Scan ==
  /\ pc = "scan"
  /\ IF next[traversal] \in {Null, first_task}
     THEN pc' = "link" /\ UNCHANGED traversal
     ELSE IF next[traversal] = Wild
     THEN pc' = "fault" /\ UNCHANGED traversal
     ELSE traversal' = next[traversal] /\ UNCHANGED pc
  /\ UNCHANGED <<process_id, first_task, next, turnVars, rsp, timer, machine>>

\* The new node points back to the head and the last node to it.  Before the
\* timer runs the caller is KernelInitializeProcess, afterwards the clone call.
Link ==
  /\ pc = "link"
  /\ next' = [next EXCEPT ![process_id] = first_task, ![traversal] = process_id]
  /\ Prepare(process_id, timer)
  /\ pc' = IF timer THEN "iret" ELSE "body"
  /\ traversal' = Null
  /\ UNCHANGED <<process_id, first_task, turnVars, timer, ifl, gs, sp, who, user>>

\* KernelStart: HalEnableTimer arms the timer and executes sti.
EnableTimer ==
  /\ pc = "body" /\ ~timer /\ first_task # Null
  /\ timer' = TRUE /\ ifl' = TRUE
  /\ UNCHANGED <<list, turnVars, rsp, gs, stack, sp, who, user, pc>>

\* task1: the body loads a program and calls switch_to_user, which loads a null
\* selector into gs and returns to ring 3 without swapgs.
EnterUser ==
  /\ pc = "body" /\ timer /\ ~user /\ who \in UserBodies
  /\ user' = TRUE
  /\ gs' = <<"user", gs[2]>>
  /\ sp' = EmptyStack(Rsp0)
  /\ UNCHANGED <<list, turnVars, rsp, timer, ifl, stack, who, pc>>

-----------------------------------------------------------------------------
(* The timer interrupt: isr_common, isr_handler, KernelSwitchProcess.      *)

Tick ==
  /\ timer /\ ifl /\ pc # "fault"
  /\ Landing.used + 2 <= MaxFrames
  /\ Push(Landing, Isr(who, user, pc))
  /\ SwapgsIf(user)
  /\ Gate
  /\ pc' = "check"
  /\ UNCHANGED <<list, turnVars, rsp, timer, who>>

Check ==
  /\ pc = "check"
  /\ pc' = IF next[current_task] = Null THEN "iret" ELSE "lock"
  /\ UNCHANGED <<list, turnVars, rsp, timer, machine>>

Lock ==
  /\ pc = "lock"
  /\ spinlock = 0
  /\ spinlock' = 1
  /\ ifl' = FALSE
  /\ pc' = "select"
  /\ UNCHANGED <<list, current_task, prev_task, cr3, rsp, timer, gs, stack, sp,
                 who, user>>

Select ==
  /\ pc = "select"
  /\ prev_task' = current_task
  /\ current_task' = next[current_task]
  /\ pc' = IF current_task' = Wild THEN "fault" ELSE "load"
  /\ UNCHANGED <<list, spinlock, cr3, rsp, timer, machine>>

LoadPrevious ==
  /\ pc = "load"
  /\ cr3' = prev_task
  /\ pc' = "save"
  /\ UNCHANGED <<list, current_task, prev_task, spinlock, rsp, timer, machine>>

LoadCr3 ==
  /\ pc = "load"
  /\ cr3' = current_task
  /\ pc' = "save"
  /\ UNCHANGED <<list, current_task, prev_task, spinlock, rsp, timer, machine>>

SaveNext ==
  /\ pc = "save"
  /\ Push(sp, Switch(who, "iret"))
  /\ rsp' = [rsp EXCEPT ![current_task] = sp']
  /\ pc' = "restore"
  /\ UNCHANGED <<list, turnVars, timer, ifl, gs, who, user>>

\* switch_task, up to mov %rsp, 8(%rsi).
Save ==
  /\ pc = "save"
  /\ Push(sp, Switch(who, "iret"))
  /\ rsp' = [rsp EXCEPT ![prev_task] = sp']
  /\ pc' = "restore"
  /\ UNCHANGED <<list, turnVars, timer, ifl, gs, who, user>>

\* mov 8(%rdi), %rsp: from here on the code runs on the stack of the next task,
\* and what it pops makes it the context that the stack belongs to.
Restore ==
  /\ pc = "restore"
  /\ sp' = rsp[current_task]
  /\ who' = stack[sp'.stack][sp'.used].who
  /\ pc' = "unlock"
  /\ UNCHANGED <<list, turnVars, rsp, timer, ifl, gs, stack, user>>

\* unlock(): the byte is cleared, then interrupts are enabled.
Unlock ==
  /\ pc = "unlock"
  /\ spinlock' = 0
  /\ pc' = "sti"
  /\ UNCHANGED <<list, current_task, prev_task, cr3, rsp, timer, machine>>

Sti ==
  /\ pc = "sti"
  /\ ifl' = TRUE
  /\ pc' = "pop"
  /\ UNCHANGED <<list, turnVars, rsp, timer, gs, stack, sp, who, user>>

\* The pops and the ret of switch_task, with interrupts on.
Pop ==
  /\ pc = "pop"
  /\ IF Finds("switch")
     THEN pc' = Top.pc /\ sp' = Drop
     ELSE pc' = "fault" /\ UNCHANGED sp
  /\ UNCHANGED <<list, turnVars, rsp, timer, ifl, gs, stack, who, user>>

\* The tail of isr_common, syscall_handler and resume_user: swapgs for a frame
\* of ring 3 ...
Leave ==
  /\ pc = "iret"
  /\ IF Finds("isr")
     THEN /\ SwapgsIf(Top.user)
          /\ pc' = "iretq"
     ELSE pc' = "fault" /\ UNCHANGED gs
  /\ UNCHANGED <<list, turnVars, rsp, timer, ifl, stack, sp, who, user>>

\* ... and the iretq, an instruction later: a handler may run in between.
Iretq ==
  /\ pc = "iretq"
  /\ Finds("isr")
  /\ who' = Top.who /\ user' = Top.user /\ pc' = Top.pc
  /\ sp' = IF Top.user THEN EmptyStack(Rsp0) ELSE Drop
  /\ ifl' = TRUE
  /\ UNCHANGED <<list, turnVars, rsp, timer, gs, stack>>

-----------------------------------------------------------------------------
(* System calls: syscall_handler and syscall_handler_inner, with           *)
(* interrupts off from the gate to the iretq.                              *)

\* mov %rsp, %gs:0x78 right after the swapgs goes through the GS base.
Syscall ==
  /\ pc = "body" /\ user /\ Syscalls # {}
  /\ Swapgs
  /\ stack' = [stack EXCEPT ![Rsp0] = [@ EXCEPT ![1] = Isr(who, TRUE, "body"),
                                                ![2] = Data]]
  /\ sp' = [stack |-> Rsp0, used |-> 1]
  /\ Gate
  /\ pc' = IF gs'[1] = "kernel" THEN "syscall" ELSE "fault"
  /\ UNCHANGED <<list, turnVars, rsp, timer, who>>

\* Calls that leave the task list alone; so does a number above 8.
OtherCall ==
  /\ pc = "syscall" /\ "other" \in Syscalls
  /\ pc' = "iret"
  /\ UNCHANGED <<list, turnVars, rsp, timer, machine>>

CloneSameId ==
  /\ pc = "syscall" /\ "clone" \in Syscalls
  /\ process_id < MaxTasks
  /\ traversal' = first_task
  /\ pc' = "scan"
  /\ UNCHANGED <<process_id, first_task, next, turnVars, rsp, timer, machine>>

\* KernelCloneProcess.
CloneProcess ==
  /\ pc = "syscall" /\ "clone" \in Syscalls
  /\ process_id < MaxTasks
  /\ process_id' = process_id + 1
  /\ traversal' = first_task
  /\ pc' = "scan"
  /\ UNCHANGED <<first_task, next, turnVars, rsp, timer, machine>>

\* A processor that took a fault in ring 0 prints it and halts.
\* The gate has cleared the interrupt flag, so nothing wakes it.
Fault == pc = "fault" /\ UNCHANGED vars

-----------------------------------------------------------------------------
Create == InitializeFirst \/ InitializeNext \/ Scan \/ Link
SwitchProcess == Check \/ Lock \/ Select \/ LoadCr3 \/ Save \/ Restore
                 \/ Unlock \/ Sti \/ Pop \/ Leave \/ Iretq

Next == Create \/ EnableTimer \/ EnterUser \/ Tick \/ SwitchProcess
        \/ Syscall \/ OtherCall \/ CloneProcess \/ Fault

Spec == Init /\ [][Next]_vars

\* The processor executes what it has started, and the boot code reaches
\* HalEnableTimer.  The APIC keeps a periodic tick pending while interrupts
\* are off, so a tick is taken if they are enabled again and again.
FairSpec ==
  /\ Spec
  /\ WF_vars(SwitchProcess \/ Scan \/ Link \/ OtherCall \/ CloneProcess)
  /\ WF_vars(InitializeFirst) /\ WF_vars(EnableTimer)
  /\ SF_vars(Tick)

-----------------------------------------------------------------------------
Labels == {"body", "scan", "link", "check", "lock", "select", "load", "save",
           "restore", "unlock", "sti", "pop", "iret", "iretq", "syscall", "fault"}

TypeOK ==
  /\ process_id \in 0..MaxTasks
  /\ first_task \in {Null, 1}
  /\ current_task \in Links /\ prev_task \in Links
  /\ traversal \in Tasks \cup {Null}
  /\ next \in [Tasks -> Links]
  /\ spinlock \in {0, 1}
  /\ rsp \in [Tasks -> Pointers]
  /\ timer \in BOOLEAN /\ ifl \in BOOLEAN /\ user \in BOOLEAN
  /\ cr3 \in Tasks
  /\ gs \in {"user", "kernel"} \X {"user", "kernel"}
  /\ stack \in [Stacks -> [1..MaxFrames -> Frames]]
  /\ sp \in Pointers
  /\ who \in Tasks \cup {0}
  /\ pc \in Labels

\* How many tasks are in the list: all that have an id, but for one that is
\* being created.
Linked == IF pc \in {"scan", "link"} THEN process_id - 1 ELSE process_id

\* The list is one circle through every task in the order of creation: the scan
\* of each creation ends at the last task, whoever else created tasks before
\* and whatever ran in between (task.c:52-57, 77, 94-97, 150).  The link of a
\* task that is alone is whatever malloc left there.
RingOrder == pc # "fault" =>
  /\ Linked > 1 => \A t \in 1..Linked : next[t] = IF t = Linked THEN 1 ELSE t + 1
  /\ Linked = 1 => next[1] \in FreshWords
  /\ pc \in {"scan", "link"} => traversal \in 1..Linked
  /\ pc = "link" => traversal = Linked

\* Nothing interrupts a creation or a switch half way: the list and the pair
\* of task pointers are only touched with interrupts off, and the lock is held
\* exactly from the choice of the next task until its stack is in use
\* (task.c:158, irq.s:145-146, the interrupt gates of idt.c:94-103).
SwitchAtomic ==
  /\ spinlock = 1 => ~ifl /\ pc \in {"select", "load", "save", "restore", "unlock", "fault"}
  /\ pc \in {"select", "load", "save", "restore", "unlock"} => spinlock = 1
  /\ pc \in {"scan", "link", "check", "lock", "sti", "syscall"} => ~ifl

\* Code that runs is the code of the current task, in its address space
\* (task.c:159-162): GetCurrentProcessId answers for the caller.
ContextIsCurrent ==
  first_task # Null /\ pc = "body" => who = current_task /\ cr3 = current_task

\* A task that waits for its turn finds its stack as it left it: every frame up
\* to the saved pointer is its own, and the topmost is the one switch_task
\* pops (irq.s:141-155).
SavedStacks ==
  pc \notin {"load", "save", "fault"} =>
    \A t \in (1..Linked) \ {current_task} :
      LET p == rsp[t] IN
      /\ stack[p.stack][p.used].kind = "switch"
      /\ \A i \in 1..p.used : stack[p.stack][i].who = t

\* Ring 3 always runs with the kernel's GS base in reserve, so that the swapgs
\* of the next system call brings in the base that %gs:0x78 needs (irq.s:83-85,
\* 122-125, 198-199), although ticks interrupt the way out between the swapgs
\* and the iretq.
GsBase ==
  pc = "body" /\ user => gs = <<"user", "kernel">>

Abstract == INSTANCE RoundRobin WITH tasks <- Linked, turn <- current_task

\* Turns pass round robin: a creation puts its task last in the order, and a
\* tick passes the turn to the next task of that order.
ImplementsRoundRobin == Abstract!Spec

\* Every task that exists gets its turn again and again.
EveryoneRuns ==
  \A t \in Tasks : (Linked >= t) ~> (current_task = t)
=============================================================================
