-------------------------- MODULE SchedulerProofs --------------------------
(***************************************************************************)
(* Proofs about Scheduler, for any number of tasks, any depth of nested    *)
(* interrupts, and with programs that clone themselves.                    *)
(***************************************************************************)
EXTENDS Scheduler, TLAPS

\* What the three invariants need to be inductive: where the boot code can be
\* before the timer runs, that the current task is in the circle, that a switch
\* is only attempted with somewhere to go and room for its frame, and that a
\* saved stack pointer never points to an empty stack.
Control ==
  /\ first_task = IF process_id = 0 THEN Null ELSE 1
  /\ process_id = 0 => ~timer /\ pc = "body" /\ current_task = Null
  /\ ~timer => ~ifl /\ pc \in {"body", "scan", "link", "fault"}
  /\ user => timer
  /\ pc \in {"scan", "link"} => process_id >= 2
  /\ process_id > 0 /\ pc # "fault" => current_task \in 1..Linked
  /\ pc \in {"lock", "select"} => next[current_task] # Null
  /\ pc \in {"load", "save"} => prev_task \in Tasks
  /\ pc \in {"check", "lock", "select", "load", "save"} => sp.used < MaxFrames
  /\ pc # "fault" => \A t \in 1..Linked : rsp[t].used > 0

IInv == TypeOK /\ RingOrder /\ SwitchAtomic /\ Control

-----------------------------------------------------------------------------
LEMMA FrameTypes ==
  /\ \A t \in Tasks \cup {0}, b \in BOOLEAN, p \in Resumable : Isr(t, b, p) \in Frames
  /\ \A t \in Tasks \cup {0}, p \in Resumable : Switch(t, p) \in Frames
  /\ Data \in Frames
BY DEF Isr, Switch, Data, Frames, Kinds, Resumable

LEMMA PointerTypes ==
  \A r \in Stacks : EmptyStack(r) \in Pointers
BY SchedulerAssumption DEF EmptyStack, Pointers

\* Writing one slot of one stack keeps the stacks well typed.
LEMMA StackWrite ==
  ASSUME stack \in [Stacks -> [1..MaxFrames -> Frames]],
         NEW p \in Pointers, NEW f \in Frames, p.used < MaxFrames, Push(p, f)
  PROVE  /\ stack' \in [Stacks -> [1..MaxFrames -> Frames]]
         /\ sp' \in Pointers
         /\ sp'.used > 0
BY SchedulerAssumption DEF Push, Pointers

\* The frame below the stack pointer is a frame.
LEMMA TopType ==
  ASSUME TypeOK, sp.used > 0
  PROVE  Top \in Frames
BY SchedulerAssumption DEF TypeOK, Top, Pointers

LEMMA DropType ==
  ASSUME TypeOK, sp.used > 0
  PROVE  Drop \in Pointers
<1>1. sp \in [stack : Stacks, used : 0..MaxFrames]
  BY DEF TypeOK, Pointers
<1>2. sp.used - 1 \in 0..MaxFrames /\ sp.stack \in Stacks
  BY <1>1, SchedulerAssumption
<1>3. Drop = [stack |-> sp.stack, used |-> sp.used - 1]
  BY <1>1 DEF Drop
<1> QED
  BY <1>2, <1>3 DEF Pointers

\* A step that leaves the list alone, outside a creation, keeps the circle.
LEMMA RingKept ==
  ASSUME IInv, UNCHANGED list, pc \notin {"scan", "link", "fault"},
         pc' \notin {"scan", "link"}
  PROVE  RingOrder' /\ Linked' = Linked
BY DEF IInv, RingOrder, Linked, list

\* A creation writes its task's stack and saved pointer and no other's.
LEMMA PrepareEffect ==
  ASSUME TypeOK, NEW t \in Tasks, NEW clone \in BOOLEAN, Prepare(t, clone)
  PROVE  /\ stack' \in [Stacks -> [1..MaxFrames -> Frames]]
         /\ rsp' \in [Tasks -> Pointers]
         /\ rsp'[t].used > 0
         /\ \A u \in Tasks : u # t => rsp'[u] = rsp[u]
<1> DEFINE n == IF clone THEN 2 ELSE 1
           frames == IF clone THEN <<Isr(t, TRUE, "body"), Switch(t, "iret")>>
                              ELSE <<Switch(t, "body")>>
<1>1. [stack |-> t, used |-> n] \in Pointers
  BY SchedulerAssumption DEF Pointers, Stacks
<1>2. ASSUME NEW i \in 1..MaxFrames, i <= n
      PROVE  frames[i] \in Frames
  <2>1. Isr(t, TRUE, "body") \in Frames /\ Switch(t, "iret") \in Frames
        /\ Switch(t, "body") \in Frames
    BY FrameTypes DEF Resumable
  <2>2. i = 1 \/ (i = 2 /\ clone)
    BY <1>2, SchedulerAssumption
  <2>3. CASE i = 1
    BY <2>1, <2>3
  <2>4. CASE i = 2 /\ clone
    BY <2>1, <2>4
  <2> QED
    BY <2>2, <2>3, <2>4
<1>3. /\ stack \in [Stacks -> [1..MaxFrames -> Frames]]
      /\ rsp \in [Tasks -> Pointers]
  BY DEF TypeOK
<1>4. /\ rsp' = [rsp EXCEPT ![t] = [stack |-> t, used |-> n]]
      /\ stack' = [stack EXCEPT ![t] =
                     [i \in 1..MaxFrames |-> IF i <= n THEN frames[i] ELSE stack[t][i]]]
  BY DEF Prepare
<1> HIDE DEF frames
<1>5. stack' \in [Stacks -> [1..MaxFrames -> Frames]]
  BY <1>2, <1>3, <1>4 DEF Stacks
<1>6. rsp' \in [Tasks -> Pointers]
  BY <1>1, <1>3, <1>4
<1> QED
  BY <1>3, <1>4, <1>5, <1>6 DEF Tasks

LEMMA InitIInv == Init => IInv
<1> SUFFICES ASSUME Init PROVE IInv
  OBVIOUS
<1>1. 1 \in Tasks /\ 0 \in Links /\ Tasks \subseteq Stacks
  BY SchedulerAssumption DEF Tasks, Links, Stacks
<1>2. /\ EmptyStack(1) \in Pointers
      /\ [t \in Tasks |-> EmptyStack(t)] \in [Tasks -> Pointers]
      /\ [r \in Stacks |-> [i \in 1..MaxFrames |-> Data]]
           \in [Stacks -> [1..MaxFrames -> Frames]]
  BY <1>1, FrameTypes, PointerTypes
<1>3. TypeOK
  <2>1. next \in [Tasks -> Links] /\ traversal \in Tasks \cup {Null}
    BY <1>1 DEF Init, Null
  <2>2. gs \in {"user", "kernel"} \X {"user", "kernel"}
    BY DEF Init
  <2>3. rsp \in [Tasks -> Pointers] /\ sp \in Pointers
        /\ stack \in [Stacks -> [1..MaxFrames -> Frames]]
    BY <1>2 DEF Init
  <2>4. timer \in BOOLEAN /\ ifl \in BOOLEAN /\ user \in BOOLEAN
    BY DEF Init
  <2>5. /\ process_id \in 0..MaxTasks /\ first_task \in {Null, 1}
        /\ current_task \in Links /\ prev_task \in Links /\ spinlock \in {0, 1}
    BY <1>1, SchedulerAssumption DEF Init, Null
  <2>6. cr3 \in Tasks /\ who \in Tasks \cup {0} /\ pc \in Labels
    BY <1>1 DEF Init, Labels
  <2> QED
    BY <2>1, <2>2, <2>3, <2>4, <2>5, <2>6 DEF TypeOK
<1> QED
  BY <1>3, SchedulerAssumption
  DEF Init, IInv, RingOrder, SwitchAtomic, Control, Linked, Null
-----------------------------------------------------------------------------
(* The steps of a creation.                                                *)

LEMMA InitializeFirstIInv == IInv /\ InitializeFirst => IInv'
<1> SUFFICES ASSUME IInv, InitializeFirst PROVE IInv'
  OBVIOUS
<1>1. process_id = 0 /\ process_id' = 1 /\ 1 \in Tasks
  BY SchedulerAssumption DEF InitializeFirst, IInv, Control, TypeOK, Null, Tasks
<1>2. /\ stack' \in [Stacks -> [1..MaxFrames -> Frames]]
      /\ rsp' \in [Tasks -> Pointers]
      /\ rsp'[1].used > 0
  BY <1>1, PrepareEffect DEF IInv, InitializeFirst
<1>3. next' \in [Tasks -> Links] /\ next'[1] \in FreshWords
  BY <1>1, SchedulerAssumption DEF InitializeFirst, IInv, TypeOK, Links, Null, Wild
<1>4. TypeOK'
  BY <1>1, <1>2, <1>3, SchedulerAssumption
  DEF InitializeFirst, IInv, TypeOK, Links, Null
<1>5. RingOrder'
  BY <1>1, <1>3 DEF InitializeFirst, RingOrder, Linked
<1>6. SwitchAtomic' /\ Control'
  BY <1>1, <1>2 DEF InitializeFirst, IInv, SwitchAtomic, Control, Linked
<1> QED
  BY <1>4, <1>5, <1>6 DEF IInv

\* The id is taken, but the list is what it was: Linked does not move.
LEMMA BeginIInv ==
  ASSUME IInv, process_id > 0, process_id < MaxTasks, ~ifl,
         pc \in {"body", "syscall"}, pc = "body" => ~timer,
         process_id' = process_id + 1, traversal' = first_task, pc' = "scan",
         UNCHANGED <<first_task, next, turnVars, rsp, timer, machine>>
  PROVE  IInv'
<1>1. first_task = 1 /\ 1 \in Tasks /\ process_id \in Nat
  BY SchedulerAssumption DEF IInv, Control, TypeOK, Tasks
<1>2. TypeOK'
  BY <1>1, SchedulerAssumption DEF IInv, TypeOK, turnVars, machine, Labels
<1>3. Linked' = Linked /\ Linked = process_id
  BY <1>1 DEF Linked
<1>4. RingOrder'
  BY <1>1, <1>3 DEF IInv, RingOrder
<1>5. SwitchAtomic'
  BY DEF IInv, SwitchAtomic, turnVars, machine
<1>6. Control'
  BY <1>1, <1>3 DEF IInv, Control, turnVars, machine
<1> QED
  BY <1>2, <1>4, <1>5, <1>6 DEF IInv

LEMMA InitializeNextIInv == IInv /\ InitializeNext => IInv'
<1> SUFFICES ASSUME IInv, InitializeNext PROVE IInv'
  OBVIOUS
<1>1. process_id > 0 /\ ~ifl
  BY SchedulerAssumption DEF IInv, Control, TypeOK, InitializeNext, Null
<1> QED
  BY <1>1, BeginIInv DEF InitializeNext

LEMMA CloneProcessIInv == IInv /\ CloneProcess => IInv'
<1> SUFFICES ASSUME IInv, CloneProcess PROVE IInv'
  OBVIOUS
<1>1. process_id > 0 /\ ~ifl
  BY SchedulerAssumption DEF IInv, Control, SwitchAtomic, TypeOK, CloneProcess, Null
<1> QED
  BY <1>1, BeginIInv DEF CloneProcess

LEMMA ScanIInv == IInv /\ Scan => IInv'
<1> SUFFICES ASSUME IInv, Scan PROVE IInv'
  OBVIOUS
<1>1. /\ process_id \in 2..MaxTasks /\ first_task = 1
      /\ Linked = process_id - 1 /\ Linked \in Tasks
      /\ traversal \in 1..Linked
  BY SchedulerAssumption DEF Scan, IInv, Control, TypeOK, Linked, RingOrder, Tasks
<1>2. CASE next[traversal] \in {Null, first_task}
  <2>1. pc' = "link" /\ traversal' = traversal
    BY <1>2 DEF Scan
  <2>2. traversal = Linked
    BY <1>1, <1>2 DEF Scan, IInv, RingOrder, Null
  <2>3. TypeOK'
    BY <1>1, <2>1 DEF Scan, IInv, TypeOK, turnVars, machine, Labels
  <2>4. Linked' = Linked
    BY <2>1 DEF Scan, Linked
  <2>5. RingOrder'
    BY <1>1, <2>1, <2>2, <2>4 DEF Scan, IInv, RingOrder
  <2>6. SwitchAtomic'
    BY <2>1 DEF Scan, IInv, SwitchAtomic, turnVars, machine
  <2>7. Control'
    BY <2>1, <2>4 DEF Scan, IInv, Control, turnVars, machine
  <2> QED
    BY <2>3, <2>5, <2>6, <2>7 DEF IInv
<1>3. CASE next[traversal] \notin {Null, first_task} /\ next[traversal] = Wild
  <2>1. pc' = "fault" /\ traversal' = traversal
    BY <1>3 DEF Scan
  <2>2. TypeOK'
    BY <1>1, <2>1 DEF Scan, IInv, TypeOK, turnVars, machine, Labels
  <2>3. RingOrder' /\ SwitchAtomic'
    BY <2>1 DEF Scan, IInv, RingOrder, SwitchAtomic, turnVars, machine
  <2>4. Control'
    BY <1>1, <2>1 DEF Scan, IInv, Control, turnVars, machine
  <2> QED
    BY <2>2, <2>3, <2>4 DEF IInv
<1>4. CASE next[traversal] \notin {Null, first_task} /\ next[traversal] # Wild
  <2>1. pc' = pc /\ traversal' = next[traversal]
    BY <1>4 DEF Scan
  <2>2. Linked > 1
    BY <1>1, <1>4, SchedulerAssumption DEF Scan, IInv, RingOrder
  <2>3. traversal' = traversal + 1 /\ traversal' \in 1..Linked
    BY <1>1, <1>4, <2>1, <2>2 DEF Scan, IInv, RingOrder
  <2>4. Linked' = Linked
    BY <2>1 DEF Scan, Linked
  <2>5. TypeOK'
    BY <1>1, <2>1, <2>3, SchedulerAssumption
    DEF Scan, IInv, TypeOK, turnVars, machine, Tasks
  <2>6. RingOrder'
    BY <1>1, <2>1, <2>3, <2>4 DEF Scan, IInv, RingOrder
  <2>7. SwitchAtomic' /\ Control'
    BY <2>1, <2>4 DEF Scan, IInv, SwitchAtomic, Control, turnVars, machine
  <2> QED
    BY <2>5, <2>6, <2>7 DEF IInv
<1> QED
  BY <1>2, <1>3, <1>4

\* The new task is hung between the last task, where the scan ended, and the
\* head: the circle through 1..Linked becomes one through 1..Linked + 1.
LEMMA LinkIInv == IInv /\ Link => IInv'
<1> SUFFICES ASSUME IInv, Link PROVE IInv'
  OBVIOUS
<1>1. /\ process_id \in 2..MaxTasks /\ process_id \in Tasks /\ first_task = 1
      /\ Linked = process_id - 1
      /\ traversal = process_id - 1 /\ traversal \in Tasks /\ traversal # process_id
  BY SchedulerAssumption DEF Link, IInv, Control, TypeOK, Linked, RingOrder, Tasks
<1>2. Linked' = process_id /\ pc' \in {"iret", "body"}
  BY DEF Link, Linked
<1>3. next' = [next EXCEPT ![process_id] = 1, ![traversal] = process_id]
  BY <1>1 DEF Link
<1>4. /\ next' \in [Tasks -> Links]
      /\ next'[process_id] = 1 /\ next'[process_id - 1] = process_id
      /\ \A t \in Tasks : t \notin {process_id, process_id - 1} => next'[t] = next[t]
  <2>1. next \in [Tasks -> Links] /\ 1 \in Links /\ process_id \in Links
    BY <1>1, SchedulerAssumption DEF IInv, TypeOK, Links, Tasks
  <2>2. next' \in [Tasks -> Links]
    BY <1>3, <2>1
  <2>3. next'[process_id] = 1 /\ next'[traversal] = process_id
    BY <1>1, <1>3, <2>1
  <2>4. \A t \in Tasks : t \notin {process_id, traversal} => next'[t] = next[t]
    BY <1>3, <2>1
  <2> QED
    BY <1>1, <2>2, <2>3, <2>4
<1>5. /\ stack' \in [Stacks -> [1..MaxFrames -> Frames]]
      /\ rsp' \in [Tasks -> Pointers]
      /\ rsp'[process_id].used > 0
      /\ \A u \in Tasks : u # process_id => rsp'[u] = rsp[u]
  BY <1>1, PrepareEffect DEF IInv, Link, TypeOK
<1>6. TypeOK'
  BY <1>1, <1>2, <1>4, <1>5 DEF Link, IInv, TypeOK, turnVars, Labels
<1>7. RingOrder'
  <2>1. \A t \in 1..process_id : next'[t] = IF t = process_id THEN 1 ELSE t + 1
    <3> SUFFICES ASSUME NEW t \in 1..process_id
                 PROVE  next'[t] = IF t = process_id THEN 1 ELSE t + 1
      OBVIOUS
    <3>1. CASE t >= process_id - 1
      BY <1>1, <1>4, <3>1
    <3>2. CASE t < process_id - 1
      <4>1. t \in Tasks /\ t \in 1..Linked /\ Linked > 1 /\ t # Linked
        BY <1>1, <3>2, SchedulerAssumption DEF Tasks
      <4> QED
        BY <1>1, <1>4, <4>1, <3>2 DEF IInv, RingOrder, Link
    <3> QED
      BY <1>1, <3>1, <3>2
  <2>2. Linked' > 1 /\ pc' \notin {"scan", "link"}
    BY <1>1, <1>2
  <2> QED
    BY <1>2, <2>1, <2>2 DEF RingOrder
<1>8. SwitchAtomic'
  BY <1>2 DEF Link, IInv, SwitchAtomic, turnVars
<1>9. Control'
  BY <1>1, <1>2, <1>5, SchedulerAssumption DEF Link, IInv, Control, turnVars, Tasks
<1> QED
  BY <1>6, <1>7, <1>8, <1>9 DEF IInv
-----------------------------------------------------------------------------
(* Boot, user mode and system calls.                                       *)

LEMMA EnableTimerIInv == IInv /\ EnableTimer => IInv'
<1> SUFFICES ASSUME IInv, EnableTimer PROVE IInv'
  OBVIOUS
<1>1. process_id > 0 /\ spinlock = 0 /\ pc' = pc
  BY SchedulerAssumption
  DEF EnableTimer, IInv, Control, TypeOK, SwitchAtomic, Null
<1>2. RingOrder' /\ Linked' = Linked
  BY <1>1, RingKept DEF EnableTimer
<1>3. TypeOK'
  BY DEF EnableTimer, IInv, TypeOK, list, turnVars
<1>4. SwitchAtomic' /\ Control'
  BY <1>1, <1>2 DEF EnableTimer, IInv, SwitchAtomic, Control, list, turnVars
<1> QED
  BY <1>2, <1>3, <1>4 DEF IInv

LEMMA EnterUserIInv == IInv /\ EnterUser => IInv'
<1> SUFFICES ASSUME IInv, EnterUser PROVE IInv'
  OBVIOUS
<1>1. pc' = pc /\ sp' \in Pointers
  BY PointerTypes DEF EnterUser, Stacks
<1>2. RingOrder' /\ Linked' = Linked
  BY <1>1, RingKept DEF EnterUser
<1>3. gs' \in {"user", "kernel"} \X {"user", "kernel"}
  BY DEF EnterUser, IInv, TypeOK
<1>4. TypeOK'
  BY <1>1, <1>3 DEF EnterUser, IInv, TypeOK, list, turnVars
<1>5. SwitchAtomic' /\ Control'
  BY <1>1, <1>2 DEF EnterUser, IInv, SwitchAtomic, Control, list, turnVars
<1> QED
  BY <1>2, <1>4, <1>5 DEF IInv

LEMMA SwapgsType ==
  ASSUME TypeOK, Swapgs \/ UNCHANGED gs
  PROVE  gs' \in {"user", "kernel"} \X {"user", "kernel"}
BY DEF TypeOK, Swapgs

LEMMA SyscallIInv == IInv /\ Syscall => IInv'
<1> SUFFICES ASSUME IInv, Syscall PROVE IInv'
  OBVIOUS
<1>1. /\ pc = "body" /\ pc' \in {"syscall", "fault"} /\ ifl' = FALSE
      /\ user' = FALSE /\ spinlock = 0
  BY DEF Syscall, Gate, IInv, SwitchAtomic, TypeOK
<1>2. RingOrder' /\ Linked' = Linked
  BY <1>1, RingKept DEF Syscall
<1>3. Isr(who, TRUE, "body") \in Frames /\ Data \in Frames
  BY FrameTypes DEF IInv, TypeOK, Resumable
<1>4. stack' \in [Stacks -> [1..MaxFrames -> Frames]]
  <2>1. stack \in [Stacks -> [1..MaxFrames -> Frames]]
    BY DEF IInv, TypeOK
  <2>2. [stack[Rsp0] EXCEPT ![1] = Isr(who, TRUE, "body"), ![2] = Data]
          \in [1..MaxFrames -> Frames]
    BY <1>3, <2>1 DEF Stacks
  <2> QED
    BY <2>1, <2>2 DEF Syscall
<1>5. sp' \in Pointers /\ gs' \in {"user", "kernel"} \X {"user", "kernel"}
  BY SwapgsType, SchedulerAssumption DEF Syscall, IInv, Pointers, Stacks
<1>6. TypeOK'
  BY <1>1, <1>4, <1>5 DEF Syscall, IInv, TypeOK, list, turnVars, Labels
<1>7. SwitchAtomic'
  BY <1>1 DEF Syscall, SwitchAtomic, turnVars
<1>8. Control'
  BY <1>1, <1>2 DEF Syscall, IInv, Control, list, turnVars
<1> QED
  BY <1>2, <1>6, <1>7, <1>8 DEF IInv

LEMMA OtherCallIInv == IInv /\ OtherCall => IInv'
<1> SUFFICES ASSUME IInv, OtherCall PROVE IInv'
  OBVIOUS
<1>1. RingOrder' /\ Linked' = Linked
  BY RingKept DEF OtherCall
<1>2. TypeOK' /\ SwitchAtomic' /\ Control'
  BY <1>1 DEF OtherCall, IInv, TypeOK, SwitchAtomic, Control, list, turnVars,
              machine, Labels
<1> QED
  BY <1>1, <1>2 DEF IInv

-----------------------------------------------------------------------------
(* The timer interrupt and the switch.                                     *)

LEMMA TickIInv == IInv /\ Tick => IInv'
<1> SUFFICES ASSUME IInv, Tick PROVE IInv'
  OBVIOUS
<1>1. /\ timer /\ ifl /\ pc \in Resumable /\ pc' = "check" /\ ifl' = FALSE
      /\ user' = FALSE /\ spinlock = 0
  <2>1. spinlock = 0
    BY DEF Tick, IInv, SwitchAtomic, TypeOK
  <2>2. pc \in Resumable
    BY DEF Tick, IInv, SwitchAtomic, TypeOK, Labels, Resumable
  <2> QED
    BY <2>1, <2>2 DEF Tick, Gate
<1>2. RingOrder' /\ Linked' = Linked
  BY <1>1, RingKept DEF Tick, Resumable
<1>3. Landing \in Pointers /\ Landing.used + 1 < MaxFrames
  BY PointerTypes, SchedulerAssumption
  DEF Tick, Landing, IInv, TypeOK, Stacks, Pointers, EmptyStack
<1>4. Isr(who, user, pc) \in Frames
  BY <1>1, FrameTypes DEF IInv, TypeOK
<1>5. /\ stack' \in [Stacks -> [1..MaxFrames -> Frames]] /\ sp' \in Pointers
      /\ sp'.used < MaxFrames
  <2>1. Landing.used < MaxFrames
    BY <1>3, SchedulerAssumption DEF Pointers
  <2>2. sp'.used = Landing.used + 1
    BY <1>3 DEF Tick, Push, Pointers
  <2> QED
    BY <1>3, <1>4, <2>1, <2>2, StackWrite DEF Tick, IInv, TypeOK
<1>6. gs' \in {"user", "kernel"} \X {"user", "kernel"}
  BY SwapgsType DEF Tick, SwapgsIf, IInv
<1>7. TypeOK'
  BY <1>1, <1>5, <1>6 DEF Tick, IInv, TypeOK, list, turnVars, Labels
<1>8. SwitchAtomic'
  BY <1>1 DEF Tick, SwitchAtomic, turnVars
<1>9. Control'
  BY <1>1, <1>2, <1>5 DEF Tick, IInv, Control, list, turnVars, Resumable
<1> QED
  BY <1>2, <1>7, <1>8, <1>9 DEF IInv

LEMMA CheckIInv == IInv /\ Check => IInv'
<1> SUFFICES ASSUME IInv, Check PROVE IInv'
  OBVIOUS
<1>1. RingOrder' /\ Linked' = Linked
  BY RingKept DEF Check
<1>2. TypeOK' /\ SwitchAtomic'
  BY DEF Check, IInv, TypeOK, SwitchAtomic, list, turnVars, machine, Labels
<1>3. Control'
  BY <1>1 DEF Check, IInv, Control, list, turnVars, machine
<1> QED
  BY <1>1, <1>2, <1>3 DEF IInv

LEMMA LockIInv == IInv /\ Lock => IInv'
<1> SUFFICES ASSUME IInv, Lock PROVE IInv'
  OBVIOUS
<1>1. RingOrder' /\ Linked' = Linked
  BY RingKept DEF Lock
<1>2. TypeOK' /\ SwitchAtomic'
  BY DEF Lock, IInv, TypeOK, SwitchAtomic, list, Labels
<1>3. Control'
  BY <1>1 DEF Lock, IInv, Control, list
<1> QED
  BY <1>1, <1>2, <1>3 DEF IInv

\* The next task is in the circle too, unless the current one is alone and its
\* link is a wild address.
LEMMA SelectIInv == IInv /\ Select => IInv'
<1> SUFFICES ASSUME IInv, Select PROVE IInv'
  OBVIOUS
<1>1. /\ process_id > 0 /\ Linked = process_id /\ process_id \in Tasks
      /\ current_task \in 1..Linked /\ current_task \in Tasks
      /\ next[current_task] # Null
      /\ pc' \in {"fault", "load"}
  BY SchedulerAssumption DEF Select, IInv, Control, TypeOK, Linked, Tasks
<1>2. RingOrder' /\ Linked' = Linked
  BY RingKept DEF Select
<1>3. current_task' \in Links
  BY <1>1 DEF Select, IInv, TypeOK
<1>4. pc' # "fault" => current_task' \in 1..Linked
  <2>1. CASE Linked > 1
    BY <1>1, <2>1 DEF Select, IInv, RingOrder
  <2>2. CASE Linked = 1
    BY <1>1, <2>2, SchedulerAssumption DEF Select, IInv, RingOrder
  <2> QED
    BY <1>1, <2>1, <2>2 DEF Tasks
<1>5. TypeOK'
  BY <1>1, <1>3 DEF Select, IInv, TypeOK, list, machine, Labels, Tasks, Links
<1>6. SwitchAtomic'
  BY <1>1 DEF Select, IInv, SwitchAtomic, machine
<1>7. Control'
  BY <1>1, <1>2, <1>4 DEF Select, IInv, Control, list, machine
<1> QED
  BY <1>2, <1>5, <1>6, <1>7 DEF IInv

LEMMA LoadCr3IInv == IInv /\ LoadCr3 => IInv'
<1> SUFFICES ASSUME IInv, LoadCr3 PROVE IInv'
  OBVIOUS
<1>1. current_task \in Tasks /\ process_id > 0
  BY SchedulerAssumption DEF LoadCr3, IInv, Control, TypeOK, Linked, Tasks
<1>2. RingOrder' /\ Linked' = Linked
  BY RingKept DEF LoadCr3
<1>3. TypeOK' /\ SwitchAtomic'
  BY <1>1 DEF LoadCr3, IInv, TypeOK, SwitchAtomic, list, machine, Labels
<1>4. Control'
  BY <1>1, <1>2 DEF LoadCr3, IInv, Control, list, machine
<1> QED
  BY <1>2, <1>3, <1>4 DEF IInv

LEMMA SaveIInv == IInv /\ Save => IInv'
<1> SUFFICES ASSUME IInv, Save PROVE IInv'
  OBVIOUS
<1>1. RingOrder' /\ Linked' = Linked
  BY RingKept DEF Save
<1>2. prev_task \in Tasks /\ sp \in Pointers /\ sp.used < MaxFrames
  BY DEF Save, IInv, Control, TypeOK
<1>3. Switch(who, "iret") \in Frames
  BY FrameTypes DEF IInv, TypeOK, Resumable
<1>4. /\ stack' \in [Stacks -> [1..MaxFrames -> Frames]] /\ sp' \in Pointers
      /\ sp'.used > 0
  BY <1>2, <1>3, StackWrite DEF Save, IInv, TypeOK
<1>5. /\ rsp' \in [Tasks -> Pointers]
      /\ \A t \in Tasks : rsp[t].used > 0 => rsp'[t].used > 0
  BY <1>2, <1>4 DEF Save, IInv, TypeOK
<1>6. TypeOK'
  BY <1>4, <1>5 DEF Save, IInv, TypeOK, list, turnVars, Labels
<1>7. SwitchAtomic'
  BY DEF Save, IInv, SwitchAtomic, turnVars
<1>8. 1..Linked \subseteq Tasks
  BY SchedulerAssumption DEF Save, IInv, TypeOK, Linked, Tasks
<1>9. Control'
  BY <1>1, <1>5, <1>8 DEF Save, IInv, Control, list, turnVars
<1> QED
  BY <1>1, <1>6, <1>7, <1>9 DEF IInv

LEMMA RestoreIInv == IInv /\ Restore => IInv'
<1> SUFFICES ASSUME IInv, Restore PROVE IInv'
  OBVIOUS
<1>1. RingOrder' /\ Linked' = Linked
  BY RingKept DEF Restore
<1>2. /\ current_task \in Tasks /\ rsp[current_task] \in Pointers
      /\ rsp[current_task].used > 0
  BY SchedulerAssumption DEF Restore, IInv, Control, TypeOK, Linked, Tasks
<1>3. sp' \in Pointers /\ sp'.used \in 1..MaxFrames /\ sp'.stack \in Stacks
  BY <1>2, SchedulerAssumption DEF Restore, Pointers
<1>4. who' \in Tasks \cup {0}
  <2>1. stack[sp'.stack][sp'.used] \in Frames
    BY <1>3 DEF IInv, TypeOK
  <2> QED
    BY <2>1 DEF Restore, Frames
<1>5. TypeOK'
  BY <1>3, <1>4 DEF Restore, IInv, TypeOK, list, turnVars, Labels
<1>6. SwitchAtomic'
  BY DEF Restore, IInv, SwitchAtomic, turnVars
<1>7. Control'
  BY <1>1 DEF Restore, IInv, Control, list, turnVars
<1> QED
  BY <1>1, <1>5, <1>6, <1>7 DEF IInv

LEMMA UnlockIInv == IInv /\ (Unlock \/ Sti) => IInv'
<1> SUFFICES ASSUME IInv, Unlock \/ Sti PROVE IInv'
  OBVIOUS
<1>1. RingOrder' /\ Linked' = Linked
  BY RingKept DEF Unlock, Sti
<1>2. TypeOK'
  BY DEF Unlock, Sti, IInv, TypeOK, list, turnVars, machine, Labels
<1>3. SwitchAtomic'
  BY DEF Unlock, Sti, IInv, SwitchAtomic, TypeOK, turnVars, machine
<1>4. Control'
  BY <1>1 DEF Unlock, Sti, IInv, Control, list, turnVars, machine
<1> QED
  BY <1>1, <1>2, <1>3, <1>4 DEF IInv

LEMMA PopIInv == IInv /\ Pop => IInv'
<1> SUFFICES ASSUME IInv, Pop PROVE IInv'
  OBVIOUS
<1>1. pc' \in Resumable \cup {"fault"} /\ sp' \in Pointers
  BY TopType, DropType DEF Pop, Finds, IInv, Frames, TypeOK
<1>2. RingOrder' /\ Linked' = Linked
  BY <1>1, RingKept DEF Pop, Resumable
<1>3. TypeOK'
  BY <1>1 DEF Pop, IInv, TypeOK, list, turnVars, Labels, Resumable
<1>4. SwitchAtomic'
  BY <1>1 DEF Pop, IInv, SwitchAtomic, TypeOK, turnVars, Resumable
<1>5. Control'
  BY <1>1, <1>2 DEF Pop, IInv, Control, list, turnVars, Resumable
<1> QED
  BY <1>2, <1>3, <1>4, <1>5 DEF IInv

LEMMA LeaveIInv == IInv /\ Leave => IInv'
<1> SUFFICES ASSUME IInv, Leave PROVE IInv'
  OBVIOUS
<1>1. /\ pc' \in {"iretq", "fault"}
      /\ gs' \in {"user", "kernel"} \X {"user", "kernel"}
  BY SwapgsType DEF Leave, SwapgsIf, IInv
<1>2. RingOrder' /\ Linked' = Linked
  BY <1>1, RingKept DEF Leave
<1>3. TypeOK'
  BY <1>1 DEF Leave, IInv, TypeOK, list, turnVars, Labels
<1>4. SwitchAtomic'
  BY <1>1 DEF Leave, IInv, SwitchAtomic, TypeOK, turnVars
<1>5. Control'
  BY <1>1, <1>2 DEF Leave, IInv, Control, list, turnVars
<1> QED
  BY <1>2, <1>3, <1>4, <1>5 DEF IInv

LEMMA IretqIInv == IInv /\ Iretq => IInv'
<1> SUFFICES ASSUME IInv, Iretq PROVE IInv'
  OBVIOUS
<1>1. Top \in Frames
  BY TopType DEF Iretq, Finds, IInv
<1>2. /\ pc' \in Resumable /\ sp' \in Pointers /\ who' \in Tasks \cup {0}
      /\ user' \in BOOLEAN
  BY <1>1, DropType, PointerTypes DEF Iretq, Finds, IInv, Frames, Stacks
<1>3. RingOrder' /\ Linked' = Linked
  BY <1>2, RingKept DEF Iretq, Resumable
<1>4. TypeOK'
  BY <1>2 DEF Iretq, IInv, TypeOK, list, turnVars, Labels, Resumable
<1>5. SwitchAtomic'
  BY <1>2 DEF Iretq, IInv, SwitchAtomic, TypeOK, turnVars, Resumable
<1>6. Control'
  BY <1>2, <1>3 DEF Iretq, IInv, Control, list, turnVars, Resumable
<1> QED
  BY <1>3, <1>4, <1>5, <1>6 DEF IInv

-----------------------------------------------------------------------------
LEMMA StutterIInv == IInv /\ UNCHANGED vars => IInv'
<1> SUFFICES ASSUME IInv, UNCHANGED vars PROVE IInv'
  OBVIOUS
<1>1. UNCHANGED <<process_id, first_task, next, traversal, current_task, prev_task,
                  spinlock, cr3, rsp, timer, ifl, gs, stack, sp, who, user, pc>>
  BY DEF vars, list, turnVars, machine
<1>2. Linked' = Linked
  BY <1>1 DEF Linked
<1> QED
  BY <1>1, <1>2 DEF IInv, TypeOK, RingOrder, SwitchAtomic, Control

LEMMA NextIInv == IInv /\ [Next]_vars => IInv'
BY InitializeFirstIInv, InitializeNextIInv, ScanIInv, LinkIInv, EnableTimerIInv,
   EnterUserIInv, SyscallIInv, OtherCallIInv, CloneProcessIInv, TickIInv, CheckIInv,
   LockIInv, SelectIInv, LoadCr3IInv, SaveIInv, RestoreIInv, UnlockIInv, PopIInv,
   LeaveIInv, IretqIInv, StutterIInv
DEF Next, Create, SwitchProcess, Fault

LEMMA Invariance == Spec => []IInv
BY InitIInv, NextIInv, PTL DEF Spec

\* Every reachable state is well typed: no step of the switch leaves a stack
\* pointer outside its stack or a code label that does not exist.
THEOREM TypeCorrect == Spec => []TypeOK
BY Invariance, PTL DEF IInv

\* However many tasks the boot code and clone calls create, and whatever
\* interrupts what, the list stays one circle in the order of creation
\* (task.c:52-57, 77, 94-97, 150).
THEOREM CircleOfTasks == Spec => []RingOrder
BY Invariance, PTL DEF IInv

\* The list and the pair of task pointers change with interrupts off, and the
\* lock covers the whole switch (task.c:158, irq.s:145-146).
THEOREM AtomicSwitch == Spec => []SwitchAtomic
BY Invariance, PTL DEF IInv
-----------------------------------------------------------------------------
(* The refinement of RoundRobin.  The link of a lone task must read as     *)
(* null: otherwise a second creation, or the first tick, follows it.       *)

LEMMA StutterRefines ==
  ASSUME IInv, pc \notin {"scan", "link", "fault"}, pc' \notin {"scan", "link"},
         UNCHANGED <<process_id, current_task>>
  PROVE  UNCHANGED <<Linked, current_task>>
BY DEF Linked

LEMMA StepRefines ==
  ASSUME FreshWords = {Null}, IInv, [Next]_vars
  PROVE  [Abstract!Next]_<<Linked, current_task>>
<1>1. CASE InitializeFirst
  <2>1. process_id = 0 /\ process_id' = 1 /\ current_task' = 1 /\ current_task = 0
    BY <1>1 DEF InitializeFirst, IInv, Control, TypeOK, Null
  <2>2. Linked = 0 /\ Linked' = 1
    BY <1>1, <2>1 DEF InitializeFirst, Linked
  <2> QED
    BY <2>1, <2>2 DEF Abstract!Next, Abstract!Create
<1>2. CASE InitializeNext \/ CloneProcess
  <2>1. Linked' = Linked /\ current_task' = current_task
    BY <1>2 DEF InitializeNext, CloneProcess, Linked, turnVars, IInv, TypeOK
  <2> QED
    BY <2>1
<1>3. CASE Scan
  <2>1. next[traversal] # Wild
    BY <1>3, SchedulerAssumption
    DEF Scan, IInv, RingOrder, Control, TypeOK, Linked, Wild, Null
  <2>2. pc' \in {"scan", "link"}
    BY <1>3, <2>1 DEF Scan
  <2> QED
    BY <1>3, <2>2 DEF Scan, Linked, turnVars
<1>4. CASE Link
  <2>1. /\ Linked = process_id - 1 /\ Linked' = process_id
        /\ process_id \in Nat /\ process_id >= 2 /\ current_task' = current_task
    BY <1>4, SchedulerAssumption DEF Link, Linked, IInv, Control, TypeOK, turnVars
  <2> QED
    BY <2>1 DEF Abstract!Next, Abstract!Create
<1>5. CASE Select
  <2>1. /\ process_id \in Nat /\ Linked = process_id /\ Linked' = process_id
        /\ process_id > 0 /\ current_task \in 1..Linked
        /\ next[current_task] # Null
    BY <1>5, SchedulerAssumption DEF Select, Linked, IInv, Control, TypeOK, list
  <2>2. Linked > 1
    BY <2>1, <1>5 DEF IInv, RingOrder, Select
  <2>3. current_task' = IF current_task = Linked THEN 1 ELSE current_task + 1
    BY <1>5, <2>1, <2>2 DEF Select, IInv, RingOrder
  <2> QED
    BY <2>1, <2>2, <2>3 DEF Abstract!Next, Abstract!Pass
<1>6. CASE EnableTimer \/ EnterUser \/ Tick \/ Check \/ Lock \/ LoadCr3 \/ Save
           \/ Restore \/ Unlock \/ Sti \/ Leave \/ Syscall \/ OtherCall
  <2>1. pc' \notin {"scan", "link"}
    BY <1>6 DEF EnableTimer, EnterUser, Tick, Check, Lock, LoadCr3, Save, Restore,
                Unlock, Sti, Leave, Syscall, OtherCall
  <2>2. pc \notin {"scan", "link", "fault"}
    <3>1. Tick => pc \notin {"scan", "link", "fault"}
      BY DEF Tick, IInv, SwitchAtomic
    <3> QED
      BY <1>6, <3>1
      DEF EnableTimer, EnterUser, Check, Lock, LoadCr3, Save, Restore, Unlock, Sti,
          Leave, Syscall, OtherCall
  <2>3. UNCHANGED <<process_id, current_task>>
    BY <1>6 DEF EnableTimer, EnterUser, Tick, Check, Lock, LoadCr3, Save, Restore,
                Unlock, Sti, Leave, Syscall, OtherCall, list, turnVars
  <2> QED
    BY <2>1, <2>2, <2>3, StutterRefines
<1>7. CASE Pop \/ Iretq
  <2>1. pc' \in Resumable \cup {"fault"}
    BY <1>7, TopType DEF Pop, Iretq, Finds, IInv, Frames
  <2> QED
    BY <1>7, <2>1, StutterRefines DEF Pop, Iretq, list, turnVars, Resumable
<1>8. CASE UNCHANGED vars
  BY <1>8 DEF vars, list, turnVars, Linked
<1> QED
  BY <1>1, <1>2, <1>3, <1>4, <1>5, <1>6, <1>7, <1>8
  DEF Next, Create, SwitchProcess, Fault

\* Turns pass round robin over all tasks in the order of their creation
\* (task.c:159-160), on a machine whose fresh memory reads as zero.
THEOREM RoundRobinOrder ==
  ASSUME FreshWords = {Null}
  PROVE  Spec => ImplementsRoundRobin
<1>1. Init => Abstract!Init
  BY DEF Init, Abstract!Init, Linked, Null
<1>2. IInv /\ [Next]_vars => [Abstract!Next]_<<Linked, current_task>>
  BY StepRefines
<1> QED
  BY <1>1, <1>2, Invariance, PTL DEF Spec, ImplementsRoundRobin, Abstract!Spec
-----------------------------------------------------------------------------
(* The right code runs.  The stack at tss.rsp0 is one for all tasks, so    *)
(* what follows is about one program that enters ring 3 beside any number  *)
(* of kernel threads; a second program, or a clone, would push its frames  *)
(* over those of the first.                                                *)

OneProgram == "clone" \notin Syscalls /\ \A t, u \in UserBodies : t = u

\* The task whose context is in the processor, and the stacks it may use.
Switching == {"load", "save", "restore"}
Runner == IF pc \in Switching THEN prev_task ELSE current_task
Own(t) == IF t \in UserBodies THEN {t, Rsp0} ELSE {t}
Waiting ==
  IF pc = "restore" THEN 1..Linked ELSE (1..Linked) \ {Runner}

\* Below p are frames of task t only; the one from ring 3 is the lowest at rsp0.
Holds(t, p) ==
  /\ p.stack \in Own(t)
  /\ \A i \in 1..p.used :
       LET frame == stack[p.stack][i] IN
       /\ frame.who = t
       /\ frame.user <=> p.stack = Rsp0 /\ i = 1
       /\ p.stack = Rsp0 => (frame.pc = "body" <=> i = 1) /\ (i = 1 => frame.kind = "isr")

Saved(t) ==
  /\ Holds(t, rsp[t])
  /\ rsp[t].used > 0 /\ stack[rsp[t].stack][rsp[t].used].kind = "switch"

Boot == first_task = Null => pc = "body" /\ who = 1 /\ cr3 = 1 /\ sp = EmptyStack(1)

Contexts == pc # "fault" =>
  /\ first_task # Null => who = Runner /\ Holds(Runner, sp) /\ (pc # "load" => cr3 = current_task)
  /\ \A t \in Waiting : Saved(t)
  /\ \A t \in Tasks \ (1..Linked) : rsp[t].stack = t

Modes == pc # "fault" =>
  /\ pc \in {"scan", "link"} => ~timer
  /\ ~timer => sp.stack # Rsp0
  /\ user => pc = "body" /\ sp.stack = Rsp0 /\ sp.used = 0
  /\ sp.stack = Rsp0 /\ ~user => sp.used > 0 /\ pc # "body"
  /\ pc \in Switching => prev_task \in 1..Linked /\ prev_task # current_task
  /\ pc = "restore" => rsp[prev_task] = sp

\* The bases are exchanged while the program is in the kernel, until the swapgs on its
\* way out: then an interrupt of the iretq may be what it has to return from first.
Place(t) == IF t = Runner THEN sp ELSE rsp[t]
Out(t) ==
  IF Place(t).used < 2 THEN t = Runner /\ (user \/ pc = "iretq") ELSE stack[Rsp0][2].pc = "iretq"
Inside(t) == Place(t).stack = Rsp0 /\ ~Out(t)
Bases == pc # "fault" =>
  gs = IF \E t \in UserBodies : Inside(t)
       THEN <<"kernel", "user">> ELSE <<"user", "kernel">>

CInv == IInv /\ Boot /\ Contexts /\ Modes /\ Bases

\* Two tasks share no stack.
LEMMA Apart ==
  ASSUME OneProgram, NEW t \in Tasks, NEW u \in Tasks, t # u
  PROVE  Own(t) \cap Own(u) = {}
BY SchedulerAssumption DEF OneProgram, Own, Tasks, Rsp0

LEMMA Runs ==
  ASSUME CInv, first_task # Null, pc # "fault"
  PROVE  /\ 1..Linked \subseteq Tasks
         /\ Runner \in 1..Linked /\ Runner \in Tasks
         /\ who = Runner /\ Holds(Runner, sp)
<1>1. process_id \in 1..MaxTasks
  BY SchedulerAssumption DEF CInv, IInv, Control, TypeOK, Null
<1>2. 1..Linked \subseteq Tasks
  BY <1>1, SchedulerAssumption DEF Linked, Tasks
<1>3. Runner \in 1..Linked
  BY <1>1, SchedulerAssumption DEF CInv, IInv, Control, TypeOK, Modes, Runner
<1> QED  BY <1>2, <1>3 DEF CInv, Contexts

\* A context that waits is left alone by a step that writes none of its stacks.
LEMMA SavedKept ==
  ASSUME NEW t \in Tasks, Saved(t), rsp'[t] = rsp[t], \A r \in Own(t) : stack'[r] = stack[r]
  PROVE  Saved(t)'
BY DEF Saved, Holds, Own

LEMMA PushHolds ==
  ASSUME TypeOK, NEW t \in Tasks, NEW p \in Pointers, NEW f \in Frames,
         Holds(t, p), p.used < MaxFrames, Push(p, f),
         f.who = t, f.user <=> p.stack = Rsp0 /\ p.used = 0,
         p.stack = Rsp0 => (f.pc = "body" <=> p.used = 0) /\ (p.used = 0 => f.kind = "isr")
  PROVE  /\ sp'.stack = p.stack /\ sp'.used = p.used + 1
         /\ stack'[sp'.stack][sp'.used] = f
         /\ Holds(t, sp)'
         /\ \A r \in Stacks : r # p.stack => stack'[r] = stack[r]
         /\ \A i \in 1..MaxFrames : i # p.used + 1 => stack'[p.stack][i] = stack[p.stack][i]
<1>1. /\ stack \in [Stacks -> [1..MaxFrames -> Frames]]
      /\ p.stack \in Stacks /\ p.used \in 0..MaxFrames /\ p.used + 1 \in 1..MaxFrames
  BY SchedulerAssumption DEF TypeOK, Pointers
<1>2. sp'.stack = p.stack /\ sp'.used = p.used + 1
  BY DEF Push, Pointers
<1>3. stack'[p.stack][p.used + 1] = f
  BY <1>1 DEF Push
<1>4. /\ \A r \in Stacks : r # p.stack => stack'[r] = stack[r]
      /\ \A i \in 1..MaxFrames : i # p.used + 1 => stack'[p.stack][i] = stack[p.stack][i]
  BY <1>1 DEF Push
<1>5. Holds(t, sp)'
  <2> SUFFICES ASSUME NEW i \in 1..(p.used + 1)
               PROVE  LET frame == stack'[p.stack][i] IN
                      /\ frame.who = t
                      /\ frame.user <=> p.stack = Rsp0 /\ i = 1
                      /\ p.stack = Rsp0 => (frame.pc = "body" <=> i = 1)
                                           /\ (i = 1 => frame.kind = "isr")
    BY <1>2 DEF Holds, Own
  <2>1. CASE i = p.used + 1
    BY <1>1, <1>3, <2>1
  <2>2. CASE i # p.used + 1
    <3>1. i \in 1..p.used /\ i \in 1..MaxFrames
      BY <1>1, <2>2, SchedulerAssumption
    <3> QED  BY <1>4, <2>2, <3>1 DEF Holds
  <2> QED  BY <2>1, <2>2
<1> QED  BY <1>2, <1>3, <1>4, <1>5

LEMMA BasesKept ==
  ASSUME Bases, pc # "fault", gs' = gs, \A t \in UserBodies : Inside(t)' <=> Inside(t)
  PROVE  Bases'
BY DEF Bases

LEMMA FaultKeeps ==
  ASSUME IInv', pc' = "fault", first_task' # Null
  PROVE  CInv'
BY DEF CInv, Boot, Contexts, Modes, Bases

\* Steps that touch neither the stacks nor the choice of a task.
LEMMA QuietKeeps ==
  ASSUME CInv, IInv', first_task # Null, Linked' = Linked,
         UNCHANGED <<first_task, current_task, prev_task, cr3, rsp, gs, stack, sp, who, user>>,
         pc \notin Switching \cup {"fault", "iretq"}, pc' \notin Switching \cup {"fault", "iretq"},
         user \/ pc' = "body" => pc' = pc, pc' \in {"scan", "link"} => ~timer',
         timer => timer'
  PROVE  CInv'
<1>1. Runner' = Runner /\ Waiting' = Waiting
  BY DEF Runner, Waiting, Switching
<1>2. Boot'
  BY DEF Boot
<1>3. Contexts'
  <2>1. \A t \in Tasks : Holds(t, sp)' <=> Holds(t, sp)
    BY DEF Holds
  <2>2. \A t \in Tasks : Saved(t) => Saved(t)'
    BY DEF Saved, Holds
  <2>3. Waiting \subseteq Tasks /\ Runner \in Tasks
    BY Runs DEF Waiting, Switching
  <2>4. Holds(Runner, sp)'
    BY <1>1, <2>3 DEF Holds, CInv, Contexts
  <2> QED  BY <1>1, <2>2, <2>3, <2>4 DEF CInv, Contexts, Switching
<1>4. Modes'
  BY DEF CInv, Modes, Switching
<1>5. Bases'
  BY <1>1, BasesKept DEF CInv, Inside, Place, Out
<1> QED  BY <1>2, <1>3, <1>4, <1>5 DEF CInv

LEMMA Booted == ASSUME CInv, pc # "body" \/ timer PROVE first_task # Null
BY DEF CInv, Boot, IInv, Control, Null

LEMMA QuietStepsKeep ==
  ASSUME OneProgram, CInv,
         InitializeNext \/ Scan \/ EnableTimer \/ Check \/ Lock \/ Unlock \/ Sti \/ OtherCall
  PROVE  CInv'
<1>1. IInv'
  BY InitializeNextIInv, ScanIInv, EnableTimerIInv, CheckIInv, LockIInv, UnlockIInv, OtherCallIInv
  DEF CInv
<1>2. first_task # Null
  BY Booted DEF InitializeNext, Scan, EnableTimer, Check, Lock, Unlock, Sti, OtherCall
<1>3. CASE InitializeNext
  <2>1. ~user /\ process_id \in Nat
    BY <1>3, SchedulerAssumption DEF InitializeNext, CInv, IInv, Control, TypeOK
  <2>2. Linked' = Linked
    BY <1>3, <2>1 DEF InitializeNext, Linked
  <2> QED
    BY <1>1, <1>2, <1>3, <2>1, <2>2, QuietKeeps DEF InitializeNext, turnVars, machine, Switching
<1>4. CASE Scan
  <2>1. ~user /\ ~timer
    BY <1>4 DEF Scan, CInv, Modes
  <2>2. CASE pc' = "fault"
    BY <1>1, <1>2, <1>4, <2>2, FaultKeeps DEF Scan
  <2>3. CASE pc' # "fault"
    <3>1. pc' \in {"scan", "link"} /\ Linked' = Linked
      BY <1>4, <2>3 DEF Scan, Linked
    <3> QED
      BY <1>1, <1>2, <1>4, <2>1, <3>1, QuietKeeps DEF Scan, turnVars, machine, Switching
  <2> QED  BY <2>2, <2>3
<1>5. CASE EnableTimer
  <2>1. Linked' = Linked
    BY <1>5 DEF EnableTimer, Linked, list
  <2> QED
    BY <1>1, <1>2, <1>5, <2>1, QuietKeeps DEF EnableTimer, list, turnVars, Switching
<1>6. CASE Check \/ Lock \/ Unlock \/ Sti \/ OtherCall
  <2>1. Linked' = Linked
    BY <1>6 DEF Check, Lock, Unlock, Sti, OtherCall, Linked, list
  <2>2. ~user
    BY <1>6 DEF Check, Lock, Unlock, Sti, OtherCall, CInv, Modes
  <2> QED
    BY <1>1, <1>2, <1>6, <2>1, <2>2, QuietKeeps
    DEF Check, Lock, Unlock, Sti, OtherCall, list, turnVars, machine, Switching
<1> QED  BY <1>3, <1>4, <1>5, <1>6

\* The boot code becomes the first task where it is.
LEMMA InitializeFirstKeeps == ASSUME OneProgram, CInv, InitializeFirst PROVE CInv'
<1>1. IInv' /\ first_task' # Null
  <2>1. process_id \in Nat
    BY SchedulerAssumption DEF CInv, IInv, TypeOK
  <2>2. first_task' # Null
    BY <2>1 DEF InitializeFirst, Null
  <2> QED  BY <2>2, InitializeFirstIInv DEF CInv
<1>2. /\ process_id = 0 /\ process_id' = 1 /\ 1 \in Tasks /\ current_task' = 1
      /\ current_task = Null /\ pc = "body" /\ pc' = "body" /\ ~timer /\ ~user
      /\ who = 1 /\ cr3 = 1 /\ sp = EmptyStack(1)
      /\ UNCHANGED <<cr3, timer, gs, sp, who, user>>
  BY SchedulerAssumption
  DEF InitializeFirst, CInv, Boot, IInv, Control, TypeOK, Null, Tasks
<1>3. Linked = 0 /\ Linked' = 1 /\ Runner' = 1 /\ Waiting' = {}
  BY <1>2 DEF Linked, Runner, Waiting, Switching
<1>4. \A t \in Tasks : rsp[t].stack = t /\ t # Rsp0
  BY <1>2, <1>3 DEF CInv, Contexts, Tasks, Rsp0
<1>5. \A t \in Tasks : t # 1 => rsp'[t] = rsp[t]
  BY <1>1, <1>2, PrepareEffect DEF InitializeFirst, CInv, IInv
<1>6. Contexts'
  BY <1>2, <1>3, <1>4, <1>5 DEF Contexts, Holds, Own, EmptyStack, Tasks
<1>7. Boot' /\ Modes'
  BY <1>1, <1>2 DEF Boot, Modes, Switching, EmptyStack, Rsp0
<1>8. Bases'
  <2>1. \A t \in Tasks : ~Inside(t) /\ ~Inside(t)'
    BY <1>2, <1>3, <1>4, <1>5 DEF Inside, Place, Runner, Switching, EmptyStack, Rsp0, Null
  <2> QED  BY <1>2, <2>1, BasesKept, SchedulerAssumption DEF CInv
<1> QED  BY <1>1, <1>6, <1>7, <1>8 DEF CInv

\* A creation writes the stack of its own task, which nobody runs on yet.
LEMMA LinkKeeps == ASSUME OneProgram, CInv, Link PROVE CInv'
<1>1. IInv' /\ first_task # Null /\ first_task' = first_task
  BY LinkIInv, Booted DEF CInv, Link
<1>2. PICK n \in Tasks : n = process_id
  BY <1>1, SchedulerAssumption DEF CInv, IInv, Control, TypeOK, Null, Tasks
<1>3. ~timer /\ ~user /\ pc = "link" /\ pc' = "body" /\ Linked = n - 1 /\ Linked' = n /\ n # Rsp0
  BY <1>2 DEF Link, CInv, Modes, IInv, Control, Linked, Tasks, Rsp0
<1>4. Runner \in 1..(n - 1) /\ Runner' = Runner /\ Runner \in Tasks /\ who = Runner /\ Holds(Runner, sp)
  BY <1>1, <1>3, Runs DEF Runner, Switching, Link, turnVars
<1>5. Prepare(n, FALSE)
  <2>1. timer \in BOOLEAN
    BY DEF CInv, IInv, TypeOK
  <2>2. timer = FALSE
    BY <1>3, <2>1, Zenon
  <2>3. Prepare(n, timer)
    BY <1>2 DEF Link
  <2> QED  BY <2>2, <2>3
<1>6. /\ rsp'[n] = [stack |-> n, used |-> 1]
      /\ \A t \in Tasks : t # n => rsp'[t] = rsp[t]
      /\ \A r \in Stacks : r # n => stack'[r] = stack[r]
      /\ stack'[n][1] = Switch(n, "body")
  <2>1. /\ stack \in [Stacks -> [1..MaxFrames -> Frames]] /\ rsp \in [Tasks -> Pointers]
        /\ n \in Stacks /\ 1 \in 1..MaxFrames
    BY SchedulerAssumption DEF CInv, IInv, TypeOK, Stacks
  <2> QED  BY <1>5, <2>1 DEF Prepare
<1>7. \A t \in Tasks \ {n} : Own(t) \subseteq Stacks /\ n \notin Own(t)
  BY <1>3 DEF Own, Stacks
<1>8. Contexts'
  <2>1. Holds(Runner, sp)'
    BY <1>3, <1>4, <1>6, <1>7 DEF Holds, Link, Own
  <2>2. Saved(n)'
    BY <1>3, <1>6 DEF Saved, Holds, Own, Switch
  <2>3. \A t \in (1..(n - 1)) \ {Runner} : Saved(t)'
    <3>1. 1..(n - 1) \subseteq Tasks \ {n}
      BY SchedulerAssumption DEF Tasks
    <3>2. \A t \in (1..(n - 1)) \ {Runner} : Saved(t)
      BY <1>3, <1>4 DEF CInv, Contexts, Waiting
    <3> QED  BY <1>6, <1>7, <3>1, <3>2, SavedKept
  <2>4. Waiting' = (1..n) \ {Runner}
    BY <1>3, <1>4 DEF Waiting
  <2>5. \A t \in Tasks \ (1..n) : rsp'[t].stack = t
    BY <1>3, <1>6 DEF CInv, Contexts, Tasks
  <2>6. 1..n = (1..(n - 1)) \cup {n}
    BY DEF Tasks
  <2>7. first_task' # Null => who' = Runner' /\ Holds(Runner, sp)' /\ cr3' = current_task'
    BY <1>1, <1>3, <1>4, <2>1 DEF Link, turnVars, CInv, Contexts
  <2> QED  BY <1>3, <1>4, <2>2, <2>3, <2>4, <2>5, <2>6, <2>7 DEF Contexts
<1>9. Boot' /\ Modes'
  BY <1>1, <1>3 DEF Link, CInv, Boot, Modes, Switching
<1>10. Bases'
  <2>1. rsp[n].stack = n
    BY <1>3 DEF CInv, Contexts, Tasks
  <2>2. \A t \in Tasks : Inside(t)' <=> Inside(t)
    <3>1. Rsp0 \in Stacks /\ stack'[Rsp0] = stack[Rsp0]
      BY <1>3, <1>6 DEF Stacks
    <3> QED  BY <1>3, <1>4, <1>6, <2>1, <3>1 DEF Inside, Place, Out, Link
  <2> QED  BY <1>3, <2>2, BasesKept, SchedulerAssumption DEF CInv, Link
<1> QED  BY <1>1, <1>8, <1>9, <1>10 DEF CInv

-----------------------------------------------------------------------------
(* Into ring 3, and the gates out of it.                                   *)

\* Where the running context is, once there is one.
LEMMA Running ==
  ASSUME CInv, first_task # Null, pc \notin Switching \cup {"fault"}
  PROVE  /\ Runner = current_task /\ current_task \in Tasks /\ who = current_task
         /\ Holds(current_task, sp) /\ cr3 = current_task
         /\ Waiting = (1..Linked) \ {current_task} /\ 1..Linked \subseteq Tasks
BY Runs DEF Runner, Waiting, Switching, CInv, Contexts

\* The others keep what they have while the running task uses its own stacks.
LEMMA OthersKeep ==
  ASSUME OneProgram, CInv, NEW u \in Tasks, NEW r \in Own(u),
         \A q \in Stacks : q # r => stack'[q] = stack[q],
         \A t \in Tasks : t # u => rsp'[t] = rsp[t]
  PROVE  \A t \in Tasks : t # u /\ Saved(t) => Saved(t)'
<1> SUFFICES ASSUME NEW t \in Tasks, t # u, Saved(t) PROVE Saved(t)'
  OBVIOUS
<1>1. Own(t) \subseteq Stacks /\ r \notin Own(t)
  BY Apart DEF Own, Stacks
<1> QED  BY <1>1, SavedKept

\* A step of the running task u that calls nobody else, seen from its parts.
LEMMA OwnStep ==
  ASSUME OneProgram, CInv, IInv', first_task # Null, pc \notin Switching \cup {"fault"},
         pc' \notin Switching \cup {"fault"}, Linked' = Linked,
         UNCHANGED <<first_task, current_task, cr3, rsp, who>>,
         \A r \in Stacks : r # sp'.stack => stack'[r] = stack[r],
         Holds(current_task, sp)', Modes', Bases'
  PROVE  CInv'
<1>1. /\ current_task \in Tasks /\ who = current_task /\ cr3 = current_task
      /\ Waiting = (1..Linked) \ {current_task} /\ 1..Linked \subseteq Tasks
  BY Running
<1>2. PICK u \in Tasks : u = current_task
  BY <1>1
<1>3. PICK r \in Own(u) : r = sp'.stack
  BY <1>2 DEF Holds, Own
<1>4. \A t \in Tasks : t # u /\ Saved(t) => Saved(t)'
  BY <1>2, <1>3, OthersKeep
<1>5. Waiting' = Waiting /\ Runner' = current_task
  BY <1>1 DEF Waiting, Runner, Switching
<1>6. Holds(Runner, sp)'
  BY <1>5 DEF Holds
<1>7. Contexts'
  BY <1>1, <1>2, <1>4, <1>5, <1>6 DEF CInv, Contexts
<1> QED  BY <1>7 DEF CInv, Boot

\* Nobody else is inside the kernel when the one program is not.
LEMMA OnlyOne ==
  ASSUME OneProgram, CInv, pc # "fault", NEW u \in UserBodies
  PROVE  gs = IF Inside(u) THEN <<"kernel", "user">> ELSE <<"user", "kernel">>
<1>1. (\E t \in UserBodies : Inside(t)) <=> Inside(u)
  BY DEF OneProgram
<1> QED  BY <1>1 DEF CInv, Bases

LEMMA OnlyOneNext ==
  ASSUME OneProgram, NEW u \in UserBodies,
         gs' = IF Inside(u)' THEN <<"kernel", "user">> ELSE <<"user", "kernel">>
  PROVE  Bases'
<1>1. (\E t \in UserBodies : Inside(t)') <=> Inside(u)'
  BY DEF OneProgram
<1> QED  BY <1>1 DEF Bases

LEMMA EnterUserKeeps == ASSUME OneProgram, CInv, EnterUser PROVE CInv'
<1>1. IInv' /\ first_task # Null
  BY EnterUserIInv, Booted DEF CInv, EnterUser
<1>2. /\ pc = "body" /\ pc' = "body" /\ timer /\ ~user /\ user' /\ who \in UserBodies
      /\ sp' = EmptyStack(Rsp0) /\ sp'.stack = Rsp0 /\ sp'.used = 0 /\ stack' = stack
      /\ UNCHANGED <<first_task, current_task, prev_task, cr3, rsp, timer, who>> /\ Linked' = Linked
  BY DEF EnterUser, Linked, list, turnVars, EmptyStack
<1>3. PICK u \in Tasks : u = current_task /\ Runner = u /\ who = u
  BY <1>1, <1>2, Running DEF Switching
<1>4. u \in UserBodies
  BY <1>2, <1>3
<1>5. Holds(current_task, sp)'
  BY <1>2, <1>3, <1>4 DEF Holds, Own
<1>6. Modes'
  BY <1>2 DEF Modes, Switching
<1>7. Bases'
  <2>1. ~Inside(u)
    BY <1>2, <1>3 DEF Inside, Place, CInv, Modes
  <2>2. gs = <<"user", "kernel">>
    BY <1>2, <1>4, <2>1, OnlyOne
  <2>3. gs' = <<"user", "kernel">>
    BY <2>2 DEF EnterUser
  <2>4. ~Inside(u)'
    BY <1>2, <1>3 DEF Inside, Place, Out, Runner, Switching
  <2> QED  BY <1>4, <2>3, <2>4, OnlyOneNext
<1> QED  BY <1>1, <1>2, <1>5, <1>6, <1>7, OwnStep DEF Switching

LEMMA SyscallKeeps == ASSUME OneProgram, CInv, Syscall PROVE CInv'
<1>1. IInv' /\ first_task # Null /\ first_task' = first_task /\ timer
  <2>1. timer
    BY DEF CInv, IInv, Control, Syscall
  <2> QED  BY <2>1, SyscallIInv, Booted DEF CInv, Syscall, list
<1>2. /\ pc = "body" /\ user /\ ~user' /\ pc' \in {"syscall", "fault"} /\ gs' = <<gs[2], gs[1]>>
      /\ UNCHANGED <<first_task, current_task, prev_task, cr3, rsp, timer, who>> /\ Linked' = Linked
      /\ sp'.stack = Rsp0 /\ sp'.used = 1
  BY DEF Syscall, Gate, Swapgs, Linked, list, turnVars
<1>3. PICK u \in Tasks : u = current_task /\ Runner = u /\ who = u
  BY <1>1, <1>2, Running DEF Switching
<1>4. sp.stack = Rsp0 /\ sp.used = 0 /\ u \in UserBodies
  <2>1. sp.stack = Rsp0 /\ sp.used = 0 /\ Holds(u, sp)
    BY <1>1, <1>2, <1>3, Running DEF CInv, Modes, Switching
  <2> QED  BY <2>1 DEF Holds, Own, Tasks, Rsp0
<1>5. /\ stack'[Rsp0][1] = Isr(who, TRUE, "body")
      /\ \A r \in Stacks : r # Rsp0 => stack'[r] = stack[r]
  <2>1. stack \in [Stacks -> [1..MaxFrames -> Frames]] /\ Rsp0 \in Stacks /\ 1 \in 1..MaxFrames
    BY SchedulerAssumption DEF CInv, IInv, TypeOK, Stacks
  <2> DEFINE row == [stack[Rsp0] EXCEPT ![1] = Isr(who, TRUE, "body"), ![2] = Data]
  <2>2. stack' = [stack EXCEPT ![Rsp0] = row]
    BY DEF Syscall
  <2>3. row[1] = Isr(who, TRUE, "body")
    <3>1. PICK old \in [1..MaxFrames -> Frames] : old = stack[Rsp0]
      BY <2>1
    <3>2. 1 # 2 /\ 1 \in DOMAIN old
      BY <2>1
    <3>3. row = [old EXCEPT ![1] = Isr(who, TRUE, "body"), ![2] = Data]
      BY <3>1
    <3> HIDE DEF row
    <3> QED  BY <3>2, <3>3
  <2> HIDE DEF row
  <2> QED  BY <2>1, <2>2, <2>3
<1>6. CASE pc' = "fault"
  BY <1>1, <1>6, FaultKeeps
<1>7. CASE pc' = "syscall"
  <2>1. Holds(current_task, sp)'
    BY <1>2, <1>3, <1>4, <1>5 DEF Holds, Own, Isr
  <2>2. Modes'
    BY <1>1, <1>2, <1>7 DEF Modes, Switching
  <2>3. Bases'
    <3>1. ~Inside(u)
      BY <1>2, <1>3, <1>4 DEF Inside, Place, Out
    <3>2. gs = <<"user", "kernel">>
      BY <1>2, <1>4, <3>1, OnlyOne
    <3>3. gs' = <<"kernel", "user">>
      BY <1>2, <3>2
    <3>4. Inside(u)'
      BY <1>2, <1>3, <1>7 DEF Inside, Place, Out, Runner, Switching
    <3> QED  BY <1>4, <3>3, <3>4, OnlyOneNext
  <2> QED  BY <1>1, <1>2, <1>5, <1>7, <2>1, <2>2, <2>3, OwnStep DEF Switching
<1> QED  BY <1>2, <1>6, <1>7

\* A tick lands on the stack of the task it interrupts, or at rsp0 from ring 3.
LEMMA TickKeeps == ASSUME OneProgram, CInv, Tick PROVE CInv'
<1>1. IInv' /\ first_task # Null /\ first_task' = first_task /\ timer
  BY TickIInv, Booted DEF CInv, Tick, list
<1>2. /\ pc \in Resumable /\ pc' = "check" /\ ~user' /\ TypeOK
      /\ UNCHANGED <<first_task, current_task, prev_task, cr3, rsp, timer, who>> /\ Linked' = Linked
  <2>1. pc \in Resumable
    BY DEF CInv, IInv, Tick, SwitchAtomic, TypeOK, Labels, Resumable
  <2> QED  BY <2>1 DEF Tick, Gate, Linked, list, turnVars, CInv, IInv, Resumable
<1>3. PICK u \in Tasks : u = current_task /\ Runner = u /\ who = u /\ Holds(u, sp)
  BY <1>1, <1>2, Running DEF Switching, Resumable
<1>4. PICK p \in Pointers : p = Landing
  BY <1>2, PointerTypes DEF Landing, TypeOK, Stacks
<1>5. PICK f \in Frames : f = Isr(who, user, pc)
  BY <1>2, FrameTypes DEF TypeOK
<1>6. /\ Push(p, f) /\ p.used < MaxFrames
  BY <1>4, <1>5, SchedulerAssumption DEF Tick, Pointers
<1>7. f.who = u /\ f.user = user /\ f.pc = pc /\ f.kind = "isr"
  BY <1>3, <1>5 DEF Isr
<1>8. /\ Holds(u, p)
      /\ user => pc = "body" /\ sp.stack = Rsp0 /\ p.stack = Rsp0 /\ p.used = 0
      /\ ~user => p = sp /\ (p.stack = Rsp0 => p.used > 0 /\ pc # "body")
  <2>1. CASE user
    <3>1. p.stack = Rsp0 /\ p.used = 0
      BY <1>4, <2>1 DEF Landing, EmptyStack
    <3>2. pc = "body" /\ sp.stack = Rsp0
      BY <1>2, <2>1 DEF CInv, Modes, Resumable
    <3> QED  BY <1>3, <2>1, <3>1, <3>2 DEF Holds
  <2>2. CASE ~user
    BY <1>2, <1>3, <1>4, <2>2 DEF Landing, CInv, Modes, Resumable
  <2> QED  BY <2>1, <2>2
<1>9. /\ f.user <=> p.stack = Rsp0 /\ p.used = 0
      /\ p.stack = Rsp0 => (f.pc = "body" <=> p.used = 0) /\ (p.used = 0 => f.kind = "isr")
  <2>1. CASE user
    BY <1>7, <1>8, <2>1
  <2>2. CASE ~user
    <3>1. p.stack = Rsp0 => p.used # 0 /\ pc # "body"
      BY <1>8, <2>2
    <3> QED  BY <1>7, <2>2, <3>1
  <2> QED  BY <2>1, <2>2
<1>10. /\ sp'.stack = p.stack /\ sp'.used = p.used + 1 /\ p.used \in Nat
       /\ stack'[sp'.stack][sp'.used] = f
       /\ Holds(u, sp)'
       /\ \A r \in Stacks : r # p.stack => stack'[r] = stack[r]
       /\ \A i \in 1..MaxFrames : i # p.used + 1 => stack'[p.stack][i] = stack[p.stack][i]
  BY <1>2, <1>6, <1>7, <1>8, <1>9, PushHolds DEF Pointers
<1>11. Holds(current_task, sp)'
  BY <1>2, <1>3, <1>10 DEF Holds
<1>12. Modes'
  BY <1>1, <1>2, <1>10 DEF Modes, Switching
<1>13. Runner' = u
  BY <1>2, <1>3 DEF Runner, Switching
<1>14. Bases'
  <2>1. CASE user
    <3>1. u \in UserBodies
      BY <1>3, <1>8, <2>1 DEF Holds, Own, Tasks, Rsp0
    <3>2. ~Inside(u)
      BY <1>2, <1>3, <1>8, <2>1 DEF Inside, Place, Out, CInv, Modes, Resumable
    <3>3. gs' = <<"kernel", "user">>
      BY <1>2, <2>1, <3>1, <3>2, OnlyOne DEF Tick, SwapgsIf, Swapgs, Resumable
    <3>4. Inside(u)'
      BY <1>2, <1>8, <1>10, <1>13, <2>1 DEF Inside, Place, Out
    <3> QED  BY <3>1, <3>3, <3>4, OnlyOneNext
  <2>2. CASE ~user
    <3>1. gs' = gs
      BY <2>2 DEF Tick, SwapgsIf
    <3>2. \A t \in Tasks : t # u => (Inside(t)' <=> Inside(t))
      <4> SUFFICES ASSUME NEW t \in Tasks, t # u PROVE Inside(t)' <=> Inside(t)
        OBVIOUS
      <4>1. Place(t)' = Place(t) /\ Place(t) = rsp[t] /\ t # Runner /\ t # Runner'
        BY <1>2, <1>3, <1>13 DEF Place
      <4>2. CASE rsp[t].stack = Rsp0
        <5>1. Rsp0 \in Own(t)
          <6>1. t \in 1..Linked => Saved(t)
            BY <1>1, <1>2, <1>3, Running DEF CInv, Contexts, Resumable, Switching
          <6>2. t \notin 1..Linked => rsp[t].stack = t
            BY <1>2 DEF CInv, Contexts, Resumable
          <6>3. t \in 1..Linked
            BY <4>2, <6>2 DEF Tasks, Rsp0
          <6> QED  BY <4>2, <6>1, <6>3 DEF Saved, Holds
        <5>2. p.stack # Rsp0 /\ Rsp0 \in Stacks
          BY <1>8, <5>1, Apart DEF Holds, Stacks
        <5> QED  BY <1>10, <4>1, <5>2 DEF Inside, Out
      <4>3. CASE rsp[t].stack # Rsp0
        BY <4>1, <4>3 DEF Inside
      <4> QED  BY <4>2, <4>3
    <3>3. Inside(u)' <=> Inside(u)
      <4>1. Place(u) = sp /\ Place(u)' = sp' /\ sp'.stack = sp.stack /\ p = sp
        BY <1>3, <1>8, <1>10, <1>13, <2>2 DEF Place
      <4>2. CASE sp.stack # Rsp0
        BY <4>1, <4>2 DEF Inside
      <4>3. CASE sp.stack = Rsp0 /\ sp.used = 1
        BY <1>2, <1>3, <1>7, <1>10, <1>13, <2>2, <4>1, <4>3 DEF Inside, Out
      <4>4. CASE sp.stack = Rsp0 /\ sp.used >= 2
        BY <1>2, <1>10, <4>1, <4>4, SchedulerAssumption DEF Inside, Out
      <4> QED  BY <1>8, <1>10, <2>2, <4>1, <4>2, <4>3, <4>4
    <3> QED  BY <1>2, <3>1, <3>2, <3>3, BasesKept, SchedulerAssumption DEF CInv, Resumable
  <2> QED  BY <2>1, <2>2
<1> QED  BY <1>1, <1>2, <1>10, <1>11, <1>12, <1>14, OwnStep DEF Switching, Resumable

-----------------------------------------------------------------------------
(* The switch.                                                             *)

\* The one that is chosen is another one: a task that is alone has no successor.
LEMMA SelectKeeps == ASSUME OneProgram, CInv, Select PROVE CInv'
<1>1. IInv' /\ first_task # Null /\ first_task' = first_task
  BY SelectIInv, Booted DEF CInv, Select, list
<1>2. /\ pc = "select" /\ prev_task' = current_task /\ current_task' = next[current_task]
      /\ pc' \in {"load", "fault"} /\ Linked' = Linked /\ Linked = process_id
      /\ UNCHANGED <<first_task, cr3, rsp, timer, gs, stack, sp, who, user>>
  BY DEF Select, Linked, list, machine
<1>3. CASE pc' = "fault"
  BY <1>1, <1>3, FaultKeeps
<1>4. CASE pc' = "load"
  <2>1. /\ Runner = current_task /\ Runner' = current_task /\ Waiting' = Waiting
    BY <1>2, <1>4 DEF Runner, Waiting, Switching
  <2>2. current_task \in 1..Linked /\ current_task' # current_task
    <3>1. current_task \in 1..Linked /\ process_id \in 1..MaxTasks /\ next[current_task] # Null
      BY <1>1, <1>2, SchedulerAssumption DEF CInv, IInv, Control, TypeOK, Null
    <3>2. CASE Linked > 1
      BY <1>2, <3>1, <3>2, SchedulerAssumption DEF CInv, IInv, RingOrder
    <3>3. CASE Linked = 1
      <4>1. current_task = 1 /\ next[1] \in {Null, Wild}
        BY <1>2, <3>1, <3>3, SchedulerAssumption DEF CInv, IInv, RingOrder
      <4> QED  BY <1>2, <1>4, <3>1, <4>1 DEF Select
    <3> QED  BY <1>2, <3>1, <3>2, <3>3, SchedulerAssumption
  <2>3. Contexts'
    <3>1. Holds(Runner, sp)' /\ who' = Runner'
      BY <1>1, <1>2, <2>1, Runs DEF Holds
    <3>2. \A t \in Tasks : Saved(t) => Saved(t)'
      BY <1>2, SavedKept DEF Own
    <3>3. Waiting \subseteq Tasks
      BY <1>1, <1>2, Running DEF Switching
    <3> QED  BY <1>2, <1>4, <2>1, <3>1, <3>2, <3>3 DEF CInv, Contexts
  <2>4. Modes'
    BY <1>2, <1>4, <2>2 DEF CInv, Modes
  <2>5. Bases'
    <3>1. \A t \in UserBodies : Inside(t)' <=> Inside(t)
      BY <1>2, <1>4, <2>1 DEF Inside, Place, Out
    <3> QED  BY <1>2, <3>1, BasesKept DEF CInv
  <2> QED  BY <1>1, <1>2, <2>3, <2>4, <2>5 DEF CInv, Boot
<1> QED  BY <1>2, <1>3, <1>4

LEMMA LoadCr3Keeps == ASSUME OneProgram, CInv, LoadCr3 PROVE CInv'
<1>1. IInv' /\ first_task # Null /\ first_task' = first_task
  BY LoadCr3IInv, Booted DEF CInv, LoadCr3, list
<1>2. /\ pc = "load" /\ pc' = "save" /\ cr3' = current_task /\ Linked' = Linked
      /\ UNCHANGED <<first_task, current_task, prev_task, rsp, timer, gs, stack, sp, who, user>>
  BY DEF LoadCr3, Linked, list, machine
<1>3. Runner' = Runner /\ Waiting' = Waiting
  BY <1>2 DEF Runner, Waiting, Switching
<1>4. Contexts'
  <2>1. Holds(Runner, sp)' /\ who' = Runner'
    BY <1>1, <1>2, <1>3, Runs DEF Holds
  <2>2. \A t \in Tasks : Saved(t) => Saved(t)'
    BY <1>2, SavedKept DEF Own
  <2>3. Waiting \subseteq Tasks
    BY <1>1, <1>2, Runs DEF Waiting
  <2> QED  BY <1>2, <1>3, <2>1, <2>2, <2>3 DEF CInv, Contexts
<1>5. Modes'
  BY <1>2 DEF CInv, Modes, Switching
<1>6. Bases'
  <2>1. \A t \in UserBodies : Inside(t)' <=> Inside(t)
    BY <1>2, <1>3 DEF Inside, Place, Out
  <2> QED  BY <1>2, <2>1, BasesKept DEF CInv
<1> QED  BY <1>1, <1>2, <1>4, <1>5, <1>6 DEF CInv, Boot

\* switch_task leaves the task that ran as one that waits.
LEMMA SaveKeeps == ASSUME OneProgram, CInv, Save PROVE CInv'
<1>1. IInv' /\ first_task # Null /\ first_task' = first_task
  BY SaveIInv, Booted DEF CInv, Save, list
<1>2. /\ pc = "save" /\ pc' = "restore" /\ Linked' = Linked /\ TypeOK
      /\ UNCHANGED <<first_task, current_task, prev_task, cr3, timer, gs, who, user>>
      /\ Push(sp, Switch(who, "iret")) /\ rsp' = [rsp EXCEPT ![prev_task] = sp']
  BY DEF Save, Linked, list, turnVars, CInv, IInv
<1>3. PICK u \in Tasks : /\ u = prev_task /\ u \in 1..Linked /\ u # current_task
                        /\ Runner = u /\ who = u /\ Holds(u, sp) /\ 1..Linked \subseteq Tasks
  BY <1>1, <1>2, Runs DEF CInv, Modes, Runner, Switching
<1>4. PICK p \in Pointers : p = sp /\ p.used < MaxFrames
  BY <1>2 DEF CInv, IInv, Control, TypeOK
<1>5. ~user /\ (p.stack = Rsp0 => p.used > 0)
  BY <1>2, <1>4 DEF CInv, Modes
<1>6. PICK f \in Frames : f = Switch(u, "iret")
  BY FrameTypes DEF Resumable
<1>7. f.who = u /\ f.user = FALSE /\ f.pc = "iret" /\ f.kind = "switch"
  BY <1>6 DEF Switch
<1>8. /\ sp'.stack = p.stack /\ sp'.used = p.used + 1 /\ p.used \in Nat
      /\ stack'[sp'.stack][sp'.used] = f
      /\ Holds(u, sp)'
      /\ \A r \in Stacks : r # p.stack => stack'[r] = stack[r]
      /\ \A i \in 1..MaxFrames : i # p.used + 1 => stack'[p.stack][i] = stack[p.stack][i]
  <2>1. Push(p, f) /\ Holds(u, p)
    BY <1>2, <1>3, <1>4, <1>6
  <2>2. /\ f.user <=> p.stack = Rsp0 /\ p.used = 0
        /\ p.stack = Rsp0 => (f.pc = "body" <=> p.used = 0) /\ (p.used = 0 => f.kind = "isr")
    BY <1>5, <1>7
  <2> QED  BY <1>2, <1>4, <1>7, <2>1, <2>2, PushHolds DEF Pointers
<1>9. rsp'[u] = sp' /\ \A t \in Tasks : t # u => rsp'[t] = rsp[t]
  BY <1>2, <1>3 DEF TypeOK
<1>10. Runner' = u
  BY <1>2, <1>3 DEF Runner, Switching
<1>11. Contexts'
  <2>1. Saved(u)'
    BY <1>7, <1>8, <1>9 DEF Saved, Holds
  <2>2. \A t \in Tasks : t # u /\ Saved(t) => Saved(t)'
    <3>1. PICK r \in Own(u) : r = p.stack
      BY <1>3, <1>4 DEF Holds
    <3> QED  BY <1>8, <1>9, <3>1, OthersKeep
  <2>3. \A t \in (1..Linked) \ {u} : Saved(t)
    BY <1>2, <1>3 DEF CInv, Contexts, Waiting
  <2>4. \A t \in Waiting' : Saved(t)'
    BY <1>2, <1>3, <2>1, <2>2, <2>3 DEF Waiting
  <2>5. \A t \in Tasks \ (1..Linked) : rsp'[t].stack = t
    BY <1>2, <1>3, <1>9 DEF CInv, Contexts
  <2>6. Holds(Runner, sp)' /\ who' = Runner'
    BY <1>2, <1>3, <1>8, <1>10 DEF Holds
  <2> QED  BY <1>1, <1>2, <2>4, <2>5, <2>6 DEF CInv, Contexts
<1>12. Modes'
  BY <1>2, <1>3, <1>4, <1>5, <1>8, <1>9 DEF CInv, Modes, Switching
<1>13. Bases'
  <2>1. \A t \in Tasks : t # u => (Inside(t)' <=> Inside(t))
    <3> SUFFICES ASSUME NEW t \in Tasks, t # u PROVE Inside(t)' <=> Inside(t)
      OBVIOUS
    <3>1. Place(t)' = Place(t) /\ Place(t) = rsp[t] /\ t # Runner /\ t # Runner'
      BY <1>3, <1>9, <1>10 DEF Place
    <3>2. CASE rsp[t].stack = Rsp0
      <4>1. t \in 1..Linked
        BY <1>2, <3>2 DEF CInv, Contexts, Tasks, Rsp0
      <4>2. Rsp0 \in Own(t)
        BY <1>2, <1>3, <3>2, <4>1 DEF CInv, Contexts, Waiting, Saved, Holds
      <4>3. p.stack # Rsp0 /\ Rsp0 \in Stacks
        BY <1>3, <1>4, <4>2, Apart DEF Holds, Stacks
      <4> QED  BY <1>8, <3>1, <4>3 DEF Inside, Out
    <3>3. CASE rsp[t].stack # Rsp0
      BY <3>1, <3>3 DEF Inside
    <3> QED  BY <3>2, <3>3
  <2>2. Inside(u)' <=> Inside(u)
    <3>1. Place(u) = p /\ Place(u)' = sp'
      BY <1>3, <1>4, <1>10 DEF Place
    <3>2. CASE p.stack # Rsp0
      BY <1>8, <3>1, <3>2 DEF Inside
    <3>3. CASE p.stack = Rsp0 /\ p.used = 1
      BY <1>2, <1>5, <1>7, <1>8, <3>1, <3>3 DEF Inside, Out
    <3>4. CASE p.stack = Rsp0 /\ p.used >= 2
      BY <1>8, <3>1, <3>4, SchedulerAssumption DEF Inside, Out
    <3> QED  BY <1>5, <1>8, <3>2, <3>3, <3>4
  <2> QED  BY <1>2, <2>1, <2>2, BasesKept, SchedulerAssumption DEF CInv
<1> QED  BY <1>1, <1>11, <1>12, <1>13 DEF CInv, Boot

\* From here on the code runs in the context of the chosen task.
LEMMA RestoreKeeps == ASSUME OneProgram, CInv, Restore PROVE CInv'
<1>1. IInv' /\ first_task # Null /\ first_task' = first_task
  BY RestoreIInv, Booted DEF CInv, Restore, list
<1>2. /\ pc = "restore" /\ pc' = "unlock" /\ Linked' = Linked /\ ~user /\ timer
      /\ UNCHANGED <<first_task, current_task, prev_task, cr3, rsp, timer, gs, stack, user>>
      /\ sp' = rsp[current_task] /\ who' = stack[sp'.stack][sp'.used].who
  BY DEF Restore, Linked, list, turnVars, CInv, Modes, IInv, Control
<1>3. PICK u \in Tasks : u = current_task /\ u \in 1..Linked /\ Saved(u) /\ 1..Linked \subseteq Tasks
  <2>1. current_task \in 1..Linked
    BY <1>1, <1>2, SchedulerAssumption DEF CInv, IInv, Control, TypeOK, Null
  <2> QED  BY <1>1, <1>2, <2>1, Runs DEF CInv, Contexts, Waiting
<1>4. PICK o \in Tasks : o = prev_task /\ o # u /\ rsp[o] = sp /\ Runner = o
  BY <1>1, <1>2, <1>3, Runs DEF CInv, Modes, Runner, Switching
<1>5. Runner' = u /\ Waiting' = (1..Linked) \ {u}
  BY <1>2, <1>3 DEF Runner, Waiting, Switching
<1>6. Holds(u, sp)' /\ who' = u
  <2>1. rsp[u].used \in Nat
    BY <1>3 DEF CInv, IInv, TypeOK, Pointers
  <2> QED  BY <1>2, <1>3, <2>1 DEF Saved, Holds
<1>7. Contexts'
  <2>1. \A t \in Tasks : Saved(t) => Saved(t)'
    BY <1>2, SavedKept DEF Own
  <2>2. \A t \in 1..Linked : Saved(t)
    BY <1>2 DEF CInv, Contexts, Waiting
  <2>3. Holds(Runner, sp)'
    BY <1>5, <1>6 DEF Holds
  <2> QED  BY <1>2, <1>3, <1>5, <1>6, <2>1, <2>2, <2>3 DEF CInv, Contexts
<1>8. Modes'
  <2>1. rsp[u].used > 0
    BY <1>3 DEF Saved
  <2> QED  BY <1>2, <1>3, <2>1 DEF CInv, Modes, Switching
<1>9. Bases'
  <2>1. \A t \in Tasks : Place(t)' = Place(t)
    BY <1>2, <1>3, <1>4, <1>5 DEF Place
  <2>2. \A t \in Tasks : Out(t)' <=> Out(t)
    <3>1. \A t \in Tasks : Place(t).used < 2 => ~Out(t) /\ ~Out(t)'
      BY <1>2, <2>1 DEF Out
    <3>2. \A t \in Tasks : ~(Place(t).used < 2) => (Out(t)' <=> Out(t))
      BY <1>2, <2>1 DEF Out
    <3> QED  BY <3>1, <3>2
  <2>3. \A t \in Tasks : Inside(t)' <=> Inside(t)
    BY <2>1, <2>2 DEF Inside
  <2> QED  BY <1>2, <2>3, BasesKept, SchedulerAssumption DEF CInv
<1> QED  BY <1>1, <1>7, <1>8, <1>9 DEF CInv, Boot

\* The frame on top, of the context that runs: its own, and from ring 3 only at the
\* bottom of the stack at rsp0.
LEMMA TopFrame ==
  ASSUME CInv, first_task # Null, pc \notin Switching \cup {"fault"}, sp.used > 0
  PROVE  /\ Top \in Frames /\ Top.who = current_task
         /\ Top.user <=> sp.stack = Rsp0 /\ sp.used = 1
         /\ sp.stack = Rsp0 => (Top.pc = "body" <=> sp.used = 1) /\ (sp.used = 1 => Top.kind = "isr")
         /\ Drop.stack = sp.stack /\ Drop.used = sp.used - 1 /\ sp.used \in Nat \ {0}
<1>1. sp \in Pointers /\ sp.used \in Nat \ {0} /\ Top \in Frames
  BY TopType DEF CInv, IInv, TypeOK, Pointers
<1>2. sp.used \in 1..sp.used
  BY <1>1
<1>3. Drop.stack = sp.stack /\ Drop.used = sp.used - 1
  BY <1>1 DEF Drop, Pointers
<1> QED  BY <1>1, <1>2, <1>3, Running DEF Holds, Top

LEMMA DropHolds ==
  ASSUME Holds(current_task, sp), sp.used \in Nat \ {0}, sp'.stack = sp.stack, sp'.used = sp.used - 1,
         UNCHANGED <<current_task, stack>>
  PROVE  Holds(current_task, sp)'
BY DEF Holds, Own

\* The running task keeps its place: what lies at rsp0 of the others is where it was.
LEMMA OthersInside ==
  ASSUME CInv, first_task # Null, pc \notin Switching \cup {"fault"},
         pc' \notin Switching \cup {"fault"}, UNCHANGED <<current_task, rsp, stack>>
  PROVE  \A t \in Tasks : t # current_task => (Inside(t)' <=> Inside(t))
<1>1. Runner = current_task /\ Runner' = current_task
  BY DEF Runner, Switching
<1>2. \A t \in Tasks : t # current_task => Place(t)' = Place(t)
  BY <1>1 DEF Place
<1>3. \A t \in Tasks : t # current_task => (Out(t)' <=> Out(t))
  <2>1. \A t \in Tasks : t # current_task /\ Place(t).used < 2 => ~Out(t) /\ ~Out(t)'
    BY <1>1, <1>2 DEF Out
  <2>2. \A t \in Tasks : t # current_task /\ ~(Place(t).used < 2) => (Out(t)' <=> Out(t))
    BY <1>1, <1>2 DEF Out
  <2> QED  BY <2>1, <2>2
<1> QED  BY <1>2, <1>3 DEF Inside

\* The running task goes back by one frame.
LEMMA BackInside ==
  ASSUME CInv, first_task # Null, pc \notin Switching \cup {"fault"},
         pc' \notin Switching \cup {"fault"}, UNCHANGED <<current_task, rsp, stack>>, gs' = gs,
         sp.used \in Nat \ {0}, sp'.stack = sp.stack, sp'.used = sp.used - 1,
         sp.stack = Rsp0 => sp.used # 1, ~user, ~user', pc' = Top.pc
  PROVE  Bases'
<1>1. PICK u \in Tasks : u = current_task /\ Runner = u
  BY Running
<1>2. Runner' = u
  BY <1>1 DEF Runner, Switching
<1>3. Inside(u)' <=> Inside(u)
  <2>1. Place(u) = sp /\ Place(u)' = sp'
    BY <1>1, <1>2 DEF Place
  <2>2. CASE sp.stack # Rsp0
    BY <2>1, <2>2 DEF Inside
  <2>3. CASE sp.stack = Rsp0 /\ sp.used = 2
    BY <1>1, <1>2, <2>1, <2>3 DEF Inside, Out, Top
  <2>4. CASE sp.stack = Rsp0 /\ sp.used > 2
    BY <2>1, <2>4 DEF Inside, Out
  <2> QED  BY <2>2, <2>3, <2>4
<1>4. \A t \in Tasks : Inside(t)' <=> Inside(t)
  BY <1>1, <1>3, OthersInside
<1> QED  BY <1>4, BasesKept, SchedulerAssumption DEF CInv

LEMMA PopKeeps == ASSUME OneProgram, CInv, Pop PROVE CInv'
<1>1. IInv' /\ first_task # Null /\ first_task' = first_task
  BY PopIInv, Booted DEF CInv, Pop, list
<1>2. /\ pc = "pop" /\ Linked' = IF pc' \in {"scan", "link"} THEN process_id - 1 ELSE process_id
      /\ Linked = process_id /\ ~user /\ ~user' /\ timer
      /\ UNCHANGED <<first_task, current_task, prev_task, cr3, rsp, timer, gs, stack, who, user>>
  BY DEF Pop, Linked, list, turnVars, CInv, Modes, IInv, Control
<1>3. CASE ~Finds("switch")
  BY <1>1, <1>3, FaultKeeps DEF Pop
<1>4. CASE Finds("switch")
  <2>1. pc' = Top.pc /\ sp' = Drop /\ sp.used > 0 /\ Top.kind = "switch"
    BY <1>4 DEF Pop, Finds
  <2>2. /\ Top \in Frames /\ (sp.stack = Rsp0 => sp.used # 1 /\ Top.pc # "body")
        /\ sp'.stack = sp.stack /\ sp'.used = sp.used - 1 /\ sp.used \in Nat \ {0}
    BY <1>1, <1>2, <2>1, TopFrame DEF Switching
  <2>3. pc' \in Resumable
    BY <2>1, <2>2 DEF Frames
  <2>4. Holds(current_task, sp)'
    BY <1>1, <1>2, <2>2, DropHolds, Running DEF Switching
  <2>5. Modes'
    BY <1>1, <1>2, <2>1, <2>2, <2>3 DEF CInv, Modes, Switching, Resumable
  <2>6. Bases'
    BY <1>1, <1>2, <2>1, <2>2, <2>3, BackInside DEF Switching, Resumable
  <2> QED  BY <1>1, <1>2, <2>3, <2>4, <2>5, <2>6, OwnStep DEF Switching, Resumable
<1> QED  BY <1>3, <1>4

\* The exchange on the way out is done once, for the frame that returns to ring 3.
LEMMA LeaveKeeps == ASSUME OneProgram, CInv, Leave PROVE CInv'
<1>1. IInv' /\ first_task # Null /\ first_task' = first_task
  BY LeaveIInv, Booted DEF CInv, Leave, list
<1>2. /\ pc = "iret" /\ pc' \in {"iretq", "fault"} /\ Linked' = Linked /\ ~user /\ ~user' /\ timer
      /\ UNCHANGED <<first_task, current_task, prev_task, cr3, rsp, timer, stack, sp, who, user>>
  BY DEF Leave, Linked, list, turnVars, CInv, Modes, IInv, Control
<1>3. CASE pc' = "fault"
  BY <1>1, <1>3, FaultKeeps
<1>4. CASE pc' = "iretq"
  <2>1. sp.used > 0 /\ SwapgsIf(Top.user)
    BY <1>4 DEF Leave, Finds
  <2>2. sp.used \in Nat \ {0} /\ (Top.user <=> sp.stack = Rsp0 /\ sp.used = 1)
    BY <1>1, <1>2, <2>1, TopFrame DEF Switching
  <2>3. PICK u \in Tasks : u = current_task /\ Runner = u /\ Holds(u, sp)
    BY <1>1, <1>2, Running DEF Switching
  <2>4. Holds(current_task, sp)'
    BY <1>2, <2>3 DEF Holds
  <2>5. Modes'
    BY <1>2, <1>4 DEF CInv, Modes, Switching
  <2>6. Runner' = u /\ Place(u) = sp /\ Place(u)' = sp
    BY <1>2, <2>3 DEF Runner, Place, Switching
  <2>7. Bases'
    <3>1. CASE Top.user
      <4>1. u \in UserBodies
        BY <2>2, <2>3, <3>1 DEF Holds, Own, Tasks, Rsp0
      <4>2. Inside(u) /\ ~Inside(u)'
        BY <1>2, <1>4, <2>2, <2>3, <2>6, <3>1 DEF Inside, Out
      <4>3. gs = <<"kernel", "user">>
        BY <1>2, <4>1, <4>2, OnlyOne
      <4>4. gs' = <<"user", "kernel">>
        BY <2>1, <3>1, <4>3 DEF SwapgsIf, Swapgs
      <4> QED  BY <4>1, <4>2, <4>4, OnlyOneNext
    <3>2. CASE ~Top.user
      <4>1. gs' = gs
        BY <2>1, <3>2 DEF SwapgsIf
      <4>2. Inside(u)' <=> Inside(u)
        <5>1. CASE sp.stack # Rsp0
          BY <2>6, <5>1 DEF Inside
        <5>2. CASE sp.stack = Rsp0
          <6>1. sp.used >= 2
            BY <2>2, <3>2, <5>2
          <6> QED  BY <1>2, <2>2, <2>6, <6>1 DEF Inside, Out
        <5> QED  BY <5>1, <5>2
      <4>3. \A t \in Tasks : Inside(t)' <=> Inside(t)
        BY <1>1, <1>2, <1>4, <2>3, <4>2, OthersInside DEF Switching
      <4> QED  BY <1>2, <4>1, <4>3, BasesKept, SchedulerAssumption DEF CInv
    <3> QED  BY <3>1, <3>2
  <2> QED  BY <1>1, <1>2, <1>4, <2>4, <2>5, <2>7, OwnStep DEF Switching
<1> QED  BY <1>2, <1>3, <1>4

\* The interrupted context goes on: back in ring 3, or where a tick stopped the kernel.
LEMMA IretqKeeps == ASSUME OneProgram, CInv, Iretq PROVE CInv'
<1>1. IInv' /\ first_task # Null /\ first_task' = first_task
  BY IretqIInv, Booted DEF CInv, Iretq, list
<1>2. /\ pc = "iretq" /\ pc' = Top.pc /\ who' = Top.who /\ user' = Top.user /\ ~user /\ timer
      /\ sp' = (IF Top.user THEN EmptyStack(Rsp0) ELSE Drop) /\ sp.used > 0
      /\ UNCHANGED <<first_task, process_id, current_task, prev_task, cr3, rsp, timer, gs, stack>>
  BY DEF Iretq, Finds, list, turnVars, CInv, Modes, IInv, Control
<1>3. /\ Top \in Frames /\ Top.who = current_task
      /\ Top.user <=> sp.stack = Rsp0 /\ sp.used = 1
      /\ sp.stack = Rsp0 => (Top.pc = "body" <=> sp.used = 1)
      /\ Drop.stack = sp.stack /\ Drop.used = sp.used - 1 /\ sp.used \in Nat \ {0}
  BY <1>1, <1>2, TopFrame DEF Switching
<1>4. pc' \in Resumable /\ who' = who /\ Linked' = Linked
  BY <1>1, <1>2, <1>3, Running DEF Frames, Linked, Switching, Resumable
<1>5. CASE Top.user
  <2>1. sp'.stack = Rsp0 /\ sp'.used = 0 /\ user' /\ pc' = "body"
    BY <1>2, <1>3, <1>5 DEF EmptyStack
  <2>2. PICK u \in Tasks : u = current_task /\ Runner = u /\ Holds(u, sp)
    BY <1>1, <1>2, Running DEF Switching
  <2>3. Holds(current_task, sp)'
    BY <1>2, <1>3, <1>5, <2>1, <2>2 DEF Holds, Own
  <2>4. Modes'
    BY <1>2, <2>1 DEF Modes, Switching
  <2>5. Bases'
    <3>1. Runner' = u
      BY <1>2, <2>1, <2>2 DEF Runner, Switching
    <3>2. ~Inside(u) /\ ~Inside(u)'
      BY <1>2, <1>3, <1>5, <2>1, <2>2, <3>1 DEF Inside, Place, Out
    <3>3. \A t \in Tasks : Inside(t)' <=> Inside(t)
      BY <1>1, <1>2, <2>1, <2>2, <3>2, OthersInside DEF Switching
    <3> QED  BY <1>2, <3>3, BasesKept, SchedulerAssumption DEF CInv
  <2> QED  BY <1>1, <1>2, <1>4, <2>1, <2>3, <2>4, <2>5, OwnStep DEF Switching
<1>6. CASE ~Top.user
  <2>1. sp'.stack = sp.stack /\ sp'.used = sp.used - 1 /\ ~user'
    BY <1>2, <1>3, <1>6
  <2>2. sp.stack = Rsp0 => sp.used # 1 /\ Top.pc # "body"
    BY <1>3, <1>6
  <2>3. Holds(current_task, sp)'
    BY <1>1, <1>2, <1>3, <2>1, DropHolds, Running DEF Switching
  <2>4. Modes'
    BY <1>2, <1>3, <1>4, <2>1, <2>2 DEF Modes, Switching, Resumable
  <2>5. Bases'
    BY <1>1, <1>2, <1>3, <1>4, <2>1, <2>2, BackInside DEF Switching, Resumable
  <2> QED  BY <1>1, <1>2, <1>4, <2>3, <2>4, <2>5, OwnStep DEF Switching, Resumable
<1> QED  BY <1>5, <1>6

-----------------------------------------------------------------------------
LEMMA InitCInv == Init => CInv
<1> SUFFICES ASSUME Init PROVE CInv
  OBVIOUS
<1>1. IInv
  BY InitIInv
<1>2. /\ process_id = 0 /\ pc = "body" /\ first_task = Null /\ current_task = Null
      /\ sp = EmptyStack(1) /\ ~user /\ gs = <<"user", "kernel">>
      /\ \A t \in Tasks : rsp[t] = EmptyStack(t)
  BY DEF Init
<1>3. Linked = 0 /\ Runner = Null /\ Waiting = {}
  BY <1>2 DEF Linked, Runner, Waiting, Switching
<1>0. \A t \in Tasks : rsp[t].stack = t /\ t # 0
  <2> SUFFICES ASSUME NEW t \in Tasks PROVE rsp[t].stack = t /\ t # 0
    OBVIOUS
  <2>1. rsp[t] = [stack |-> t, used |-> 0]
    BY <1>2 DEF EmptyStack
  <2> QED  BY <2>1 DEF Tasks
<1>4. Boot /\ Modes
  BY <1>2 DEF Init, Boot, Modes, Switching, EmptyStack, Rsp0
<1>5. Contexts
  BY <1>0, <1>2, <1>3 DEF Contexts
<1>6. Bases
  <2>1. \A t \in UserBodies : ~Inside(t)
    BY <1>0, <1>3, SchedulerAssumption DEF Inside, Place, Rsp0, Null
  <2> QED  BY <1>2, <2>1 DEF Bases
<1> QED  BY <1>1, <1>4, <1>5, <1>6 DEF CInv

LEMMA StutterKeeps == ASSUME CInv, UNCHANGED vars PROVE CInv'
<1>1. UNCHANGED <<process_id, first_task, next, traversal, current_task, prev_task,
                  spinlock, cr3, rsp, timer, ifl, gs, stack, sp, who, user, pc>>
  BY DEF vars, list, turnVars, machine
<1>2. IInv'
  BY StutterIInv DEF CInv
<1>3. Boot' /\ Modes'
  BY <1>1 DEF CInv, Boot, Modes, Linked
<1>4. Contexts'
  BY <1>1 DEF CInv, Contexts, Runner, Waiting, Linked, Holds, Saved
<1>5. Bases'
  BY <1>1 DEF CInv, Bases, Inside, Place, Out, Runner
<1> QED  BY <1>2, <1>3, <1>4, <1>5 DEF CInv

LEMMA NextCInv == ASSUME OneProgram, CInv, [Next]_vars PROVE CInv'
<1>1. ~CloneProcess
  BY DEF OneProgram, CloneProcess
<1> QED
  BY <1>1, QuietStepsKeep, InitializeFirstKeeps, LinkKeeps, EnterUserKeeps, SyscallKeeps, TickKeeps,
     SelectKeeps, LoadCr3Keeps, SaveKeeps, RestoreKeeps, PopKeeps, LeaveKeeps, IretqKeeps, StutterKeeps
  DEF Next, Create, SwitchProcess, Fault

LEMMA ContextsHold == ASSUME OneProgram PROVE Spec => []CInv
<1>1. CInv /\ [Next]_vars => CInv'
  BY NextCInv
<1> QED  BY <1>1, InitCInv, PTL DEF Spec

\* The body that runs is that of the current task, in the address space of that task,
\* whatever interrupted what on the way to it (task.c:159-162).
THEOREM RightTaskRuns == ASSUME OneProgram PROVE Spec => []ContextIsCurrent
<1>1. CInv => ContextIsCurrent
  BY Running DEF ContextIsCurrent, Switching
<1> QED  BY <1>1, ContextsHold, PTL

\* A task that waits finds its stack as it left it, also the program that waits on the
\* stack at rsp0, which the processor uses for every task (irq.s:141-155).
THEOREM StacksWait == ASSUME OneProgram PROVE Spec => []SavedStacks
<1>1. CInv => SavedStacks
  <2> SUFFICES ASSUME CInv, pc \notin {"load", "save", "fault"}, NEW t \in (1..Linked) \ {current_task}
               PROVE  /\ stack[rsp[t].stack][rsp[t].used].kind = "switch"
                      /\ \A i \in 1..rsp[t].used : stack[rsp[t].stack][i].who = t
    BY DEF SavedStacks
  <2>1. t \in Waiting
    BY DEF Waiting, Runner, Switching
  <2> QED  BY <2>1 DEF CInv, Contexts, Saved, Holds
<1> QED  BY <1>1, ContextsHold, PTL

\* In ring 3 the kernel's GS base is in reserve, although ticks interrupt the way out
\* between the swapgs and the iretq (irq.s:83-85, 122-125, 198-199).
THEOREM GsBaseInReserve == ASSUME OneProgram PROVE Spec => []GsBase
<1>1. CInv => GsBase
  <2> SUFFICES ASSUME CInv, pc = "body", user PROVE gs = <<"user", "kernel">>
    BY DEF GsBase
  <2>1. first_task # Null
    BY Booted DEF CInv, IInv, Control
  <2>2. PICK u \in Tasks : u = current_task /\ Runner = u /\ Holds(u, sp)
    BY <2>1, Running DEF Switching
  <2>3. u \in UserBodies /\ ~Inside(u)
    BY <2>2 DEF CInv, Modes, Holds, Own, Inside, Place, Out, Tasks, Rsp0
  <2> QED  BY <2>3, OnlyOne
<1> QED  BY <1>1, ContextsHold, PTL
=============================================================================
