# cutesugaros: specifications, model checks and proofs

This directory specifies the kernel of cutesugaros in TLA+. Each module is
translated from the C and assembly source; `PROJECT.json` maps every definition
to its lines. TLC checks the modules on small instances (`*.cfg`), TLAPS proves
their safety properties for all instances (`*Proofs.tla`).

    tlc -config MCThreads.cfg Scheduler.tla      # a model check
    tlapm SchedulerProofs.tla                    # the proofs of a module

## 1. Inventory

cutesugaros is a 64-bit x86 kernel of about 2500 lines, booted by Limine. The
boot processor runs `KernelStart` (`arch/main.c`), starts the other processors
(which then halt for good), loads two driver modules, becomes the first process
and enables the timer. From then on processes are preempted round robin.

| Component | State | Operations | Talks to |
|---|---|---|---|
| spinlock (`misc/spinlock.c`) | one byte, and the interrupt flag it turns off and on | `lock`, `unlock` | the scheduler |
| processes (`arch/task.c`, `irq.s`, `idt.c`, `gdt.c`) | circular task list, current and previous task, saved stack pointers, CR3, GS bases, `tss.rsp0` | `KernelInitializeProcess`, `KernelCloneProcess`, `KernelSwitchProcess`, `switch_task`, `switch_to_user`, interrupt and system call entry and exit | timer, spinlock, heap, paging, tokens |
| start of processors (`arch/acpi.c`, `ap.s`) | `wait`, the words at 0x8C00 and 0x8F00, the page 0x8000, the one TSS | `KernelParseAcpi`, `HalInitializeProcessors`, `ap_start` | local APIC, paging, object tree |
| heap (`misc/malloc.c`) | nine lists of pages with free lists inside, list of big bins | `malloc`, `free` | frame list |
| frames and page tables (`arch/mmu.c`) | `mem_list`, `stack_position`, four-level tables | `KernelAllocateFrame`, `KernelMapPage`, `KernelMapMmio`, `KernelUnmapPage`, `KernelNewPageStructure`, `KernelGetPhysicalAddress` | everybody |
| ELF loader (`misc/elf.c`) | symbol list | register symbols, search, load library, load executable, relocate | paging, heap |
| AHCI (`modules/ahci`) | registers, command tables, the one `sata_buffer` | `InitializeAhci`, `AhciSendIdentify`, `AhciReadSector` | PCI, paging, object tree, disk |
| object tree (`kernel/object`, `io/iomgr.c`, `misc/tokenmgr.c`) | directories with child lists, tokens, working directories | create directory, device, processor, file; resolve; change directory | heap, current process |
| RAM files, keyboard (`fs/ramfs.c`, `arch/ps2.c`) | a 64-byte buffer, `ps2_file`, the controller | read and write a byte, set-up, keyboard interrupt | object tree, programs |
| PCI (`misc/pci.c`) | `device_count`, device objects | `HalCheckPciBus` (recursive), `HalSearchForPciDevice` | object tree, heap, AHCI |
| Ext2 (`fs/ext2.c`) | superblock copy | mount, read inode, read byte | AHCI, object tree |
| output (`misc/dprintf.c`, `sbd.c`, `bootvid`) | current output device, cursor | format and write | object tree |
| C library (`libc`) | a heap, open files | system calls | kernel |

What is hard in this code:

- **Interleaving.** A tick may come between any two instructions that run with
  interrupts on, among them the second half of `switch_task` (`irq.s:146-155`)
  and the way back to ring 3 after `swapgs`. The lock is given back by code that
  already runs on another stack.
- **Shared memory without locks.** Processors hand `wait`, 0x8F00 and the TSS to
  each other; tables are shared between the structures of parent and clone.
- **Hardware that answers late or never.** A processor that does not start, a
  disk that fails while it is polled, an engine the firmware left running.
- **Recycled and uninitialised memory.** Nothing that `malloc` or
  `KernelAllocateFrame` returns is cleared; new tables and new list nodes are.
- **Boundaries.** Block geometry inside a page, size classes, the end of a region
  of memory, bus numbers that pass through a signed char, inode numbers and
  entries beyond what was read.
- **Recursion over shared counters.** The walks over busses and directories
  number, name and link objects while calls are nested.
- **Input at any time.** A user may type during the controller's set-up, and the
  handler shares one byte with programs.
- **Privilege.** A null directory means the working directory, `.` in the
  middle of a path starts again at the root, and a system call takes any pointer
  as the directory to start from.

What makes each component correct: the lock excludes and cannot deadlock with a
handler; the task list stays one circle and nothing lost or mixed up by a switch;
processors start one at a time on their own stacks; blocks of the heap are
disjoint and complete, and meet no frame of another owner; every frame has one
role; a read returns its own sector or nothing of anybody else's; a name keeps
its meaning, and no path of a process without privilege leads above the
directory that it gives or its working directory; the symbol list is a table,
and what is linked stays linked; every function of a bus is listed once for each
time that the walk is sent there, and found; a key once read is never followed
by an older one; the objects of a mount are the tree on the disk, within the
driver's limits. The hazards in `PROJECT.json` list where each of these could go
wrong.

## 2. Modules

| Module | Models | Composes or refines |
|---|---|---|
| `Mutex` | abstract lock: one owner | |
| `Spinlock` | `lock`/`unlock`, with interrupts, on many processors | implements `Mutex` |
| `SpinlockProofs` | theorems about `Spinlock` | |
| `RoundRobin` | abstract scheduling: tasks in order of creation, a turn that passes on | |
| `Scheduler` | processes, preemption, ring 3, system calls on the boot processor | implements `RoundRobin` |
| `SchedulerProofs` | theorems about `Scheduler` | |
| `SmpBoot` | MADT walk and start of the other processors | |
| `Heap` | `malloc` over the frame list | composes `malloc.c` with the frame list of `mmu.c` |
| `HeapProofs` | theorems about `Heap` | |
| `Paging` | page structures and the calls made on them | composes `mmu.c` with its callers in `acpi.c`, `elf.c`, `ahci.c`, `task.c` |
| `PagingProofs` | theorems about `Paging` | |
| `Ahci` | the driver with the controller and disk | |
| `Namespace` | object tree, tokens, working directories | composes `kernel/object`, `iomgr.c`, `tokenmgr.c`, `ramfs.c` with `task.c` |
| `SymbolTable` | abstract table: the first registration of a name counts | |
| `Symbols` | symbol list, registration of modules, relocations | implements `SymbolTable` |
| `SymbolsProofs` | theorems about `Symbols` | |
| `Pci` | the recursive bus walk and the search | composes `pci.c` with the headers of a machine |
| `Keyboard` | controller set-up, interrupt handler, RAM file, `stdio` | composes `ps2.c`, `ramfs.c`, `stdio.c` and a user |
| `Ext2` | the recursive mount | composes `ext2.c` with the name search of `directory.c` |
| `BootProofs` | theorems about `SmpBoot` and `Pci`, which run while the machine starts | |
| `StorageProofs` | theorems about `Ahci` and `Ext2` | |
| `ObjectProofs` | theorems about `Namespace` and `Keyboard`, the tree and a file in it | |

`MCHeap`, `MCPaging`, `MCNamespace`, `MCPci`, `MCSymbols` and `MCExt2` only give
constants their values.
Some definitions have a neighbour that differs in one detail and is used nowhere
(`OneOfBlock` beside `SectorsOf`, `IndexFloor` beside `Index`): these are plausible
mistakes, listed under `mutants`, each of which must violate the property it is
listed with. They show that the properties notice such mistakes.

### How state and actions correspond to the code

**Spinlock.** `locked` is the byte; `intr[c]`, `level[c]` and `pc[c]` are, for a
processor, its interrupt flag, how deep its handlers nest, and where each of
those contexts is. One action per instruction that matters: `Cli` (7), `Spin`
(the loop at 9-11 while the byte is set), `Test` (9, clear), `Exchange` (12),
`Store` (17), `Sti` (18). `Interrupt` and `Iret` are the processor's; vectors
are interrupt gates (`idt.c:94-100`), so a handler starts with the flag off.
`unlock` always turns interrupts on, also inside a handler: the module keeps
that, and the properties hold nevertheless.

**Scheduler.** A task is its id. `next`, `current_task`, `prev_task`, `spinlock`
and `rsp` are the variables of `task.c`; `ifl`, `cr3`, `gs`, `stack`, `sp`,
`user` are the machine. A stack is an array in which a push overwrites: a frame
is what the interrupt entry (`"isr"`) or `switch_task` (`"switch"`) saves, with
the context it belongs to. `who` is whose registers are loaded; it changes only
when a frame is popped, so "the right code runs" is a statement about the
stacks, not an assumption. A tick is possible between any two actions while `ifl`
is set. A system call and the creation of a process are many steps each, so
that missing interrupt protection would show. The link of the first list node is
any of `FreshWords`, since `malloc` clears nothing (`task.c:31`).

**SmpBoot.** Names 1..n are the `Processor<n>` objects; `bsp` and `ap[p]` are the
places where the processors are. `stack_pointer` is the word at 0x8F00. `alive`,
chosen once, are the processors that react to the startup IPI.

**Heap.** Memory is an array of words, with the free lists threaded through it
as in the code; a caller fills the block it gets (`Filled`). `live` is history:
the blocks handed out; so is `lent`, the frames that others than `malloc` have
taken (`TakeFrame`). A caller may touch every word of the bytes it asked for,
also the one that the division by 8 rounded off (`Handed`). `MemList` joins all
usable regions of the map, as `mmu.c:50-56` does, and a big block takes the next
frames of it wherever they are: at the end of a region it reaches on into the
hole behind it. `OnlyOwnFrames` is about the frames of the list, and says that
the block meets none that is not its own.

**Paging.** A place is a frame; `entry[f][s]` is a word of it. An uncleared
frame is full of entries that look present and lead to `WildPage`, so a missing
`memset` is visible. One action per call that the kernel makes. The page of the
trampoline, 0x8000, is no frame of `mem_list` here by construction: the list has
the usable regions of the map (`mmu.c:51-54`), and `acpi.c:140` uses that page
without taking it from the list. That the two do not meet is the bootloader's
doing, not the kernel's, and `OneRole` assumes it.

**Ahci.** The controller (`Controller(p)`) is an environment written from how
the driver polls it: after an error it executes nothing more until it is
restarted, and the bit of the failed command stays set. The driver's actions
follow the statements that read or write registers, and are separate wherever
the controller can act in between.

**Namespace.** A path is a sequence of components. `ResolveObjectName` is a
recursive function as in the code, with `Undefined` where the code would follow
a pointer to something that is no directory; a behaviour ends there (`stuck`).
System calls 2 and 7 pass the program's `rdi` on as the directory to start from
without a look at it (`idt.c:37, 42, 75`): null, as the C library has it, or the
pointer of any object (`Handed`).

**Symbols.** `symbol_list` is the list in order; `stray` says that the last
element's link, which nobody sets, happened not to be null, and following it
sets `undefined` and ends the behaviour. A module is what the loader reads of
its file; the kernel's own functions are registered as the symbols of a module 0.
`done` counts what the loops have got through: the symbols of the last module,
then its relocations. `memory[k]` are the words of
module `k`, so that a type 6 relocation, which copies the symbol over the slot
and what follows it, is seen to overwrite its neighbours.

**Pci.** The recursion of `HalCheckPciBus` is `stack`, a frame per call with the
two loop counters; a step is one turn of a loop. `config` is the machine, chosen
once. For the bus behind a bridge `pci.c:65` reads the byte 0x1D, the limit of the
I/O window (`io_limit`), and the walk goes on with it (`Followed`); the number is
in the byte 0x19, where `pci.h:49` declares it and nothing reads it, so that on a
real machine the walk comes to the busses behind bridges only by chance. A bridge
is followed as the code does it: by the layout of function 0, and only if its
header type is 1 exactly. A bus number is kept as the `int` parameter has it and
narrowed where the code narrows it (`Char`, `Byte`), so 4 busses have the two
halves that 256 have. Where the bytes lead in a circle the code calls itself
until the stack is gone; the model stops (`Stopped`) when there are more calls
under way than busses. `HalSearchForPciDevice` searches by name as the code does
and stops at a gap.

**Keyboard.** `step` counts the steps of `HalInitializePs2` that are done. The
controller is an output queue that the user and the command for the
configuration byte fill; keys are numbered, so that "older" has a meaning. The
interrupt needs the bit in the configuration, the entry, the mapping and the
unmasking (`irq`), and is remembered while one of them is missing. `fault` is the
handler's use of a null `ps2_file`.

**Ext2.** As in `Pci`, the recursion is `stack`, a frame per call with the
loop counters: the sector, and the entry in it. The driver parses the 512 bytes
of each sector as if an entry began there (`ext2.c:129-134`), so an inode is here
the sectors of its blocks, with the entries that begin in each; an entry that
goes on in the next sector is not `whole`. The loops stop behind the sectors of
the direct blocks (`SectorsOf`), whether or not there are more. `ReadInode` looks
for the descriptors at byte 2048 whatever `block_size` is, and indexes what it
has read without a look at its end. `StoredNames` is what `directory.c` (32
bytes for a directory) and `ext2.c:150` (the letters alone, into memory that may
begin with the link of a free list) leave of a name. An object is a number;
`inode[o]` is history: what it was made for. `undefined` is the use of what is
no part of the disk: an inode that `ReadInode` did not read, an entry beyond the
sector, room beyond the 64 letters of a file's name.

## 3. Runs

| Run | Instance | Shows |
|---|---|---|
| `spinlock` | 3 processors, nesting 2 | `MutualExclusion`, `NeverInterrupted`: who spins or holds is what its processor runs; `EventuallyReleased` |
| `threads` | 3 tasks, one a ring-3 program, 3 frames per stack | `SwitchAtomic`, `ContextIsCurrent` (code and CR3 belong to the current task), `SavedStacks` (a waiting task finds its stack as it left it), `GsBase`, `ImplementsRoundRobin`, `EveryoneRuns` |
| `clone` | 3 tasks, two programs that clone, uninitialised first link | `RingOrder` |
| `smp_boot` | up to 5 MADT entries, indexes 2 to 4 | `OneAtATime`, `OwnStack`, `TrampolineStays`, `LandingStackIsFree`, `Completes` |
| `heap` | pages of 16 words; two usable regions of 2 and 4 frames, with a hole of one frame between them; sizes 1, 3, 7, 15, 31, so that a big block can span the hole | `NoOverlap`, `OnlyOwnFrames`, `NothingLost` |
| `paging` | 4 levels of 4 slots, 11 frames | `OneRole`, `KernelEverywhere`, `UserReaches`, `OnlyUnmapped` |
| `ahci` | 2 ports, 2 slots, 2 sectors | `ReturnedSector`, `InFlightStays`, `ReadReturns`, `Initializes` |
| `namespace` | up to 3 new objects and 3 processes, but not all of them together (`MaxTotal`, which counts the root and `Devices` too); names that clash, paths up to 3, any object as the directory given | `NamesMean`, `NeverUp`, `OnlyStartsFail`, `StableNames` |
| `pci` | 4 busses of 2 slots of 2 functions; every machine of up to 2 functions, and of 3 if each is on a bus that the walk may come to; bridges at any place, with any byte for the bus | `ListedPerEntry`, `SearchFinds`, `WalkEnds` |
| `symbols` | 2 loads out of 240 modules, 3 names | `ImplementsTable`, `Relocated` |
| `keyboard` | 4 keys, one of them without a character; a buffer of up to 3 old bytes, or no controller | `StatusIsConfig`, `HandlerHasFile`, `NewestKey` |
| `ext2` | 7852 disks with each of three block sizes: a directory of 4 sectors with up to 4 named entries, another below it | `TreeOfDisk`, `StopsBeyondLimits` |

All runs end without error. The type invariants, and that `Spinlock` implements
`Mutex`, are proved (section 4) and not among the runs.

**Bounds, and why they are enough.** Three processors are the least in which one
waits while two race. Three tasks are the least for which "next" and "previous"
differ; a stack of three frames is one saved switch, an interrupt and an
interrupt on the way out, and a tick that would not fit is not taken. The `if`
and the loops of the processor start see zero, one and several processors, with
IO-APIC entries and dead processors among them. Sixteen words are the smallest
page in which lists have several blocks, one block, and room that does not
divide evenly, and big requests take several frames; a block of 31 words covers
three, and begins in either frame before the hole. Four slots give the kernel
half and the user half two each, at the code's own depth of four; eleven frames
are enough for two processes with programs and a clone. Two ports are the least
that compete for the one buffer, two slots the least for a failed command to be
avoided. Three objects and paths of three give shadowed names, nested
directories and a dot in every position; three processes are the least for one
whose creator has lost the root object.

Three functions are a bridge behind a bridge with a device, a device between
two bridges, or two bridges to one bus with a device on it; of four bus numbers
two are "negative". Two modules are what the
kernel loads (`main.c:57-60`); between them they redefine a name of the kernel,
of each other and their own, use names before and after their definition, and
have relocations of every handled type next to and over each other. Four keys
are one in the controller, one in the file, one that was read and one that the
keymap lacks; a flush limit of 3 has the three outcomes of 1024: emptied, taken
for a time-out, and full to the end. Two directories on a disk are one call
inside another. With one direct block (12 in the code), the third and fourth
sectors of the first directory are behind the direct blocks if these have 1024
bytes, and within them if they have more. Two groups of five inodes, of which
four are read, have inodes in each group and beyond each of the two limits;
names have fewer than 8 letters, 8, 31, 32, 64 and 65, the boundaries of the
buffers that they are copied to.

**Fairness.** `Spinlock`: a processor keeps executing and handlers return (weak);
interrupts and calls of `lock` are not required to happen. Because a spinning
processor only needs the byte to be cleared for somebody, no fairness between
processors is used. `Scheduler`: the processor executes what it has begun (weak);
the periodic tick is strongly fair because the local APIC holds it pending while
interrupts are off. User code is free to do nothing. `SmpBoot`: every
started processor executes (weak); a dead one never starts, and `Completes`
speaks only of machines without one: with one, the spin at `acpi.c:161` never
ends. `Ahci`: the driver executes and the controller does what it has to do
(weak); whether a command fails is free. `Pci`: the walk is one sequence of calls
on the only processor that runs (weak).

**Deadlock** is checked for `spinlock`, `threads`, `clone` and `pci`. It is not
for the others, which really stop: processors are started once, frames run out,
an identify hangs after a disk error (`ahci.c:236`), and bounds on objects are
reached, a set-up or a mount is over, or the code has followed a stray pointer.

## 4. Proofs

Each module of proofs has one inductive invariant (`IInv`, in `SchedulerProofs`
also `CInv`), a lemma for each action or group of actions that preserves it, and
the theorems at its end. Where a module holds the proofs of two components, it
has an invariant for each, under a name of its own. The invariants were checked
by TLC on the instances of the runs before they were proved.

**`SpinlockProofs`**, for any set of processors and any nesting:
`TypeCorrect`, `Exclusion` (`MutualExclusion`), `HolderRuns`
(`NeverInterrupted`) and `RefinesMutex` (`ImplementsMutex`). Exclusion is not
inductive: the step `Exchange` needs to know that a clear byte means that nobody
is inside. The invariant adds `LockedIffHeld`; and that in turn needs
`NeverInterrupted`, since only then is the context that stores zero the one that
holds. `IInv` is the conjunction of the four. The refinement maps `Exchange` and
`Store` to taking and giving back the abstract lock and everything else to a
stutter; `LockedIffHeld` is what makes the abstract owner absent exactly when
`Exchange` succeeds.

**`SchedulerProofs`**, for any number of tasks, stack depth, programs and
system calls:

- `TypeCorrect`, `CircleOfTasks` (`RingOrder`) and `AtomicSwitch`
  (`SwitchAtomic`) from one invariant `IInv`. To the two properties and the types
  it adds `Control`: what each control point implies for the timer, the current
  task and the list. Without it a scan could begin before the first task exists,
  and a tick could find no current task. There is one lemma per group of steps.
- `RoundRobinOrder` (`ImplementsRoundRobin`), under the assumption that fresh
  words read as null: every step creates a task at the end of the order, passes
  the turn on, or stutters. The assumption is needed: with a stray word in the
  link of the only task, a tick follows it.
- `RightTaskRuns` (`ContextIsCurrent`), `StacksWait` (`SavedStacks`) and
  `GsBaseInReserve` (`GsBase`), under the hypothesis `OneProgram`: at most one
  task has ring-3 code and nobody clones, with any number of kernel threads.
  The hypothesis is that of the run `threads` and cannot be dropped: all programs
  are entered on the one stack of `tss.rsp0`. The invariant `CInv` describes the
  machine in the middle of everything: `Contexts` says that below a stack pointer
  there are frames of its task only, that those of ring 3 lie at the bottom of
  the stack at `rsp0`, and that a waiting task has the frame of `switch_task` on
  top; `Modes` on which stack each control point executes; `Bases` that the GS
  bases are exchanged exactly while the program is inside the kernel, between
  its `swapgs` in and its `swapgs` out, wherever it was interrupted there. The
  last is the one that is easy to get wrong: a tick between the `swapgs` and the
  `iretq` finds the bases of ring 3 in the kernel, and has to leave them so.

**`BootProofs`**, first part (`SmpBoot`), for a MADT of any length, any number of names looked up and
any set of processors that answer: `OneProcessorAtATime` (`OneAtATime`),
`StacksAreOwn` (`OwnStack`), `TrampolineIsThere` (`TrampolineStays`) and
`LandingStack` (`LandingStackIsFree`). The invariant pins `wait` to the rounds:
processors of earlier rounds are halted, those of later rounds off, and only
while the bootstrap processor spins and `wait` is clear may that of the round be
on its way (`OneRound`), with the word at 0x8F00 still its own (`Prepared`).
`Answered` says that a round is only left when there is a processor that set the
flag: the first rounds may start nobody, and the spin then never ends.

Second part (`Pci`), for any number of busses, slots and functions:

- `PciSearchFinds` (`SearchFinds`), on every machine. It needs only that the names
  run on without a gap through nested calls (`NamedInOrder` in `ListInv`). The
  search is a recursive function over two counters, the name and how many of the
  class are still to be skipped; that it exists and what it answers is an
  induction from the end of the list.
- `PciListsPerEntry` (`ListedPerEntry`), on every machine as well: nothing is
  assumed of where bridges are or what their registers say. `WalkInv` adds to
  `ListInv` a count (`Counted`): for each function that the loops do not pass
  over, the times it was listed and the calls under way that still come to it
  (`Ahead`) are together the times that the walk was sent to its bus. A step of
  the loops moves one call from the second to the first (`CountAdds`), or passes
  over what is never listed (`CountSkips`); a bridge adds one to both sides for
  every function of the bus it sends the walk to. The property follows when the
  stack is empty. What it does not say is how often that is: a bridge at a
  function above 0, or with the multi-function bit, sends the walk nowhere.

**`StorageProofs`**, first part (`Ahci`), for any number of ports, slots and sectors:
`ReadsReturnTheSector` (`ReturnedSector`) and `CommandsInFlightStay`
(`InFlightStays`). The invariant follows the one buffer from the clearing to the
return (`Buffer`), and needs three facts for it. A port that has a device object
executes only the command in progress, or, after an error, nothing ever again
(`Executing`): so a command that was given up cannot write into the buffer of a
later one. Commands of the firmware are on ports without a device object, and
write to the firmware's memory (`Executing`). And ports are set up one after the
other, so that the buffer is that of the last one (`Progress`).

Second part (`Ext2`), for all three sizes of blocks, any disks and any depth and
length of their directories: `MountMakesTheTree` (`TreeOfDisk`) and
`MountStopsBeyondLimits` (`StopsBeyondLimits`). The first property only speaks of
the end of a mount. `MountInv` says what holds in the middle: every call under way
is for a directory object of its own, and its inode is that object's
(`CallsAreFor`); every entry that all calls for its directory have passed has its
places among the children, one, or two in a row for the directory that is added
twice (`EntriesMade`, `PlacedAt`), and every child is there for an entry
(`ChildrenNamed`). An object without a call under way counts as passed entirely: a
directory gets its call in the very step that makes it, and the call is dropped
only behind the last sector (`EndOfDirectory`). That the places of two entries are
not mixed up, and that the right object is found by a name, needs that no two
entries of a directory have one name, which `Ext2Assumption` states of the disk.
`StopsBeyondLimits` is inductive with the types: the step that sets `undefined`
has the entry at hand that is beyond a limit, and the proof is that the code's
divisions find what they look for below it.

**`HeapProofs`**, for pages and requests of any size (a power of 2 from 8 words
on) and memory maps of any number of regions with any holes between them:
`BlocksAreApart` (`NoOverlap`), `NoBlockIsLost` (`NothingLost`) and
`BlocksAreInOwnFrames` (`OnlyOwnFrames`). The one hypothesis is that the frame
list ascends (`Ascending`), as the bootloader's map does. It cannot be dropped: a
big block takes frames from the list and covers frames in order of address. The
third theorem adds to the invariant that the frames of others are taken and none
is a page of `malloc`'s (`LentApart`). The invariant describes
a small page by one number, how many of its blocks are gone (`Page`): the others
are chained from its head in order, and it is the first of its list unless there
are none. `Order` extends `NoOverlap` to frames: what begins in an earlier frame
ends before a later one that holds blocks, headers included; `Inside` does the
same for the frames not taken yet. The arithmetic of blocks (`Blocks`), sizes
(`ListOfSize`) and lists of frames (`Listed`, `Edges`) is in lemmas. Two functions
are recursive, `Power` and the chain `Follow`; that they exist and what they
compute is proved by induction on a set of numbers (`SetInduction`, from the
well-foundedness of `<`), which needs no operator as a parameter.

**`ObjectProofs`**, first part (`Keyboard`), for any number of keys, any keymap, any file size and any
depth of the controller's buffer: `TheHandlerHasAFile` (`HandlerHasFile`),
`TheStatusIsTheConfiguration` (`StatusIsConfig`) and `ReadsTheNewestKey`
(`NewestKey`). None of the three is inductive. The invariant adds three facts:
the keyboard is off from the flush until it is enabled again, so the buffer that
the flush saw empty is still empty at the read (`Quiet`); the line is unmasked
and a stream is open only once there is a file (`FileFirst`); and the controller
holds at most one key, newer than the file's (`InOrder`). There is one lemma per
action.

Second part (`Namespace`), for any number of objects and processes, any names and
any paths: `NamesAreStable` (`StableNames`), `PathsNeverLeadUp` (`NeverUp`),
`OnlyTheStartsFail` (`OnlyStartsFail`) and `NamesMeanTheTree` (`NamesMean`). The invariant `TreeInv` is about the order
of creation: a directory lists only objects younger than itself, older before
younger (`ListsRise`), and every object lies in exactly one directory
(`OneParent`). So the lists are a tree, the search by name finds the oldest
(`ChildParts`), and a new object is found by a name only if none was
(`ChildStays`). The recursions follow from it:

- `ResolveObjectName` is a recursive function over the components of a path. That
  it exists, and that it obeys the rule it is written by (`ResolveRule`), is proved
  by going down from the end of the path (`Downwards`); what holds of all its
  results likewise. `NamesAreStable` compares the function of one state with that
  of the next this way.
- `FullName` and `Ancestry` go from an object to its parent, which is an older
  object; that they exist is `RecursionDefined`, for any function that goes on
  from a smaller number. `Upwards` is the induction over them.
- `PathsNeverLeadUp`: what lies in a directory at or under one of the two starts,
  the directory given and the working directory, lies under it (`UnderClosed`),
  and a dot leads a process without the permission to null, which stands for the
  working directory again (`StaysBelow`). No invariant about `cwd` beyond its type
  is needed.
- `OnlyTheStartsFail`: from a directory each component leads to a directory, to
  the end, or to null and so to the working directory (`StaysDefined`).
- `NamesMeanTheTree`: with every component the object that is reached carries one
  name more of the path (`Leads`, `FoundIsNamed`); and every object on the line to
  one that nothing hides is the oldest of its name (`FoundByItsNames`).

**`SymbolsProofs`**, for any kernel functions, any modules and any number of
loads: `ListIsTable` (`ImplementsTable`) and `LinksStayRight` (`Relocated`). A
list only grows at its end (`Grown`), so what a search finds stays what it finds,
although `add_to_symbols` lets duplicates in: a second element of a name is
never found. A name is refused only if the first element has it, and that is
found. From there `Registered` says that every defined symbol that has had its
turn is found, and `Listed` that nothing else is; so a name that was null when a
module was relocated stays null *for that module*, and one that was not keeps
its function. `Linked` is `Relocated` with what names mean as a parameter
(`Holds`), which a later relocation of the module changes only where it writes
(`StillHolds`).

**`PagingProofs`**, for any number of levels (2 or more), any slots, any memory
and any addresses: `FramesHaveOneRole` (`OneRole`), `KernelIsEverywhere`
(`KernelEverywhere`), `ProgramsAreReached` (`UserReaches`) and `MappingsStay`
(`OnlyUnmapped`). The four follow from one invariant, which says that there is an
assignment of a level to every frame that was handed out (`rank`, pages come
after the last level), and a set of frames that serve the lower halves of
processes (`ours`), such that what a table has leads to the next level
(`Ranked`); a table hangs from one entry, but for those below the top level,
which hang from one slot of several structures (`Single`); the upper half of a
structure is the kernel's where it has anything (`Shared`); and the tables of
`ours` are open to ring 3 and nothing of the kernel's leads to them (`Open`).
`Ranked` is what makes a walk harmless: it never reads memory that nobody
cleared, because an entry of a table never leads to a frame that was not handed
out. Neither `rank` nor `ours` is state of the code; a step that takes frames
extends them. `Extended` is the lemma that the completion of a walk keeps all of
this, and `PageMapped` that `KernelMapPage` is such a completion. The walk itself
(`Tables`) and the tables of a level (`TablesAt`) are recursive functions; that
they exist is proved by induction on sets again. For `OnlyUnmapped` the words
that are present never change, but for the leaf of the trampoline; and two walks
that meet at that leaf are walks to the same address, by `Single` from the leaf
up (`SameLeaf`).

The type invariants are theorems of their own (`TypeCorrect`), or a conjunct of
the inductive invariants where there is none.

The assumptions of the proofs are the `ASSUME`s of the modules on their
constants (`SpinlockAssumption`, `SchedulerAssumption`, `SmpAssumption`,
`HeapAssumption`, `PagingAssumption`, `AhciAssumption`, `SymbolsAssumption`,
`KeyboardAssumption`, `NamespaceAssumption`, `PciAssumption`, `Ext2Assumption`),
which TLC evaluates in every run, and the hypotheses stated in the theorems.
`PagingAssumption` says of the addresses only what the callers choose: programs,
the trampoline and the registers lie in the lower half, libraries, buffers and
the kernel's image in the upper. `Ext2Assumption` says of a disk what a file
system that was written properly has: blocks of 1024, 2048 or 4096 bytes, names
of up to 255 letters that differ within a directory, and inodes that exist where
an entry names them and the driver's reads get to them. Inodes behind those reads,
free entries, entries across sectors, directories that share an inode, and cycles
are not excluded.

Every invariant, every action property and the three refinements (whose abstract
specifications are safety properties) are stated by theorems. Model-checked only
are the liveness properties `EventuallyReleased`, `EveryoneRuns`, `Completes`,
`ReadReturns`, `Initializes` and `WalkEnds`: `ENABLED` is out of the prover's
reach, and with it fairness. For the same reason nothing is proved about the ends
of the two recursive walks: that the walk of `pci.c` ends unless its bytes lead in
a circle is checked by the run `pci`; `TreeOfDisk` speaks of mounts that end.

## 5. What the models assume

- The MADT lists the boot processor first, as ACPI asks of firmware.
- Only the boot processor runs tasks: the others execute `hlt` with interrupts
  off (`acpi.c:123`).
- `main.c` at this commit creates one process; `task1` and `task2` are there to
  be further ones. `Scheduler` has as many as `MaxTasks`.
- `ContextIsCurrent`, `SavedStacks` and `GsBase` are stated for **one** program.
  All programs land on the one stack of `tss.rsp0`; a second program or a clone
  overwrites the frames of the first, so the `clone` run checks `RingOrder`
  only; that the switch stays atomic then as well is proved. No text in the
  repository promises more.
- `malloc` and the object tree have one caller at a time, as while booting. They
  take no lock, and the kernel is preemptible after `HalEnableTimer`.
- The memory map is in order of addresses. Its regions need not follow each other:
  a big block at the end of one then covers memory that is no frame of the list,
  maybe the firmware's, and the properties of `Heap` only say that it disturbs no
  other frame and no other block.
- The page 0x8000 is no usable memory of the map (see *Paging* above).
- Libraries are loaded before there are processes (`main.c:57-60`).
- Programs are loaded into structures of their own. The first process runs on
  `kernel_pml4` itself, where the trampoline's tables, made without the user
  bit, cover the low addresses: a program loaded there could not be reached from
  ring 3, so `UserReaches` excludes it.
- Names that are copied without their end, into room that `malloc` returns, are
  clear behind their last letter (`Namespace`). The room may begin with the link of
  a free list, so that a name of less than eight letters could keep the rest of
  it; `Ext2` has that, for the names of files. `Pci` keeps of a name its number.
- A system call is given null or the pointer of an object. With another address
  as the directory the kernel follows whatever is there.
- What the model of the PCI walk cuts off is the walk in a circle. Nothing is
  assumed of the firmware's numbers or of the bridges' windows.
- The I/O APIC remembers an edge that comes while the line is masked, and the
  controller answers within `wait_ps2`.
- A program's `FILE` has the position 0, which `fopen` does not store.
- A disk's directories list no name twice and no device nodes, whose numbers the
  driver would take for blocks; zeroes follow the last entry of a sector or of a
  directory; the reads of a mount succeed; no block begins above 4 GiB, since
  the product wraps at 32 bits (`ext2.c:107, 130`); and `malloc` returns memory that
  is clear behind its first word.
- Some properties have the failure of a hazard as their precondition or as an
  exception, since the code does fail there: `RingOrder` a stray first link,
  `KernelEverywhere` a top-level entry made later, `UserReaches` a program in
  `kernel_pml4`, `Initializes` a disk error during identify, `Completes` a dead
  processor, `Relocated` a word that a later relocation overwrites. The notes of
  the hazards in `PROJECT.json` say so one by one.
- The driver of the disk is called on the first process' structure, `kernel_pml4`,
  in whose lower half it has mapped the registers (`ahci.c:332`); other structures
  do not have that mapping.
- Memory does not run out in `Ext2`, although every call of `ReadInode` keeps 0x4000
  bytes (`ext2.c:108`).
- A disk stops after an error until it is restarted (AHCI), and one caller reads
  at a time.

## 6. Not modelled

- `free` and `DirectoryRemoveChild` (no caller reaches them),
  `KernelDeallocateFrame`, `CreateFilesystem` and `Ext2ReadByte` (never called;
  objects made for Ext2 files do not lead to it).
- The translation buffer, stack sizes, registers, and the user stack a clone
  copies.
- Formatted output (`sbd.c`, `dprintf.c`, `fprintf`), the boot video and its font:
  pure functions and pixels. `dprintf` and `fprintf` keep the digits of a longer
  number in `num_str` for a shorter one after it, which `kprint` does not; no
  other component depends on what is printed.
- `KernelGetModule` and the order of calls in `KernelStart`: the order is in the
  `Init` and the guards of the modules. `limine.c:59` lets the number of the
  modules itself pass as an index; the kernel asks for modules 2 and 3.
- RAM disks (nobody creates one), `strcat`, `strncmp` and the other string
  functions (values are compared as values), the C library's `malloc`, which is
  the algorithm of `Heap` over a system call.
- The vendored `limine.h` and the font `characters.h`, which have no behaviour.

## 7. Plan

Built, in this order: `Mutex`/`Spinlock`, `RoundRobin`/`Scheduler`, `SmpBoot`,
`Heap`, `Paging`, `Ahci`, `Namespace`, and the proofs of the first two; then
`Pci`, `SymbolTable`/`Symbols`, `Keyboard` with its proofs, and `Ext2`; then the
proofs of `SmpBoot`, `Heap`, `Paging`, `Ahci` and `Symbols` and more of them for
the first two; then the proofs of `Pci`, `Namespace` and `Ext2`. `Pci` was then
given the register that the code reads and bridges at any place, `Heap` several
regions, `Namespace` the directory that a program gives, and `Ext2` sectors, block
sizes and the limits of names, each with its proofs.

What is left to model is small: two callers of `Ahci` that preempt each other, to
state exactly what one buffer allows; two of `Heap`, likewise. What is left to
prove is liveness, once a prover for it is at hand.
