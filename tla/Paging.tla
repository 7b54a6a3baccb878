------------------------------- MODULE Paging -------------------------------
(***************************************************************************)
(* The page structures of kernel/arch/mmu.c and the calls the kernel makes *)
(* on them: the trampoline page of acpi.c, the device and buffer pages of  *)
(* the AHCI module, libraries and executables of elf.c, and the structures *)
(* that task.c makes for new processes.                                    *)
(*                                                                         *)
(* A place is a frame of memory.  The first Depth places are the static    *)
(* tables (kernel_pml4, kernel_hpd, kernel_lpd, kernel_pt), the next are   *)
(* the frames of mem_list in the order KernelAllocateFrame hands them out, *)
(* and the last few are pages that nobody allocates.  A virtual address is *)
(* the sequence of its indexes, one per level.                             *)
(***************************************************************************)
EXTENDS Integers, FiniteSetsExt

CONSTANTS
  Depth,            \* levels of tables: 4 in the code
  Slots,            \* indexes of a table: 0..511 in the code
  KernelSlots,      \* the upper half of the top level: 256..511
  MaxFrames,        \* BOUND: the frames of mem_list
  Text,             \* an address of the kernel image
  Trampoline,       \* 0x8000, where the other processors start
  Registers,        \* BAR5, mapped where it is
  BufferPages,      \* addresses from MMIO_OFFSET on, one for each buffer
  LibraryPages,     \* addresses that modules are loaded at
  ProgramPages      \* addresses that executables are loaded at

Kernel == 0
Static == 0..(Depth - 1)
Allocatable == Depth..(Depth + MaxFrames - 1)
LastFrame == Depth + MaxFrames - 1
ImagePage == LastFrame + 1      \* the page that Text is mapped to
LowPage == LastFrame + 2        \* physical address 0x8000
DevicePage == LastFrame + 3     \* the registers of the controller
WildPage == LastFrame + 4       \* what a stray word of memory points to
Places == 0..WildPage
Nowhere == -1

Addresses == {Text, Trampoline, Registers} \cup BufferPages \cup LibraryPages
             \cup ProgramPages

ASSUME PagingAssumption ==
  /\ Depth \in Nat /\ Depth > 1 /\ MaxFrames \in Nat
  /\ KernelSlots \subseteq Slots
  /\ Addresses \subseteq [1..Depth -> Slots]
  /\ \A v \in ProgramPages \cup {Trampoline, Registers} : v[1] \notin KernelSlots
  /\ \A v \in BufferPages \cup LibraryPages \cup {Text} : v[1] \in KernelSlots

VARIABLES
  stack_position,   \* frames taken from mem_list
  entry,            \* entry[f][s]: word s of place f, read as a table entry
  structures        \* the top-level tables that are in use

vars == <<stack_position, entry, structures>>

Entries == [to : Places \cup {Nowhere}, user : BOOLEAN]
Entry(place, user) == [to |-> place, user |-> user]
Absent == Entry(Nowhere, FALSE)
Garbage == Entry(WildPage, TRUE)    \* memory that nobody has cleared
Present(e) == e.to # Nowhere
Empty == [s \in Slots |-> Absent]

-----------------------------------------------------------------------------
(* Walking a structure.                                                    *)

\* The table that is consulted at each level, as far as there is one.
Tables(root, v) ==
  LET table[d \in 1..Depth] ==
        IF d = 1 THEN root
        ELSE IF table[d - 1] = Nowhere THEN Nowhere
        ELSE entry[table[d - 1]][v[d - 1]].to
  IN  table

\* The first level whose entry is not present, Depth + 1 if all are.
FirstMissing(root, v) ==
  LET table == Tables(root, v)
  IN  Min({d \in 1..Depth : table[d] = Nowhere \/ ~Present(entry[table[d]][v[d]])}
          \cup {Depth + 1})

\* KernelGetPhysicalAddress: the page, or a code between -Depth and -1.
Translate(root, v) ==
  LET d == FirstMissing(root, v)
  IN  IF d <= Depth THEN d - Depth - 1 ELSE entry[Tables(root, v)[Depth]][v[Depth]].to

UserAt(root, v) ==
  \A d \in 1..Depth : entry[Tables(root, v)[d]][v[d]].user

-----------------------------------------------------------------------------
(* The operations.                                                         *)

\* KernelAllocateFrame takes the next entry of mem_list and checks nothing; a
\* behaviour ends where it would run off the list.
Frame(k) == LastFrame - MaxFrames + stack_position + k

\* The levels KernelMapPage writes an entry of: from the first that is missing
\* down to the leaf, none if the leaf is present.
LevelsOverwritten(root, v) == Min({FirstMissing(root, v), Depth})..Depth
LevelsWritten(root, v) == FirstMissing(root, v)..Depth

\* memset of a new table.
NotCleared(f, fresh) == entry[f]
Cleared(f, fresh) == IF f \in fresh THEN Empty ELSE entry[f]

\* KernelMapPage, for a caller that has just taken `taken` frames: the missing
\* tables are allocated, cleared and linked from the top down, then the leaf is
\* written, all with the same value.
MapPage(root, v, page, user, taken) ==
  LET levels == LevelsWritten(root, v)
      new == IF levels = {} THEN {} ELSE levels \ {Min(levels)}
      table == [d \in levels |-> IF d \in new THEN Frame(taken + d - Min(levels))
                                             ELSE Tables(root, v)[d]]
      fresh == {table[d] : d \in new}
      word(f, s) == {d \in levels : f = table[d] /\ s = v[d]}
      value(d) == Entry(IF d = Depth THEN page ELSE table[d + 1], user)
  IN  /\ stack_position + taken + Cardinality(new) <= MaxFrames
      /\ stack_position' = stack_position + taken + Cardinality(new)
      /\ entry' = [f \in Places |-> [s \in Slots |->
                     IF word(f, s) # {} THEN value(Min(word(f, s)))
                                        ELSE Cleared(f, fresh)[s]]]

\* KernelMapMmio: the same walk in kernel_pml4, never for user mode.
MapMmio(v, page, taken) == MapPage(Kernel, v, page, FALSE, taken)

\* KernelUnmapPage clears the leaf and keeps the tables.
UnmapPage(root, v) ==
  LET d == FirstMissing(root, v)
  IN  /\ entry' = IF d > Depth
                  THEN [entry EXCEPT ![Tables(root, v)[Depth]][v[Depth]] = Absent]
                  ELSE entry
      /\ UNCHANGED stack_position

\* KernelNewPageStructure: the lower half is cleared or copied from the old
\* structure, whose tables both share from then on; the upper half is the
\* kernel's as it is now.
NewRootOfKernel(lower) ==
  [s \in Slots |-> IF lower = Empty \/ s \in KernelSlots THEN entry[Kernel][s] ELSE lower[s]]
NewRootOfOld(lower) == lower
NewRoot(lower) ==
  [s \in Slots |-> IF s \in KernelSlots THEN entry[Kernel][s] ELSE lower[s]]

NewPageStructure(lower) ==
  /\ stack_position < MaxFrames
  /\ stack_position' = stack_position + 1
  /\ entry' = [entry EXCEPT ![Frame(1)] = NewRoot(lower)]
  /\ structures' = structures \cup {Frame(1)}

-----------------------------------------------------------------------------
(* KernelInitializePaging: the static tables lead to the kernel image.  The *)
(* direct map of all memory, a second slot of the same kind, is left out.  *)

Init ==
  /\ stack_position = 0
  /\ structures = {Kernel}
  /\ entry = [f \in Places |->
                IF f \in Static
                THEN [Empty EXCEPT ![Text[f + 1]] =
                        Entry(IF f = Depth - 1 THEN ImagePage ELSE f + 1, FALSE)]
                ELSE [s \in Slots |-> Garbage]]

Booting == structures = {Kernel}

\* HalInitializeProcessors, around the start of the other processors.
MapTrampoline ==
  Booting /\ MapPage(Kernel, Trampoline, LowPage, FALSE, 0) /\ UNCHANGED structures
UnmapTrampoline ==
  Booting /\ UnmapPage(Kernel, Trampoline) /\ UNCHANGED structures

\* KernelLoadElfLibrary, before there is any process: a frame for each page of
\* each segment, whether the page is mapped already or not.
LoadLibraryPage(v) ==
  Booting /\ MapPage(Kernel, v, Frame(1), TRUE, 1) /\ UNCHANGED structures

\* InitializeAhci maps the registers, InitializeAhciPort every frame it takes;
\* the address of a buffer is MMIO_OFFSET above its frame, so it is new.
MapRegisters == MapMmio(Registers, DevicePage, 0) /\ UNCHANGED structures
MapBuffer(v) ==
  Translate(Kernel, v) < 0 /\ MapMmio(v, Frame(1), 1) /\ UNCHANGED structures

\* KernelInitializeProcess for all but the first process, which keeps the
\* kernel's structure, and KernelCloneProcess.
NewProcess == NewPageStructure(Empty)
CloneProcess(root) == NewPageStructure(entry[root])

\* KernelLoadElfExecutable, in the structure of the current process.
LoadProgramPage(root, v) ==
  MapPage(root, v, Frame(1), TRUE, 1) /\ UNCHANGED structures

Next ==
  \/ MapTrampoline \/ UnmapTrampoline \/ MapRegisters \/ NewProcess
  \/ \E v \in LibraryPages : LoadLibraryPage(v)
  \/ \E v \in BufferPages : MapBuffer(v)
  \/ \E root \in structures \ {Kernel} :
       CloneProcess(root) \/ \E v \in ProgramPages : LoadProgramPage(root, v)

Spec == Init /\ [][Next]_vars

-----------------------------------------------------------------------------
\* The frames that serve as a table of level d of some structure.
TablesAt(d) ==
  LET level[n \in 1..Depth] ==
        IF n = 1 THEN structures
        ELSE {entry[f][s].to : f \in level[n - 1], s \in Slots} \ {Nowhere}
  IN  level[d]
Pages == {entry[f][s].to : f \in TablesAt(Depth), s \in Slots} \ {Nowhere}
Parents(f, d) == {p \in TablesAt(d) \X Slots : entry[p[1]][p[2]].to = f}

\* A frame has one role: it is a table of one level or a page, and it hangs
\* from one entry, apart from the tables that structures share, which hang
\* from the same slot of each (mmu.c:127-157, 195-201).  What a caller maps
\* never reads uncleared memory as a table.
OneRole ==
  /\ \A d \in 1..Depth : TablesAt(d) \subseteq Static \cup Allocatable
  /\ \A d, e \in 1..Depth : d # e => TablesAt(d) \cap TablesAt(e) = {}
  /\ \A d \in 1..Depth : TablesAt(d) \cap Pages = {}
  /\ \A f \in TablesAt(2) : \A p, q \in Parents(f, 1) : p[2] = q[2]
  /\ \A d \in 3..Depth : \A f \in TablesAt(d) : Cardinality(Parents(f, d - 1)) = 1
  /\ WildPage \notin Pages

\* Whatever structure is loaded, the kernel finds itself: a structure has the
\* slots that KernelInitializePaging fills, and under every slot of the upper
\* half it has, all that the kernel maps there, even if it was mapped after the
\* structure was made (mmu.c:199: a tick or a system call runs on the CR3 of
\* the process it finds).
KernelEverywhere ==
  \A root \in structures, v \in Addresses :
    /\ Present(entry[root][Text[1]])
    /\ v[1] \in KernelSlots /\ Present(entry[root][v[1]]) =>
         Translate(root, v) = Translate(Kernel, v)

\* A page that was loaded for a process can be used in ring 3: every level of
\* the walk has the user bit, though other mappings built some of the tables.
UserReaches ==
  \A root \in structures \ {Kernel}, v \in ProgramPages :
    Translate(root, v) > 0 => UserAt(root, v)

\* A mapping is never replaced, and never lost by a mapping of another address
\* in another structure: it goes away only by KernelUnmapPage, which takes away
\* its own leaf and nothing else (mmu.c:157, 189-190).
OnlyUnmapped ==
  [][\A root \in structures, v \in Addresses :
       Translate(root, v) > 0 =>
         \/ Translate(root, v)' = Translate(root, v)
         \/ v = Trampoline /\ UnmapTrampoline /\ Translate(root, v)' = -1]_vars
=============================================================================
