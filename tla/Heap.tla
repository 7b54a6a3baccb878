-------------------------------- MODULE Heap --------------------------------
(***************************************************************************)
(* malloc of kernel/misc/malloc.c on top of the frame list of              *)
(* kernel/arch/mmu.c, as the boot code uses them: one caller at a time.    *)
(*                                                                         *)
(* Memory is modelled word by word, since the free list of a page is       *)
(* threaded through its free blocks and the geometry of the blocks is what *)
(* can go wrong.  An address counts words; frame f covers the words from   *)
(* f * PageWords on, and address 0 is the null pointer.                    *)
(***************************************************************************)
EXTENDS Integers, Sequences, FiniteSets

CONSTANTS
  PageWords,    \* words in a page: 512 in the code
  BigFrom,      \* the first list index that is served by whole pages: 9
  MemMap,       \* the bootloader's memory map: [usable, base, length] in frames
  Sizes         \* the sizes that callers ask for, in bytes, divided by 8

HeaderWords == 3      \* next, head and size, of either kind of header
Null == 0
Data == -1            \* whatever a caller writes into its block

\* Shifting left: 1 << n.
Power[n \in Nat] == IF n = 0 THEN 1 ELSE 2 * Power[n - 1]

\* With fewer than 8 words the larger blocks would not fit behind the header.
ASSUME HeapAssumption ==
  /\ BigFrom \in Nat \ {0, 1, 2} /\ PageWords = Power[BigFrom]
  /\ Sizes \subseteq Nat
  /\ MemMap \in Seq([usable : BOOLEAN, base : Nat \ {0}, length : Nat])

-----------------------------------------------------------------------------
(* The frame list.                                                         *)

\* KernelInitializeMemStack: the frames of the usable entries, in map order.
MemList ==
  LET upTo[n \in 0..Len(MemMap)] ==
        IF n = 0 THEN <<>>
        ELSE upTo[n - 1] \o
             (IF MemMap[n].usable THEN [k \in 1..MemMap[n].length |-> MemMap[n].base + k - 1]
                                  ELSE <<>>)
  IN  upTo[Len(MemMap)]

VARIABLES
  stack_position,  \* frames taken so far
  bin_headers,     \* bin_headers[l]: the first page of list l, or null
  header,          \* header[f]: the bin header in frame f
  big,             \* the frames that carry a big bin header, in list order
  mem,             \* mem[a]: the word at address a of usable memory
  live,            \* the blocks handed out: [at, words]
  lent             \* history: the frames that others than malloc have taken

vars == <<stack_position, bin_headers, header, big, mem, live, lent>>

Lists == 0..(BigFrom - 1)
Frames == {MemList[n] : n \in 1..Len(MemList)}
Words == UNION {{f * PageWords + w : w \in 0..(PageWords - 1)} : f \in Frames}
FrameOf(a) == a \div PageWords

\* KernelAllocateFrame takes the next entry and checks nothing: a behaviour ends
\* where it would run off the list.  BOUND: the memory of the machine.
NextFrame == MemList[stack_position + 1]
Left(n) == stack_position + n <= Len(MemList)

\* The list a size belongs to: how often it can be halved.
IndexFloor(s) == CHOOSE l \in 0..s : s < Power[l + 1] /\ (l = 0 \/ s >= Power[l])
Index(s) == CHOOSE l \in 0..s : s < Power[l] /\ (l = 0 \/ s >= Power[l - 1])

\* The block that a caller gets: up to 7 bytes were rounded off its size.
Handed(at, s) == [at |-> at, words |-> s + 1]

Init ==
  /\ stack_position = 0
  /\ bin_headers = [l \in Lists |-> Null]
  /\ header = [f \in Frames |-> [next |-> Null, head |-> Null, size |-> 0]]
  /\ big = <<>>
  /\ mem = [a \in Words |-> Data]
  /\ live = {}
  /\ lent = {}

-----------------------------------------------------------------------------
(* Small sizes.                                                            *)

\* The number of the last block that fits behind the header of a page.
LastBlock(l) == (PageWords - HeaderWords) \div Power[l] - 1

Block(f, l, n) == f * PageWords + HeaderWords + n * Power[l]

\* The words of a fresh page after its blocks have been chained.
Chained(f, l) ==
  [a \in Words |->
     IF \E n \in 0..LastBlock(l) : a = Block(f, l, n)
     THEN IF a = Block(f, l, LastBlock(l)) THEN Null ELSE a + Power[l]
     ELSE mem[a]]

\* The caller fills the block it has been given.
Filled(m, at, s) == [a \in DOMAIN m |-> IF a \in at..(at + s) THEN Data ELSE m[a]]

KeepInList(l, next) == bin_headers' = bin_headers

\* malloc_list_decouple, after the last block of a page is gone.
Decouple(l, next) == bin_headers' = [bin_headers EXCEPT ![l] = next]

\* malloc(s) when the list has a page: its first free block.
MallocFromBin(s) ==
  LET l == Index(s)
      f == bin_headers[l]
      at == header[f].head
  IN  /\ l < BigFrom /\ bin_headers[l] # Null
      /\ IF mem[at] = Null
         THEN /\ Decouple(l, header[f].next)
              /\ header' = [header EXCEPT ![f].head = Null, ![f].next = Null]
         ELSE /\ header' = [header EXCEPT ![f].head = mem[at]]
              /\ UNCHANGED bin_headers
      /\ live' = live \cup {Handed(at, s)}
      /\ mem' = Filled(mem, at, s)
      /\ UNCHANGED <<stack_position, big, lent>>

\* malloc(s) when the list is empty: a new page is chained up and, unless its
\* only block is handed out at once, becomes the first of the list.
MallocExpand(s) ==
  LET l == Index(s)
      f == NextFrame
      at == Block(f, l, 0)
      only == LastBlock(l) = 0
  IN  /\ l < BigFrom /\ bin_headers[l] = Null
      /\ Left(1)
      /\ stack_position' = stack_position + 1
      /\ header' = [header EXCEPT ![f] =
                      [next |-> Null, size |-> l,
                       head |-> IF only THEN Null ELSE Block(f, l, 1)]]
      /\ bin_headers' = [bin_headers EXCEPT ![l] = IF only THEN Null ELSE f]
      /\ live' = live \cup {Handed(at, s)}
      /\ mem' = Filled(Chained(f, l), at, s)
      /\ UNCHANGED <<big, lent>>

-----------------------------------------------------------------------------
(* Big sizes: whole pages, which the code takes to follow each other, also *)
(* where one region of the map ends and the next begins.                   *)

ExtraFramesHalved(l) == Power[l - BigFrom] - 1
ExtraFrames(l) == 2 * Power[l - BigFrom]

\* The bins already there are never reused: none is ever marked unused.
MallocBig(s) ==
  LET l == Index(s)
      f == NextFrame
  IN  /\ l >= BigFrom
      /\ Left(1 + ExtraFrames(l))
      /\ stack_position' = stack_position + 1 + ExtraFrames(l)
      /\ big' = Append(big, f)
      /\ live' = live \cup {Handed(f * PageWords + HeaderWords, s)}
      /\ mem' = Filled(mem, f * PageWords + HeaderWords, s)
      /\ UNCHANGED <<bin_headers, header, lent>>

\* The other callers of KernelAllocateFrame take frames for page tables and DMA.
TakeFrame ==
  /\ Left(1)
  /\ stack_position' = stack_position + 1
  /\ lent' = lent \cup {NextFrame}
  /\ UNCHANGED <<bin_headers, header, big, mem, live>>

Next ==
  \/ \E s \in Sizes : MallocFromBin(s) \/ MallocExpand(s) \/ MallocBig(s)
  \/ TakeFrame

Spec == Init /\ [][Next]_vars

-----------------------------------------------------------------------------
Span(b) == b.at..(b.at + b.words - 1)
HeaderSpan(b) == {FrameOf(b.at) * PageWords + w : w \in 0..(HeaderWords - 1)}
Taken == {MemList[n] : n \in 1..stack_position}

\* Blocks that callers hold never share a word, and none covers the header of a
\* page that blocks were cut from (malloc.c:57-119): what a caller writes stays
\* its own, and cannot damage the heap.
NoOverlap ==
  \A b, c \in live :
    /\ b # c => Span(b) \cap Span(c) = {}
    /\ Span(b) \cap HeaderSpan(c) = {}

\* Of usable memory a block covers only frames that malloc has taken, none that is
\* still on the list and none that another caller of KernelAllocateFrame was given,
\* before or after (malloc.c:69, 86, 94).  A big block at the end of a region reaches
\* on into the hole behind it all the same: that memory is no frame of the list.
OnlyOwnFrames ==
  \A b \in live : \A a \in Span(b) : FrameOf(a) \in Frames => FrameOf(a) \in Taken \ lent

\* Following the links from head: the n-th block, or null past the end.
Follow(f) ==
  LET at[n \in 0..PageWords] ==
        IF n = 0 THEN header[f].head
        ELSE IF at[n - 1] = Null THEN Null ELSE mem[at[n - 1]]
  IN  at

SmallPages == {FrameOf(b.at) : b \in live} \ {big[k] : k \in DOMAIN big}

\* Every block of a page is either held by a caller or on the free list of that
\* page, never both; the list ends; and a page heads its list exactly as long
\* as it has a free block (malloc.c:98-117).
NothingLost ==
  \A f \in SmallPages :
    LET l == header[f].size
        path == Follow(f)
        free == {path[n] : n \in 0..PageWords} \ {Null}
        held == {b.at : b \in live}
        blocks == {Block(f, l, n) : n \in 0..LastBlock(l)}
    IN  /\ path[PageWords] = Null
        /\ free \cap held = {}
        /\ blocks = free \cup {a \in held : FrameOf(a) = f}
        /\ (free # {}) <=> (bin_headers[l] = f)
=============================================================================
