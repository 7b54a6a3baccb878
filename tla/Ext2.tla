--------------------------------- MODULE Ext2 ---------------------------------
(***************************************************************************)
(* Mounting an Ext2 file system (kernel/fs/ext2.c): starting from inode 2, *)
(* CreateDirectoryEntry makes an object for every entry of a directory and *)
(* calls itself for the directories among them.                            *)
(*                                                                         *)
(* The recursion is the variable stack.  The driver reads a directory by   *)
(* sectors, each as if an entry began with it, so the blocks of an inode   *)
(* are here the sectors that they consist of.                              *)
(*                                                                         *)
(* BOUND: reads of the disk succeed; the memory that malloc returns is     *)
(* clear behind its first word; zeroes follow the last entry of a sector   *)
(* or of a directory; no device nodes, whose numbers the driver would take *)
(* for blocks; and no block begins above 4 GiB, where the driver's 32-bit  *)
(* products wrap.                                                          *)
(***************************************************************************)
EXTENDS Integers, Sequences, FiniteSetsExt

CONSTANTS
  MaxObjects,      \* BOUND: objects made
  Direct,          \* block pointers that are followed: 12 in the code
  BlockSizes,      \* of disks, in bytes
  InodesPerGroup,
  InodesRead,      \* inodes of a group in the 0x4000 bytes that ReadInode reads
  GroupsRead,      \* descriptors in the 512 bytes that it reads: 16 in the code
  Names,           \* names of entries: "", "." and ".." are three
  NameLength,      \* how many letters each of them has
  Disks            \* functions from inode numbers to inodes

Null == 0
Garbage == -1    \* what lies behind a buffer
RootInode == 2
Root == 1        \* the root object
Objects == 1..MaxObjects

\* An inode: its type, and the entries that begin in each of its sectors.  full: the
\* name fills its field up to the next entry, so that no zero follows it.  whole: the
\* entry does not go on in the next sector, but for what is behind its name.
DirectoryEntry == [inode : Nat, name : Names, full : BOOLEAN, whole : BOOLEAN]
InodeTypes == {"directory", "file", "socket"}

\* A dot, a double dot, and an entry without a name.
Skipped(e) == e.name \in {".", "..", ""}

\* The inodes whose descriptor and table entry lie in what ReadInode reads of them.
InReach(index) ==
  /\ index > 0 /\ (index - 1) \div InodesPerGroup < GroupsRead
  /\ (index - 1) % InodesPerGroup < InodesRead

NamesApart(sectors) ==
  \A s, t \in DOMAIN sectors : \A j \in DOMAIN sectors[s], k \in DOMAIN sectors[t] :
    ~Skipped(sectors[s][j]) /\ sectors[t][k].name = sectors[s][j].name => s = t /\ j = k
InodesThere(sectors, inodes) ==
  \A s \in DOMAIN sectors : \A j \in DOMAIN sectors[s] :
    ~Skipped(sectors[s][j]) /\ InReach(sectors[s][j].inode) => sectors[s][j].inode \in inodes

\* A directory has no name twice, and an inode in reach that an entry names is on the
\* disk.
ASSUME Ext2Assumption ==
  /\ {MaxObjects, Direct, GroupsRead} \subseteq Nat \ {0}
  /\ {InodesPerGroup, InodesRead} \subseteq Nat \ {0, 1}
  /\ BlockSizes \subseteq {1024, 2048, 4096} /\ NameLength \in [Names -> 0..255]
  /\ \A d \in Disks :
       /\ RootInode \in DOMAIN d /\ d[RootInode].type = "directory"
       /\ \A i \in DOMAIN d :
            /\ d[i].type \in InodeTypes /\ d[i].sectors \in Seq(Seq(DirectoryEntry))
            /\ d[i].type # "file" =>
                 NamesApart(d[i].sectors) /\ InodesThere(d[i].sectors, DOMAIN d)

VARIABLES
  disk,
  block_size,   \* 1024 << superblock->block_size
  objects,      \* how many there are
  children,     \* children[o]: header_list
  name,         \* name[o]
  inode,        \* inode[o]: what the object was made for
  directory,    \* directory[o]: made by CreateDirectory
  stack,        \* calls of CreateDirectoryEntry, innermost last
  undefined     \* a null pointer or memory behind a buffer has been used

mount_vars == <<disk, block_size, objects, children, name, inode, directory, stack, undefined>>

-----------------------------------------------------------------------------
(* The disk as the driver reads it.                                        *)

\* The bit 0x4000 of the type, which sockets and block devices have as well.
DirectoryBit(i) == disk[i].type \in {"directory", "socket"}

\* The group descriptors are in the first block behind the superblock, which is itself
\* at byte 1024; the driver reads them at byte 2048.
DescriptorTable == IF block_size = 1024 THEN 2048 ELSE block_size

IndexFromZero(index) ==
  IF index < 1 THEN Null
  ELSE IF DescriptorTable # 2048 \/ ~InReach(index + 1) THEN Garbage
  ELSE index
\* ReadInode, as the number of the inode that it returns.
ReadInode(index) ==
  IF index < 1 THEN Null
  ELSE IF DescriptorTable # 2048 \/ ~InReach(index) THEN Garbage
  ELSE index
Readable(index) == ReadInode(index) \notin {Null, Garbage}

OneOfBlock(i) == (1..Direct) \cap DOMAIN disk[i].sectors
\* The sectors of the direct blocks, which the two outer loops go through.
SectorsOf(i) == (1..(Direct * (block_size \div 512))) \cap DOMAIN disk[i].sectors

\* CreateDirectory copies 32 bytes of the name.  A file gets the letters alone, into
\* memory that may begin with a link of the free list: with less than eight of them the
\* rest of the link follows.
StoredNames(e) ==
  IF DirectoryBit(e.inode)
  THEN {IF e.full THEN <<e.name, "and more">> ELSE <<e.name>>}
  ELSE {<<e.name>>} \cup IF NameLength[e.name] < 8 THEN {<<e.name, "and more">>} ELSE {}

-----------------------------------------------------------------------------
(* The walk.                                                               *)

Frame(o, i, s) == [object |-> o, index |-> i, sector |-> s, next |-> 1]
Top == stack[Len(stack)]
InSector == ~undefined /\ stack # <<>> /\ Top.sector \in SectorsOf(Top.index)
Sector == disk[Top.index].sectors[Top.sector]
InEntry == InSector /\ Top.next <= Len(Sector)
Entry == Sector[Top.next]
Onward == [stack EXCEPT ![Len(stack)].next = @ + 1]

SkipEntry ==
  /\ InEntry /\ Entry.whole /\ Skipped(Entry) /\ stack' = Onward
  /\ UNCHANGED <<disk, block_size, objects, children, name, inode, directory, undefined>>

\* 64 letters of the name of a file have room, and it is not looked how many there are.
Fits(e) == DirectoryBit(e.inode) \/ NameLength[e.name] <= 64

\* An entry is used without a look at whether it ends in the sector, and its inode
\* without one at whether there is one.
BadEntry ==
  /\ InEntry
  /\ \/ ~Entry.whole
     \/ ~Skipped(Entry) /\ ~Readable(Entry.inode)
     \/ ~Skipped(Entry) /\ Readable(Entry.inode) /\ ~Fits(Entry)
  /\ undefined' = TRUE
  /\ UNCHANGED <<disk, block_size, objects, children, name, inode, directory, stack>>

NewObject(isDirectory, times) ==
  /\ InEntry /\ Entry.whole /\ ~Skipped(Entry) /\ Readable(Entry.inode) /\ Fits(Entry)
  /\ DirectoryBit(Entry.inode) = isDirectory /\ objects < MaxObjects
  /\ objects' = objects + 1
  /\ children' = [children EXCEPT ![Top.object] = @ \o [k \in 1..times |-> objects']]
  /\ \E stored \in StoredNames(Entry) : name' = [name EXCEPT ![objects'] = stored]
  /\ inode' = [inode EXCEPT ![objects'] = Entry.inode]
  /\ directory' = [directory EXCEPT ![objects'] = isDirectory]
  /\ UNCHANGED <<disk, block_size, undefined>>

\* CreateDirectory has added the directory when it is added again.
AddDirectory ==
  NewObject(TRUE, 2) /\ stack' = Append(Onward, Frame(objects', Entry.inode, 1))

AddFile == NewObject(FALSE, 1) /\ stack' = Onward

NextSector ==
  /\ InSector /\ Top.next > Len(Sector)
  /\ stack' = [stack EXCEPT ![Len(stack)] = Frame(Top.object, Top.index, Top.sector + 1)]
  /\ UNCHANGED <<disk, block_size, objects, children, name, inode, directory, undefined>>

EndOfDirectory ==
  /\ ~undefined /\ stack # <<>> /\ Top.sector \notin SectorsOf(Top.index)
  /\ stack' = SubSeq(stack, 1, Len(stack) - 1)
  /\ UNCHANGED <<disk, block_size, objects, children, name, inode, directory, undefined>>

\* InitializeExt2FilesystemFromBlockDevice has found the signature.
MountInit ==
  /\ disk \in Disks /\ block_size \in BlockSizes
  /\ objects = 1 /\ children = [o \in Objects |-> <<>>] /\ name = [o \in Objects |-> <<>>]
  /\ inode = [o \in Objects |-> IF o = Root THEN RootInode ELSE Null]
  /\ directory = [o \in Objects |-> o = Root]
  /\ stack = <<Frame(Root, RootInode, 1)>> /\ undefined = ~Readable(RootInode)

MountNext == SkipEntry \/ BadEntry \/ AddDirectory \/ AddFile \/ NextSector \/ EndOfDirectory
MountSpec == MountInit /\ [][MountNext]_mount_vars

-----------------------------------------------------------------------------
(* Properties.                                                             *)

\* ResolveObjectName, one component: of more than 31 letters none is found.
Child(o, n) ==
  LET at == {k \in 1..Len(children[o]) : name[children[o][k]] = <<n>>}
  IN  IF NameLength[n] > 31 \/ at = {} THEN Null ELSE children[o][Min(at)]

\* The entries of the directory i, which its direct blocks hold.
EntriesIn(i) ==
  UNION {{disk[i].sectors[s][k] : k \in DOMAIN disk[i].sectors[s]} :
           s \in {t \in DOMAIN disk[i].sectors : t * 512 <= Direct * block_size}}
Named(i) == {e \in EntriesIn(i) : ~Skipped(e)}

MadeFor(c, e) == inode[c] = e.inode /\ name[c] \in StoredNames(e)
Places(o, e) == {k \in 1..Len(children[o]) : MadeFor(children[o][k], e)}
Times(e) == IF DirectoryBit(e.inode) THEN 2 ELSE 1
Lost(e) ==
  \/ NameLength[e.name] > 31
  \/ IF DirectoryBit(e.inode) THEN e.full ELSE NameLength[e.name] < 8

\* When CreateDirectoryEntry returns, the children of each directory that was made are
\* one object for each of its entries and nothing else: once in the list for a file,
\* twice in a row for a directory, which CreateDirectory adds before it is added again
\* (ext2.c:145, 146).  A path finds the object by the name of the entry, but for long
\* names, for directories whose name fills its field (directory.c:53) and for files with
\* less than eight letters, which it may not find (ext2.c:150).
TreeOfDisk ==
  stack = <<>> => \A o \in 1..objects : directory[o] =>
    /\ \A e \in Named(inode[o]) : \E k \in 1..Len(children[o]) :
         /\ Places(o, e) = k..(k + Times(e) - 1)
         /\ \A j \in Places(o, e) : children[o][j] = children[o][k]
         /\ ~Lost(e) => Child(o, e.name) = children[o][k]
    /\ \A k \in 1..Len(children[o]) : \E e \in Named(inode[o]) : k \in Places(o, e)

\* The driver leaves the disk and its objects for what is no part of them only on a disk
\* beyond its limits: blocks of more than 2048 bytes, an entry that goes on in the next
\* sector, an entry without an inode or with one behind what ReadInode reads of its group
\* or of the descriptors, or a name of more than 64 letters (ext2.c:104-114, 132, 142, 150).
StopsBeyondLimits ==
  undefined =>
    \/ block_size > 2048
    \/ \E i \in DOMAIN disk : \E e \in EntriesIn(i) :
         \/ ~e.whole
         \/ /\ ~Skipped(e)
            /\ \/ e.inode = 0 \/ e.inode > GroupsRead * InodesPerGroup
               \/ (e.inode - 1) % InodesPerGroup >= InodesRead
               \/ NameLength[e.name] > 64
=============================================================================
