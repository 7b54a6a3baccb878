----------------------------- MODULE Namespace ------------------------------
(***************************************************************************)
(* The object tree of kernel/object: directories, the devices, processors  *)
(* and files that hang in them, name resolution, and what of it depends on *)
(* the process that asks: its token (kernel/misc/tokenmgr.c) and its       *)
(* working directory.                                                      *)
(*                                                                         *)
(* A path is the sequence of its components; a component that is missing   *)
(* (after a trailing slash) matches no object.  Calls do not overlap: a    *)
(* system call runs with interrupts off, and the boot code makes its       *)
(* objects while no other process runs.                                    *)
(***************************************************************************)
EXTENDS Integers, Sequences, FiniteSetsExt, SequencesExt

CONSTANTS
  MaxObjects,    \* BOUND: objects created in a behaviour
  MaxProcesses,  \* BOUND: processes created in a behaviour
  MaxTotal,      \* BOUND: objects and processes together
  Names,         \* names that objects and components have; "Devices" is one
  Paths          \* paths that callers ask for: sequences of Names and Dot

Dot == "."
DevicesName == "Devices"
Null == 0
Undefined == -1      \* the code follows a pointer that leads nowhere
Root == 1
Devices == 2
Objects == 1..MaxObjects
Processes == 1..MaxProcesses
Boot == 1            \* the process that KernelStart becomes

ASSUME NamespaceAssumption ==
  /\ MaxObjects \in Nat \ {0, 1} /\ MaxProcesses \in Nat \ {0} /\ MaxTotal \in Nat
  /\ DevicesName \in Names /\ Dot \notin Names
  /\ Paths \subseteq Seq(Names \cup {Dot}) \ {<<>>}

Types == {"directory", "char", "block", "processor", "file"}

VARIABLES
  objects,      \* how many there are
  type,         \* type[o], as header.type says
  name,         \* name[o]
  header_list,  \* header_list[d]: the children of d, in order
  processes,    \* how many there are; 0 until KernelInitializeProcess
  token,        \* token[p]: the permission bit of process p
  cwd,          \* cwd[p]: an object, or null
  current,      \* the current process, 0 while there is none
  stuck         \* an operation has followed a pointer that leads nowhere

tree == <<objects, type, name, header_list>>
tasks == <<processes, token, cwd, current>>
tree_vars == <<tree, tasks, stuck>>

-----------------------------------------------------------------------------
(* Resolution.                                                             *)

RootAlways(p) == Root
\* ObjGetRootObject, with KernelCheckToken(1): the boot code has no process.
ObjGetRootObject(p) == IF p = 0 \/ token[p] = 1 THEN Root ELSE Null

LastNamed(d, n) ==
  LET at == {k \in 1..Len(header_list[d]) : name[header_list[d][k]] = n}
  IN  IF at = {} THEN Null ELSE header_list[d][Max(at)]
\* The first child of that name.
Child(d, n) ==
  LET at == {k \in 1..Len(header_list[d]) : name[header_list[d][k]] = n}
  IN  IF at = {} THEN Null ELSE header_list[d][Min(at)]

\* What is found is the result unless the path goes on.
DescendsAlways(o, more) == more
Descends(o, more) == more /\ type[o] = "directory"

\* ResolveObjectName(root, path) for process p.  A null root stands for the
\* working directory, and "." anywhere starts again at the root object, or at
\* the working directory for a process that may not have it.
ResolveObjectName(p, root, path) ==
  LET from[i \in 1..(Len(path) + 1)] ==
        [given \in Objects \cup {Null} |->
           LET d == IF given # Null THEN given ELSE cwd[p]
               found == Child(d, path[i])
           IN  IF given = Null /\ p = 0 THEN Undefined
               ELSE IF i <= Len(path) /\ path[i] = Dot THEN from[i + 1][ObjGetRootObject(p)]
               ELSE IF d = Null \/ type[d] # "directory" THEN Undefined
               ELSE IF i > Len(path) \/ found = Null THEN Null
               ELSE IF Descends(found, i < Len(path)) THEN from[i + 1][found]
               ELSE found]
  IN  from[1][root]

\* System calls 2 and 7 pass the program's rdi on as root, unchecked: null, as exec()
\* and chdir() give it, or the pointer of any object.  BOUND of the model: an address
\* that is no object's is not given.
Handed == {Null} \cup 1..objects

\* System call 2.
Lookup(p, root, path) == ResolveObjectName(p, root, path)

-----------------------------------------------------------------------------
(* Making objects.                                                         *)

AddFirst(d, o) == header_list' = [header_list EXCEPT ![d] = <<o>> \o @]
\* DirectoryAddChild: at the end of the list.
DirectoryAddChild(d, o) == header_list' = [header_list EXCEPT ![d] = Append(@, o)]

NewObject(d, t, n) ==
  /\ objects < MaxObjects /\ objects + processes < MaxTotal
  /\ objects' = objects + 1
  /\ type' = [type EXCEPT ![objects'] = t]
  /\ name' = [name EXCEPT ![objects'] = n]
  /\ DirectoryAddChild(d, objects')

IsDirectory(d) == d \in 1..objects /\ type[d] = "directory"

\* Only kernel code that runs as the boot process, or before it, makes objects.
Booting == ~stuck /\ current \in {0, Boot}

CreateDirectory(d, n) ==
  Booting /\ IsDirectory(d) /\ NewObject(d, "directory", n) /\ UNCHANGED <<tasks, stuck>>

RamfsCreateFile(d, n) ==
  Booting /\ IsDirectory(d) /\ NewObject(d, "file", n) /\ UNCHANGED <<tasks, stuck>>

\* KernelParseAcpi resolves the directory, CreateProcessor fills it.
CreateProcessor(n) ==
  /\ Booting /\ current = 0
  /\ NewObject(ResolveObjectName(0, Root, <<Dot, DevicesName>>), "processor", n)
  /\ UNCHANGED <<tasks, stuck>>

\* IoCreateBlockDevice and IoCreateCharDevice.  BOUND of the model: the memory
\* that malloc returns for the name is clear behind its last letter.
DeviceDirectory == ResolveObjectName(current, ObjGetRootObject(current), <<Dot, DevicesName>>)
IoCreateBlockDevice(n) ==
  Booting /\ NewObject(DeviceDirectory, "block", n) /\ UNCHANGED <<tasks, stuck>>
IoCreateCharDevice(n) ==
  Booting /\ NewObject(DeviceDirectory, "char", n) /\ UNCHANGED <<tasks, stuck>>

-----------------------------------------------------------------------------
(* Processes, as far as the tree knows them.                               *)

\* The token and the working directory of a new process: the root object if its
\* creator may have it, the null pointer otherwise.
NewProcess(permission) ==
  /\ ~stuck /\ processes < MaxProcesses /\ objects + processes < MaxTotal
  /\ processes' = processes + 1
  /\ token' = [token EXCEPT ![processes'] = permission]
  /\ cwd' = [cwd EXCEPT ![processes'] = ObjGetRootObject(current)]
  /\ UNCHANGED <<tree, stuck>>

KernelInitializeProcess(permission) ==
  /\ current \in {0, Boot}
  /\ processes = 0 => permission = 1
  /\ NewProcess(permission)
  /\ current' = IF processes = 0 THEN Boot ELSE current

\* System call 1.  The clone is privileged whatever its parent is.
KernelCloneProcess ==
  current > Boot /\ NewProcess(1) /\ UNCHANGED current

SwitchProcess ==
  /\ ~stuck /\ current > 0
  /\ current' \in 1..processes
  /\ UNCHANGED <<tree, processes, token, cwd, stuck>>

\* System call 7.  What the path leads to need not be a directory.
ChangeWorkingDirectory(root, path) ==
  LET found == ResolveObjectName(current, root, path) IN
  /\ ~stuck /\ current > Boot
  /\ stuck' = (found = Undefined)
  /\ cwd' = IF found \in Objects THEN [cwd EXCEPT ![current] = found] ELSE cwd
  /\ UNCHANGED <<tree, processes, token, current>>

-----------------------------------------------------------------------------
\* InitializeObjectManager.
TreeInit ==
  /\ objects = 2
  /\ type = [o \in Objects |-> "directory"]
  /\ name = [o \in Objects |-> IF o = Devices THEN DevicesName ELSE Dot]
  /\ header_list = [o \in Objects |-> IF o = Root THEN <<Devices>> ELSE <<>>]
  /\ processes = 0
  /\ token = [p \in Processes |-> 0]
  /\ cwd = [p \in Processes |-> Null]
  /\ current = 0
  /\ stuck = FALSE

Create(n) ==
  \/ CreateProcessor(n) \/ IoCreateBlockDevice(n) \/ IoCreateCharDevice(n)
  \/ \E d \in Objects : CreateDirectory(d, n) \/ RamfsCreateFile(d, n)

TreeNext ==
  \/ \E n \in Names : Create(n)
  \/ \E permission \in {0, 1} : KernelInitializeProcess(permission)
  \/ KernelCloneProcess \/ SwitchProcess
  \/ \E root \in Handed, path \in Paths : ChangeWorkingDirectory(root, path)

TreeSpec == TreeInit /\ [][TreeNext]_tree_vars

-----------------------------------------------------------------------------
Parent(o) == CHOOSE d \in Objects : o \in ToSet(header_list[d])

\* The names on the way from the root to o.
FullName(o) ==
  LET names[x \in 1..objects] ==
        IF x = Root THEN <<>> ELSE Append(names[Parent(x)], name[x])
  IN  names[o]

\* Those that start at the root and go down by names.
AbsolutePaths == {<<Dot>> \o path : path \in Paths \cap Seq(Names)}

\* o and the directories it lies in, but for the root.
Ancestry(o) ==
  LET line[x \in 1..objects] == IF x = Root THEN {} ELSE {x} \cup line[Parent(x)]
  IN  line[o]
Shadowed(o) ==
  \E x \in Ancestry(o), y \in 2..objects :
    y < x /\ Parent(y) = Parent(x) /\ name[y] = name[x]

\* A name means what the tree says: what an absolute path leads to carries the
\* names of the path, all of them, or fewer if it is no directory; and every
\* object is found under its own names unless an older sibling has the same
\* (directory.c:80-94, iomgr.c:13, 22).
NamesMean ==
  /\ \A path \in AbsolutePaths :
       LET o == ResolveObjectName(0, Root, path)
           names == Tail(path)
       IN  o \in Objects =>
             /\ IsPrefix(FullName(o), names)
             /\ FullName(o) = names \/ type[o] # "directory"
  /\ \A o \in 2..objects :
       ~Shadowed(o) => ResolveObjectName(0, Root, <<Dot>> \o FullName(o)) = o

\* For a process without the permission no path leads up: what it finds lies under the
\* directory that it gives or under its working directory (directory.c:60, 74;
\* object.c:18-21).  That is all that holds it: the directory it gives is not checked,
\* and a pointer from before a change of the working directory leads where it led.
Under(d) == IF d = Null THEN {} ELSE {o \in 2..objects : o # d /\ d \in {Root} \cup Ancestry(o)}
NeverUp ==
  \A p \in 1..processes : token[p] = 0 =>
    \A root \in Handed, path \in Paths :
      Lookup(p, root, path) \in {Null, Undefined} \cup Under(root) \cup Under(cwd[p])

\* A path never leads the kernel into what is no directory, nor to a null pointer, as
\* long as its two starts are directories: the one given, if any, and the working
\* directory (directory.c:77, 91).  Neither is guaranteed: the working directory of a
\* process is null if its creator had no permission (task.c:109), and whatever object
\* ChangeWorkingDirectory found (directory.c:99).
OnlyStartsFail ==
  \A p \in 1..processes : IsDirectory(cwd[p]) =>
    \A root \in Handed, path \in Paths :
      root = Null \/ IsDirectory(root) => Lookup(p, root, path) # Undefined

\* A pointer that a program got for an absolute path is the one it would get
\* again: objects made later never take over a name (directory.c:22-26, 81-86).
StableNames ==
  [][tree' # tree => \A path \in AbsolutePaths :
       LET o == ResolveObjectName(0, Root, path) IN
       o \in Objects => ResolveObjectName(0, Root, path)' = o]_tree_vars
=============================================================================
