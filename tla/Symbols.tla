------------------------------- MODULE Symbols --------------------------------
(***************************************************************************)
(* The kernel's symbols and the relocation of its modules                  *)
(* (kernel/misc/elf.c): KernelInitializeSymbols, then for each module      *)
(* KernelLoadElfLibrary and KernelResolveElfRelocations, as KernelStart    *)
(* calls them.                                                             *)
(*                                                                         *)
(* Memory is counted in words.  A module is what the loader reads of its   *)
(* file: the symbols, with the type and the value, and the relocations, in *)
(* the order of the tables.  Kernel functions have the addresses 1, 2, ... *)
(***************************************************************************)
EXTENDS Integers, Sequences, FiniteSetsExt

CONSTANTS
  Names,
  KernelNames,  \* the kernel's own functions, in the order of registration
  Modules,      \* modules that may be loaded
  MaxLoads,     \* BOUND: modules loaded; 2 in KernelStart
  Span          \* words from the base of one module to that of the next

Null == 0
Code == -1         \* a word of some function's instructions
Unrelocated == -2  \* a word as the file has it
SymbolsOf == [name: Names, function: BOOLEAN, value: 0..(Span - 1)]
Relocations == [type: Nat, offset: 0..(Span - 1), section: 0..(Span - 1),
                name: Names, value: Nat, size: Nat, addend: Int]

ASSUME SymbolsAssumption ==
  /\ KernelNames \in Seq(Names) /\ MaxLoads \in Nat
  /\ Span \in Nat /\ Span > Len(KernelNames)
  /\ \A m \in Modules : /\ m.symbols \in Seq(SymbolsOf)
                        /\ m.relocations \in Seq(Relocations)

VARIABLES
  symbol_list,  \* records [name, function], in order
  stray,        \* the last element's link, which nobody sets, is not null
  undefined,    \* a stray link has been followed
  modules,      \* the modules loaded, in order
  done,         \* symbols, then relocations, of the last module that are done
  memory        \* memory[k]: the words of module k

vars == <<symbol_list, stray, undefined, modules, done, memory>>

Loaded == Len(modules)
Base(k) == k * Span

\* The kernel registers its functions as if they were the symbols of a module 0.
Kernel == [symbols |-> [i \in 1..Len(KernelNames) |->
                          [name |-> KernelNames[i], function |-> TRUE, value |-> i]],
           relocations |-> <<>>]
File(k) == IF k = 0 THEN Kernel ELSE modules[k]
Symbols == File(Loaded).symbols
RelocationTable == File(Loaded).relocations

-----------------------------------------------------------------------------
(* The list.                                                               *)

Last(at) == Max(at)
First(at) == Min(at)

\* search_for_modules, where it does not run into a stray link.
Find(name) ==
  LET at == {k \in 1..Len(symbol_list) : symbol_list[k].name = name}
  IN  IF at = {} THEN Null ELSE symbol_list[First(at)].function
Strays(name) == stray /\ Find(name) = Null

\* What the loop of add_to_symbols compares the new name with: the head of the
\* list, and that only where there is a next element to go on to.
Refused(name) ==
  /\ Len(symbol_list) > 1 \/ (symbol_list # <<>> /\ stray)
  /\ symbol_list[1].name = name

\* add_to_symbols.  The next link of a new element is what malloc returned there.
AddToSymbols(name, function) ==
  \/ Refused(name) /\ UNCHANGED <<symbol_list, stray, undefined>>
  \/ /\ ~Refused(name) /\ stray
     /\ undefined' = TRUE /\ UNCHANGED <<symbol_list, stray>>
  \/ /\ ~Refused(name) /\ ~stray
     /\ symbol_list' = Append(symbol_list, [name |-> name, function |-> function])
     /\ stray' \in BOOLEAN /\ UNCHANGED undefined

-----------------------------------------------------------------------------
(* Loading and relocating.                                                 *)

\* Only functions with a value are defined symbols of the module.
Defined(s) == s.function /\ s.value # 0

\* KernelInitializeSymbols or the call of KernelLoadElfLibrary and that of
\* KernelResolveElfRelocations after it are over.
AllDone == done = Len(Symbols) + Len(RelocationTable)

\* BOUND: the base addresses lie Span apart.
KernelLoadElfLibrary(m) ==
  /\ ~undefined /\ AllDone /\ Loaded < MaxLoads
  /\ modules' = Append(modules, m)
  /\ memory' = Append(memory, [w \in 0..(Span - 1) |-> Unrelocated])
  /\ done' = 0
  /\ UNCHANGED <<symbol_list, stray, undefined>>

RegisterNext ==
  /\ ~undefined /\ done < Len(Symbols)
  /\ LET s == Symbols[done + 1]
     IN  IF Defined(s) THEN AddToSymbols(s.name, Base(Loaded) + s.value)
         ELSE UNCHANGED <<symbol_list, stray, undefined>>
  /\ done' = done + 1
  /\ UNCHANGED <<modules, memory>>

Handled == {1, 6, 7, 8}
Searches(r) == r.type \in {6, 7}
Target(r) == IF r.type = 7 THEN r.offset + r.section ELSE r.offset

\* What the target of r gets in a module with that base, where name stands for function.
MeaningUnbased(r, base, function) ==
  IF Searches(r) THEN function ELSE r.addend + (IF r.type = 1 THEN r.value ELSE 0)
Meaning(r, base, function) ==
  CASE r.type = 1 -> r.value + r.addend
    [] r.type = 8 -> base + r.addend
    [] OTHER      -> function

\* The words behind the target that type 6 also fills, with the symbol itself.
Copied(r, function) ==
  IF r.type = 6 /\ function # Null THEN (Target(r) + 1)..(Target(r) + r.size - 1) ELSE {}

\* The symbols are done, and there is a relocation left to do.
Resolving == ~undefined /\ done >= Len(Symbols) /\ ~AllDone
NextRelocation == RelocationTable[done - Len(Symbols) + 1]

Relocate ==
  LET r == NextRelocation
      function == Find(r.name)
  IN  /\ Resolving /\ r.type \in Handled
      /\ \/ /\ Searches(r) /\ Strays(r.name)
            /\ undefined' = TRUE /\ UNCHANGED <<done, memory>>
         \/ /\ ~(Searches(r) /\ Strays(r.name))
            /\ memory' = [memory EXCEPT ![Loaded] =
                            [w \in DOMAIN @ |->
                               IF w = Target(r) THEN Meaning(r, Base(Loaded), function)
                               ELSE IF w \in Copied(r, function) THEN Code ELSE @[w]]]
            /\ done' = done + 1 /\ UNCHANGED undefined
      /\ UNCHANGED <<symbol_list, stray, modules>>

OtherType ==
  /\ Resolving /\ NextRelocation.type \notin Handled
  /\ done' = done + 1
  /\ UNCHANGED <<symbol_list, stray, undefined, modules, memory>>

\* KernelInitializeSymbols is about to register the kernel's own functions.
Init ==
  /\ symbol_list = <<>> /\ stray = FALSE /\ undefined = FALSE
  /\ modules = <<>> /\ memory = <<>> /\ done = 0

Next ==
  \/ \E m \in Modules : KernelLoadElfLibrary(m)
  \/ RegisterNext \/ Relocate \/ OtherType
Spec == Init /\ [][Next]_vars

-----------------------------------------------------------------------------
(* Properties.                                                             *)

Table == INSTANCE SymbolTable WITH
  Functions <- 1..((MaxLoads + 1) * Span), Nothing <- Null, table <- [n \in Names |-> Find(n)]

\* add_to_symbols and search_for_modules together are a table in which the first
\* registration of a name counts, although duplicates of other names than the first
\* do enter the list.
ImplementsTable == Table!Spec

\* The relocations of module k that have been done.
Done(k) == 1..(IF k = Loaded THEN done - Len(Symbols) ELSE Len(modules[k].relocations))

\* The name is a symbol of the kernel or of one of the first k modules.
Known(name, k) ==
  \E m \in 0..k : \E i \in DOMAIN File(m).symbols :
    Defined(File(m).symbols[i]) /\ File(m).symbols[i].name = name

\* What the name stands for in module k, by the symbols of today: a symbol is null
\* only in modules that came before it.
FunctionOf(name, k) == IF Known(name, k) THEN Find(name) ELSE Null

\* The relocation s of module k overwrites the word w.
Overwrites(s, k, w) ==
  s.type \in Handled /\ (w = Target(s) \/ w \in Copied(s, FunctionOf(s.name, k)))

\* Every target that KernelResolveElfRelocations has done, in whichever module, holds
\* what its relocation says by the symbols of today: nothing that is loaded later
\* takes over a name that is linked already.  Not so where a later relocation has the
\* same target, or is of type 6, whose symbol is copied over what follows its slot.
Relocated ==
  ~undefined => \A k \in 1..Loaded : \A i \in Done(k) :
    LET r == modules[k].relocations[i]
    IN  /\ r.type \in Handled /\ Target(r) < Span
        /\ \A j \in Done(k) : j > i => ~Overwrites(modules[k].relocations[j], k, Target(r))
        => memory[k][Target(r)] = CASE r.type = 1 -> r.value + r.addend
                                    [] r.type = 8 -> Base(k) + r.addend
                                    [] OTHER      -> FunctionOf(r.name, k)
=============================================================================
