---------------------------- MODULE SymbolsProofs -----------------------------
(***************************************************************************)
(* The symbol list and the relocations of Symbols, for any modules and any *)
(* number of loads: the list is the table of SymbolTable, and what has     *)
(* been relocated stays right.                                             *)
(***************************************************************************)
EXTENDS Symbols, WellFoundedInduction, TLAPS

Addresses == 1..((MaxLoads + 1) * Span)
Entries == [name: Names, function: Addresses]
Words == [0..(Span - 1) -> Int]

Types ==
  /\ symbol_list \in Seq(Entries) /\ stray \in BOOLEAN /\ undefined \in BOOLEAN
  /\ modules \in Seq(Modules) /\ Loaded <= MaxLoads
  /\ done \in 0..(Len(Symbols) + Len(RelocationTable))
  /\ memory \in Seq(Words) /\ Len(memory) = Loaded

\* The list has the names of defined symbols only.
Listed == \A k \in 1..Len(symbol_list) : Known(symbol_list[k].name, Loaded)

FindIn(list, name) ==
  LET at == {k \in 1..Len(list) : list[k].name = name}
  IN  IF at = {} THEN Null ELSE list[First(at)].function

\* Every defined symbol that has had its turn is found, under whichever function.
Registered == \A m \in 0..Loaded : \A i \in 1..Len(File(m).symbols) :
  LET s == File(m).symbols[i]
  IN  Defined(s) /\ (m = Loaded => i <= done) => FindIn(symbol_list, s.name) # Null

\* The i-th relocation of a file has its word, if the names mean what meaning says and
\* the relocations of a set have been done.
Holds(file, among, words, base, meaning, i) ==
  LET r == file.relocations[i]
      Over(s) == s.type \in Handled /\
        (Target(r) = Target(s) \/ Target(r) \in Copied(s, meaning[s.name]))
  IN  /\ r.type \in Handled /\ Target(r) < Span
      /\ \A j \in among : j > i => ~Over(file.relocations[j])
      => words[Target(r)] = Meaning(r, base, meaning[r.name])

Meanings(k) == [name \in Names |-> FunctionOf(name, k)]
Linked == \A k \in 1..Loaded : \A i \in Done(k) :
  Holds(modules[k], Done(k), memory[k], Base(k), Meanings(k), i)

IInv == Types /\ Listed /\ (~undefined => Registered /\ Linked)

-----------------------------------------------------------------------------
(* Searching a list.                                                       *)

LEMMA SmallestNumber ==
  ASSUME NEW S \in SUBSET Nat, S # {}
  PROVE  Min(S) \in S /\ \A n \in S : Min(S) <= n
<1> DEFINE R == OpToRel(<, Nat)
<1>1. IsWellFoundedOn(R, Nat)
  BY NatLessThanWellFounded
<1> HIDE DEF R
<1>2. PICK m \in S : \A n \in S : ~(<<n, m>> \in R)
  BY <1>1, WFMin
<1>3. \A n \in S : ~(n < m)
  BY <1>2 DEF R, OpToRel
<1>4. \A n \in S : m <= n
  BY <1>3
<1> QED  BY <1>4 DEF Min

\* A search finds the first element of the name, or there is none.
LEMMA Searched ==
  ASSUME NEW list \in Seq(Entries), NEW name
  PROVE  \/ /\ FindIn(list, name) = Null
            /\ \A k \in 1..Len(list) : list[k].name # name
         \/ /\ FindIn(list, name) \in Addresses
            /\ \E k \in 1..Len(list) :
                 /\ list[k].name = name /\ FindIn(list, name) = list[k].function
                 /\ \A j \in 1..Len(list) : list[j].name = name => k <= j
<1> DEFINE at == {k \in 1..Len(list) : list[k].name = name}
<1>1. CASE at = {}
  <2>1. FindIn(list, name) = Null
    BY <1>1 DEF FindIn
  <2> QED  BY <1>1, <2>1
<1>2. CASE at # {}
  <2>1. First(at) \in at /\ \A j \in at : First(at) <= j
    <3>1. at \in SUBSET Nat
      OBVIOUS
    <3> HIDE DEF at
    <3> QED  BY <1>2, <3>1, SmallestNumber DEF First
  <2>2. FindIn(list, name) = list[First(at)].function
    BY <1>2 DEF FindIn
  <2>3. list[First(at)] \in Entries
    BY <2>1
  <2> QED  BY <2>1, <2>2, <2>3 DEF Entries
<1> QED  BY <1>1, <1>2

LEMMA AddressesAreNotNull == Null \notin Addresses
<1> QED  BY SymbolsAssumption DEF Null, Addresses

\* A new last element is found where nothing was found before, and changes nothing else.
LEMMA Grown ==
  ASSUME NEW list \in Seq(Entries), NEW e \in Entries, NEW name
  PROVE  FindIn(Append(list, e), name) =
           IF FindIn(list, name) = Null /\ e.name = name THEN e.function
           ELSE FindIn(list, name)
<1> DEFINE longer == Append(list, e)
<1>1. /\ longer \in Seq(Entries) /\ Len(longer) = Len(list) + 1
      /\ \A k \in 1..Len(list) : longer[k] = list[k]
      /\ longer[Len(list) + 1] = e /\ Len(list) \in Nat
  OBVIOUS
<1> HIDE DEF longer
<1>2. \/ /\ FindIn(longer, name) = Null
         /\ \A k \in 1..Len(longer) : longer[k].name # name
      \/ \E k \in 1..Len(longer) :
           /\ longer[k].name = name /\ FindIn(longer, name) = longer[k].function
           /\ \A j \in 1..Len(longer) : longer[j].name = name => k <= j
  BY <1>1, Searched
<1>3. CASE FindIn(list, name) = Null
  <2>1. \A k \in 1..Len(list) : longer[k].name # name
    BY <1>1, <1>3, Searched, AddressesAreNotNull
  <2>2. CASE e.name = name
    <3>1. longer[Len(list) + 1].name = name /\ Len(list) + 1 \in 1..Len(longer)
      BY <1>1, <2>2
    <3>2. PICK k \in 1..Len(longer) :
            longer[k].name = name /\ FindIn(longer, name) = longer[k].function
      BY <1>2, <3>1
    <3>3. k = Len(list) + 1
      BY <1>1, <2>1, <3>2
    <3> QED  BY <1>1, <1>3, <2>2, <3>2, <3>3 DEF longer
  <2>3. CASE e.name # name
    <3>1. \A k \in 1..Len(longer) : longer[k].name # name
      BY <1>1, <2>1, <2>3
    <3>2. FindIn(longer, name) = Null
      BY <1>2, <3>1
    <3> QED  BY <1>3, <2>3, <3>2 DEF longer
  <2> QED  BY <2>2, <2>3
<1>4. CASE FindIn(list, name) # Null
  <2>1. PICK k \in 1..Len(list) :
          /\ list[k].name = name /\ FindIn(list, name) = list[k].function
          /\ \A j \in 1..Len(list) : list[j].name = name => k <= j
    BY <1>4, Searched
  <2>2. k \in 1..Len(longer) /\ longer[k].name = name
    BY <1>1, <2>1
  <2>3. PICK i \in 1..Len(longer) :
          /\ longer[i].name = name /\ FindIn(longer, name) = longer[i].function
          /\ \A j \in 1..Len(longer) : longer[j].name = name => i <= j
    BY <1>2, <2>2
  <2>4. i \in 1..Len(list)
    BY <1>1, <2>2, <2>3
  <2>5. i = k
    BY <1>1, <2>1, <2>2, <2>3, <2>4
  <2> QED  BY <1>1, <1>4, <2>1, <2>3, <2>5 DEF longer
<1> QED  BY <1>3, <1>4

-----------------------------------------------------------------------------
(* What a file holds.                                                      *)

LEMMA Files ==
  ASSUME Types
  PROVE  /\ \A k \in 0..Loaded : /\ File(k).symbols \in Seq(SymbolsOf)
                                 /\ File(k).relocations \in Seq(Relocations)
         /\ Loaded \in 0..MaxLoads /\ Loaded \in 0..Loaded
<1>1. Loaded \in 0..MaxLoads /\ Loaded \in 0..Loaded
  BY SymbolsAssumption DEF Types, Loaded
<1>2. Kernel.relocations \in Seq(Relocations)
  BY DEF Kernel
<1>3. Kernel.symbols \in Seq(SymbolsOf)
  <2> DEFINE s(i) == [name |-> KernelNames[i], function |-> TRUE, value |-> i]
  <2>1. Len(KernelNames) \in Nat /\ \A i \in 1..Len(KernelNames) : s(i) \in SymbolsOf
    BY SymbolsAssumption DEF SymbolsOf
  <2> HIDE DEF s
  <2>2. [i \in 1..Len(KernelNames) |-> s(i)] \in Seq(SymbolsOf)
    BY <2>1
  <2> QED  BY <2>2 DEF Kernel, s
<1>4. \A k \in 1..Loaded : /\ modules[k].symbols \in Seq(SymbolsOf)
                           /\ modules[k].relocations \in Seq(Relocations)
  BY SymbolsAssumption DEF Types, Loaded
<1> QED  BY <1>1, <1>2, <1>3, <1>4 DEF File

\* One call of add_to_symbols: the list grows by the new name or not at all, what is
\* found stays, and the name is found afterwards unless undefined ends it all.
LEMMA Added ==
  ASSUME symbol_list \in Seq(Entries), stray \in BOOLEAN, undefined \in BOOLEAN,
         NEW n \in Names, NEW f \in Addresses, AddToSymbols(n, f)
  PROVE  /\ symbol_list' \in Seq(Entries) /\ stray' \in BOOLEAN /\ undefined' \in BOOLEAN
         /\ undefined => undefined'
         /\ \A k \in 1..Len(symbol_list') :
              symbol_list'[k].name = n \/
              (k \in 1..Len(symbol_list) /\ symbol_list'[k] = symbol_list[k])
         /\ \A name : FindIn(symbol_list, name) # Null \/ name # n
                       => FindIn(symbol_list', name) = FindIn(symbol_list, name)
         /\ FindIn(symbol_list', n) \in {FindIn(symbol_list, n), f}
         /\ ~undefined' => FindIn(symbol_list', n) # Null
<1>1. CASE Refused(n) /\ UNCHANGED <<symbol_list, stray, undefined>>
  <2>1. 1 \in 1..Len(symbol_list) /\ symbol_list[1].name = n
    BY <1>1 DEF Refused
  <2>2. FindIn(symbol_list, n) # Null
    BY <2>1, Searched, AddressesAreNotNull
  <2> QED  BY <1>1, <2>2
<1>2. CASE undefined' = TRUE /\ UNCHANGED <<symbol_list, stray>>
  BY <1>2
<1>3. CASE /\ symbol_list' = Append(symbol_list, [name |-> n, function |-> f])
           /\ stray' \in BOOLEAN /\ UNCHANGED undefined
  <2> DEFINE e == [name |-> n, function |-> f]
  <2>1. e \in Entries /\ e.name = n /\ e.function = f
    BY DEF Entries
  <2> HIDE DEF e
  <2>2. symbol_list' = Append(symbol_list, e)
    BY <1>3 DEF e
  <2>3. \A name : FindIn(symbol_list', name) =
          IF FindIn(symbol_list, name) = Null /\ e.name = name THEN e.function
          ELSE FindIn(symbol_list, name)
    BY <2>1, <2>2, Grown
  <2>4. f # Null
    BY AddressesAreNotNull
  <2>5. FindIn(symbol_list', n) # Null /\ FindIn(symbol_list', n) \in {FindIn(symbol_list, n), f}
    BY <2>1, <2>3, <2>4
  <2>6. \A name : FindIn(symbol_list, name) # Null \/ name # n
                   => FindIn(symbol_list', name) = FindIn(symbol_list, name)
    BY <2>1, <2>3
  <2>7. \A k \in 1..Len(symbol_list') :
              symbol_list'[k].name = n \/
              (k \in 1..Len(symbol_list) /\ symbol_list'[k] = symbol_list[k])
    BY <2>1, <2>2
  <2>8. symbol_list' \in Seq(Entries)
    BY <2>1, <2>2
  <2> QED  BY <1>3, <2>5, <2>6, <2>7, <2>8
<1> QED  BY <1>1, <1>2, <1>3 DEF AddToSymbols

LEMMA Based ==
  ASSUME NEW k \in 0..MaxLoads, NEW v \in 1..(Span - 1)
  PROVE  Base(k) + v \in Addresses
<1> DEFINE d == MaxLoads - k
<1>1. d \in Nat /\ Span \in Nat /\ k \in Nat /\ MaxLoads + 1 = k + d + 1
  BY SymbolsAssumption
<1> HIDE DEF d
<1>2. (MaxLoads + 1) * Span = k * Span + d * Span + Span /\ d * Span \in Nat /\ k * Span \in Nat
  BY <1>1
<1> QED  BY <1>1, <1>2 DEF Base, Addresses

LEMMA FindIsFindIn ==
  /\ \A name : Find(name) = FindIn(symbol_list, name)
  /\ \A name : Find(name)' = FindIn(symbol_list', name)
<1> QED  BY DEF Find, FindIn

-----------------------------------------------------------------------------
(* The invariant, action by action.                                        *)

LEMMA Initially == Init => IInv
<1> SUFFICES ASSUME Init PROVE IInv
  OBVIOUS
<1>1. Loaded = 0 /\ symbol_list = <<>>
  BY DEF Init, Loaded
<1>2. Types
  <2>1. Len(Symbols) \in Nat /\ Len(RelocationTable) \in Nat
    BY <1>1, SymbolsAssumption DEF Symbols, RelocationTable, File, Kernel
  <2>2. <<>> \in Seq(Entries) /\ <<>> \in Seq(Modules) /\ <<>> \in Seq(Words)
    OBVIOUS
  <2>3. done \in 0..(Len(Symbols) + Len(RelocationTable))
    BY <2>1 DEF Init
  <2>4. Len(memory) = 0 /\ Loaded <= MaxLoads
    BY <1>1, SymbolsAssumption DEF Init
  <2> QED  BY <1>1, <2>2, <2>3, <2>4 DEF Types, Init
<1>3. Listed
  BY <1>1 DEF Listed
<1>4. Registered
  <2> SUFFICES ASSUME NEW m \in 0..Loaded, NEW i \in 1..Len(File(m).symbols),
                      m = Loaded => i <= done
               PROVE  FALSE
    BY DEF Registered
  <2>1. Len(File(m).symbols) \in Nat
    BY <1>2, Files
  <2> QED  BY <1>1, <2>1 DEF Init
<1>5. Linked
  BY <1>1 DEF Linked
<1> QED  BY <1>2, <1>3, <1>4, <1>5 DEF IInv

\* Nothing that the files say changes as long as no module is loaded.
LEMMA SameFiles ==
  ASSUME modules' = modules
  PROVE  /\ Loaded' = Loaded /\ \A k : File(k)' = File(k)
         /\ Symbols' = Symbols /\ RelocationTable' = RelocationTable
         /\ \A name, k : Known(name, k)' = Known(name, k)
<1> QED  BY DEF Loaded, File, Symbols, RelocationTable, Known

\* Where the list has grown and all the files but the last are registered, names mean
\* in these what they have meant.
LEMMA SameMeanings ==
  ASSUME Types, Registered, NEW k \in Nat, k < Loaded,
         \A name : Known(name, k)' = Known(name, k),
         \A name : Find(name) # Null => Find(name)' = Find(name)
  PROVE  Meanings(k)' = Meanings(k)
<1>1. \A name : Known(name, k) => Find(name) # Null
  <2>1. \A m \in 0..k : m \in 0..Loaded /\ m # Loaded
    BY Files
  <2>2. \A m \in 0..k : DOMAIN File(m).symbols = 1..Len(File(m).symbols)
    BY <2>1, Files
  <2> QED  BY <2>1, <2>2, FindIsFindIn DEF Known, Registered
<1>2. \A name \in Names : FunctionOf(name, k)' = FunctionOf(name, k)
  BY <1>1 DEF FunctionOf
<1> QED  BY <1>2 DEF Meanings

LEMMA Registers ==
  ASSUME IInv, RegisterNext
  PROVE  IInv'
<1> DEFINE s == Symbols[done + 1]
<1>1. /\ Types /\ Listed /\ Registered /\ Linked /\ ~undefined
      /\ done < Len(Symbols) /\ done' = done + 1 /\ modules' = modules /\ memory' = memory
  BY DEF IInv, RegisterNext
<1>2. /\ Loaded \in 0..MaxLoads /\ Loaded \in 0..Loaded
      /\ Symbols \in Seq(SymbolsOf) /\ RelocationTable \in Seq(Relocations)
      /\ done \in Nat /\ done + 1 \in 1..Len(Symbols) /\ s \in SymbolsOf
  <2>1. Symbols \in Seq(SymbolsOf) /\ RelocationTable \in Seq(Relocations)
    BY <1>1, Files DEF Symbols, RelocationTable
  <2>2. done \in Nat
    BY <1>1, <2>1 DEF Types
  <2> QED  BY <1>1, <2>1, <2>2, Files
<1>3. /\ Loaded' = Loaded /\ \A k : File(k)' = File(k)
      /\ Symbols' = Symbols /\ RelocationTable' = RelocationTable
      /\ \A name, k : Known(name, k)' = Known(name, k)
  BY <1>1, SameFiles
<1>4. /\ symbol_list \in Seq(Entries) /\ stray \in BOOLEAN /\ undefined \in BOOLEAN
  BY <1>1 DEF Types
<1>5. /\ symbol_list' \in Seq(Entries) /\ stray' \in BOOLEAN /\ undefined' \in BOOLEAN
      /\ \A k \in 1..Len(symbol_list') :
           (Defined(s) /\ symbol_list'[k].name = s.name) \/
           (k \in 1..Len(symbol_list) /\ symbol_list'[k] = symbol_list[k])
      /\ \A name : Find(name) # Null => Find(name)' = Find(name)
      /\ Defined(s) /\ ~undefined' => Find(s.name) # Null \/ FindIn(symbol_list', s.name) # Null
  <2>1. CASE Defined(s)
    <3> DEFINE f == Base(Loaded) + s.value
    <3>1. s.name \in Names /\ f \in Addresses
      <4>1. s.name \in Names /\ s.value \in 1..(Span - 1)
        BY <1>2, <2>1, SymbolsAssumption DEF SymbolsOf, Defined
      <4> QED  BY <1>2, <4>1, Based
    <3>2. AddToSymbols(s.name, f)
      BY <2>1 DEF RegisterNext
    <3> HIDE DEF f
    <3> QED  BY <1>4, <2>1, <3>1, <3>2, Added, FindIsFindIn
  <2>2. CASE ~Defined(s)
    <3>1. UNCHANGED <<symbol_list, stray, undefined>>
      BY <2>2 DEF RegisterNext
    <3> QED  BY <1>4, <2>2, <3>1, FindIsFindIn
  <2> QED  BY <2>1, <2>2
<1>6. Types'
  <2>1. done' \in 0..(Len(Symbols) + Len(RelocationTable))
    BY <1>1, <1>2
  <2> QED  BY <1>1, <1>3, <1>5, <2>1 DEF Types
<1>7. Listed'
  <2>1. Defined(s) => Known(s.name, Loaded)
    BY <1>2 DEF Known, Symbols
  <2>2. \A k \in 1..Len(symbol_list') : Known(symbol_list'[k].name, Loaded)
    BY <1>1, <1>5, <2>1 DEF Listed
  <2> QED  BY <1>1, <2>2 DEF Listed, Known, Loaded, File
<1>8. ASSUME ~undefined'
      PROVE  Registered'
  <2> SUFFICES ASSUME NEW m \in 0..Loaded, NEW i \in 1..Len(File(m).symbols),
                      Defined(File(m).symbols[i]), m = Loaded => i <= done + 1
               PROVE  FindIn(symbol_list', File(m).symbols[i].name) # Null
    BY <1>1, <1>3 DEF Registered, Defined, File, Loaded
  <2>1. CASE m = Loaded => i <= done
    <3>1. FindIn(symbol_list, File(m).symbols[i].name) # Null
      BY <1>1, <2>1 DEF Registered
    <3> QED  BY <1>5, <3>1, FindIsFindIn
  <2>2. CASE m = Loaded /\ ~(i <= done)
    <3>1. i = done + 1
      BY <1>2, <2>2 DEF Symbols
    <3>2. File(m).symbols[i] = s
      BY <2>2, <3>1 DEF Symbols
    <3> QED  BY <1>5, <1>8, <3>2, FindIsFindIn
  <2> QED  BY <2>1, <2>2
<1>9. ASSUME ~undefined'
      PROVE  Linked'
  <2> SUFFICES ASSUME NEW k \in 1..Loaded, NEW i \in Done(k)'
               PROVE  Holds(modules[k], Done(k)', memory[k], Base(k), Meanings(k)', i)
    BY <1>1, <1>3 DEF Linked, Base
  <2>1. k # Loaded
    BY <1>1, <1>2, <1>3 DEF Done
  <2>2. Done(k)' = Done(k)
    BY <1>1, <1>3, <2>1 DEF Done
  <2>3. Meanings(k)' = Meanings(k)
    BY <1>1, <1>2, <1>3, <1>5, <2>1, SameMeanings
  <2> QED  BY <1>1, <2>2, <2>3 DEF Linked
<1> QED  BY <1>6, <1>7, <1>8, <1>9 DEF IInv

LEMMA Loads ==
  ASSUME IInv, NEW m \in Modules, KernelLoadElfLibrary(m)
  PROVE  IInv'
<1>1. /\ Types /\ Listed /\ Registered /\ Linked /\ ~undefined
      /\ done = Len(Symbols) + Len(RelocationTable) /\ Loaded < MaxLoads
      /\ modules' = Append(modules, m) /\ done' = 0
      /\ memory' = Append(memory, [w \in 0..(Span - 1) |-> Unrelocated])
      /\ UNCHANGED <<symbol_list, stray, undefined>>
  BY DEF IInv, KernelLoadElfLibrary, AllDone
<1>2. /\ Loaded \in Nat /\ Len(Symbols) \in Nat /\ Len(RelocationTable) \in Nat
      /\ \A k \in 0..Loaded : Len(File(k).symbols) \in Nat /\ Len(File(k).relocations) \in Nat
  BY <1>1, Files DEF Symbols, RelocationTable
<1>3. /\ modules' \in Seq(Modules) /\ Loaded' = Loaded + 1
      /\ \A k \in 1..Loaded : modules'[k] = modules[k]
      /\ modules'[Loaded + 1] = m
  BY <1>1, <1>2 DEF Types, Loaded
<1>4. /\ memory' \in Seq(Words) /\ Len(memory') = Loaded + 1
      /\ \A k \in 1..Loaded : memory'[k] = memory[k]
  <2>1. [w \in 0..(Span - 1) |-> Unrelocated] \in Words
    BY DEF Words, Unrelocated
  <2> QED  BY <1>1, <1>2, <2>1 DEF Types
<1>5. \A k \in 0..Loaded : File(k)' = File(k)
  BY <1>2, <1>3 DEF File
<1>6. /\ \A n \in Nat : n = Loaded + 1 => File(n)' = m
      /\ Symbols' = m.symbols /\ RelocationTable' = m.relocations
  BY <1>2, <1>3 DEF File, Symbols, RelocationTable
<1>7. Len(m.symbols) \in Nat /\ Len(m.relocations) \in Nat
  BY SymbolsAssumption
<1>8. \A k \in 0..Loaded : \A name : Known(name, k)' = Known(name, k)
  BY <1>2, <1>5 DEF Known
<1>9. Types'
  <2>1. Loaded + 1 <= MaxLoads
    BY <1>1, <1>2, SymbolsAssumption
  <2>2. done' \in 0..(Len(Symbols') + Len(RelocationTable'))
    <3>1. done' = 0 /\ Symbols' = m.symbols /\ RelocationTable' = m.relocations
      BY <1>1, <1>6
    <3>2. \A a, b \in Nat : 0 \in 0..(a + b)
      OBVIOUS
    <3> QED  BY <1>7, <3>1, <3>2
  <2>3. symbol_list' \in Seq(Entries) /\ stray' \in BOOLEAN /\ undefined' \in BOOLEAN
    BY <1>1 DEF Types
  <2> QED  BY <1>3, <1>4, <2>1, <2>2, <2>3 DEF Types
<1>10. Listed'
  <2>1. \A name : Known(name, Loaded) => \E n \in 0..(Loaded + 1) : \E i \in DOMAIN File(n)'.symbols :
                     Defined(File(n)'.symbols[i]) /\ File(n)'.symbols[i].name = name
    BY <1>2, <1>5 DEF Known
  <2>2. \A k \in 1..Len(symbol_list) : \E n \in 0..(Loaded + 1) : \E i \in DOMAIN File(n)'.symbols :
          Defined(File(n)'.symbols[i]) /\ File(n)'.symbols[i].name = symbol_list[k].name
    BY <1>1, <2>1 DEF Listed
  <2>3. symbol_list' = symbol_list /\ Loaded' = Loaded + 1
    BY <1>1, <1>3
  <2> QED  BY <2>2, <2>3 DEF Listed, Known, Defined
<1>11. Registered'
  <2> SUFFICES ASSUME NEW n \in 0..(Loaded + 1), NEW i \in 1..Len(File(n)'.symbols),
                      Defined(File(n)'.symbols[i]), n = Loaded + 1 => i <= 0
               PROVE  FindIn(symbol_list, File(n)'.symbols[i].name) # Null
    BY <1>1, <1>3 DEF Registered, Defined, File, Loaded
  <2>1. CASE n = Loaded + 1
    BY <1>6, <1>7, <2>1
  <2>2. CASE n \in 0..Loaded
    <3>1. n = Loaded => i <= done
      <4> SUFFICES ASSUME n = Loaded PROVE i <= done
        OBVIOUS
      <4>1. File(n)' = File(n) /\ File(n).symbols = Symbols
        BY <1>5, <2>2 DEF Symbols
      <4>2. i \in 1..Len(Symbols)
        BY <4>1
      <4>3. Len(Symbols) <= done
        BY <1>1, <1>2
      <4>4. Len(Symbols) \in Nat /\ done \in Nat
        BY <1>1, <1>2
      <4> QED  BY <4>2, <4>3, <4>4
    <3> QED  BY <1>1, <1>5, <2>2, <3>1 DEF Registered
  <2> QED  BY <1>2, <2>1, <2>2
<1>12. Linked'
  <2> SUFFICES ASSUME NEW k \in 1..(Loaded + 1), NEW i \in Done(k)'
               PROVE  Holds(modules'[k], Done(k)', memory'[k], Base(k), Meanings(k)', i)
    BY <1>3 DEF Linked, Base
  <2>1. k # Loaded + 1
    BY <1>1, <1>3, <1>6, <1>7 DEF Done
  <2>2. k \in 1..Loaded
    BY <1>2, <2>1
  <2>3. Done(k)' = Done(k)
    <3>1. Done(k)' = 1..Len(modules[k].relocations)
      BY <1>2, <1>3, <2>1, <2>2 DEF Done
    <3>2. k = Loaded => done - Len(Symbols) = Len(modules[k].relocations)
      BY <1>1, <1>2, <2>2 DEF RelocationTable, File
    <3> QED  BY <3>1, <3>2 DEF Done
  <2>4. Meanings(k)' = Meanings(k)
    <3>1. \A name : Find(name)' = Find(name)
      BY <1>1, FindIsFindIn
    <3> QED  BY <1>8, <2>2, <3>1 DEF Meanings, FunctionOf
  <2> QED  BY <1>1, <1>3, <1>4, <2>2, <2>3, <2>4 DEF Linked
<1> QED  BY <1>1, <1>9, <1>10, <1>11, <1>12 DEF IInv

\* A step over one relocation, of whichever type, leaves the list and the files alone.
LEMMA Passes ==
  ASSUME IInv, Resolving, done' = done + 1, memory' \in Seq(Words), Len(memory') = Loaded,
         UNCHANGED <<symbol_list, stray, modules, undefined>>,
         \A k \in 1..Loaded : k # Loaded => memory'[k] = memory[k],
         \A i \in 1..(done + 1 - Len(Symbols)) : Loaded # 0 =>
           Holds(modules[Loaded], 1..(done + 1 - Len(Symbols)), memory'[Loaded], Base(Loaded),
                 Meanings(Loaded), i)
  PROVE  IInv'
<1>1. /\ Types /\ Listed /\ Registered /\ Linked /\ ~undefined
      /\ done >= Len(Symbols) /\ done # Len(Symbols) + Len(RelocationTable)
  BY DEF IInv, Resolving, AllDone
<1>2. /\ Loaded \in Nat /\ Len(Symbols) \in Nat /\ Len(RelocationTable) \in Nat
      /\ \A k \in 0..Loaded : Len(File(k).symbols) \in Nat
      /\ done \in Nat /\ done <= Len(Symbols) + Len(RelocationTable)
  <2>1. /\ Loaded \in Nat /\ Len(Symbols) \in Nat /\ Len(RelocationTable) \in Nat
        /\ \A k \in 0..Loaded : Len(File(k).symbols) \in Nat
    BY <1>1, Files DEF Symbols, RelocationTable
  <2>2. done \in 0..(Len(Symbols) + Len(RelocationTable))
    BY <1>1 DEF Types
  <2> QED  BY <2>1, <2>2
<1>3. /\ Loaded' = Loaded /\ \A k : File(k)' = File(k)
      /\ Symbols' = Symbols /\ RelocationTable' = RelocationTable
      /\ \A name, k : Known(name, k)' = Known(name, k)
  BY SameFiles
<1>4. Types'
  <2>1. done + 1 \in 0..(Len(Symbols) + Len(RelocationTable))
    BY <1>1, <1>2
  <2> QED  BY <1>1, <1>3, <2>1 DEF Types
<1>5. Listed'
  BY <1>1 DEF Listed, Known, Loaded, File
<1>6. Registered'
  <2> SUFFICES ASSUME NEW m \in 0..Loaded, NEW i \in 1..Len(File(m).symbols),
                      Defined(File(m).symbols[i])
               PROVE  FindIn(symbol_list, File(m).symbols[i].name) # Null
    BY <1>1, <1>3 DEF Registered, Defined, File, Loaded
  <2>1. m = Loaded => i <= done
    BY <1>1, <1>2 DEF Symbols, Types
  <2> QED  BY <1>1, <2>1 DEF Registered
<1>7. Linked'
  <2>0. \A k \in 1..Loaded :
          Done(k)' = IF k = Loaded THEN 1..(done + 1 - Len(Symbols)) ELSE Done(k)
    BY <1>2, <1>3 DEF Done
  <2>1. \A k : Meanings(k)' = Meanings(k)
    <3>1. \A name : Find(name)' = Find(name)
      BY FindIsFindIn
    <3> QED  BY <1>3, <3>1 DEF Meanings, FunctionOf
  <2> SUFFICES ASSUME NEW k \in 1..Loaded, NEW i \in Done(k)'
               PROVE  Holds(modules[k], Done(k)', memory'[k], Base(k), Meanings(k), i)
    BY <1>3, <2>1 DEF Linked, Base
  <2>2. CASE k = Loaded
    <3>1. i \in 1..(done + 1 - Len(Symbols)) /\ Loaded # 0
      BY <1>2, <2>0, <2>2
    <3> QED  BY <2>0, <2>2, <3>1
  <2>3. CASE k # Loaded
    <3> QED  BY <1>1, <2>0, <2>3 DEF Linked
  <2> QED  BY <2>2, <2>3
<1> QED  BY <1>4, <1>5, <1>6, <1>7 DEF IInv

\* A file's relocation that is done has its meaning still after a step that changes only
\* words which that relocation does not have, or which a later one overwrites.
LEMMA StillHolds ==
  ASSUME NEW file, NEW n \in Nat, NEW i \in 1..n, NEW words, NEW changed, NEW base, NEW meaning,
         file.relocations[n + 1].type \in Handled =>
           \/ Target(file.relocations[n + 1]) = Target(file.relocations[i])
           \/ Target(file.relocations[i]) \in
                Copied(file.relocations[n + 1], meaning[file.relocations[n + 1].name])
           \/ ~(Target(file.relocations[i]) < Span)
           \/ changed[Target(file.relocations[i])] = words[Target(file.relocations[i])],
         ~(file.relocations[n + 1].type \in Handled) => changed = words,
         Holds(file, 1..n, words, base, meaning, i)
  PROVE  Holds(file, 1..(n + 1), changed, base, meaning, i)
<1> DEFINE r == file.relocations[i]
           s == file.relocations[n + 1]
           Over(o) == o.type \in Handled /\
             (Target(r) = Target(o) \/ Target(r) \in Copied(o, meaning[o.name]))
<1> SUFFICES ASSUME r.type \in Handled /\ Target(r) < Span,
                    \A j \in 1..(n + 1) : j > i => ~Over(file.relocations[j])
             PROVE  changed[Target(r)] = Meaning(r, base, meaning[r.name])
  BY DEF Holds
<1>1. words[Target(r)] = Meaning(r, base, meaning[r.name])
  <2>1. \A j \in 1..n : j > i => ~Over(file.relocations[j])
    OBVIOUS
  <2> QED  BY <2>1 DEF Holds
<1>2. ~Over(s)
  OBVIOUS
<1> QED  BY <1>1, <1>2

\* Where a step over a relocation stands: n relocations are done, and the next is there.
LEMMA AtRelocation ==
  ASSUME IInv, Resolving
  PROVE  LET n == done - Len(Symbols)
         IN  /\ n \in Nat /\ done + 1 - Len(Symbols) = n + 1 /\ Loaded \in Nat \ {0}
             /\ RelocationTable = modules[Loaded].relocations
             /\ NextRelocation = modules[Loaded].relocations[n + 1]
             /\ \A i \in 1..(n + 1) : modules[Loaded].relocations[i] \in Relocations
             /\ \A i \in 1..n : Holds(modules[Loaded], 1..n, memory[Loaded], Base(Loaded),
                                      Meanings(Loaded), i)
<1>1. /\ Types /\ Linked /\ done >= Len(Symbols) /\ done # Len(Symbols) + Len(RelocationTable)
  BY DEF IInv, Resolving, AllDone
<1>2. /\ Len(Symbols) \in Nat /\ RelocationTable \in Seq(Relocations) /\ Loaded \in Nat
      /\ Len(RelocationTable) \in Nat
  BY <1>1, Files DEF Symbols, RelocationTable
<1>3. done \in Nat /\ done < Len(Symbols) + Len(RelocationTable)
  <2>1. done \in 0..(Len(Symbols) + Len(RelocationTable))
    BY <1>1 DEF Types
  <2> QED  BY <1>1, <1>2, <2>1
<1>4. Len(RelocationTable) # 0
  BY <1>1, <1>2, <1>3
<1>5. Loaded # 0
  BY <1>4 DEF RelocationTable, File, Kernel
<1>6. RelocationTable = modules[Loaded].relocations
  BY <1>5 DEF RelocationTable, File
<1> DEFINE n == done - Len(Symbols)
<1>7. n \in Nat /\ done + 1 - Len(Symbols) = n + 1 /\ n + 1 <= Len(RelocationTable)
  BY <1>1, <1>2, <1>3
<1>8. NextRelocation = RelocationTable[n + 1] /\ Done(Loaded) = 1..n
  BY DEF NextRelocation, Done
<1> HIDE DEF n
<1>9. \A i \in 1..(n + 1) : RelocationTable[i] \in Relocations
  BY <1>2, <1>7
<1>10. \A i \in 1..n : Holds(modules[Loaded], 1..n, memory[Loaded], Base(Loaded),
                            Meanings(Loaded), i)
  <2>1. Loaded \in 1..Loaded
    BY <1>2, <1>5
  <2>2. \A i \in Done(Loaded) : Holds(modules[Loaded], Done(Loaded), memory[Loaded],
                                     Base(Loaded), Meanings(Loaded), i)
    BY <1>1, <2>1 DEF Linked
  <2> QED  BY <1>8, <2>2
<1> QED  BY <1>2, <1>5, <1>6, <1>7, <1>8, <1>9, <1>10 DEF n

LEMMA Others ==
  ASSUME IInv, OtherType
  PROVE  IInv'
<1>1. /\ Types /\ Resolving /\ done' = done + 1
      /\ UNCHANGED <<symbol_list, stray, modules, undefined, memory>>
      /\ ~(NextRelocation.type \in Handled)
  BY DEF IInv, OtherType
<1>2. memory' \in Seq(Words) /\ Len(memory') = Loaded
  BY <1>1 DEF Types
<1> DEFINE n == done - Len(Symbols)
<1>3. /\ n \in Nat /\ done + 1 - Len(Symbols) = n + 1
      /\ NextRelocation = modules[Loaded].relocations[n + 1]
      /\ \A i \in 1..n : Holds(modules[Loaded], 1..n, memory[Loaded], Base(Loaded),
                               Meanings(Loaded), i)
  BY <1>1, AtRelocation
<1> HIDE DEF n
<1>4. ASSUME NEW i \in 1..(n + 1)
      PROVE  Holds(modules[Loaded], 1..(n + 1), memory[Loaded], Base(Loaded), Meanings(Loaded), i)
  <2>1. CASE i = n + 1
    BY <1>1, <1>3, <2>1 DEF Holds
  <2>2. CASE i \in 1..n
    BY <1>1, <1>3, <2>2, StillHolds
  <2> QED  BY <1>3, <2>1, <2>2
<1> QED  BY <1>1, <1>2, <1>3, <1>4, Passes

\* The target of a relocation and what it gets are numbers.
LEMMA Numbers ==
  ASSUME NEW s \in Relocations
  PROVE  /\ Target(s) \in Nat
         /\ \A k \in Nat, f \in Nat : Meaning(s, Base(k), f) \in Int
<1>1. /\ s.offset \in Nat /\ s.section \in Nat /\ s.value \in Nat /\ s.addend \in Int
  BY SymbolsAssumption DEF Relocations
<1>2. Target(s) \in Nat
  BY <1>1 DEF Target
<1>3. ASSUME NEW k \in Nat, NEW f \in Nat
      PROVE  Meaning(s, Base(k), f) \in Int
  <2>1. Base(k) \in Nat
    BY SymbolsAssumption DEF Base
  <2>2. s.value + s.addend \in Int /\ Base(k) + s.addend \in Int /\ f \in Int
    BY <1>1, <2>1
  <2>3. CASE s.type = 1
    BY <2>2, <2>3 DEF Meaning
  <2>4. CASE s.type = 8
    BY <2>2, <2>4 DEF Meaning
  <2>5. CASE s.type # 1 /\ s.type # 8
    BY <2>2, <2>5 DEF Meaning
  <2> QED  BY <2>3, <2>4, <2>5
<1> QED  BY <1>2, <1>3

LEMMA Relocates ==
  ASSUME IInv, Relocate
  PROVE  IInv'
<1> DEFINE r == NextRelocation
           function == Find(r.name)
           n == done - Len(Symbols)
<1>1. /\ Types /\ Listed /\ Resolving /\ r.type \in Handled
      /\ UNCHANGED <<symbol_list, stray, modules>>
  BY DEF IInv, Relocate
<1>2. /\ n \in Nat /\ done + 1 - Len(Symbols) = n + 1 /\ Loaded \in Nat \ {0}
      /\ r = modules[Loaded].relocations[n + 1] /\ r \in Relocations
      /\ \A i \in 1..(n + 1) : modules[Loaded].relocations[i] \in Relocations
      /\ \A i \in 1..n : Holds(modules[Loaded], 1..n, memory[Loaded], Base(Loaded),
                               Meanings(Loaded), i)
  BY <1>1, AtRelocation
<1>3. CASE undefined' = TRUE /\ UNCHANGED <<done, memory>>
  <2>1. /\ Loaded' = Loaded /\ Symbols' = Symbols /\ RelocationTable' = RelocationTable
    BY <1>1, SameFiles
  <2>2. Types'
    BY <1>1, <1>3, <2>1 DEF Types
  <2>3. Listed'
    BY <1>1 DEF Listed, Known, Loaded, File
  <2> QED  BY <1>3, <2>2, <2>3 DEF IInv
<1>4. ASSUME /\ memory' = [memory EXCEPT ![Loaded] =
                   [w \in DOMAIN @ |->
                      IF w = Target(r) THEN Meaning(r, Base(Loaded), function)
                      ELSE IF w \in Copied(r, function) THEN Code ELSE @[w]]],
             done' = done + 1, UNCHANGED undefined
      PROVE  IInv'
  <2>1. function = Meanings(Loaded)[r.name] /\ function \in Nat
    <3>1. r.name \in Names
      BY <1>2 DEF Relocations
    <3>2. Known(r.name, Loaded) \/ function = Null
      BY <1>1, Searched, FindIsFindIn DEF Listed, Types
    <3>3. function \in Nat
      BY <1>1, Searched, FindIsFindIn DEF Types, Addresses, Null
    <3> QED  BY <3>1, <3>2, <3>3 DEF Meanings, FunctionOf
  <2>2. Target(r) \in Nat /\ \A i \in 1..n : Target(modules[Loaded].relocations[i]) \in Nat
    <3>1. \A i \in 1..n : modules[Loaded].relocations[i] \in Relocations
      BY <1>2
    <3> QED  BY <1>2, <3>1, Numbers
  <2>3. Meaning(r, Base(Loaded), function) \in Int
    BY <1>2, <2>1, Numbers
  <2> DEFINE meant == Meaning(r, Base(Loaded), function)
             copied == Copied(r, function)
             changed == [w \in 0..(Span - 1) |->
                           IF w = Target(r) THEN meant
                           ELSE IF w \in copied THEN Code ELSE memory[Loaded][w]]
  <2>4. /\ memory \in Seq(Words) /\ Len(memory) = Loaded /\ memory[Loaded] \in Words
    BY <1>1, <1>2 DEF Types
  <2>5. DOMAIN memory[Loaded] = 0..(Span - 1)
    BY <2>4 DEF Words
  <2>6. changed \in Words
    <3> HIDE DEF meant, copied
    <3>1. meant \in Int /\ Code \in Int
      BY <2>3 DEF meant, Code
    <3>2. \A w \in 0..(Span - 1) : memory[Loaded][w] \in Int
      BY <2>4 DEF Words
    <3> QED  BY <3>1, <3>2 DEF Words
  <2>7. memory' = [memory EXCEPT ![Loaded] = changed]
    BY <1>4, <2>5
  <2> HIDE DEF changed
  <2>8. /\ memory' \in Seq(Words) /\ Len(memory') = Loaded /\ memory'[Loaded] = changed
        /\ \A k \in 1..Loaded : k # Loaded => memory'[k] = memory[k]
    BY <1>2, <2>4, <2>6, <2>7
  <2>9. \A w \in 0..(Span - 1) :
           /\ w = Target(r) => changed[w] = meant
           /\ w # Target(r) /\ w \notin copied => changed[w] = memory[Loaded][w]
    BY DEF changed
  <2>10. ASSUME NEW i \in 1..(n + 1)
         PROVE  Holds(modules[Loaded], 1..(n + 1), changed, Base(Loaded), Meanings(Loaded), i)
    <3>1. CASE i = n + 1
      <4>1. Target(r) < Span => changed[Target(r)] = meant
        BY <2>2, <2>9, SymbolsAssumption
      <4> QED  BY <1>2, <2>1, <3>1, <4>1 DEF Holds
    <3>2. CASE i \in 1..n
      <4> DEFINE w == Target(modules[Loaded].relocations[i])
      <4>1. \/ Target(r) = w \/ w \in copied \/ ~(w < Span)
            \/ changed[w] = memory[Loaded][w]
        BY <2>2, <2>9, <3>2, SymbolsAssumption
      <4> HIDE DEF n
      <4> QED  BY <1>1, <1>2, <2>1, <3>2, <4>1, StillHolds
    <3> QED  BY <1>2, <3>1, <3>2
  <2> QED  BY <1>1, <1>2, <1>4, <2>8, <2>10, Passes
<1> QED  BY <1>3, <1>4 DEF Relocate

-----------------------------------------------------------------------------
(* The theorems.                                                           *)

\* A step that leaves all variables alone.
LEMMA Stutters ==
  ASSUME IInv, UNCHANGED vars
  PROVE  IInv'
<1>1. /\ Loaded' = Loaded /\ \A k : File(k)' = File(k)
      /\ Symbols' = Symbols /\ RelocationTable' = RelocationTable
      /\ \A name, k : Known(name, k)' = Known(name, k)
  BY SameFiles DEF vars
<1>2. Types'
  BY <1>1 DEF IInv, Types, vars
<1>3. Listed'
  BY DEF IInv, Listed, Known, Loaded, File, vars
<1>4. Registered => Registered'
  BY DEF Registered, Loaded, File, vars
<1>5. Linked => Linked'
  <2>1. \A k : Meanings(k)' = Meanings(k)
    <3>1. \A name : Find(name)' = Find(name)
      BY FindIsFindIn DEF vars
    <3> QED  BY <1>1, <3>1 DEF Meanings, FunctionOf
  <2>2. \A k : Done(k)' = Done(k)
    BY <1>1 DEF Done, vars
  <2> QED  BY <1>1, <2>1, <2>2 DEF Linked, Base, vars
<1> QED  BY <1>2, <1>3, <1>4, <1>5 DEF IInv, vars

LEMMA Invariant == Spec => []IInv
<1>1. IInv /\ [Next]_vars => IInv'
  BY Loads, Registers, Relocates, Others, Stutters DEF Next
<1> QED  BY Initially, <1>1, PTL DEF Spec

\* In whichever order modules are loaded, whatever they define and use: what a module
\* has been linked to is what its relocations say, by the symbols of today.
THEOREM LinksStayRight == Spec => []Relocated
<1>1. IInv => Relocated
  <2> SUFFICES ASSUME IInv, ~undefined, NEW k \in 1..Loaded, NEW i \in Done(k),
                      LET r == modules[k].relocations[i]
                      IN  /\ r.type \in Handled /\ Target(r) < Span
                          /\ \A j \in Done(k) : j > i =>
                               ~Overwrites(modules[k].relocations[j], k, Target(r))
               PROVE  LET r == modules[k].relocations[i]
                      IN  memory[k][Target(r)] = CASE r.type = 1 -> r.value + r.addend
                                                   [] r.type = 8 -> Base(k) + r.addend
                                                   [] OTHER      -> FunctionOf(r.name, k)
    BY DEF Relocated
  <2> DEFINE file == modules[k]
             meaning == Meanings(k)
  <2>1. \A j \in Done(k) : file.relocations[j] \in Relocations
    <3>1. /\ Loaded \in Nat /\ Len(Symbols) \in Nat /\ RelocationTable \in Seq(Relocations)
          /\ k # 0 /\ file.relocations \in Seq(Relocations) /\ file = File(k)
      BY Files DEF IInv, Symbols, RelocationTable, File
    <3>2. done \in 0..(Len(Symbols) + Len(RelocationTable))
      BY DEF IInv, Types
    <3>3. k = Loaded => RelocationTable = file.relocations
      BY <3>1 DEF RelocationTable
    <3>4. Done(k) \subseteq 1..Len(file.relocations)
      BY <3>1, <3>2, <3>3 DEF Done
    <3> QED  BY <3>1, <3>4
  <2>2. \A j \in Done(k) : meaning[file.relocations[j].name] = FunctionOf(file.relocations[j].name, k)
    BY <2>1 DEF Meanings, Relocations
  <2>3. Holds(file, Done(k), memory[k], Base(k), meaning, i)
    BY DEF IInv, Linked
  <2> HIDE DEF meaning
  <2> QED  BY <2>2, <2>3 DEF Holds, Overwrites, Meaning
<1> QED  BY Invariant, <1>1, PTL

\* The list with its odd check for duplicates is a table in which the first registration
\* of a name counts, for any modules that register what they like.
THEOREM ListIsTable == Spec => ImplementsTable
<1> DEFINE table == [n \in Names |-> Find(n)]
<1>1. Init => Table!Init
  <2> SUFFICES ASSUME Init, NEW name \in Names PROVE Find(name) = Null
    BY DEF Table!Init
  <2>1. symbol_list = <<>> /\ <<>> \in Seq(Entries)
    BY DEF Init
  <2>2. FindIn(symbol_list, name) = Null
    <3>1. FindIn(<<>>, name) = Null
      <4>1. \A k \in 1..Len(<<>>) : FALSE
        OBVIOUS
      <4> QED  BY <2>1, <4>1, Searched
    <3> QED  BY <2>1, <3>1
  <2> QED  BY <2>2, FindIsFindIn
<1>2. IInv /\ [Next]_vars => [Table!Next]_([n \in Names |-> Find(n)])
  <2> SUFFICES ASSUME IInv, [Next]_vars
               PROVE  Table!Next \/ table' = table
    OBVIOUS
  <2>1. CASE symbol_list' = symbol_list
    BY <2>1, FindIsFindIn
  <2>2. CASE RegisterNext /\ Defined(Symbols[done + 1])
    <3> DEFINE s == Symbols[done + 1]
               f == Base(Loaded) + s.value
    <3>1. s \in SymbolsOf /\ Loaded \in 0..MaxLoads
      <4>1. Symbols \in Seq(SymbolsOf) /\ RelocationTable \in Seq(Relocations) /\ Loaded \in 0..MaxLoads
        BY Files DEF IInv, Symbols, RelocationTable
      <4>2. done \in 0..(Len(Symbols) + Len(RelocationTable))
        BY DEF IInv, Types
      <4> QED  BY <2>2, <4>1, <4>2 DEF RegisterNext
    <3>2. s.name \in Names /\ s.value \in 1..(Span - 1)
      BY <2>2, <3>1, SymbolsAssumption DEF SymbolsOf, Defined
    <3>3. f \in Addresses
      BY <3>1, <3>2, Based
    <3>4. AddToSymbols(s.name, f)
      BY <2>2 DEF RegisterNext
    <3> HIDE DEF f, s
    <3>5. /\ \A name : FindIn(symbol_list, name) # Null \/ name # s.name
                      => FindIn(symbol_list', name) = FindIn(symbol_list, name)
          /\ FindIn(symbol_list', s.name) \in {FindIn(symbol_list, s.name), f}
      BY <3>2, <3>3, <3>4, Added DEF IInv, Types
    <3>6. CASE FindIn(symbol_list', s.name) = FindIn(symbol_list, s.name)
      <4>1. \A name \in Names : Find(name)' = Find(name)
        BY <3>5, <3>6, FindIsFindIn
      <4> QED  BY <4>1
    <3>7. CASE FindIn(symbol_list, s.name) = Null /\ FindIn(symbol_list', s.name) = f
      <4>1. table[s.name] = Null
        BY <3>2, <3>7, FindIsFindIn
      <4>2. \A name \in Names : Find(name)' = IF name = s.name THEN f ELSE Find(name)
        BY <3>5, <3>7, FindIsFindIn
      <4>3. table' = [table EXCEPT ![s.name] = f]
        BY <4>2
      <4>4. Table!Register(s.name, f)
        BY <4>1, <4>3 DEF Table!Register
      <4> QED  BY <3>2, <3>3, <4>4 DEF Table!Next, Addresses
    <3> QED  BY <3>5, <3>6, <3>7
  <2> QED  BY <2>1, <2>2 DEF Next, KernelLoadElfLibrary, RegisterNext, Relocate, OtherType, vars
<1> QED  BY Invariant, <1>1, <1>2, PTL DEF Spec, ImplementsTable, Table!Spec
=============================================================================
