---------------------------- MODULE PagingProofs ------------------------------
(***************************************************************************)
(* The safety of Paging, for any depth and size of the tables, any frames  *)
(* and any addresses.                                                      *)
(***************************************************************************)
EXTENDS Paging, WellFoundedInduction, FiniteSetTheorems, TLAPS

\* The last frame that has been handed out.
Top == Depth - 1 + stack_position
Memories == [Places -> [Slots -> Entries]]
Special == {ImagePage, LowPage, DevicePage}

Types ==
  /\ stack_position \in 0..MaxFrames /\ entry \in Memories
  /\ structures \subseteq 0..Top /\ Kernel \in structures

\* Every frame that has been handed out is of one level, or a page: what an entry of a
\* table leads to is of the next level.
Ranked(rank, e, top, roots) ==
  /\ rank \in [0..top -> 1..(Depth + 1)]
  /\ \A r \in roots : r \in 0..top /\ rank[r] = 1
  /\ \A f \in 0..top, s \in Slots : e[f][s].to # Nowhere =>
       /\ rank[f] < Depth => e[f][s].to \in 0..top /\ rank[e[f][s].to] = rank[f] + 1
       /\ rank[f] = Depth => \/ e[f][s].to \in Special
                             \/ e[f][s].to \in 0..top /\ rank[e[f][s].to] = Depth + 1

\* Tables hang from one entry, but for those that top-level tables share.
Single(rank, e, top) ==
  \A f, g \in 0..top, s, u \in Slots :
    rank[f] < Depth /\ rank[g] < Depth /\ e[f][s].to # Nowhere /\ e[f][s].to = e[g][u].to
      => s = u /\ (f = g \/ rank[f] = 1)

\* What a top-level table has in the upper half is the kernel's.
Shared(e, roots) ==
  \A r \in roots :
    /\ Present(e[r][Text[1]])
    /\ \A s \in KernelSlots : Present(e[r][s]) => e[r][s] = e[Kernel][s]

\* The tables below the lower halves of processes are apart from those that the kernel
\* maps for itself, and open to ring 3.
Open(rank, ours, e, top, roots) ==
  /\ ours \subseteq 0..top /\ ours \cap roots = {}
  /\ \A r \in roots \ {Kernel}, s \in Slots \ KernelSlots :
       Present(e[r][s]) => e[r][s].user /\ e[r][s].to \in ours
  /\ \A f \in ours, s \in Slots : Present(e[f][s]) =>
       e[f][s].user /\ (rank[f] < Depth => e[f][s].to \in ours)
  /\ \A s \in Slots : e[Kernel][s].to \notin ours
  /\ \A f \in (0..top) \ ours, s \in Slots :
       1 < rank[f] /\ rank[f] < Depth => e[f][s].to \notin ours

Ordered(rank, ours, e, top, roots) ==
  /\ Ranked(rank, e, top, roots) /\ Single(rank, e, top)
  /\ Shared(e, roots) /\ Open(rank, ours, e, top, roots)

IInv ==
  /\ Types
  /\ \E rank \in [0..Top -> 1..(Depth + 1)], ours \in SUBSET (0..Top) :
       Ordered(rank, ours, entry, Top, structures)

-----------------------------------------------------------------------------
(* The two recursive functions: the walk and the tables of a level.        *)

LEMMA SmallestNumber ==
  ASSUME NEW S, S \subseteq Nat, S # {}
  PROVE  Min(S) \in S /\ \A n \in S : Min(S) <= n
<1> DEFINE R == OpToRel(<, Nat)
<1>1. IsWellFoundedOn(R, Nat)
  BY NatLessThanWellFounded
<1> HIDE DEF R
<1>2. PICK m \in S : \A n \in S : ~(<<n, m>> \in R)
  BY <1>1, WFMin
<1>3. \A n \in S : ~(n < m)
  BY <1>2 DEF R, OpToRel
<1>4. \A n \in S : m <= n
  BY <1>3
<1> QED  BY <1>4 DEF Min

LEMMA SetInduction ==
  ASSUME NEW S, 1 \in S, \A n \in Nat \ {0} : n \in S => n + 1 \in S
  PROVE  \A n \in Nat \ {0} : n \in S
<1> DEFINE T == (Nat \ {0}) \ S
<1> SUFFICES ASSUME T # {} PROVE FALSE
  OBVIOUS
<1>1. T \subseteq Nat
  OBVIOUS
<1> HIDE DEF T
<1>2. Min(T) \in T /\ \A n \in T : Min(T) <= n
  BY <1>1, SmallestNumber
<1> DEFINE m == Min(T)
<1>3. m \in Nat \ {0, 1} /\ m \notin S
  BY <1>2 DEF T
<1>4. m - 1 \in Nat \ {0} /\ m - 1 \notin T
  BY <1>1, <1>2, <1>3
<1> HIDE DEF m
<1> QED  BY <1>3, <1>4 DEF T

\* A walk of n levels from root to v in the memory e.
IsWalk(e, root, v, g, n) ==
  /\ g[1] = root
  /\ \A d \in 1..(n - 1) : g[d + 1] = IF g[d] = Nowhere THEN Nowhere ELSE e[g[d]][v[d]].to

LEMMA WalksExist ==
  ASSUME NEW e, NEW root, NEW v
  PROVE  \A n \in Nat \ {0} : \E g : IsWalk(e, root, v, g, n)
<1> DEFINE S == {n \in Nat \ {0} : \E g : IsWalk(e, root, v, g, n)}
<1>1. 1 \in S
  <2>1. IsWalk(e, root, v, [d \in {1} |-> root], 1)
    BY DEF IsWalk
  <2> QED  BY <2>1
<1>2. ASSUME NEW n \in Nat \ {0}, n \in S PROVE n + 1 \in S
  <2>1. PICK g : IsWalk(e, root, v, g, n)
    BY <1>2
  <2> DEFINE last == IF g[n] = Nowhere THEN Nowhere ELSE e[g[n]][v[n]].to
             h == [d \in 1..(n + 1) |-> IF d = n + 1 THEN last ELSE g[d]]
  <2>2. h[n + 1] = last /\ \A d \in 1..n : h[d] = g[d]
    OBVIOUS
  <2> HIDE DEF h
  <2>3. ASSUME NEW d \in 1..n
        PROVE  h[d + 1] = IF h[d] = Nowhere THEN Nowhere ELSE e[h[d]][v[d]].to
    <3>1. CASE d = n
      BY <2>2, <3>1
    <3>2. CASE d # n
      <4>1. d \in 1..(n - 1) /\ d + 1 \in 1..n
        BY <3>2
      <4> QED  BY <2>1, <2>2, <4>1 DEF IsWalk
    <3> QED  BY <3>1, <3>2
  <2>4. h[1] = root
    BY <2>1, <2>2 DEF IsWalk
  <2>5. IsWalk(e, root, v, h, n + 1)
    BY <2>3, <2>4 DEF IsWalk
  <2> QED  BY <2>5
<1>3. \A n \in Nat \ {0} : n \in S
  <2> HIDE DEF S
  <2> QED  BY <1>1, <1>2, SetInduction
<1> QED  BY <1>3

\* The walk in the memory e.  Tables is the one in the memory entry.
TablesIn(e, root, v) ==
  LET table[d \in 1..Depth] ==
        IF d = 1 THEN root
        ELSE IF table[d - 1] = Nowhere THEN Nowhere
        ELSE e[table[d - 1]][v[d - 1]].to
  IN  table

LEMMA Walk ==
  ASSUME NEW e, NEW root, NEW v
  PROVE  LET t == TablesIn(e, root, v) IN
         /\ t[1] = root
         /\ \A d \in 1..(Depth - 1) :
              t[d + 1] = IF t[d] = Nowhere THEN Nowhere ELSE e[t[d]][v[d]].to
<1> DEFINE Step(t) == [d \in 1..Depth |->
             IF d = 1 THEN root
             ELSE IF t[d - 1] = Nowhere THEN Nowhere ELSE e[t[d - 1]][v[d - 1]].to]
<1>1. \E t : t = Step(t)
  <2>1. PICK g : IsWalk(e, root, v, g, Depth)
    BY WalksExist, PagingAssumption
  <2> DEFINE t == [d \in 1..Depth |-> g[d]]
  <2>2. \A d \in 1..Depth : t[d] = IF d = 1 THEN root
             ELSE IF t[d - 1] = Nowhere THEN Nowhere ELSE e[t[d - 1]][v[d - 1]].to
    <3> SUFFICES ASSUME NEW d \in 1..Depth
                 PROVE  t[d] = IF d = 1 THEN root
             ELSE IF t[d - 1] = Nowhere THEN Nowhere ELSE e[t[d - 1]][v[d - 1]].to
      OBVIOUS
    <3>1. CASE d = 1
      BY <2>1, <3>1 DEF IsWalk
    <3>2. CASE d # 1
      <4>1. d - 1 \in 1..(Depth - 1) /\ d - 1 \in 1..Depth /\ (d - 1) + 1 = d
        BY <3>2, PagingAssumption
      <4>2. g[(d - 1) + 1] = IF g[d - 1] = Nowhere THEN Nowhere ELSE e[g[d - 1]][v[d - 1]].to
        BY <2>1, <4>1 DEF IsWalk
      <4> QED  BY <3>2, <4>1, <4>2
    <3> QED  BY <3>1, <3>2
  <2>3. t = Step(t)
    BY <2>2
  <2> HIDE DEF t
  <2> QED  BY <2>3
<1>2. TablesIn(e, root, v) = Step(TablesIn(e, root, v))
  BY <1>1 DEF TablesIn
<1> DEFINE t == TablesIn(e, root, v)
<1>3. t = Step(t)
  BY <1>2
<1> HIDE DEF t
<1>4. t[1] = root
  <2>1. 1 \in 1..Depth
    BY PagingAssumption
  <2> QED  BY <1>3, <2>1
<1>5. ASSUME NEW d \in 1..(Depth - 1)
      PROVE  t[d + 1] = IF t[d] = Nowhere THEN Nowhere ELSE e[t[d]][v[d]].to
  <2>1. d + 1 \in 1..Depth /\ d + 1 # 1 /\ (d + 1) - 1 = d
    BY PagingAssumption
  <2> QED  BY <1>3, <2>1
<1> QED  BY <1>4, <1>5 DEF t

LEMMA TablesAreThere ==
  /\ \A root, v : Tables(root, v) = TablesIn(entry, root, v)
  /\ \A root, v : Tables(root, v)' = TablesIn(entry', root, v)
<1> QED  BY DEF Tables, TablesIn

-----------------------------------------------------------------------------
(* What a walk meets.                                                      *)

FirstMissingIn(e, root, v) ==
  LET table == TablesIn(e, root, v)
  IN  Min({d \in 1..Depth : table[d] = Nowhere \/ ~Present(e[table[d]][v[d]])}
          \cup {Depth + 1})

TranslateIn(e, root, v) ==
  LET d == FirstMissingIn(e, root, v)
  IN  IF d <= Depth THEN d - Depth - 1 ELSE e[TablesIn(e, root, v)[Depth]][v[Depth]].to

LEMMA WalksAreThere ==
  /\ \A root, v : FirstMissing(root, v) = FirstMissingIn(entry, root, v)
  /\ \A root, v : Translate(root, v) = TranslateIn(entry, root, v)
  /\ \A root, v : Translate(root, v)' = TranslateIn(entry', root, v)
<1>1. \A root, v : FirstMissing(root, v) = FirstMissingIn(entry, root, v)
  BY TablesAreThere DEF FirstMissing, FirstMissingIn
<1>2. \A root, v : FirstMissing(root, v)' = FirstMissingIn(entry', root, v)
  BY TablesAreThere DEF FirstMissing, FirstMissingIn
<1> QED  BY <1>1, <1>2, TablesAreThere DEF Translate, TranslateIn

\* Where the walk ends: at a table that is there, with an entry that is not.
LEMMA WalkEnds ==
  ASSUME NEW e, NEW root \in Places, NEW v
  PROVE  LET t == TablesIn(e, root, v)
             m == FirstMissingIn(e, root, v)
         IN  /\ m \in 1..(Depth + 1)
             /\ \A d \in 1..Depth : d < m => t[d] # Nowhere /\ Present(e[t[d]][v[d]])
             /\ m <= Depth => t[m] # Nowhere /\ ~Present(e[t[m]][v[m]])
<1> DEFINE t == TablesIn(e, root, v)
           m == FirstMissingIn(e, root, v)
           ends == {d \in 1..Depth : t[d] = Nowhere \/ ~Present(e[t[d]][v[d]])} \cup {Depth + 1}
<1>1. t[1] = root /\ \A d \in 1..(Depth - 1) :
                       t[d + 1] = IF t[d] = Nowhere THEN Nowhere ELSE e[t[d]][v[d]].to
  BY Walk
<1>2. m = Min(ends)
  BY DEF FirstMissingIn
<1> HIDE DEF t, m
<1>3. ends \subseteq Nat /\ ends # {}
  BY PagingAssumption
<1>4. m \in ends /\ \A n \in ends : m <= n
  <2> HIDE DEF ends
  <2> QED  BY <1>2, <1>3, SmallestNumber
<1>5. m \in 1..(Depth + 1)
  BY <1>4, PagingAssumption
<1>6. \A d \in 1..Depth : d < m => t[d] # Nowhere /\ Present(e[t[d]][v[d]])
  <2> SUFFICES ASSUME NEW d \in 1..Depth, d < m, d \in ends PROVE FALSE
    OBVIOUS
  <2>1. m <= d
    BY <1>4
  <2> QED  BY <1>5, <2>1, PagingAssumption
<1>7. ASSUME m <= Depth
      PROVE  t[m] # Nowhere /\ ~Present(e[t[m]][v[m]])
  <2>1. t[m] = Nowhere \/ ~Present(e[t[m]][v[m]])
    BY <1>4, <1>5, <1>7, PagingAssumption
  <2>2. t[m] # Nowhere
    <3>1. CASE m = 1
      BY <1>1, <3>1, PagingAssumption DEF Places, Nowhere
    <3>2. CASE m # 1
      <4>1. m - 1 \in 1..Depth /\ m - 1 < m /\ m - 1 \in 1..(Depth - 1) /\ (m - 1) + 1 = m
        BY <1>5, <1>7, <3>2, PagingAssumption
      <4>2. t[m - 1] # Nowhere /\ Present(e[t[m - 1]][v[m - 1]])
        BY <1>6, <4>1
      <4>3. t[(m - 1) + 1] = e[t[m - 1]][v[m - 1]].to
        BY <1>1, <4>1, <4>2
      <4> QED  BY <4>1, <4>2, <4>3 DEF Present
    <3> QED  BY <3>1, <3>2
  <2> QED  BY <2>1, <2>2
<1> QED  BY <1>5, <1>6, <1>7 DEF t, m

LEMMA Numbers ==
  /\ Depth \in Nat /\ Depth > 1 /\ MaxFrames \in Nat /\ LastFrame = Depth + MaxFrames - 1
  /\ ImagePage = LastFrame + 1 /\ LowPage = LastFrame + 2 /\ DevicePage = LastFrame + 3
  /\ WildPage = LastFrame + 4 /\ Places = 0..WildPage /\ Nowhere = -1 /\ Kernel = 0
<1> QED  BY PagingAssumption DEF LastFrame, ImagePage, LowPage, DevicePage, WildPage, Places,
              Nowhere, Kernel

LEMMA SlotFacts ==
  /\ KernelSlots \subseteq Slots /\ Text[1] \in KernelSlots /\ Text[1] \in Slots
  /\ \A v \in ProgramPages \cup {Trampoline, Registers} : v \in Addresses /\ v[1] \notin KernelSlots
  /\ \A v \in BufferPages \cup LibraryPages \cup {Text} : v \in Addresses /\ v[1] \in KernelSlots
<1> QED  BY PagingAssumption DEF Addresses

LEMMA AddressesHaveSlots == \A v \in Addresses, d \in 1..Depth : v[d] \in Slots
<1> QED  BY PagingAssumption

\* The d-th table of a walk is of level d.
LEMMA OnWay ==
  ASSUME NEW top, NEW rank, NEW e, NEW roots, Ranked(rank, e, top, roots),
         NEW root \in roots, NEW v, \A d \in 1..Depth : v[d] \in Slots
  PROVE  LET t == TablesIn(e, root, v)
         IN  \A d \in 1..Depth : t[d] # Nowhere => t[d] \in 0..top /\ rank[t[d]] = d
<1> DEFINE t == TablesIn(e, root, v)
           S == {d \in Nat \ {0} : d <= Depth /\ t[d] # Nowhere => t[d] \in 0..top /\ rank[t[d]] = d}
<1>1. t[1] = root /\ \A d \in 1..(Depth - 1) :
                       t[d + 1] = IF t[d] = Nowhere THEN Nowhere ELSE e[t[d]][v[d]].to
  BY Walk
<1> HIDE DEF t
<1>2. 1 \in S
  BY <1>1 DEF Ranked
<1>3. ASSUME NEW d \in Nat \ {0}, d \in S PROVE d + 1 \in S
  <2> SUFFICES ASSUME d + 1 <= Depth, t[d + 1] # Nowhere
               PROVE  t[d + 1] \in 0..top /\ rank[t[d + 1]] = d + 1
    OBVIOUS
  <2>1. d \in 1..(Depth - 1) /\ d < Depth /\ d <= Depth
    BY Numbers
  <2>2. t[d] # Nowhere /\ t[d + 1] = e[t[d]][v[d]].to
    BY <1>1, <2>1
  <2>3. t[d] \in 0..top /\ rank[t[d]] = d
    BY <1>3, <2>1, <2>2
  <2>4. v[d] \in Slots
    BY <2>1, Numbers
  <2> QED  BY <2>1, <2>2, <2>3, <2>4 DEF Ranked
<1>4. \A d \in Nat \ {0} : d \in S
  <2> HIDE DEF S
  <2> QED  BY <1>2, <1>3, SetInduction
<1>5. \A d \in 1..Depth : t[d] # Nowhere => t[d] \in 0..top /\ rank[t[d]] = d
  BY <1>4
<1> QED  BY <1>5 DEF t

\* A walk that goes into a process's own half stays in that process's tables, and a walk
\* of the kernel stays out of them.
LEMMA OnOwnWay ==
  ASSUME NEW top, NEW rank, NEW ours, NEW e, NEW roots, Ordered(rank, ours, e, top, roots),
         NEW root \in roots, NEW v, \A d \in 1..Depth : v[d] \in Slots,
         root # Kernel => v[1] \notin KernelSlots
  PROVE  LET t == TablesIn(e, root, v)
         IN  \A d \in 2..Depth : t[d] # Nowhere => (t[d] \in ours <=> root # Kernel)
<1> DEFINE t == TablesIn(e, root, v)
           S == {d \in Nat \ {0} : d # 1 /\ d <= Depth /\ t[d] # Nowhere =>
                                   (t[d] \in ours <=> root # Kernel)}
<1>0. /\ Ranked(rank, e, top, roots) /\ Open(rank, ours, e, top, roots)
  BY DEF Ordered
<1>1. t[1] = root /\ \A d \in 1..(Depth - 1) :
                       t[d + 1] = IF t[d] = Nowhere THEN Nowhere ELSE e[t[d]][v[d]].to
  BY Walk
<1>2. \A d \in 1..Depth : t[d] # Nowhere => t[d] \in 0..top /\ rank[t[d]] = d
  BY <1>0, OnWay
<1> HIDE DEF t
<1>3. 1 \in S
  OBVIOUS
<1>4. ASSUME NEW d \in Nat \ {0}, d \in S PROVE d + 1 \in S
  <2> SUFFICES ASSUME d + 1 <= Depth, t[d + 1] # Nowhere
               PROVE  t[d + 1] \in ours <=> root # Kernel
    OBVIOUS
  <2>1. d \in 1..(Depth - 1) /\ d < Depth /\ d <= Depth /\ d \in 1..Depth
    BY Numbers
  <2>2. t[d] # Nowhere /\ t[d + 1] = e[t[d]][v[d]].to
    BY <1>1, <2>1
  <2>3. t[d] \in 0..top /\ rank[t[d]] = d /\ v[d] \in Slots
    BY <1>2, <2>1, <2>2
  <2>4. Present(e[t[d]][v[d]])
    BY <2>2 DEF Present
  <2>5. CASE d = 1 /\ root # Kernel
    BY <1>0, <1>1, <2>2, <2>3, <2>4, <2>5 DEF Open
  <2>6. CASE d = 1 /\ root = Kernel
    BY <1>0, <1>1, <2>2, <2>3, <2>6 DEF Open
  <2>7. CASE d # 1 /\ root # Kernel
    <3>1. t[d] \in ours
      BY <1>4, <2>1, <2>2, <2>7
    <3> QED  BY <1>0, <2>1, <2>2, <2>3, <2>4, <2>7, <3>1 DEF Open
  <2>8. CASE d # 1 /\ root = Kernel
    <3>1. t[d] \in (0..top) \ ours /\ 1 < d
      BY <1>4, <2>1, <2>2, <2>3, <2>8
    <3> QED  BY <1>0, <2>1, <2>2, <2>3, <2>8, <3>1 DEF Open
  <2> QED  BY <2>5, <2>6, <2>7, <2>8
<1>5. \A d \in Nat \ {0} : d \in S
  <2> HIDE DEF S
  <2> QED  BY <1>3, <1>4, SetInduction
<1>6. \A d \in 2..Depth : t[d] # Nowhere => (t[d] \in ours <=> root # Kernel)
  BY <1>5, Numbers
<1> QED  BY <1>6 DEF t

-----------------------------------------------------------------------------
(* Mapping a page.                                                         *)

\* e2 is the memory e after a walk to v has been completed: it ended at level m, in the
\* table p, and the new tables lie behind the frame base.
Completes(e2, e, p, v, m, base, page, user) ==
  \A f \in Places, s \in Slots :
    e2[f][s] = IF f = p /\ s = v[m]
                 THEN Entry(IF m = Depth THEN page ELSE base + 1, user)
               ELSE IF f \in (base + 1)..(base + Depth - m)
                 THEN IF s = v[m + f - base]
                        THEN Entry(IF m + f - base = Depth THEN page ELSE f + 1, user)
                        ELSE Absent
               ELSE e[f][s]

LEMMA Fields ==
  /\ \A to, user : Entry(to, user).to = to /\ Entry(to, user).user = user
  /\ Absent.to = Nowhere /\ ~Present(Absent)
<1> QED  BY DEF Entry, Absent, Present

\* A walk to v from root has ended at level m, in the table p, and can be completed.
CanComplete(rank, ours, e, top, roots, root, v, m, p, base, page, user) ==
  /\ top \in Nat /\ Kernel \in roots /\ Ordered(rank, ours, e, top, roots)
  /\ root \in roots /\ \A d \in 1..Depth : v[d] \in Slots
  /\ m \in 1..Depth /\ p \in 0..top /\ rank[p] = m /\ ~Present(e[p][v[m]])
  /\ m = 1 => p = root
  /\ m # 1 => (p \in ours <=> root # Kernel)
  /\ base \in Nat /\ top <= base /\ base + Depth - m <= LastFrame
  /\ page \in Special \cup ((top + 1)..base)
  /\ root # Kernel => user = TRUE /\ v[1] \notin KernelSlots

LEMMA Extended ==
  ASSUME NEW rank, NEW ours, NEW e, NEW top, NEW roots, NEW root, NEW v, NEW m, NEW p,
         NEW base, NEW page, NEW user,
         CanComplete(rank, ours, e, top, roots, root, v, m, p, base, page, user),
         NEW e2, Completes(e2, e, p, v, m, base, page, user)
  PROVE  \E rank2 \in [0..(base + Depth - m) -> 1..(Depth + 1)],
            ours2 \in SUBSET (0..(base + Depth - m)) :
           Ordered(rank2, ours2, e2, base + Depth - m, roots)
<1> USE SlotFacts DEF CanComplete
<1>0. /\ \A f \in 0..base, s \in Slots : f # p \/ s # v[m] => e2[f][s] = e[f][s]
      /\ e2[p][v[m]].to = (IF m = Depth THEN page ELSE base + 1)
      /\ e2[p][v[m]].user = user
      /\ \A f \in (base + 1)..(base + Depth - m), s \in Slots :
           /\ m + f - base \in (m + 1)..Depth
           /\ s # v[m + f - base] => e2[f][s] = Absent
           /\ s = v[m + f - base] =>
                /\ e2[f][s].to = (IF m + f - base = Depth THEN page ELSE f + 1)
                /\ e2[f][s].user = user
  <2>1. 0..base \subseteq Places /\ (base + 1)..(base + Depth - m) \subseteq Places /\ p \in 0..base
    <3>1. /\ Depth \in Nat /\ LastFrame \in Int /\ WildPage = LastFrame + 4 /\ Places = 0..WildPage
      BY Numbers
    <3>2. base <= LastFrame
      BY <3>1
    <3> QED  BY <3>1, <3>2
  <2>2. v[m] \in Slots /\ \A f \in 0..base : f \notin (base + 1)..(base + Depth - m)
    OBVIOUS
  <2>3. \A f \in 0..base, s \in Slots : f # p \/ s # v[m] => e2[f][s] = e[f][s]
    BY <2>1, <2>2 DEF Completes
  <2>4. e2[p][v[m]] = Entry(IF m = Depth THEN page ELSE base + 1, user)
    BY <2>1, <2>2 DEF Completes
  <2>5. \A f \in (base + 1)..(base + Depth - m) : m + f - base \in (m + 1)..Depth /\ f # p
    <3>1. Depth \in Nat
      BY Numbers
    <3> QED  BY <2>1, <3>1
  <2>6. \A f \in (base + 1)..(base + Depth - m), s \in Slots :
          e2[f][s] = IF s = v[m + f - base]
                     THEN Entry(IF m + f - base = Depth THEN page ELSE f + 1, user)
                     ELSE Absent
    BY <2>1, <2>5 DEF Completes
  <2> QED  BY <2>3, <2>4, <2>5, <2>6, Fields
<1> DEFINE fresh == (base + 1)..(base + Depth - m)
           top2 == base + Depth - m
           rank2 == [f \in 0..top2 |-> IF f <= top THEN rank[f]
                                       ELSE IF f <= base THEN Depth + 1 ELSE m + f - base]
           ours2 == IF root = Kernel THEN ours ELSE ours \cup fresh
<1>1. /\ Ranked(rank, e, top, roots) /\ Single(rank, e, top)
      /\ Shared(e, roots) /\ Open(rank, ours, e, top, roots)
  BY DEF Ordered
<1>2. /\ \A f \in 0..top, s \in Slots : f # p \/ s # v[m] => e2[f][s] = e[f][s]
      /\ e2[p][v[m]].to = (IF m = Depth THEN page ELSE base + 1)
      /\ e2[p][v[m]].user = user
      /\ \A f \in fresh, s \in Slots :
           /\ m + f - base \in (m + 1)..Depth
           /\ s # v[m + f - base] => e2[f][s] = Absent
           /\ s = v[m + f - base] =>
                /\ e2[f][s].to = (IF m + f - base = Depth THEN page ELSE f + 1)
                /\ e2[f][s].user = user
  BY <1>0
<1>3. /\ rank \in [0..top -> 1..(Depth + 1)] /\ top2 \in Nat /\ top2 >= base /\ v[m] \in Slots
      /\ Depth \in Nat /\ Depth > 1
      /\ \A f \in 0..top : rank[f] \in 1..(Depth + 1)
  <2>1. rank \in [0..top -> 1..(Depth + 1)]
    BY <1>1 DEF Ranked
  <2>2. Depth \in Nat /\ Depth > 1
    BY Numbers
  <2>3. top2 \in Nat /\ top2 >= base
    BY <2>2
  <2>4. \A f \in 0..top : rank[f] \in 1..(Depth + 1)
    BY <2>1
  <2> QED  BY <2>1, <2>2, <2>3, <2>4
<1>4. /\ rank2 \in [0..top2 -> 1..(Depth + 1)]
      /\ \A f \in 0..top : f \in 0..top2 /\ rank2[f] = rank[f] /\ f \notin fresh
      /\ \A f \in (top + 1)..base : f \in 0..top2 /\ rank2[f] = Depth + 1
      /\ \A f \in fresh : f \in 0..top2 /\ rank2[f] = m + f - base
      /\ \A f \in 0..top2 : f \in 0..top \/ f \in (top + 1)..base \/ f \in fresh
  BY <1>3
<1>5. /\ m # Depth => base + 1 \in fresh /\ rank2[base + 1] = m + 1
      /\ \A f \in fresh : m + f - base # Depth => f + 1 \in fresh /\ rank2[f + 1] = rank2[f] + 1
  <2>1. m # Depth => base + 1 \in fresh /\ m + (base + 1) - base = m + 1
    BY <1>3
  <2>2. ASSUME NEW f \in fresh, m + f - base # Depth
        PROVE  f + 1 \in fresh /\ m + (f + 1) - base = (m + f - base) + 1
    BY <1>3, <2>2
  <2> QED  BY <1>4, <2>1, <2>2
<1>6. /\ page # Nowhere /\ page \notin fresh /\ page \notin 0..top
      /\ page \in Special \/ (page \in 0..top2 /\ rank2[page] = Depth + 1)
      /\ Nowhere \notin fresh /\ Nowhere \notin 0..top2
  BY <1>3, <1>4, Numbers DEF Special
<1> HIDE DEF fresh, rank2, top2
<1>7. Ranked(rank2, e2, top2, roots)
  <2>1. \A r \in roots : r \in 0..top2 /\ rank2[r] = 1
    BY <1>1, <1>4 DEF Ranked
  <2>2. ASSUME NEW f \in 0..top2, NEW s \in Slots, e2[f][s].to # Nowhere
        PROVE  /\ rank2[f] < Depth => e2[f][s].to \in 0..top2 /\ rank2[e2[f][s].to] = rank2[f] + 1
               /\ rank2[f] = Depth => \/ e2[f][s].to \in Special
                                      \/ e2[f][s].to \in 0..top2 /\ rank2[e2[f][s].to] = Depth + 1
    <3>1. CASE f \in 0..top /\ (f # p \/ s # v[m])
      <4>1. e2[f][s] = e[f][s] /\ rank2[f] = rank[f]
        BY <1>2, <1>4, <3>1
      <4>2. /\ rank[f] < Depth => e[f][s].to \in 0..top /\ rank[e[f][s].to] = rank[f] + 1
            /\ rank[f] = Depth => \/ e[f][s].to \in Special
                                  \/ e[f][s].to \in 0..top /\ rank[e[f][s].to] = Depth + 1
        BY <1>1, <2>2, <3>1, <4>1 DEF Ranked
      <4> QED  BY <1>4, <4>1, <4>2
    <3>2. CASE f = p /\ s = v[m]
      <4>1. rank2[f] = m /\ e2[f][s].to = (IF m = Depth THEN page ELSE base + 1)
        BY <1>2, <1>4, <3>2
      <4> QED  BY <1>3, <1>4, <1>5, <1>6, <4>1
    <3>3. CASE f \in (top + 1)..base
      BY <1>3, <1>4, <3>3
    <3>4. CASE f \in fresh
      <4>1. s = v[m + f - base] /\ rank2[f] = m + f - base
        BY <1>2, <1>4, <2>2, <3>4, Fields
      <4>2. e2[f][s].to = (IF m + f - base = Depth THEN page ELSE f + 1)
        BY <1>2, <3>4, <4>1
      <4> QED  BY <1>3, <1>4, <1>5, <1>6, <3>4, <4>1, <4>2
    <3> QED  BY <1>4, <3>1, <3>2, <3>3, <3>4
  <2> QED  BY <1>4, <2>1, <2>2 DEF Ranked
<1>8. Single(rank2, e2, top2)
  <2> DEFINE Old(f, s) == f \in 0..top /\ (f # p \/ s # v[m])
  <2>1. ASSUME NEW f \in 0..top2, NEW s \in Slots, rank2[f] < Depth, e2[f][s].to # Nowhere
        PROVE  \/ /\ Old(f, s) /\ rank2[f] = rank[f] /\ e2[f][s] = e[f][s] /\ e[f][s].to \in 0..top
               \/ /\ f = p /\ s = v[m] /\ e2[f][s].to = base + 1
               \/ /\ f \in fresh /\ s = v[m + f - base] /\ e2[f][s].to = f + 1
    <3>1. CASE Old(f, s)
      BY <1>1, <1>2, <1>4, <2>1, <3>1 DEF Ranked
    <3>2. CASE f = p /\ s = v[m]
      BY <1>2, <1>3, <1>4, <2>1, <3>2
    <3>3. CASE f \in (top + 1)..base
      BY <1>3, <1>4, <2>1, <3>3
    <3>4. CASE f \in fresh
      <4>1. s = v[m + f - base] /\ rank2[f] = m + f - base
        BY <1>2, <1>4, <2>1, <3>4, Fields
      <4>2. e2[f][s].to = (IF m + f - base = Depth THEN page ELSE f + 1)
        BY <1>2, <3>4, <4>1
      <4> QED  BY <1>3, <2>1, <3>4, <4>1, <4>2
    <3> QED  BY <1>4, <3>1, <3>2, <3>3, <3>4
  <2>2. \A f \in fresh : f \in Nat /\ f > base
    BY DEF fresh
  <2> SUFFICES ASSUME NEW f \in 0..top2, NEW g \in 0..top2, NEW s \in Slots, NEW u \in Slots,
                      rank2[f] < Depth, rank2[g] < Depth, e2[f][s].to # Nowhere,
                      e2[f][s].to = e2[g][u].to
               PROVE  s = u /\ (f = g \/ rank2[f] = 1)
    BY DEF Single
  <2>3. CASE Old(f, s) /\ rank2[f] = rank[f] /\ e2[f][s] = e[f][s] /\ e[f][s].to \in 0..top
    <3>1. Old(g, u) /\ rank2[g] = rank[g] /\ e2[g][u] = e[g][u]
      BY <2>1, <2>2, <2>3
    <3> QED  BY <1>1, <2>3, <3>1 DEF Single
  <2>4. CASE f = p /\ s = v[m] /\ e2[f][s].to = base + 1
    BY <2>1, <2>2, <2>4
  <2>5. CASE f \in fresh /\ s = v[m + f - base] /\ e2[f][s].to = f + 1
    BY <2>1, <2>2, <2>5
  <2> QED  BY <2>1, <2>3, <2>4, <2>5, <1>0
<1>9. Shared(e2, roots)
  <2> SUFFICES ASSUME NEW r \in roots
               PROVE  /\ Present(e2[r][Text[1]])
                      /\ \A s \in KernelSlots : Present(e2[r][s]) => e2[r][s] = e2[Kernel][s]
    BY DEF Shared
  <2>1. \A q \in roots : q \in 0..top /\ (q = p => m = 1 /\ q = root)
    BY <1>1 DEF Ranked
  <2>2. \A q \in roots, s \in Slots : ~(q = root /\ m = 1 /\ s = v[1]) => e2[q][s] = e[q][s]
    BY <1>2, <2>1
  <2>3. \A q \in roots, s \in Slots :
          q = root /\ m = 1 /\ s = v[1] => Present(e2[q][s]) /\ ~Present(e[q][s])
    <3> SUFFICES ASSUME m = 1
                 PROVE  Present(e2[root][v[1]]) /\ ~Present(e[root][v[1]])
      OBVIOUS
    <3>1. p = root /\ m # Depth /\ base + 1 # Nowhere
      BY <1>3 DEF Nowhere
    <3>2. e2[root][v[1]].to = base + 1
      BY <1>2, <3>1
    <3> QED  BY <3>1, <3>2 DEF Present
  <2>4. Present(e2[r][Text[1]])
    BY <1>1, <2>2, <2>3 DEF Shared
  <2>5. ASSUME NEW s \in KernelSlots, Present(e2[r][s]) PROVE e2[r][s] = e2[Kernel][s]
    <3>1. CASE root # Kernel
      BY <1>1, <2>2, <2>5, <3>1 DEF Shared
    <3>2. CASE r = Kernel
      BY <3>2
    <3>3. CASE root = Kernel /\ r # Kernel
      <4>1. e2[r][s] = e[r][s] /\ e[r][s] = e[Kernel][s]
        BY <1>1, <2>2, <2>5, <3>3 DEF Shared
      <4>2. Present(e[Kernel][s])
        BY <2>5, <4>1
      <4> QED  BY <2>2, <2>3, <3>3, <4>1, <4>2
    <3> QED  BY <3>1, <3>2, <3>3
  <2> QED  BY <2>4, <2>5
<1>10. Open(rank2, ours2, e2, top2, roots)
  <2>1. ours \subseteq 0..top /\ ours2 \subseteq 0..top2 /\ fresh \subseteq 0..top2
    BY <1>1, <1>4 DEF Open, fresh, top2
  <2>2. \A q \in roots : q \in 0..top /\ rank[q] = 1
    BY <1>1 DEF Ranked
  <2>3. ASSUME NEW r \in roots \ {Kernel}, NEW s \in Slots \ KernelSlots, Present(e2[r][s])
        PROVE  e2[r][s].user /\ e2[r][s].to \in ours2
    <3>1. CASE r = p /\ s = v[m]
      <4>1. m = 1 /\ root = r /\ m # Depth
        BY <1>3, <2>2, <3>1
      <4>2. user = TRUE /\ ours2 = ours \cup fresh
        BY <2>3, <4>1
      <4>3. e2[r][s].to = base + 1 /\ e2[r][s].user = user
        BY <1>2, <3>1, <4>1
      <4> HIDE DEF ours2
      <4> QED  BY <1>5, <4>1, <4>2, <4>3
    <3>2. CASE r # p \/ s # v[m]
      BY <1>1, <1>2, <2>2, <2>3, <3>2 DEF Open
    <3> QED  BY <3>1, <3>2
  <2>4. ASSUME NEW f \in ours2, NEW s \in Slots, Present(e2[f][s])
        PROVE  e2[f][s].user /\ (rank2[f] < Depth => e2[f][s].to \in ours2)
    <3>1. CASE f \in ours /\ ~(f = p /\ s = v[m])
      <4>1. f \in 0..top /\ rank2[f] = rank[f] /\ e2[f][s] = e[f][s]
        BY <1>2, <1>4, <2>1, <3>1
      <4>2. e2[f][s].user /\ (rank2[f] < Depth => e2[f][s].to \in ours)
        BY <1>1, <2>4, <3>1, <4>1 DEF Open
      <4> QED  BY <4>2
    <3>2. CASE f \in ours /\ f = p /\ s = v[m]
      <4>1. root # Kernel
        <5>1. CASE m = 1
          <6>1. p = root
            BY <5>1
          <6> QED  BY <1>1, <3>2, <6>1 DEF Open
        <5>2. CASE m # 1
          BY <3>2, <5>2
        <5> QED  BY <5>1, <5>2
      <4>2. rank2[f] = m
        BY <1>4, <3>2
      <4>3. e2[f][s].user = user /\ e2[f][s].to = (IF m = Depth THEN page ELSE base + 1)
        BY <1>2, <3>2
      <4>4. user = TRUE /\ ours2 = ours \cup fresh
        BY <4>1
      <4> HIDE DEF ours2
      <4> QED  BY <1>5, <4>2, <4>3, <4>4
    <3>3. CASE f \in fresh /\ root # Kernel
      <4>1. s = v[m + f - base] /\ rank2[f] = m + f - base
        BY <1>2, <1>4, <2>4, <3>3, Fields
      <4>2. e2[f][s].user = user /\ e2[f][s].to = (IF m + f - base = Depth THEN page ELSE f + 1)
        <5>1. /\ s = v[m + f - base] =>
                   /\ e2[f][s].to = (IF m + f - base = Depth THEN page ELSE f + 1)
                   /\ e2[f][s].user = user
          BY <1>2, <3>3
        <5> QED  BY <4>1, <5>1
      <4>3. user = TRUE /\ ours2 = ours \cup fresh
        BY <3>3
      <4>4. rank2[f] < Depth => m + f - base # Depth
        BY <1>3, <4>1
      <4>5. rank2[f] < Depth => e2[f][s].to \in fresh
        BY <1>5, <3>3, <4>2, <4>4
      <4> HIDE DEF ours2
      <4> QED  BY <4>2, <4>3, <4>5
    <3> QED  BY <3>1, <3>2, <3>3
  <2>5. ASSUME NEW s \in Slots PROVE e2[Kernel][s].to \notin ours2
    <3>1. CASE Kernel = p /\ s = v[m]
      <4>1. root = Kernel /\ m # Depth
        BY <1>1, <1>3, <2>2, <3>1 DEF Open
      <4>2. e2[Kernel][s].to = base + 1 /\ ours2 = ours
        BY <1>2, <3>1, <4>1
      <4>3. base + 1 \notin 0..top
        OBVIOUS
      <4> QED  BY <2>1, <4>2, <4>3
    <3>2. CASE ~(Kernel = p /\ s = v[m])
      <4>1. e2[Kernel][s] = e[Kernel][s]
        BY <1>2, <2>2, <3>2
      <4>2. e[Kernel][s].to \in 0..top \/ e[Kernel][s].to = Nowhere
        BY <1>1, <1>3, <2>2 DEF Ranked
      <4>3. e[Kernel][s].to \notin ours /\ e[Kernel][s].to \notin fresh
        BY <1>1, <1>4, <1>6, <4>2 DEF Open
      <4> QED  BY <4>1, <4>3
    <3> QED  BY <3>1, <3>2
  <2>6. ASSUME NEW f \in (0..top2) \ ours2, NEW s \in Slots, 1 < rank2[f], rank2[f] < Depth
        PROVE  e2[f][s].to \notin ours2
    <3>1. CASE f \in 0..top /\ ~(f = p /\ s = v[m])
      <4>1. rank2[f] = rank[f] /\ e2[f][s] = e[f][s] /\ f \notin ours
        BY <1>2, <1>4, <2>6, <3>1
      <4>2. e[f][s].to \in 0..top \/ e[f][s].to = Nowhere
        BY <1>1, <2>6, <3>1, <4>1 DEF Ranked
      <4>3. e[f][s].to \notin ours
        BY <1>1, <2>6, <3>1, <4>1 DEF Open
      <4>4. e[f][s].to \notin fresh
        BY <1>4, <1>6, <4>2
      <4> QED  BY <4>1, <4>3, <4>4
    <3>2. CASE f = p /\ s = v[m]
      <4>1. rank2[f] = m /\ m # 1 /\ m # Depth
        BY <1>3, <1>4, <2>6, <3>2
      <4>2. root = Kernel /\ ours2 = ours
        BY <2>6, <3>2, <4>1
      <4>3. e2[f][s].to = base + 1 /\ base + 1 \notin 0..top
        BY <1>2, <3>2, <4>1
      <4> QED  BY <2>1, <4>2, <4>3
    <3>3. CASE f \in (top + 1)..base
      BY <1>3, <1>4, <2>6, <3>3
    <3>4. CASE f \in fresh
      <4>1. ours2 = ours
        BY <2>6, <3>4
      <4>2. rank2[f] = m + f - base /\ m + f - base # Depth
        BY <1>3, <1>4, <2>6, <3>4
      <4>3. e2[f][s].to \in {f + 1, Nowhere}
        BY <1>2, <3>4, <4>2, Fields
      <4>4. f + 1 \notin 0..top /\ Nowhere \notin 0..top
        BY <1>6, <3>4, Numbers DEF fresh
      <4> QED  BY <2>1, <4>1, <4>3, <4>4
    <3> QED  BY <1>4, <3>1, <3>2, <3>3, <3>4
  <2>7. ours2 \cap roots = {}
    <3>1. \A q \in roots : q \notin fresh
      BY <1>4, <2>2
    <3> QED  BY <1>1, <3>1 DEF Open
  <2> HIDE DEF ours2
  <2> QED  BY <2>1, <2>3, <2>4, <2>5, <2>6, <2>7 DEF Open
<1>11. ours2 \in SUBSET (0..top2)
  BY <1>10 DEF Open
<1>12. Ordered(rank2, ours2, e2, top2, roots)
  <2> HIDE DEF ours2
  <2> QED  BY <1>7, <1>8, <1>9, <1>10 DEF Ordered
<1> HIDE DEF ours2
<1>13. \E r2 \in [0..top2 -> 1..(Depth + 1)], o2 \in SUBSET (0..top2) :
         Ordered(r2, o2, e2, top2, roots)
  BY <1>4, <1>11, <1>12
<1> QED  BY <1>13 DEF top2

\* What MapPage does: nothing to a walk that is complete, else it completes it.
LEMMA PageMapped ==
  ASSUME Types, NEW root \in structures, NEW v, \A d \in 1..Depth : v[d] \in Slots,
         NEW page, NEW user, NEW taken \in {0, 1}, MapPage(root, v, page, user, taken),
         NEW rank, Ranked(rank, entry, Top, structures)
  PROVE  LET m == FirstMissingIn(entry, root, v)
             p == TablesIn(entry, root, v)[m]
         IN  /\ stack_position' <= MaxFrames
             /\ m = Depth + 1 => entry' = entry /\ stack_position' = stack_position + taken
             /\ m \in 1..Depth =>
                  /\ stack_position' = stack_position + taken + Depth - m
                  /\ Completes(entry', entry, p, v, m, Top + taken, page, user)
                  /\ entry' = [f \in Places |-> [s \in Slots |-> entry'[f][s]]]
             /\ m \in 1..(Depth + 1)
<1> DEFINE t == Tables(root, v)
           m == FirstMissing(root, v)
           p == t[m]
           base == Top + taken
<1>1. /\ stack_position \in Nat /\ stack_position <= MaxFrames /\ entry \in Memories
      /\ structures \subseteq 0..Top
  BY Numbers DEF Types
<1>2. Depth \in Nat /\ Depth > 1 /\ MaxFrames \in Nat /\ Top \in Nat /\ base \in Nat /\ base >= Top
  BY <1>1, Numbers DEF Top
<1>3. root \in Places
  <2>1. root \in 0..Top /\ Top <= LastFrame + 4
    BY <1>1, Numbers DEF Top
  <2>2. Top \in Nat /\ LastFrame \in Nat /\ Places = 0..(LastFrame + 4)
    BY <1>2, Numbers
  <2> QED  BY <2>1, <2>2
<1>0. t = TablesIn(entry, root, v) /\ m = FirstMissingIn(entry, root, v)
  BY TablesAreThere, WalksAreThere
<1>4. /\ m \in 1..(Depth + 1)
      /\ m <= Depth => t[m] # Nowhere
  <2>1. LET a == TablesIn(entry, root, v)
            b == FirstMissingIn(entry, root, v)
        IN  b \in 1..(Depth + 1) /\ (b <= Depth => a[b] # Nowhere)
    BY <1>3, WalkEnds
  <2> HIDE DEF t, m
  <2> QED  BY <1>0, <2>1
<1>5. m <= Depth => p \in 0..Top
  <2>1. \A d \in 1..Depth : t[d] # Nowhere => t[d] \in 0..Top
    BY <1>0, OnWay
  <2> QED  BY <1>2, <1>4, <2>1
<1>6. \A k \in Int : Frame(k) = Top + k
  BY Numbers, <1>1 DEF Frame, Top
<1> DEFINE levels == m..Depth
           new == IF levels = {} THEN {} ELSE levels \ {Min(levels)}
           table == [d \in levels |-> IF d \in new THEN Frame(taken + d - Min(levels)) ELSE t[d]]
           fresh == {table[d] : d \in new}
           word(f, s) == {d \in levels : f = table[d] /\ s = v[d]}
           value(d) == Entry(IF d = Depth THEN page ELSE table[d + 1], user)
<1>7. /\ stack_position + taken + Cardinality(new) <= MaxFrames
      /\ stack_position' = stack_position + taken + Cardinality(new)
      /\ entry' = [f \in Places |-> [s \in Slots |->
                     IF word(f, s) # {} THEN value(Min(word(f, s))) ELSE Cleared(f, fresh)[s]]]
  BY DEF MapPage, LevelsWritten
<1> HIDE DEF t, m
<1>8. CASE m = Depth + 1
  <2>1. levels = {} /\ new = {} /\ fresh = {} /\ \A f, s : word(f, s) = {}
    <3>1. levels = {}
      BY <1>2, <1>8
    <3> HIDE DEF levels
    <3> QED  BY <3>1
  <2>2. Cardinality(new) = 0
    BY <2>1, FS_EmptySet
  <2>3. entry' = [f \in Places |-> [s \in Slots |-> entry[f][s]]]
    BY <1>7, <2>1 DEF Cleared
  <2>4. entry' = entry
    BY <1>1, <2>3 DEF Memories
  <2>5. stack_position' = stack_position + taken /\ stack_position' <= MaxFrames
    BY <1>1, <1>7, <2>2
  <2> QED  BY <1>2, <1>8, <2>4, <2>5, <1>0
<1>9. CASE m # Depth + 1
  <2>1. m \in 1..Depth /\ m \in levels /\ levels \subseteq Nat
    BY <1>2, <1>4, <1>9
  <2>2. Min(levels) = m
    <3>1. Min(levels) \in levels /\ \A n \in levels : Min(levels) <= n
      BY <2>1, SmallestNumber
    <3> QED  BY <1>2, <2>1, <3>1
  <2>3. new = (m + 1)..Depth
    <3>1. new = levels \ {m}
      <4> HIDE DEF levels
      <4> QED  BY <2>1, <2>2
    <3>2. levels \ {m} = (m + 1)..Depth
      BY <1>2, <2>1
    <3> QED  BY <3>1, <3>2
  <2>4. Cardinality(new) = Depth - m
    <3>1. Cardinality((m + 1)..Depth) = IF m + 1 > Depth THEN 0 ELSE Depth - (m + 1) + 1
      BY <1>2, <2>1, FS_Interval
    <3> QED  BY <1>2, <2>1, <2>3, <3>1
  <2>5. /\ table[m] = p
        /\ \A d \in (m + 1)..Depth : d \in levels /\ table[d] = base + d - m
    <3>1. table[m] = p
      <4>1. m \notin new
        <5>1. m \notin (m + 1)..Depth
          BY <2>1
        <5> HIDE DEF new
        <5> QED  BY <2>3, <5>1
      <4> HIDE DEF levels, new
      <4> QED  BY <2>1, <4>1
    <3>2. ASSUME NEW d \in (m + 1)..Depth PROVE d \in levels /\ table[d] = base + d - m
      <4>1. d \in levels /\ d \in new
        BY <2>1, <2>3
      <4>2. table[d] = Frame(taken + d - m)
        BY <2>2, <4>1
      <4>3. taken + d - m \in Int
        BY <2>1
      <4>4. table[d] = Top + (taken + d - m)
        BY <1>6, <4>2, <4>3
      <4> HIDE DEF table
      <4> QED  BY <1>2, <2>1, <4>1, <4>4
    <3> QED  BY <3>1, <3>2
  <2> HIDE DEF table
  <2>6. fresh = (base + 1)..(base + Depth - m)
    <3>1. ASSUME NEW f \in (base + 1)..(base + Depth - m) PROVE f \in fresh
      <4>1. m + f - base \in (m + 1)..Depth /\ f = base + (m + f - base) - m
        BY <1>2, <2>1
      <4> QED  BY <2>3, <2>5, <4>1
    <3>2. ASSUME NEW d \in new PROVE table[d] \in (base + 1)..(base + Depth - m)
      <4>1. d \in (m + 1)..Depth /\ table[d] = base + d - m
        BY <2>3, <2>5
      <4> QED  BY <1>2, <2>1, <4>1
    <3> QED  BY <3>1, <3>2
  <2>7. ASSUME NEW f, NEW d \in levels, f = table[d]
        PROVE  d = IF f = p THEN m ELSE m + f - base
    <3>1. CASE d = m
      BY <2>1, <2>5, <2>7, <3>1
    <3>2. CASE d # m
      <4>1. d \in (m + 1)..Depth
        BY <1>2, <2>1, <3>2
      <4>2. f = base + d - m
        BY <2>5, <2>7, <4>1
      <4>3. f # p
        BY <1>2, <1>5, <2>1, <4>1, <4>2
      <4> QED  BY <1>2, <2>1, <4>1, <4>2, <4>3
    <3> QED  BY <3>1, <3>2
  <2> DEFINE level(f) == IF f = p THEN m ELSE m + f - base
  <2>8. ASSUME NEW f, f = p \/ f \in fresh
        PROVE  level(f) \in levels /\ table[level(f)] = f
    <3>1. CASE f = p
      BY <2>1, <2>5, <3>1
    <3>2. CASE f # p
      <4>1. f \in (base + 1)..(base + Depth - m)
        BY <2>6, <2>8, <3>2
      <4>2. level(f) \in (m + 1)..Depth /\ base + level(f) - m = f
        BY <1>2, <2>1, <3>2, <4>1
      <4> HIDE DEF level
      <4> QED  BY <2>5, <4>2
    <3> QED  BY <3>1, <3>2
  <2>9. ASSUME NEW f, NEW s
        PROVE  word(f, s) = IF (f = p \/ f \in fresh) /\ s = v[level(f)] THEN {level(f)} ELSE {}
    <3>1. ASSUME NEW d \in word(f, s)
          PROVE  (f = p \/ f \in fresh) /\ s = v[level(f)] /\ d = level(f)
      <4>1. d \in levels /\ f = table[d] /\ s = v[d]
        BY <3>1
      <4>2. d = level(f)
        BY <2>7, <4>1
      <4>3. d = m \/ d \in new
        BY <2>2, <4>1
      <4>4. f = p \/ f \in fresh
        BY <2>5, <4>1, <4>3
      <4> QED  BY <4>1, <4>2, <4>4
    <3>2. ASSUME f = p \/ f \in fresh, s = v[level(f)] PROVE level(f) \in word(f, s)
      BY <2>8, <3>2
    <3> HIDE DEF word, level
    <3> QED  BY <3>1, <3>2
  <2>10. ASSUME NEW f \in Places, NEW s \in Slots
         PROVE  entry'[f][s] = IF (f = p \/ f \in fresh) /\ s = v[level(f)] THEN value(level(f))
                               ELSE IF f \in fresh THEN Absent ELSE entry[f][s]
    <3>1. entry'[f][s] = IF word(f, s) # {} THEN value(Min(word(f, s))) ELSE Cleared(f, fresh)[s]
      BY <1>7
    <3>2. Cleared(f, fresh)[s] = IF f \in fresh THEN Absent ELSE entry[f][s]
      BY DEF Cleared, Empty
    <3>3. ASSUME f = p \/ f \in fresh PROVE Min({level(f)}) = level(f)
      <4>1. level(f) \in Nat
        BY <2>1, <2>8, <3>3
      <4> HIDE DEF level
      <4>2. Min({level(f)}) \in {level(f)}
        BY <4>1, SmallestNumber
      <4> QED  BY <4>2
    <3> HIDE DEF word, value, level, fresh
    <3> QED  BY <2>9, <3>1, <3>2, <3>3
  <2>11. value(m) = Entry(IF m = Depth THEN page ELSE base + 1, user)
    <3>1. m # Depth => m + 1 \in (m + 1)..Depth /\ base + (m + 1) - m = base + 1
      BY <1>2, <2>1
    <3> QED  BY <2>5, <3>1
  <2>12. ASSUME NEW f \in fresh
         PROVE  /\ f # p /\ level(f) = m + f - base
                /\ value(level(f)) = Entry(IF m + f - base = Depth THEN page ELSE f + 1, user)
    <3>1. f \in (base + 1)..(base + Depth - m)
      BY <2>6
    <3>2. f # p
      BY <1>2, <1>5, <2>1, <3>1
    <3>3. m + f - base # Depth =>
            m + f - base + 1 \in (m + 1)..Depth /\ base + (m + f - base + 1) - m = f + 1
      BY <1>2, <2>1, <3>1
    <3>4. m + f - base # Depth => table[m + f - base + 1] = f + 1
      BY <2>5, <3>3
    <3> QED  BY <3>2, <3>4
  <2>13. Completes(entry', entry, p, v, m, base, page, user)
    <3> SUFFICES ASSUME NEW f \in Places, NEW s \in Slots
                 PROVE  entry'[f][s] =
                          IF f = p /\ s = v[m]
                            THEN Entry(IF m = Depth THEN page ELSE base + 1, user)
                          ELSE IF f \in fresh
                            THEN IF s = v[m + f - base]
                                   THEN Entry(IF m + f - base = Depth THEN page ELSE f + 1, user)
                                   ELSE Absent
                          ELSE entry[f][s]
      BY <2>6 DEF Completes
    <3>1. CASE f = p
      BY <2>10, <2>11, <2>12, <3>1
    <3>2. CASE f \in fresh
      BY <2>10, <2>12, <3>2
    <3>3. CASE f # p /\ f \notin fresh
      BY <2>10, <3>3
    <3> QED  BY <3>1, <3>2, <3>3
  <2>14. stack_position' = stack_position + taken + Depth - m /\ stack_position' <= MaxFrames
    BY <1>1, <1>2, <1>7, <2>1, <2>4
  <2>15. entry' = [f \in Places |-> [s \in Slots |-> entry'[f][s]]]
    <3> HIDE DEF word, value, fresh
    <3> QED  BY <1>7
  <2> QED  BY <1>2, <1>9, <2>1, <2>13, <2>14, <2>15, <1>0
<1> QED  BY <1>0, <1>8, <1>9

-----------------------------------------------------------------------------
(* The other ways in which the memory changes.                             *)

\* Frames are taken, and nothing leads to them.
LEMMA FramesTaken ==
  ASSUME NEW top \in Nat, NEW rank, NEW ours, NEW e, NEW roots, Kernel \in roots,
         Ordered(rank, ours, e, top, roots), NEW top2 \in Nat, top <= top2
  PROVE  \E rank2 \in [0..top2 -> 1..(Depth + 1)], ours2 \in SUBSET (0..top2) :
           Ordered(rank2, ours2, e, top2, roots)
<1> DEFINE rank2 == [f \in 0..top2 |-> IF f <= top THEN rank[f] ELSE Depth + 1]
<1>1. /\ Ranked(rank, e, top, roots) /\ Single(rank, e, top)
      /\ Shared(e, roots) /\ Open(rank, ours, e, top, roots)
  BY DEF Ordered
<1>2. /\ rank \in [0..top -> 1..(Depth + 1)] /\ Depth \in Nat /\ Depth > 1
      /\ ours \subseteq 0..top
  BY <1>1, Numbers DEF Ranked, Open
<1>3. /\ rank2 \in [0..top2 -> 1..(Depth + 1)]
      /\ \A f \in 0..top : f \in 0..top2 /\ rank2[f] = rank[f]
      /\ \A f \in 0..top2 :
           f \in 0..top \/ (rank2[f] = Depth + 1 /\ ~(rank2[f] < Depth) /\ rank2[f] # Depth)
  BY <1>2
<1> HIDE DEF rank2
<1>4. Ranked(rank2, e, top2, roots)
  <2>1. \A r \in roots : r \in 0..top2 /\ rank2[r] = 1
    BY <1>1, <1>3 DEF Ranked
  <2>2. ASSUME NEW f \in 0..top2, NEW s \in Slots, e[f][s].to # Nowhere
        PROVE  /\ rank2[f] < Depth => e[f][s].to \in 0..top2 /\ rank2[e[f][s].to] = rank2[f] + 1
               /\ rank2[f] = Depth => \/ e[f][s].to \in Special
                                      \/ e[f][s].to \in 0..top2 /\ rank2[e[f][s].to] = Depth + 1
    <3>1. CASE f \in 0..top
      <4>1. /\ rank[f] < Depth => e[f][s].to \in 0..top /\ rank[e[f][s].to] = rank[f] + 1
            /\ rank[f] = Depth => \/ e[f][s].to \in Special
                                  \/ e[f][s].to \in 0..top /\ rank[e[f][s].to] = Depth + 1
        BY <1>1, <2>2, <3>1 DEF Ranked
      <4> QED  BY <1>3, <3>1, <4>1
    <3>2. CASE f \notin 0..top
      BY <1>3, <3>2
    <3> QED  BY <3>1, <3>2
  <2> QED  BY <1>3, <2>1, <2>2 DEF Ranked
<1>5. Single(rank2, e, top2)
  BY <1>1, <1>3 DEF Single
<1>6. Open(rank2, ours, e, top2, roots)
  <2>1. ours \subseteq 0..top2
    BY <1>2, <1>3
  <2> QED  BY <1>1, <1>2, <1>3, <2>1 DEF Open
<1>7. ours \in SUBSET (0..top2) /\ Ordered(rank2, ours, e, top2, roots)
  BY <1>1, <1>2, <1>3, <1>4, <1>5, <1>6 DEF Ordered
<1> QED  BY <1>3, <1>7

\* A leaf is cleared.
LEMMA LeafCleared ==
  ASSUME NEW top \in Nat, NEW rank, NEW ours, NEW e, NEW roots, Kernel \in roots,
         Ordered(rank, ours, e, top, roots),
         NEW p \in 0..top, rank[p] = Depth, NEW x \in Slots,
         NEW e2, \A f \in 0..top, s \in Slots :
                   e2[f][s] = IF f = p /\ s = x THEN Absent ELSE e[f][s],
         KernelSlots \subseteq Slots, Text[1] \in Slots
  PROVE  Ordered(rank, ours, e2, top, roots)
<1>1. /\ Ranked(rank, e, top, roots) /\ Single(rank, e, top)
      /\ Shared(e, roots) /\ Open(rank, ours, e, top, roots)
  BY DEF Ordered
<1>2. Depth \in Nat /\ Depth > 1
  BY Numbers
<1>3. \A f \in 0..top, s \in Slots : e2[f][s] = e[f][s] \/ (f = p /\ ~Present(e2[f][s]))
  BY Fields
<1>4. \A r \in roots, s \in Slots : r \in 0..top /\ rank[r] = 1 /\ r # p /\ e2[r][s] = e[r][s]
  BY <1>1, <1>2 DEF Ranked
<1>5. Ranked(rank, e2, top, roots)
  <2>1. \A f \in 0..top, s \in Slots : e2[f][s].to # Nowhere => e2[f][s] = e[f][s]
    BY <1>3 DEF Present
  <2>2. ASSUME NEW f \in 0..top, NEW s \in Slots, e2[f][s].to # Nowhere
        PROVE  /\ rank[f] < Depth => e2[f][s].to \in 0..top /\ rank[e2[f][s].to] = rank[f] + 1
               /\ rank[f] = Depth => \/ e2[f][s].to \in Special
                                     \/ e2[f][s].to \in 0..top /\ rank[e2[f][s].to] = Depth + 1
    <3>1. e2[f][s] = e[f][s]
      BY <2>1, <2>2
    <3>2. /\ rank[f] < Depth => e[f][s].to \in 0..top /\ rank[e[f][s].to] = rank[f] + 1
          /\ rank[f] = Depth => \/ e[f][s].to \in Special
                                \/ e[f][s].to \in 0..top /\ rank[e[f][s].to] = Depth + 1
      BY <1>1, <2>2, <3>1 DEF Ranked
    <3> QED  BY <3>1, <3>2
  <2> QED  BY <1>1, <2>2 DEF Ranked
<1>6. Single(rank, e2, top)
  <2>1. \A f \in 0..top, s \in Slots : rank[f] < Depth => e2[f][s] = e[f][s]
    BY <1>2, <1>3
  <2> QED  BY <1>1, <2>1 DEF Single
<1>7. Shared(e2, roots)
  BY <1>1, <1>4 DEF Shared
<1>8. Open(rank, ours, e2, top, roots)
  <2>1. ours \subseteq 0..top
    BY <1>1 DEF Open
  <2>2. \A f \in 0..top, s \in Slots : rank[f] < Depth => e2[f][s] = e[f][s]
    BY <1>2, <1>3
  <2> QED  BY <1>1, <1>3, <1>4, <2>1, <2>2 DEF Open
<1> QED  BY <1>5, <1>6, <1>7, <1>8 DEF Ordered

\* A top-level table is made of the kernel's upper half and the lower half of another.
AddsRoot(e2, e, top, roots, lower) ==
  /\ lower = Empty \/ \E r \in roots \ {Kernel} : lower = e[r]
  /\ \A f \in 0..top : e2[f] = e[f]
  /\ \A s \in Slots : e2[top + 1][s] = IF s \in KernelSlots THEN e[Kernel][s] ELSE lower[s]

LEMMA RootAdded ==
  ASSUME NEW top \in Nat, NEW rank, NEW ours, NEW e, NEW roots, Kernel \in roots,
         Ordered(rank, ours, e, top, roots),
         NEW lower, NEW e2, AddsRoot(e2, e, top, roots, lower)
  PROVE  \E rank2 \in [0..(top + 1) -> 1..(Depth + 1)], ours2 \in SUBSET (0..(top + 1)) :
           Ordered(rank2, ours2, e2, top + 1, roots \cup {top + 1})
<1> USE SlotFacts DEF AddsRoot
<1> DEFINE new == top + 1
           rank2 == [f \in 0..new |-> IF f = new THEN 1 ELSE rank[f]]
<1>1. /\ Ranked(rank, e, top, roots) /\ Single(rank, e, top)
      /\ Shared(e, roots) /\ Open(rank, ours, e, top, roots)
  BY DEF Ordered
<1>2. /\ rank \in [0..top -> 1..(Depth + 1)] /\ Depth \in Nat /\ Depth > 1
      /\ ours \subseteq 0..top /\ new \in Nat /\ new \notin 0..top
      /\ \A r \in roots : r \in 0..top /\ rank[r] = 1
  BY <1>1, Numbers DEF Ranked, Open
<1>3. /\ rank2 \in [0..new -> 1..(Depth + 1)]
      /\ \A f \in 0..top : f \in 0..new /\ rank2[f] = rank[f] /\ f # new
      /\ new \in 0..new /\ rank2[new] = 1
      /\ \A f \in 0..new : f \in 0..top \/ f = new
  BY <1>2
<1> HIDE DEF rank2, new
\* Each word was a word of an older table of the same level, in the same slot.
<1>4. \A s \in Slots : s \in KernelSlots => e2[new][s] = e[Kernel][s]
  BY DEF new
<1>5. \A s \in Slots : s \notin KernelSlots =>
        \/ e2[new][s] = Absent
        \/ \E r \in roots \ {Kernel} : e2[new][s] = e[r][s]
  BY DEF new, Empty
<1>6. \A s \in Slots : \/ e2[new][s] = Absent
                       \/ \E r \in roots : e2[new][s] = e[r][s]
  BY <1>4, <1>5
<1>7. Ranked(rank2, e2, new, roots \cup {new})
  <2>1. ASSUME NEW f \in 0..new, NEW s \in Slots, e2[f][s].to # Nowhere
        PROVE  \E g \in 0..top : rank2[f] = rank[g] /\ e2[f][s] = e[g][s]
    BY <1>2, <1>3, <1>6, <2>1, Fields
  <2>2. ASSUME NEW f \in 0..new, NEW s \in Slots, e2[f][s].to # Nowhere
        PROVE  /\ rank2[f] < Depth => e2[f][s].to \in 0..new /\ rank2[e2[f][s].to] = rank2[f] + 1
               /\ rank2[f] = Depth => \/ e2[f][s].to \in Special
                                      \/ e2[f][s].to \in 0..new /\ rank2[e2[f][s].to] = Depth + 1
    <3>1. PICK g \in 0..top : rank2[f] = rank[g] /\ e2[f][s] = e[g][s]
      BY <2>1, <2>2
    <3>2. /\ rank[g] < Depth => e[g][s].to \in 0..top /\ rank[e[g][s].to] = rank[g] + 1
          /\ rank[g] = Depth => \/ e[g][s].to \in Special
                                \/ e[g][s].to \in 0..top /\ rank[e[g][s].to] = Depth + 1
      BY <1>1, <2>2, <3>1 DEF Ranked
    <3> QED  BY <1>3, <3>1, <3>2
  <2>3. \A r \in roots \cup {new} : r \in 0..new /\ rank2[r] = 1
    BY <1>2, <1>3
  <2> QED  BY <1>3, <2>2, <2>3 DEF Ranked
<1>8. Single(rank2, e2, new)
  <2>1. ASSUME NEW f \in 0..new, NEW s \in Slots, e2[f][s].to # Nowhere
        PROVE  \E g \in 0..top : /\ rank2[f] = rank[g] /\ e2[f][s] = e[g][s]
                                 /\ f = g \/ rank2[f] = 1
    BY <1>2, <1>3, <1>6, <2>1, Fields
  <2> SUFFICES ASSUME NEW f \in 0..new, NEW g \in 0..new, NEW s \in Slots, NEW u \in Slots,
                      rank2[f] < Depth, rank2[g] < Depth, e2[f][s].to # Nowhere,
                      e2[f][s].to = e2[g][u].to
               PROVE  s = u /\ (f = g \/ rank2[f] = 1)
    BY DEF Single
  <2>2. PICK f1 \in 0..top : rank2[f] = rank[f1] /\ e2[f][s] = e[f1][s] /\ (f = f1 \/ rank2[f] = 1)
    BY <2>1
  <2>3. PICK g1 \in 0..top : rank2[g] = rank[g1] /\ e2[g][u] = e[g1][u] /\ (g = g1 \/ rank2[g] = 1)
    BY <2>1
  <2>4. s = u /\ (f1 = g1 \/ rank[f1] = 1)
    BY <1>1, <2>2, <2>3 DEF Single
  <2> QED  BY <2>2, <2>3, <2>4
<1>9. Shared(e2, roots \cup {new})
  <2>1. \A r \in roots : e2[r] = e[r]
    BY <1>2
  <2> QED  BY <1>1, <1>4, <2>1 DEF Shared
<1>10. Open(rank2, ours, e2, new, roots \cup {new})
  <2>1. \A r \in roots : e2[r] = e[r]
    BY <1>2
  <2>2. \A f \in ours : f \in 0..top /\ e2[f] = e[f] /\ rank2[f] = rank[f] /\ f \in 0..new /\ f # new
    BY <1>2, <1>3
  <2>3. ASSUME NEW r \in (roots \cup {new}) \ {Kernel}, NEW s \in Slots \ KernelSlots,
               Present(e2[r][s])
        PROVE  e2[r][s].user /\ e2[r][s].to \in ours
    <3>1. CASE r = new
      <4>1. PICK q \in roots \ {Kernel} : e2[new][s] = e[q][s]
        BY <1>5, <2>3, <3>1, Fields
      <4> QED  BY <1>1, <2>3, <3>1, <4>1 DEF Open
    <3>2. CASE r # new
      BY <1>1, <2>1, <2>3, <3>2 DEF Open
    <3> QED  BY <3>1, <3>2
  <2>4. \A f \in (0..new) \ ours, s \in Slots :
          1 < rank2[f] /\ rank2[f] < Depth => e2[f][s].to \notin ours
    BY <1>1, <1>3 DEF Open
  <2>5. ours \subseteq 0..new /\ ours \cap (roots \cup {new}) = {}
    BY <1>1, <2>2 DEF Open
  <2>6. \A s \in Slots : e2[Kernel][s].to \notin ours
    BY <1>1, <2>1 DEF Open
  <2>7. \A f \in ours, s \in Slots : Present(e2[f][s]) =>
          e2[f][s].user /\ (rank2[f] < Depth => e2[f][s].to \in ours)
    BY <1>1, <2>2 DEF Open
  <2> QED  BY <2>3, <2>4, <2>5, <2>6, <2>7 DEF Open
<1>11. ours \in SUBSET (0..new) /\ Ordered(rank2, ours, e2, new, roots \cup {new})
  BY <1>7, <1>8, <1>9, <1>10 DEF Ordered, Open
<1>12. \E r2 \in [0..new -> 1..(Depth + 1)], o2 \in SUBSET (0..new) :
         Ordered(r2, o2, e2, new, roots \cup {new})
  BY <1>3, <1>11
<1> QED  BY <1>12 DEF new

-----------------------------------------------------------------------------
(* The invariant is kept.                                                  *)

LEMMA Initially == Init => IInv
<1> SUFFICES ASSUME Init PROVE IInv
  OBVIOUS
<1>1. /\ stack_position = 0 /\ structures = {Kernel}
      /\ entry = [f \in Places |->
                IF f \in Static
                THEN [Empty EXCEPT ![Text[f + 1]] =
                        Entry(IF f = Depth - 1 THEN ImagePage ELSE f + 1, FALSE)]
                ELSE [s \in Slots |-> Garbage]]
  BY DEF Init
<1>2. Depth \in Nat /\ Depth > 1 /\ Top = Depth - 1 /\ Top \in Nat /\ Static = 0..Top
  BY <1>1, Numbers DEF Top, Static
<1>3. \A f \in 0..Top : f \in Places /\ f + 1 \in Places
  <2>1. WildPage \in Nat /\ WildPage >= Depth /\ Places = 0..WildPage
    BY Numbers
  <2> QED  BY <1>2, <2>1
<1>4. \A f \in 0..Top : f + 1 \in 1..Depth /\ Text[f + 1] \in Slots
  <2>1. \A f \in 0..Top : f + 1 \in 1..Depth
    BY <1>2
  <2> QED  BY <2>1, AddressesHaveSlots, SlotFacts
<1>5. \A f \in 0..Top, s \in Slots :
        entry[f][s] = IF s = Text[f + 1]
                      THEN Entry(IF f = Depth - 1 THEN ImagePage ELSE f + 1, FALSE) ELSE Absent
  <2> SUFFICES ASSUME NEW f \in 0..Top, NEW s \in Slots
               PROVE  entry[f][s] = IF s = Text[f + 1]
                      THEN Entry(IF f = Depth - 1 THEN ImagePage ELSE f + 1, FALSE) ELSE Absent
    OBVIOUS
  <2>1. entry[f] = [Empty EXCEPT ![Text[f + 1]] =
                      Entry(IF f = Depth - 1 THEN ImagePage ELSE f + 1, FALSE)]
    BY <1>1, <1>2, <1>3
  <2> QED  BY <2>1 DEF Empty
<1>6. Types
  <2>1. /\ ImagePage \in Places /\ WildPage \in Places
    BY Numbers
  <2>2. \A to \in Places \cup {Nowhere}, user \in BOOLEAN : Entry(to, user) \in Entries
    BY DEF Entry, Entries
  <2>3. Garbage \in Entries /\ Absent \in Entries
    BY <2>1, <2>2 DEF Garbage, Absent
  <2>4. ASSUME NEW f \in Places PROVE entry[f] \in [Slots -> Entries]
    <3>1. CASE f \in Static
      <4>1. Entry(IF f = Depth - 1 THEN ImagePage ELSE f + 1, FALSE) \in Entries
        BY <1>2, <1>3, <2>1, <2>2, <3>1
      <4>2. entry[f] = [Empty EXCEPT ![Text[f + 1]] =
                          Entry(IF f = Depth - 1 THEN ImagePage ELSE f + 1, FALSE)]
        BY <1>1, <3>1
      <4>3. Empty \in [Slots -> Entries]
        BY <2>3 DEF Empty
      <4> QED  BY <4>1, <4>2, <4>3
    <3>2. CASE f \notin Static
      BY <1>1, <2>3, <3>2
    <3> QED  BY <3>1, <3>2
  <2>5. entry \in Memories
    <3>1. entry = [f \in Places |-> entry[f]]
      BY <1>1
    <3> QED  BY <2>4, <3>1 DEF Memories
  <2>6. stack_position \in 0..MaxFrames /\ structures \subseteq 0..Top /\ Kernel \in structures
    BY <1>1, <1>2, Numbers
  <2> QED  BY <2>5, <2>6 DEF Types
<1> DEFINE rank == [f \in 0..Top |-> f + 1]
<1>7. rank \in [0..Top -> 1..(Depth + 1)] /\ \A f \in 0..Top : rank[f] = f + 1 /\ rank[f] \in 1..Depth
  BY <1>2
<1> HIDE DEF rank
<1>8. \A f \in 0..Top, s \in Slots : entry[f][s].to # Nowhere =>
        /\ s = Text[f + 1] /\ entry[f][s].to = (IF f = Depth - 1 THEN ImagePage ELSE f + 1)
  <2> SUFFICES ASSUME NEW f \in 0..Top, NEW s \in Slots, entry[f][s].to # Nowhere
               PROVE  /\ s = Text[f + 1]
                      /\ entry[f][s].to = (IF f = Depth - 1 THEN ImagePage ELSE f + 1)
    OBVIOUS
  <2>1. s = Text[f + 1]
    <3>1. s # Text[f + 1] => entry[f][s] = Absent
      BY <1>5
    <3> QED  BY <3>1, Fields
  <2>2. entry[f][s] = Entry(IF f = Depth - 1 THEN ImagePage ELSE f + 1, FALSE)
    BY <1>5, <2>1
  <2> QED  BY <2>1, <2>2, Fields
<1>9. Kernel + 1 = 1 /\ Kernel \in 0..Top /\ rank[Kernel] = 1
  <2>1. Kernel = 0
    BY Numbers
  <2> QED  BY <1>2, <1>7, <2>1
<1>10. Ranked(rank, entry, Top, structures)
  <2>1. ASSUME NEW f \in 0..Top, NEW s \in Slots, entry[f][s].to # Nowhere
        PROVE  /\ rank[f] < Depth => entry[f][s].to \in 0..Top /\ rank[entry[f][s].to] = rank[f] + 1
               /\ rank[f] = Depth => \/ entry[f][s].to \in Special
                                     \/ entry[f][s].to \in 0..Top /\ rank[entry[f][s].to] = Depth + 1
    <3>1. entry[f][s].to = (IF f = Depth - 1 THEN ImagePage ELSE f + 1) /\ rank[f] = f + 1
      BY <1>7, <1>8, <2>1
    <3>2. CASE f = Depth - 1
      BY <1>2, <3>1, <3>2 DEF Special
    <3>3. CASE f # Depth - 1
      <4>1. f + 1 \in 0..Top /\ rank[f] # Depth
        BY <1>2, <3>1, <3>3
      <4> QED  BY <1>7, <3>1, <3>3, <4>1
    <3> QED  BY <3>2, <3>3
  <2> QED  BY <1>1, <1>7, <1>9, <2>1 DEF Ranked
<1>11. Single(rank, entry, Top)
  <2> SUFFICES ASSUME NEW f \in 0..Top, NEW g \in 0..Top, NEW s \in Slots, NEW u \in Slots,
                      rank[f] < Depth, rank[g] < Depth, entry[f][s].to # Nowhere,
                      entry[f][s].to = entry[g][u].to
               PROVE  s = u /\ (f = g \/ rank[f] = 1)
    BY DEF Single
  <2>1. f # Depth - 1 /\ g # Depth - 1
    BY <1>2, <1>7
  <2>2. entry[f][s].to = f + 1 /\ s = Text[f + 1]
    BY <1>8, <2>1
  <2>3. entry[g][u].to = g + 1 /\ u = Text[g + 1]
    BY <1>8, <2>1
  <2>4. f = g
    <3>1. f + 1 = g + 1
      BY <2>2, <2>3
    <3>2. f \in Int /\ g \in Int
      BY <1>2
    <3> QED  BY <3>1, <3>2
  <2> QED  BY <2>2, <2>3, <2>4
<1>12. Shared(entry, structures)
  <2>1. Present(entry[Kernel][Text[1]])
    <3>1. entry[Kernel][Text[1]].to \in {ImagePage, 1}
      <4>1. Text[1] \in Slots /\ Text[1] = Text[Kernel + 1]
        BY <1>9, SlotFacts
      <4>2. entry[Kernel][Text[1]] =
              Entry(IF Kernel = Depth - 1 THEN ImagePage ELSE Kernel + 1, FALSE)
        BY <1>5, <1>9, <4>1
      <4>3. entry[Kernel][Text[1]].to = (IF Kernel = Depth - 1 THEN ImagePage ELSE Kernel + 1)
        BY <4>2, Fields
      <4> QED  BY <1>9, <4>3
    <3>2. ImagePage # Nowhere /\ 1 # Nowhere
      BY Numbers
    <3> QED  BY <3>1, <3>2 DEF Present
  <2> QED  BY <1>1, <2>1 DEF Shared
<1>13. Open(rank, {}, entry, Top, structures)
  BY <1>1 DEF Open
<1>14. Ordered(rank, {}, entry, Top, structures)
  BY <1>10, <1>11, <1>12, <1>13 DEF Ordered
<1> QED  BY <1>6, <1>7, <1>14 DEF IInv

\* What MapPage keeps, for a caller that has taken a frame or maps one of the pages that
\* nobody takes.
LEMMA MapPageKeeps ==
  ASSUME IInv, NEW root \in structures, NEW v \in Addresses, NEW user, user \in BOOLEAN,
         NEW taken \in {0, 1}, NEW page \in Special \cup ((Top + 1)..(Top + taken)),
         root # Kernel => user = TRUE /\ v[1] \notin KernelSlots,
         MapPage(root, v, page, user, taken), UNCHANGED structures
  PROVE  IInv'
<1>1. /\ Types /\ stack_position \in Nat /\ stack_position <= MaxFrames /\ entry \in Memories
      /\ structures \subseteq 0..Top /\ Kernel \in structures
  BY Numbers DEF IInv, Types
<1>2. /\ Depth \in Nat /\ Depth > 1 /\ MaxFrames \in Nat /\ Top \in Nat
      /\ Top = Depth - 1 + stack_position /\ LastFrame = Depth + MaxFrames - 1
  BY <1>1, Numbers DEF Top
<1>3. PICK rank, ours : Ordered(rank, ours, entry, Top, structures)
  BY DEF IInv
<1>4. Ranked(rank, entry, Top, structures)
  BY <1>3 DEF Ordered
<1>5. \A d \in 1..Depth : v[d] \in Slots
  BY AddressesHaveSlots
<1> DEFINE m == FirstMissingIn(entry, root, v)
           t == TablesIn(entry, root, v)
           p == t[m]
           base == Top + taken
<1>6. /\ stack_position' <= MaxFrames
      /\ m = Depth + 1 => entry' = entry /\ stack_position' = stack_position + taken
      /\ m \in 1..Depth =>
           /\ stack_position' = stack_position + taken + Depth - m
           /\ Completes(entry', entry, p, v, m, base, page, user)
           /\ entry' = [f \in Places |-> [s \in Slots |-> entry'[f][s]]]
      /\ m \in 1..(Depth + 1)
  BY <1>1, <1>4, <1>5, PageMapped
<1>7. root \in 0..Top /\ root \in Places /\ \A f \in 0..Top : f \in Places
  <2>1. WildPage \in Nat /\ WildPage >= Top /\ Places = 0..WildPage
    BY <1>1, <1>2, Numbers
  <2> QED  BY <1>1, <1>2, <2>1
<1>8. m <= Depth => t[m] # Nowhere /\ ~Present(entry[t[m]][v[m]])
  BY <1>7, WalkEnds
<1>9. /\ \A d \in 1..Depth : t[d] # Nowhere => t[d] \in 0..Top /\ rank[t[d]] = d
      /\ \A d \in 2..Depth : t[d] # Nowhere => (t[d] \in ours <=> root # Kernel)
      /\ t[1] = root
  <2>1. \A d \in 1..Depth : t[d] # Nowhere => t[d] \in 0..Top /\ rank[t[d]] = d
    <3> USE <1>4, <1>5
    <3> HIDE DEF m, p, base
    <3> QED  BY OnWay
  <2>2. \A d \in 2..Depth : t[d] # Nowhere => (t[d] \in ours <=> root # Kernel)
    BY <1>3, <1>5, OnOwnWay
  <2>3. t[1] = root
    BY Walk
  <2> HIDE DEF t
  <2> QED  BY <2>1, <2>2, <2>3
<1> HIDE DEF m, t
<1>10. /\ base \in Nat /\ Top <= base /\ base = Depth - 1 + stack_position + taken
       /\ Top' = Depth - 1 + stack_position'
       /\ \A n \in Nat : base <= n => structures' \subseteq 0..n /\ Kernel \in structures'
  <2>1. base \in Nat /\ Top <= base
    BY <1>2
  <2>2. Top' = Depth - 1 + stack_position'
    BY DEF Top
  <2>3. \A n \in Nat : base <= n => 0..Top \subseteq 0..n
    BY <1>2, <2>1
  <2>4. base = Depth - 1 + stack_position + taken
    BY <1>2
  <2> HIDE DEF base
  <2> QED  BY <1>1, <2>1, <2>2, <2>3, <2>4
<1> HIDE DEF base
<1>11. CASE m = Depth + 1
  <2>1. entry' = entry /\ stack_position' = stack_position + taken /\ stack_position' <= MaxFrames
    BY <1>6, <1>11
  <2>2. Top' = base
    BY <1>1, <1>2, <1>10, <2>1
  <2>3. Types'
    <3>1. stack_position' \in 0..MaxFrames
      BY <1>1, <1>2, <2>1
    <3>2. structures' \subseteq 0..(Top') /\ Kernel \in structures'
      BY <1>10, <2>2
    <3> QED  BY <1>1, <2>1, <3>1, <3>2 DEF Types
  <2>4. \E rank2 \in [0..base -> 1..(Depth + 1)], ours2 \in SUBSET (0..base) :
          Ordered(rank2, ours2, entry, base, structures)
    BY <1>1, <1>2, <1>3, <1>10, FramesTaken
  <2> QED  BY <2>1, <2>2, <2>3, <2>4 DEF IInv
<1>12. CASE m # Depth + 1
  <2>1. m \in 1..Depth /\ m <= Depth
    BY <1>2, <1>6, <1>12
  <2>2. /\ stack_position' = stack_position + taken + Depth - m /\ stack_position' <= MaxFrames
        /\ Completes(entry', entry, p, v, m, base, page, user)
        /\ entry' = [f \in Places |-> [s \in Slots |-> entry'[f][s]]]
    BY <1>6, <2>1
  <2> DEFINE top2 == base + Depth - m
  <2>3. Top' = top2 /\ top2 <= LastFrame /\ top2 \in Nat /\ base <= top2
    <3>1. stack_position' = stack_position + taken + Depth - m /\ stack_position' <= MaxFrames
      BY <2>2
    <3>2. /\ Depth \in Nat /\ MaxFrames \in Nat /\ LastFrame = Depth + MaxFrames - 1
          /\ stack_position \in Nat /\ base \in Nat /\ m \in Nat /\ m <= Depth
      BY <1>1, <1>2, <1>10, <2>1
    <3>3. base = Depth - 1 + stack_position + taken /\ Top' = Depth - 1 + stack_position'
      BY <1>10
    <3> QED  BY <3>1, <3>2, <3>3
  <2>4. p \in 0..Top /\ rank[p] = m /\ ~Present(entry[p][v[m]])
    BY <1>8, <1>9, <2>1
  <2>5. (m = 1 => p = root) /\ (m # 1 => (p \in ours <=> root # Kernel))
    BY <1>8, <1>9, <2>1
  <2>6. \E rank2 \in [0..top2 -> 1..(Depth + 1)], ours2 \in SUBSET (0..top2) :
          Ordered(rank2, ours2, entry', top2, structures)
    <3>1. /\ Top \in Nat /\ Kernel \in structures /\ base \in Nat /\ Top <= base
          /\ m \in 1..Depth /\ base + Depth - m <= LastFrame
      BY <1>1, <1>2, <1>10, <2>1, <2>3
    <3>2. page \in Special \cup ((Top + 1)..base)
      BY DEF base
    <3>3. Completes(entry', entry, p, v, m, base, page, user)
      BY <2>2
    <3>4. KernelSlots \subseteq Slots /\ Text[1] \in Slots
      BY SlotFacts
    <3> HIDE DEF p
    <3>5. CanComplete(rank, ours, entry, Top, structures, root, v, m, p, base, page, user)
      BY <1>3, <1>5, <2>4, <2>5, <3>1, <3>2, <3>4 DEF CanComplete
    <3> QED  BY <3>3, <3>5, Extended
  <2>7. Types'
    <3>1. stack_position' \in 0..MaxFrames
      BY <1>1, <1>2, <2>1, <2>2
    <3>2. structures' \subseteq 0..(Top') /\ Kernel \in structures'
      BY <1>10, <2>3
    <3>3. \A to \in Places \cup {Nowhere}, b \in BOOLEAN : Entry(to, b) \in Entries
      BY DEF Entry, Entries
    <3>4. Absent \in Entries
      BY <3>3 DEF Absent
    <3>5. /\ page \in Places /\ base + 1 \in Places
          /\ \A f \in (base + 1)..(base + Depth - m) : f + 1 \in Places
      <4>1. /\ WildPage = LastFrame + 4 /\ Places = 0..WildPage
            /\ Special = {LastFrame + 1, LastFrame + 2, LastFrame + 3}
        BY Numbers DEF Special
      <4>2. base <= LastFrame /\ LastFrame \in Nat
        BY <1>2, <1>10, <2>3
      <4>3. page \in Special \/ page \in (Top + 1)..base
        BY DEF base
      <4>4. page \in Places
        <5>1. CASE page \in Special
          BY <4>1, <4>2, <5>1
        <5>2. CASE page \in (Top + 1)..base
          <6>1. Top \in Nat /\ base \in Nat
            BY <1>2, <1>10
          <6> QED  BY <4>1, <4>2, <5>2, <6>1
        <5> QED  BY <4>3, <5>1, <5>2
      <4>5. base + 1 \in Places
        BY <1>10, <4>1, <4>2
      <4>6. \A f \in (base + 1)..(base + Depth - m) : f + 1 \in Places
        <5>1. ASSUME NEW f \in (base + 1)..(base + Depth - m) PROVE f \in Nat /\ f <= top2
          BY <1>2, <1>10, <2>1
        <5> HIDE DEF top2
        <5> QED  BY <2>3, <4>1, <4>2, <5>1
      <4> QED  BY <4>4, <4>5, <4>6
    <3>6. ASSUME NEW f \in Places, NEW s \in Slots PROVE entry'[f][s] \in Entries
      <4>1. entry[f][s] \in Entries
        BY <1>1 DEF Memories
      <4>2. entry'[f][s] =
              IF f = p /\ s = v[m]
                 THEN Entry(IF m = Depth THEN page ELSE base + 1, user)
               ELSE IF f \in (base + 1)..(base + Depth - m)
                 THEN IF s = v[m + f - base]
                        THEN Entry(IF m + f - base = Depth THEN page ELSE f + 1, user)
                        ELSE Absent
               ELSE entry[f][s]
        BY <2>2 DEF Completes
      <4> QED  BY <3>3, <3>4, <3>5, <4>1, <4>2
    <3>7. entry' \in Memories
      BY <2>2, <3>6 DEF Memories
    <3> QED  BY <3>1, <3>2, <3>7 DEF Types
  <2> QED  BY <2>3, <2>6, <2>7 DEF IInv
<1> QED  BY <1>11, <1>12

\* What KernelUnmapPage does: at most one leaf is cleared.
LEMMA PageUnmapped ==
  ASSUME Types, NEW rank, NEW ours, Ordered(rank, ours, entry, Top, structures),
         NEW root \in structures, NEW v \in Addresses, UnmapPage(root, v)
  PROVE  /\ stack_position' = stack_position /\ entry' \in Memories
         /\ \/ entry' = entry
            \/ LET p == TablesIn(entry, root, v)[Depth]
               IN  /\ FirstMissingIn(entry, root, v) = Depth + 1
                   /\ p \in 0..Top /\ rank[p] = Depth /\ v[Depth] \in Slots
                   /\ \A f \in Places, s \in Slots :
                        entry'[f][s] = IF f = p /\ s = v[Depth] THEN Absent ELSE entry[f][s]
<1>1. /\ entry \in Memories /\ structures \subseteq 0..Top /\ stack_position \in 0..MaxFrames
      /\ Ranked(rank, entry, Top, structures)
  BY DEF Types, Ordered
<1>2. Depth \in Nat /\ Depth > 1 /\ Depth \in 1..Depth /\ MaxFrames \in Nat
  BY Numbers
<1>3. 0..Top \subseteq Places /\ root \in Places
  <2>1. WildPage \in Nat /\ WildPage >= Top /\ Places = 0..WildPage /\ Top \in Nat
    BY <1>1, <1>2, Numbers DEF Top
  <2> QED  BY <1>1, <2>1
<1> DEFINE t == Tables(root, v)
           m == FirstMissing(root, v)
<1>4. t = TablesIn(entry, root, v) /\ m = FirstMissingIn(entry, root, v)
  BY TablesAreThere, WalksAreThere
<1>5. /\ stack_position' = stack_position
      /\ entry' = IF m > Depth THEN [entry EXCEPT ![t[Depth]][v[Depth]] = Absent] ELSE entry
  BY DEF UnmapPage
<1> HIDE DEF t, m
<1>6. m \in 1..(Depth + 1) /\ (m > Depth => m = Depth + 1)
  <2>1. FirstMissingIn(entry, root, v) \in 1..(Depth + 1)
    BY <1>3, WalkEnds
  <2> QED  BY <1>2, <1>4, <2>1
<1>7. CASE m <= Depth
  <2>1. entry' = entry
    BY <1>2, <1>5, <1>6, <1>7
  <2> QED  BY <1>1, <1>5, <2>1
<1>8. CASE m > Depth
  <2>1. \A d \in 1..Depth : d < Depth + 1 => t[d] # Nowhere
    BY <1>3, <1>4, <1>6, <1>8, WalkEnds
  <2>2. \A d \in 1..Depth : v[d] \in Slots
    BY AddressesHaveSlots
  <2>3. \A d \in 1..Depth : t[d] # Nowhere => t[d] \in 0..Top /\ rank[t[d]] = d
    BY <1>1, <1>4, <2>2, OnWay
  <2>4. t[Depth] \in 0..Top /\ rank[t[Depth]] = Depth /\ v[Depth] \in Slots /\ t[Depth] \in Places
    BY <1>2, <1>3, <2>1, <2>2, <2>3
  <2>5. entry' = [entry EXCEPT ![t[Depth]][v[Depth]] = Absent]
    BY <1>5, <1>8
  <2>6. Absent \in Entries
    BY Numbers DEF Absent, Entry, Entries
  <2>7. entry' \in Memories
    BY <1>1, <2>4, <2>5, <2>6 DEF Memories
  <2>8. \A f \in Places, s \in Slots :
          entry'[f][s] = IF f = t[Depth] /\ s = v[Depth] THEN Absent ELSE entry[f][s]
    BY <1>1, <2>4, <2>5 DEF Memories
  <2> QED  BY <1>4, <1>5, <1>6, <1>8, <2>4, <2>7, <2>8
<1> QED  BY <1>2, <1>6, <1>7, <1>8

LEMMA UnmapPageKeeps ==
  ASSUME IInv, NEW root \in structures, NEW v \in Addresses, UnmapPage(root, v),
         UNCHANGED structures
  PROVE  IInv'
<1>1. Types /\ structures \subseteq 0..Top /\ Kernel \in structures
  BY DEF IInv, Types
<1>2. PICK rank, ours : Ordered(rank, ours, entry, Top, structures)
  BY DEF IInv
<1>3. Top \in Nat /\ \A f \in 0..Top : f \in Places
  <2>1. stack_position \in 0..MaxFrames
    BY <1>1 DEF Types
  <2>2. Top \in Nat /\ WildPage \in Nat /\ WildPage >= Top /\ Places = 0..WildPage
    BY <2>1, Numbers DEF Top
  <2> QED  BY <2>2
<1>4. /\ stack_position' = stack_position /\ entry' \in Memories
      /\ \/ entry' = entry
         \/ LET p == TablesIn(entry, root, v)[Depth]
            IN  /\ FirstMissingIn(entry, root, v) = Depth + 1
                /\ p \in 0..Top /\ rank[p] = Depth /\ v[Depth] \in Slots
                /\ \A f \in Places, s \in Slots :
                     entry'[f][s] = IF f = p /\ s = v[Depth] THEN Absent ELSE entry[f][s]
  BY <1>1, <1>2, PageUnmapped
<1>5. Top' = Top
  BY <1>4 DEF Top
<1>6. Types'
  BY <1>1, <1>4, <1>5 DEF Types
<1>7. Ordered(rank, ours, entry', Top, structures)
  <2>1. CASE entry' = entry
    BY <1>2, <2>1
  <2>2. CASE entry' # entry
    <3> DEFINE p == TablesIn(entry, root, v)[Depth]
    <3>1. /\ p \in 0..Top /\ rank[p] = Depth /\ v[Depth] \in Slots
          /\ \A f \in Places, s \in Slots :
               entry'[f][s] = IF f = p /\ s = v[Depth] THEN Absent ELSE entry[f][s]
      BY <1>4, <2>2
    <3> HIDE DEF p
    <3>2. \A f \in 0..Top, s \in Slots :
            entry'[f][s] = IF f = p /\ s = v[Depth] THEN Absent ELSE entry[f][s]
      BY <1>3, <3>1
    <3>3. Kernel \in structures /\ Top \in Nat /\ KernelSlots \subseteq Slots /\ Text[1] \in Slots
      BY <1>1, <1>3, SlotFacts
    <3> QED  BY <1>2, <3>1, <3>2, <3>3, LeafCleared
  <2> QED  BY <2>1, <2>2
<1>8. rank \in [0..Top -> 1..(Depth + 1)] /\ ours \in SUBSET (0..Top)
  BY <1>2 DEF Ordered, Ranked, Open
<1> QED  BY <1>5, <1>6, <1>7, <1>8 DEF IInv

LEMMA NewPageStructureKeeps ==
  ASSUME IInv, NEW lower,
         lower = Empty \/ \E r \in structures \ {Kernel} : lower = entry[r],
         NewPageStructure(lower)
  PROVE  IInv'
<1>1. /\ Types /\ entry \in Memories /\ structures \subseteq 0..Top /\ Kernel \in structures
      /\ stack_position \in 0..MaxFrames
  BY DEF IInv, Types
<1>2. PICK rank, ours : Ordered(rank, ours, entry, Top, structures)
  BY DEF IInv
<1>3. /\ stack_position < MaxFrames /\ stack_position' = stack_position + 1
      /\ entry' = [entry EXCEPT ![Frame(1)] = NewRoot(lower)]
      /\ structures' = structures \cup {Frame(1)}
  BY DEF NewPageStructure
<1>4. /\ Top \in Nat /\ Frame(1) = Top + 1 /\ Top' = Top + 1 /\ Top + 1 \in Places
      /\ stack_position' \in 0..MaxFrames
  <2>1. Frame(1) = Top + 1 /\ Top \in Nat /\ Top = Depth - 1 + stack_position
    BY <1>1, Numbers DEF Frame, Top
  <2>2. Top' = Depth - 1 + stack_position'
    BY DEF Top
  <2>3. Top + 1 \in Places
    BY <1>1, <1>3, <2>1, Numbers
  <2>4. stack_position' \in 0..MaxFrames /\ Top' = Top + 1
    BY <1>1, <1>3, <2>1, <2>2, Numbers
  <2> QED  BY <2>1, <2>3, <2>4
<1>5. \A f \in 0..Top : f \in Places /\ f # Top + 1
  <2>1. WildPage \in Nat /\ Places = 0..WildPage
    BY Numbers
  <2> QED  BY <1>4, <2>1
<1>6. lower \in [Slots -> Entries]
  <2>1. Empty \in [Slots -> Entries]
    BY Numbers DEF Empty, Absent, Entry, Entries
  <2> QED  BY <1>1, <1>5, <2>1 DEF Memories
<1>7. /\ NewRoot(lower) \in [Slots -> Entries]
      /\ \A s \in Slots :
           NewRoot(lower)[s] = IF s \in KernelSlots THEN entry[Kernel][s] ELSE lower[s]
  BY <1>1, <1>5, <1>6 DEF NewRoot, Memories
<1>8. entry' \in Memories
  BY <1>1, <1>3, <1>7 DEF Memories
<1>9. /\ \A f \in 0..Top : entry'[f] = entry[f]
      /\ \A s \in Slots :
           entry'[Top + 1][s] = IF s \in KernelSlots THEN entry[Kernel][s] ELSE lower[s]
  BY <1>1, <1>3, <1>4, <1>5, <1>7 DEF Memories
<1>10. \E rank2 \in [0..(Top + 1) -> 1..(Depth + 1)], ours2 \in SUBSET (0..(Top + 1)) :
         Ordered(rank2, ours2, entry', Top + 1, structures \cup {Top + 1})
  <2>1. AddsRoot(entry', entry, Top, structures, lower)
    BY <1>9 DEF AddsRoot
  <2> QED  BY <1>1, <1>2, <1>4, <2>1, RootAdded
<1>11. Types'
  <2>1. structures' \subseteq 0..(Top + 1) /\ Kernel \in structures'
    <3>1. 0..Top \subseteq 0..(Top + 1) /\ Top + 1 \in 0..(Top + 1)
      BY <1>4
    <3> QED  BY <1>1, <1>3, <1>4, <3>1
  <2> QED  BY <1>4, <1>8, <2>1 DEF Types
<1> QED  BY <1>3, <1>4, <1>10, <1>11 DEF IInv

LEMMA FirstFrame == IInv => Frame(1) \in (Top + 1)..(Top + 1) /\ Frame(1) = Top + 1
<1> SUFFICES ASSUME IInv PROVE Frame(1) \in (Top + 1)..(Top + 1) /\ Frame(1) = Top + 1
  OBVIOUS
<1>1. stack_position \in 0..MaxFrames
  BY DEF IInv, Types
<1> QED  BY <1>1, Numbers DEF Frame, Top

LEMMA Kept == IInv /\ [Next]_vars => IInv'
<1> SUFFICES ASSUME IInv, [Next]_vars PROVE IInv'
  OBVIOUS
<1>1. Kernel \in structures /\ Trampoline \in Addresses /\ Registers \in Addresses
  BY SlotFacts DEF IInv, Types
<1>2. /\ \A v \in LibraryPages \cup BufferPages : v \in Addresses
      /\ \A v \in ProgramPages : v \in Addresses /\ v[1] \notin KernelSlots
  BY SlotFacts
<1>3. LowPage \in Special /\ DevicePage \in Special
  BY DEF Special
<1>4. Frame(1) \in (Top + 1)..(Top + 1)
  BY FirstFrame
<1>5. CASE MapTrampoline
  BY <1>1, <1>3, <1>5, MapPageKeeps DEF MapTrampoline
<1>6. CASE UnmapTrampoline
  BY <1>1, <1>6, UnmapPageKeeps DEF UnmapTrampoline
<1>7. CASE MapRegisters
  BY <1>1, <1>3, <1>7, MapPageKeeps DEF MapRegisters, MapMmio
<1>8. CASE NewProcess
  BY <1>8, NewPageStructureKeeps DEF NewProcess
<1>9. ASSUME NEW v \in LibraryPages, LoadLibraryPage(v) PROVE IInv'
  BY <1>1, <1>2, <1>4, <1>9, MapPageKeeps DEF LoadLibraryPage
<1>10. ASSUME NEW v \in BufferPages, MapBuffer(v) PROVE IInv'
  BY <1>1, <1>2, <1>4, <1>10, MapPageKeeps DEF MapBuffer, MapMmio
<1>11. ASSUME NEW root \in structures \ {Kernel}, CloneProcess(root) PROVE IInv'
  BY <1>11, NewPageStructureKeeps DEF CloneProcess
<1>12. ASSUME NEW root \in structures \ {Kernel}, NEW v \in ProgramPages, LoadProgramPage(root, v)
       PROVE  IInv'
  BY <1>2, <1>4, <1>12, MapPageKeeps DEF LoadProgramPage
<1>13. CASE UNCHANGED vars
  BY <1>13 DEF vars, IInv, Types, Top
<1> QED  BY <1>5, <1>6, <1>7, <1>8, <1>9, <1>10, <1>11, <1>12, <1>13 DEF Next

LEMMA Invariant == Spec => []IInv
<1> QED  BY Initially, Kept, PTL DEF Spec

-----------------------------------------------------------------------------
(* The roles of the frames.                                                *)

\* What the tables of S lead to.
Below(S) == {entry[f][s].to : f \in S, s \in Slots} \ {Nowhere}

LEMMA LevelsExist ==
  \A n \in Nat \ {0} :
    \E g : g[1] = structures /\ \A d \in 1..(n - 1) : g[d + 1] = Below(g[d])
<1> DEFINE Levels(g, n) == g[1] = structures /\ \A d \in 1..(n - 1) : g[d + 1] = Below(g[d])
           S == {n \in Nat \ {0} : \E g : Levels(g, n)}
<1>1. 1 \in S
  <2>1. PICK g : g = [d \in {1} |-> structures]
    OBVIOUS
  <2>2. Levels(g, 1)
    BY <2>1
  <2> HIDE DEF Levels
  <2> QED  BY <2>2
<1>2. ASSUME NEW n \in Nat \ {0}, n \in S PROVE n + 1 \in S
  <2>1. PICK g : Levels(g, n)
    BY <1>2
  <2> DEFINE h == [d \in 1..(n + 1) |-> IF d = n + 1 THEN Below(g[n]) ELSE g[d]]
  <2>2. h[n + 1] = Below(g[n]) /\ \A d \in 1..n : h[d] = g[d]
    OBVIOUS
  <2> HIDE DEF h
  <2>3. ASSUME NEW d \in 1..n PROVE h[d + 1] = Below(h[d])
    <3>1. CASE d = n
      BY <2>2, <3>1
    <3>2. CASE d # n
      <4>1. d \in 1..(n - 1) /\ d + 1 \in 1..n
        BY <3>2
      <4> QED  BY <2>1, <2>2, <4>1
    <3> QED  BY <3>1, <3>2
  <2>4. Levels(h, n + 1)
    BY <2>1, <2>2, <2>3
  <2> QED  BY <2>4
<1>3. \A n \in Nat \ {0} : n \in S
  <2> HIDE DEF S
  <2> QED  BY <1>1, <1>2, SetInduction
<1> QED  BY <1>3

LEMMA LevelsOfTables ==
  /\ TablesAt(1) = structures
  /\ \A d \in 1..(Depth - 1) : TablesAt(d + 1) = Below(TablesAt(d))
<1> DEFINE Step(g) == [n \in 1..Depth |-> IF n = 1 THEN structures ELSE Below(g[n - 1])]
           level == CHOOSE g : g = Step(g)
<1>1. \A d : TablesAt(d) = level[d]
  BY DEF TablesAt, Below
<1>2. PICK g : g[1] = structures /\ \A d \in 1..(Depth - 1) : g[d + 1] = Below(g[d])
  <2>1. Depth \in Nat \ {0}
    BY Numbers
  <2> QED  BY <2>1, LevelsExist
<1>3. \E h : h = Step(h)
  <2> DEFINE h == [n \in 1..Depth |-> g[n]]
  <2>1. ASSUME NEW n \in 1..Depth
        PROVE  h[n] = IF n = 1 THEN structures ELSE Below(h[n - 1])
    <3>1. CASE n = 1
      BY <1>2, <3>1
    <3>2. CASE n # 1
      <4>1. n - 1 \in 1..(Depth - 1) /\ n - 1 \in 1..Depth /\ (n - 1) + 1 = n
        BY <3>2, Numbers
      <4>2. g[(n - 1) + 1] = Below(g[n - 1])
        BY <1>2, <4>1
      <4> QED  BY <3>2, <4>1, <4>2
    <3> QED  BY <3>1, <3>2
  <2>2. h = [n \in 1..Depth |-> h[n]]
    OBVIOUS
  <2> HIDE DEF h
  <2>3. h = Step(h)
    BY <2>1, <2>2
  <2> HIDE DEF Step
  <2> QED  BY <2>3
<1>4. level = Step(level)
  <2> HIDE DEF Step
  <2> QED  BY <1>3
<1> HIDE DEF level
<1>5. \A n \in 1..Depth : level[n] = IF n = 1 THEN structures ELSE Below(level[n - 1])
  BY <1>4
<1>6. level[1] = structures
  <2>1. 1 \in 1..Depth
    BY Numbers
  <2> QED  BY <1>5, <2>1
<1>7. ASSUME NEW d \in 1..(Depth - 1) PROVE level[d + 1] = Below(level[d])
  <2>1. d + 1 \in 1..Depth /\ d + 1 # 1 /\ (d + 1) - 1 = d
    BY Numbers
  <2> QED  BY <1>5, <2>1
<1> QED  BY <1>1, <1>6, <1>7

LEMMA TablesAreRanked ==
  ASSUME NEW rank, Ranked(rank, entry, Top, structures)
  PROVE  \A d \in 1..Depth : \A f \in TablesAt(d) : f \in 0..Top /\ rank[f] = d
<1> DEFINE S == {d \in Nat \ {0} : d <= Depth => \A f \in TablesAt(d) : f \in 0..Top /\ rank[f] = d}
<1>1. 1 \in S
  BY LevelsOfTables DEF Ranked
<1>2. ASSUME NEW d \in Nat \ {0}, d \in S PROVE d + 1 \in S
  <2> SUFFICES ASSUME d + 1 <= Depth, NEW f \in TablesAt(d + 1)
               PROVE  f \in 0..Top /\ rank[f] = d + 1
    OBVIOUS
  <2>1. d \in 1..(Depth - 1) /\ d < Depth /\ d <= Depth
    BY Numbers
  <2>2. f \in Below(TablesAt(d))
    BY <2>1, LevelsOfTables
  <2>3. PICK g \in TablesAt(d), s \in Slots : f = entry[g][s].to /\ f # Nowhere
    BY <2>2 DEF Below
  <2>4. g \in 0..Top /\ rank[g] = d
    BY <1>2, <2>1
  <2> QED  BY <2>1, <2>3, <2>4 DEF Ranked
<1>3. \A d \in Nat \ {0} : d \in S
  <2> HIDE DEF S
  <2> QED  BY <1>1, <1>2, SetInduction
<1> QED  BY <1>3, Numbers

\* A frame has one role.
LEMMA OneRoleHolds == IInv => OneRole
<1> SUFFICES ASSUME IInv PROVE OneRole
  OBVIOUS
<1>1. PICK rank, ours : Ordered(rank, ours, entry, Top, structures)
  BY DEF IInv
<1>2. Ranked(rank, entry, Top, structures) /\ Single(rank, entry, Top)
  BY <1>1 DEF Ordered
<1>3. /\ Depth \in Nat /\ Depth > 1 /\ Top \in Nat /\ Top <= LastFrame
      /\ 0..Top \subseteq Static \cup Allocatable
  <2>1. stack_position \in 0..MaxFrames
    BY DEF IInv, Types
  <2>2. /\ Depth \in Nat /\ Depth > 1 /\ MaxFrames \in Nat /\ LastFrame = Depth + MaxFrames - 1
    BY Numbers
  <2>3. Top \in Nat /\ Top <= LastFrame
    BY <2>1, <2>2 DEF Top
  <2>4. Static = 0..(Depth - 1) /\ Allocatable = Depth..(Depth + MaxFrames - 1)
    BY DEF Static, Allocatable
  <2> QED  BY <2>2, <2>3, <2>4
<1>4. \A d \in 1..Depth : \A f \in TablesAt(d) : f \in 0..Top /\ rank[f] = d
  BY <1>2, TablesAreRanked
<1>5. ASSUME NEW f \in Pages
      PROVE  f # WildPage /\ (f \in 0..Top => rank[f] = Depth + 1)
  <2>1. PICK g \in TablesAt(Depth), s \in Slots : f = entry[g][s].to /\ f # Nowhere
    BY DEF Pages
  <2>2. g \in 0..Top /\ rank[g] = Depth
    BY <1>3, <1>4
  <2>3. f \in Special \/ (f \in 0..Top /\ rank[f] = Depth + 1)
    BY <1>2, <2>1, <2>2 DEF Ranked
  <2>4. /\ \A g1 \in Special : g1 # WildPage /\ g1 \notin 0..Top
        /\ WildPage \notin 0..Top
    BY <1>3, Numbers DEF Special
  <2> QED  BY <2>3, <2>4
<1>6. ASSUME NEW d \in 2..Depth, NEW f \in TablesAt(d)
      PROVE  /\ Parents(f, d - 1) # {}
             /\ \A p, q \in Parents(f, d - 1) : p[2] = q[2] /\ (p = q \/ d = 2)
  <2>1. d - 1 \in 1..(Depth - 1) /\ d - 1 \in 1..Depth /\ (d - 1) + 1 = d /\ d - 1 < Depth
    BY <1>3
  <2>2. f \in Below(TablesAt(d - 1))
    BY <2>1, LevelsOfTables
  <2>3. PICK g \in TablesAt(d - 1), s \in Slots : f = entry[g][s].to /\ f # Nowhere
    BY <2>2 DEF Below
  <2>4. <<g, s>> \in Parents(f, d - 1)
    BY <2>3 DEF Parents
  <2>5. ASSUME NEW p \in Parents(f, d - 1), NEW q \in Parents(f, d - 1)
        PROVE  p[2] = q[2] /\ (p = q \/ d = 2)
    <3>1. /\ p = <<p[1], p[2]>> /\ p[1] \in TablesAt(d - 1) /\ p[2] \in Slots
          /\ entry[p[1]][p[2]].to = f
          /\ q = <<q[1], q[2]>> /\ q[1] \in TablesAt(d - 1) /\ q[2] \in Slots
          /\ entry[q[1]][q[2]].to = f
      BY DEF Parents
    <3>2. p[1] \in 0..Top /\ rank[p[1]] = d - 1 /\ q[1] \in 0..Top /\ rank[q[1]] = d - 1
      BY <1>4, <2>1, <3>1
    <3>3. p[2] = q[2] /\ (p[1] = q[1] \/ rank[p[1]] = 1)
      BY <1>2, <2>1, <2>3, <3>1, <3>2 DEF Single
    <3>4. p[1] = q[1] \/ d = 2
      BY <3>2, <3>3
    <3> QED  BY <3>1, <3>3, <3>4
  <2> QED  BY <2>4, <2>5
<1>7. \A d \in 1..Depth : TablesAt(d) \subseteq Static \cup Allocatable
  BY <1>3, <1>4
<1>8. \A d, e \in 1..Depth : d # e => TablesAt(d) \cap TablesAt(e) = {}
  BY <1>4
<1>9. \A d \in 1..Depth : TablesAt(d) \cap Pages = {}
  <2> SUFFICES ASSUME NEW d \in 1..Depth, NEW f \in TablesAt(d), f \in Pages PROVE FALSE
    OBVIOUS
  <2>1. f \in 0..Top /\ rank[f] = d /\ rank[f] = Depth + 1
    BY <1>4, <1>5
  <2> QED  BY <1>3, <2>1
<1>10. \A f \in TablesAt(2) : \A p, q \in Parents(f, 1) : p[2] = q[2]
  <2>1. 2 \in 2..Depth /\ 2 - 1 = 1
    BY <1>3
  <2> QED  BY <1>6, <2>1
<1>11. ASSUME NEW d \in 3..Depth, NEW f \in TablesAt(d)
       PROVE  Cardinality(Parents(f, d - 1)) = 1
  <2>1. d \in 2..Depth /\ d # 2
    OBVIOUS
  <2>2. PICK p : p \in Parents(f, d - 1)
    BY <1>6, <2>1
  <2>3. \A q \in Parents(f, d - 1) : q = p
    BY <1>6, <2>1, <2>2
  <2>4. Parents(f, d - 1) = {p}
    BY <2>2, <2>3
  <2> QED  BY <2>4, FS_Singleton
<1>12. WildPage \notin Pages
  BY <1>5
<1> QED  BY <1>7, <1>8, <1>9, <1>10, <1>11, <1>12 DEF OneRole

-----------------------------------------------------------------------------
(* What the structures translate.                                          *)

LEMMA StructuresAreThere ==
  ASSUME IInv
  PROVE  /\ Top \in Nat /\ 0..Top \subseteq Places /\ structures \subseteq 0..Top
         /\ Kernel \in structures /\ \A f \in 0..Top : f # Nowhere
<1>1. stack_position \in 0..MaxFrames /\ structures \subseteq 0..Top /\ Kernel \in structures
  BY DEF IInv, Types
<1>2. Top \in Nat /\ WildPage \in Nat /\ WildPage >= Top /\ Places = 0..WildPage /\ Nowhere = -1
  BY <1>1, Numbers DEF Top
<1> QED  BY <1>1, <1>2

\* A translation is positive only if the walk met nothing but present entries.
LEMMA Complete ==
  ASSUME NEW e, NEW root \in Places, NEW v, TranslateIn(e, root, v) > 0
  PROVE  LET t == TablesIn(e, root, v)
         IN  /\ FirstMissingIn(e, root, v) = Depth + 1
             /\ \A d \in 1..Depth : t[d] # Nowhere /\ Present(e[t[d]][v[d]])
             /\ TranslateIn(e, root, v) = e[t[Depth]][v[Depth]].to
<1> DEFINE m == FirstMissingIn(e, root, v)
           t == TablesIn(e, root, v)
<1>1. /\ m \in 1..(Depth + 1)
      /\ \A d \in 1..Depth : d < m => t[d] # Nowhere /\ Present(e[t[d]][v[d]])
  BY WalkEnds
<1>2. TranslateIn(e, root, v) = IF m <= Depth THEN m - Depth - 1 ELSE e[t[Depth]][v[Depth]].to
  BY DEF TranslateIn
<1>3. Depth \in Nat
  BY Numbers
<1> HIDE DEF m, t
<1>4. ~(m <= Depth)
  <2>1. m <= Depth => ~(m - Depth - 1 > 0)
    BY <1>1, <1>3
  <2> QED  BY <1>2, <2>1
<1>5. m = Depth + 1 /\ \A d \in 1..Depth : d < m
  BY <1>1, <1>3, <1>4
<1> QED  BY <1>1, <1>2, <1>4, <1>5 DEF m, t

\* The program's pages are open to ring 3.
LEMMA UserReachesHolds == IInv => UserReaches
<1> SUFFICES ASSUME IInv, NEW root \in structures \ {Kernel}, NEW v \in ProgramPages,
                    Translate(root, v) > 0, NEW d \in 1..Depth
             PROVE  entry[Tables(root, v)[d]][v[d]].user
  BY DEF UserReaches, UserAt
<1>1. PICK rank, ours : Ordered(rank, ours, entry, Top, structures)
  BY DEF IInv
<1>2. Ranked(rank, entry, Top, structures) /\ Open(rank, ours, entry, Top, structures)
  BY <1>1 DEF Ordered
<1>3. root \in Places /\ root \in structures
  BY StructuresAreThere
<1>4. v[1] \notin KernelSlots /\ \A n \in 1..Depth : v[n] \in Slots
  BY SlotFacts, AddressesHaveSlots
<1> DEFINE t == TablesIn(entry, root, v)
<1>5. Tables(root, v) = t /\ TranslateIn(entry, root, v) > 0
  BY TablesAreThere, WalksAreThere
<1>6. t[d] # Nowhere /\ Present(entry[t[d]][v[d]])
  BY <1>3, <1>5, Complete
<1>7. t[1] = root
  BY Walk
<1>8. \A n \in 2..Depth : t[n] # Nowhere => (t[n] \in ours <=> root # Kernel)
  BY <1>1, <1>3, <1>4, OnOwnWay
<1> HIDE DEF t
<1>9. entry[t[d]][v[d]].user
  <2>1. CASE d = 1
    BY <1>2, <1>4, <1>6, <1>7, <2>1 DEF Open
  <2>2. CASE d # 1
    <3>1. t[d] \in ours
      BY <1>6, <1>8, <2>2, Numbers
    <3> QED  BY <1>2, <1>4, <1>6, <3>1 DEF Open
  <2> QED  BY <2>1, <2>2
<1> QED  BY <1>5, <1>9

\* Two walks that meet the same first word meet the same tables.
LEMMA SameWalk ==
  ASSUME NEW e, NEW r \in Places, NEW q \in Places, NEW v, e[r][v[1]] = e[q][v[1]]
  PROVE  TranslateIn(e, r, v) = TranslateIn(e, q, v)
<1> DEFINE t == TablesIn(e, r, v)
           k == TablesIn(e, q, v)
           S == {d \in Nat \ {0} : d + 1 <= Depth => t[d + 1] = k[d + 1]}
           Ends(g) == {d \in 1..Depth : g[d] = Nowhere \/ ~Present(e[g[d]][v[d]])}
<1>1. /\ t[1] = r
      /\ \A d \in 1..(Depth - 1) :
           t[d + 1] = IF t[d] = Nowhere THEN Nowhere ELSE e[t[d]][v[d]].to
      /\ k[1] = q
      /\ \A d \in 1..(Depth - 1) :
           k[d + 1] = IF k[d] = Nowhere THEN Nowhere ELSE e[k[d]][v[d]].to
  BY Walk
<1>2. r # Nowhere /\ q # Nowhere /\ Depth \in Nat /\ Depth > 1
  BY Numbers
<1>3. /\ FirstMissingIn(e, r, v) = Min(Ends(t) \cup {Depth + 1})
      /\ FirstMissingIn(e, q, v) = Min(Ends(k) \cup {Depth + 1})
  BY DEF FirstMissingIn
<1> HIDE DEF t, k
<1>4. 1 \in S
  <2>1. 1 \in 1..(Depth - 1)
    BY <1>2
  <2> QED  BY <1>1, <1>2, <2>1
<1>5. ASSUME NEW d \in Nat \ {0}, d \in S PROVE d + 1 \in S
  <2> SUFFICES ASSUME (d + 1) + 1 <= Depth PROVE t[(d + 1) + 1] = k[(d + 1) + 1]
    OBVIOUS
  <2>1. d + 1 \in 1..(Depth - 1) /\ d + 1 <= Depth
    BY <1>2
  <2> QED  BY <1>1, <1>5, <2>1
<1>6. \A d \in Nat \ {0} : d \in S
  <2> HIDE DEF S
  <2> QED  BY <1>4, <1>5, SetInduction
<1>7. \A d \in 2..Depth : t[d] = k[d]
  <2> SUFFICES ASSUME NEW d \in 2..Depth PROVE t[d] = k[d]
    OBVIOUS
  <2>1. d - 1 \in Nat \ {0} /\ (d - 1) + 1 = d /\ d <= Depth
    BY <1>2
  <2>2. d - 1 \in S
    BY <1>6, <2>1
  <2> QED  BY <2>1, <2>2
<1>8. Ends(t) = Ends(k)
  <2>1. ASSUME NEW d \in 1..Depth
        PROVE  (t[d] = Nowhere \/ ~Present(e[t[d]][v[d]]))
                 <=> (k[d] = Nowhere \/ ~Present(e[k[d]][v[d]]))
    <3>1. CASE d = 1
      BY <1>1, <1>2, <3>1
    <3>2. CASE d # 1
      BY <1>2, <1>7, <3>2
    <3> QED  BY <3>1, <3>2
  <2> QED  BY <2>1
<1>9. FirstMissingIn(e, r, v) = FirstMissingIn(e, q, v)
  <2> HIDE DEF Ends
  <2> QED  BY <1>3, <1>8
<1>10. e[t[Depth]][v[Depth]] = e[k[Depth]][v[Depth]]
  <2>1. Depth \in 2..Depth
    BY <1>2
  <2> QED  BY <1>7, <2>1
<1> QED  BY <1>9, <1>10 DEF TranslateIn, t, k

\* The kernel finds itself in every structure.
LEMMA KernelEverywhereHolds == IInv => KernelEverywhere
<1> SUFFICES ASSUME IInv, NEW root \in structures, NEW v \in Addresses
             PROVE  /\ Present(entry[root][Text[1]])
                    /\ v[1] \in KernelSlots /\ Present(entry[root][v[1]]) =>
                         Translate(root, v) = Translate(Kernel, v)
  BY DEF KernelEverywhere
<1>1. PICK rank, ours : Ordered(rank, ours, entry, Top, structures)
  BY DEF IInv
<1>2. Shared(entry, structures)
  BY <1>1 DEF Ordered
<1>3. root \in Places /\ Kernel \in Places
  BY StructuresAreThere
<1>4. Present(entry[root][Text[1]])
  BY <1>2 DEF Shared
<1>5. ASSUME v[1] \in KernelSlots, Present(entry[root][v[1]])
      PROVE  Translate(root, v) = Translate(Kernel, v)
  <2>1. entry[root][v[1]] = entry[Kernel][v[1]]
    BY <1>2, <1>5 DEF Shared
  <2>2. TranslateIn(entry, root, v) = TranslateIn(entry, Kernel, v)
    BY <1>3, <2>1, SameWalk
  <2> QED  BY <2>2, WalksAreThere
<1> QED  BY <1>4, <1>5

-----------------------------------------------------------------------------
(* What a step does to a translation.                                      *)

\* A walk up to level n whose words above n stay as they are.
LEMMA WalkKept ==
  ASSUME NEW e, NEW e2, NEW root, NEW v, NEW n \in 1..Depth,
         \A d \in 1..(n - 1) : e2[TablesIn(e, root, v)[d]][v[d]] = e[TablesIn(e, root, v)[d]][v[d]]
  PROVE  \A d \in 1..n : TablesIn(e2, root, v)[d] = TablesIn(e, root, v)[d]
<1> DEFINE t == TablesIn(e, root, v)
           k == TablesIn(e2, root, v)
           S == {d \in Nat \ {0} : d <= n => k[d] = t[d]}
<1>1. /\ t[1] = root
      /\ \A d \in 1..(Depth - 1) :
           t[d + 1] = IF t[d] = Nowhere THEN Nowhere ELSE e[t[d]][v[d]].to
      /\ k[1] = root
      /\ \A d \in 1..(Depth - 1) :
           k[d + 1] = IF k[d] = Nowhere THEN Nowhere ELSE e2[k[d]][v[d]].to
  BY Walk
<1>2. \A d \in 1..(n - 1) : e2[t[d]][v[d]] = e[t[d]][v[d]]
  OBVIOUS
<1> HIDE DEF t, k
<1>3. 1 \in S
  BY <1>1
<1>4. ASSUME NEW d \in Nat \ {0}, d \in S PROVE d + 1 \in S
  <2> SUFFICES ASSUME d + 1 <= n PROVE k[d + 1] = t[d + 1]
    OBVIOUS
  <2>1. d \in 1..(n - 1) /\ d \in 1..(Depth - 1) /\ d <= n
    BY Numbers
  <2> QED  BY <1>1, <1>2, <1>4, <2>1
<1>5. \A d \in Nat \ {0} : d \in S
  <2> HIDE DEF S
  <2> QED  BY <1>3, <1>4, SetInduction
<1>6. \A d \in 1..n : k[d] = t[d]
  BY <1>5, Numbers
<1> QED  BY <1>6 DEF t, k

LEMMA TranslationKept ==
  ASSUME NEW e, NEW e2, NEW root \in Places, NEW v, TranslateIn(e, root, v) > 0,
         \A d \in 1..Depth : e2[TablesIn(e, root, v)[d]][v[d]] = e[TablesIn(e, root, v)[d]][v[d]]
  PROVE  TranslateIn(e2, root, v) = TranslateIn(e, root, v)
<1> DEFINE t == TablesIn(e, root, v)
           k == TablesIn(e2, root, v)
           m == FirstMissingIn(e2, root, v)
<1>1. Depth \in Nat /\ Depth > 1 /\ Depth \in 1..Depth /\ 1..(Depth - 1) \subseteq 1..Depth
  BY Numbers
<1>2. \A d \in 1..Depth : k[d] = t[d]
  BY <1>1, WalkKept
<1>3. /\ \A d \in 1..Depth : t[d] # Nowhere /\ Present(e[t[d]][v[d]])
      /\ TranslateIn(e, root, v) = e[t[Depth]][v[Depth]].to
  BY Complete
<1>4. /\ m \in 1..(Depth + 1)
      /\ m <= Depth => k[m] # Nowhere /\ ~Present(e2[k[m]][v[m]])
  BY WalkEnds
<1>5. \A d \in 1..Depth : e2[t[d]][v[d]] = e[t[d]][v[d]]
  OBVIOUS
<1>6. TranslateIn(e2, root, v) = IF m <= Depth THEN m - Depth - 1 ELSE e2[k[Depth]][v[Depth]].to
  BY DEF TranslateIn
<1> HIDE DEF t, k, m
<1>7. ~(m <= Depth)
  <2> SUFFICES ASSUME m <= Depth PROVE FALSE
    OBVIOUS
  <2>1. m \in 1..Depth
    BY <1>1, <1>4
  <2> QED  BY <1>2, <1>3, <1>4, <1>5, <2>1
<1> QED  BY <1>1, <1>2, <1>3, <1>5, <1>6, <1>7

\* The leaf goes, the tables above it stay: the translation fails at the leaf.
LEMMA TranslationLost ==
  ASSUME NEW e, NEW e2, NEW root \in Places, NEW v, TranslateIn(e, root, v) > 0,
         \A d \in 1..(Depth - 1) : e2[TablesIn(e, root, v)[d]][v[d]] = e[TablesIn(e, root, v)[d]][v[d]],
         ~Present(e2[TablesIn(e, root, v)[Depth]][v[Depth]])
  PROVE  TranslateIn(e2, root, v) = -1
<1> DEFINE t == TablesIn(e, root, v)
           k == TablesIn(e2, root, v)
           m == FirstMissingIn(e2, root, v)
<1>1. Depth \in Nat /\ Depth > 1 /\ Depth \in 1..Depth
  BY Numbers
<1>2. \A d \in 1..Depth : k[d] = t[d]
  BY <1>1, WalkKept
<1>3. \A d \in 1..Depth : t[d] # Nowhere /\ Present(e[t[d]][v[d]])
  BY Complete
<1>4. /\ m \in 1..(Depth + 1)
      /\ \A d \in 1..Depth : d < m => k[d] # Nowhere /\ Present(e2[k[d]][v[d]])
      /\ m <= Depth => k[m] # Nowhere /\ ~Present(e2[k[m]][v[m]])
  BY WalkEnds
<1>5. /\ \A d \in 1..(Depth - 1) : e2[t[d]][v[d]] = e[t[d]][v[d]]
      /\ ~Present(e2[t[Depth]][v[Depth]])
  OBVIOUS
<1>6. TranslateIn(e2, root, v) = IF m <= Depth THEN m - Depth - 1 ELSE e2[k[Depth]][v[Depth]].to
  BY DEF TranslateIn
<1> HIDE DEF t, k, m
<1>7. ~(Depth < m)
  BY <1>1, <1>2, <1>4, <1>5
<1>8. ~(m < Depth)
  <2> SUFFICES ASSUME m < Depth PROVE FALSE
    OBVIOUS
  <2>1. m \in 1..(Depth - 1) /\ m \in 1..Depth /\ m <= Depth
    BY <1>1, <1>4
  <2> QED  BY <1>2, <1>3, <1>4, <1>5, <2>1
<1>9. m = Depth /\ m <= Depth /\ m - Depth - 1 = -1
  BY <1>1, <1>4, <1>7, <1>8
<1> QED  BY <1>6, <1>9

\* Walks that meet in the leaf's table went through the same slots.
LEMMA SameLeaf ==
  ASSUME NEW top, NEW rank, NEW e, NEW roots, Ranked(rank, e, top, roots), Single(rank, e, top),
         NEW r \in roots, NEW q \in roots, NEW v \in Addresses, NEW w \in Addresses,
         \A d \in 1..Depth : TablesIn(e, r, v)[d] # Nowhere /\ TablesIn(e, q, w)[d] # Nowhere,
         TablesIn(e, r, v)[Depth] = TablesIn(e, q, w)[Depth], v[Depth] = w[Depth]
  PROVE  v = w
<1> DEFINE t == TablesIn(e, r, v)
           k == TablesIn(e, q, w)
           S == {n \in Nat \ {0} : n < Depth => t[Depth + 1 - n] = k[Depth + 1 - n]}
<1>1. Depth \in Nat /\ Depth > 1 /\ (\A d \in 1..Depth : v[d] \in Slots /\ w[d] \in Slots)
  BY Numbers, AddressesHaveSlots
<1>2. \A d \in 1..Depth : t[d] # Nowhere => t[d] \in 0..top /\ rank[t[d]] = d
  BY <1>1, OnWay
<1>3. \A d \in 1..Depth : k[d] # Nowhere => k[d] \in 0..top /\ rank[k[d]] = d
  BY <1>1, OnWay
<1>4. /\ \A d \in 1..(Depth - 1) :
           t[d + 1] = IF t[d] = Nowhere THEN Nowhere ELSE e[t[d]][v[d]].to
      /\ \A d \in 1..(Depth - 1) :
           k[d + 1] = IF k[d] = Nowhere THEN Nowhere ELSE e[k[d]][w[d]].to
  BY Walk
<1>5. t[Depth] = k[Depth] /\ \A d \in 1..Depth : t[d] # Nowhere /\ k[d] # Nowhere
  OBVIOUS
<1> HIDE DEF t, k
<1>6. ASSUME NEW d \in 1..(Depth - 1), t[d + 1] = k[d + 1]
      PROVE  v[d] = w[d] /\ (t[d] = k[d] \/ d = 1)
  <2>1. d \in 1..Depth /\ d + 1 \in 1..Depth /\ d < Depth
    BY <1>1
  <2>2. /\ t[d] \in 0..top /\ rank[t[d]] = d /\ k[d] \in 0..top /\ rank[k[d]] = d
        /\ t[d] # Nowhere /\ k[d] # Nowhere /\ t[d + 1] # Nowhere /\ v[d] \in Slots /\ w[d] \in Slots
    BY <1>1, <1>2, <1>3, <1>5, <2>1
  <2>3. e[t[d]][v[d]].to = t[d + 1] /\ e[k[d]][w[d]].to = k[d + 1]
    BY <1>4, <2>2
  <2> QED  BY <1>6, <2>1, <2>2, <2>3 DEF Single
<1>7. 1 \in S
  <2>1. Depth + 1 - 1 = Depth
    BY <1>1
  <2> QED  BY <1>5, <2>1
<1>8. ASSUME NEW n \in Nat \ {0}, n \in S PROVE n + 1 \in S
  <2> SUFFICES ASSUME n + 1 < Depth PROVE t[Depth + 1 - (n + 1)] = k[Depth + 1 - (n + 1)]
    OBVIOUS
  <2>1. PICK d : d = Depth + 1 - (n + 1)
    OBVIOUS
  <2>2. d \in 1..(Depth - 1) /\ d # 1 /\ d + 1 = Depth + 1 - n /\ n < Depth
    BY <1>1, <2>1
  <2>3. t[d + 1] = k[d + 1]
    BY <1>8, <2>2
  <2>4. t[d] = k[d]
    BY <1>6, <2>2, <2>3
  <2> QED  BY <2>1, <2>4
<1>9. \A n \in Nat \ {0} : n \in S
  <2> HIDE DEF S
  <2> QED  BY <1>7, <1>8, SetInduction
<1>10. ASSUME NEW d \in 1..(Depth - 1) PROVE v[d] = w[d]
  <2>1. Depth - d \in Nat \ {0} /\ Depth - d < Depth /\ Depth + 1 - (Depth - d) = d + 1
    BY <1>1
  <2>2. Depth - d \in S
    BY <1>9, <2>1
  <2>3. t[d + 1] = k[d + 1]
    BY <2>1, <2>2
  <2> QED  BY <1>6, <2>3
<1>11. \A d \in 1..Depth : v[d] = w[d]
  BY <1>1, <1>10
<1>12. v \in [1..Depth -> Slots] /\ w \in [1..Depth -> Slots]
  BY PagingAssumption
<1>13. v = [d \in 1..Depth |-> v[d]] /\ w = [d \in 1..Depth |-> w[d]]
  BY <1>12
<1>14. [d \in 1..Depth |-> v[d]] = [d \in 1..Depth |-> w[d]]
  BY <1>11
<1> QED  BY <1>13, <1>14

-----------------------------------------------------------------------------
(* The theorems.                                                           *)

\* A call of MapPage changes no word that was present in a frame that had been taken.
LEMMA PresentWordsStay ==
  ASSUME IInv, NEW root \in structures, NEW v \in Addresses, NEW page, NEW user,
         NEW taken \in {0, 1}, MapPage(root, v, page, user, taken)
  PROVE  \A f \in 0..Top, s \in Slots : Present(entry[f][s]) => entry'[f][s] = entry[f][s]
<1>1. Types /\ root \in Places
  BY StructuresAreThere DEF IInv
<1>2. PICK rank, ours : Ordered(rank, ours, entry, Top, structures)
  BY DEF IInv
<1>3. Ranked(rank, entry, Top, structures)
  BY <1>2 DEF Ordered
<1> DEFINE m == FirstMissingIn(entry, root, v)
           p == TablesIn(entry, root, v)[m]
<1>4. /\ m = Depth + 1 => entry' = entry
      /\ m \in 1..Depth => Completes(entry', entry, p, v, m, Top + taken, page, user)
      /\ m \in 1..(Depth + 1)
  <2>1. \A d \in 1..Depth : v[d] \in Slots
    BY AddressesHaveSlots
  <2> QED  BY <1>1, <1>3, <2>1, PageMapped
<1>5. m <= Depth => ~Present(entry[p][v[m]])
  BY <1>1, WalkEnds
<1> HIDE DEF m, p
<1>6. CASE m = Depth + 1
  BY <1>4, <1>6
<1>7. CASE m # Depth + 1
  <2>1. m \in 1..Depth /\ m <= Depth
    BY <1>4, <1>7, Numbers
  <2>2. Completes(entry', entry, p, v, m, Top + taken, page, user) /\ ~Present(entry[p][v[m]])
    BY <1>4, <1>5, <2>1
  <2>3. \A f \in 0..Top : f \in Places /\ f \notin (Top + taken + 1)..(Top + taken + Depth - m)
    BY StructuresAreThere
  <2> QED  BY <2>2, <2>3 DEF Completes
<1> QED  BY <1>6, <1>7

LEMMA OnlyUnmappedStep ==
  ASSUME IInv, [Next]_vars, NEW root \in structures, NEW v \in Addresses, Translate(root, v) > 0
  PROVE  \/ Translate(root, v)' = Translate(root, v)
         \/ v = Trampoline /\ UnmapTrampoline /\ Translate(root, v)' = -1
<1>1. PICK rank, ours : Ordered(rank, ours, entry, Top, structures)
  BY DEF IInv
<1>2. Ranked(rank, entry, Top, structures) /\ Single(rank, entry, Top) /\ Types
  BY <1>1 DEF Ordered, IInv
<1>3. /\ root \in Places /\ Kernel \in Places /\ Kernel \in structures /\ Depth \in Nat /\ Depth > 1
      /\ Trampoline \in Addresses /\ Registers \in Addresses
      /\ \A f \in 0..Top : f \in Places
  BY StructuresAreThere, SlotFacts, Numbers
<1> DEFINE t == TablesIn(entry, root, v)
<1>4. TranslateIn(entry, root, v) > 0
  BY WalksAreThere
<1>5. \A d \in 1..Depth : t[d] # Nowhere /\ Present(entry[t[d]][v[d]])
  BY <1>3, <1>4, Complete
<1>6. \A d \in 1..Depth : v[d] \in Slots
  BY AddressesHaveSlots
<1>7. \A d \in 1..Depth : t[d] \in 0..Top /\ rank[t[d]] = d
  <2>1. \A d \in 1..Depth : t[d] # Nowhere => t[d] \in 0..Top /\ rank[t[d]] = d
    BY <1>2, <1>6, OnWay
  <2> HIDE DEF t
  <2> QED  BY <1>5, <2>1
<1>8. ASSUME \A d \in 1..Depth : entry'[t[d]][v[d]] = entry[t[d]][v[d]]
      PROVE  Translate(root, v)' = Translate(root, v)
  <2>1. TranslateIn(entry', root, v) = TranslateIn(entry, root, v)
    BY <1>3, <1>4, <1>8, TranslationKept
  <2> QED  BY <2>1, WalksAreThere
<1> HIDE DEF t
<1>9. ASSUME \A f \in 0..Top, s \in Slots : Present(entry[f][s]) => entry'[f][s] = entry[f][s]
      PROVE  Translate(root, v)' = Translate(root, v)
  BY <1>5, <1>6, <1>7, <1>8, <1>9
<1>10. ASSUME NEW lower, NewPageStructure(lower)
       PROVE  Translate(root, v)' = Translate(root, v)
  <2>1. entry' = [entry EXCEPT ![Frame(1)] = NewRoot(lower)] /\ Frame(1) = Top + 1
    BY <1>10, FirstFrame DEF NewPageStructure
  <2>2. \A f \in 0..Top : f # Top + 1
    BY StructuresAreThere
  <2>3. \A f \in 0..Top : entry'[f] = entry[f]
    BY <1>2, <1>3, <2>1, <2>2 DEF Types, Memories
  <2> QED  BY <1>9, <2>3
<1>11. CASE MapTrampoline
  BY <1>3, <1>9, <1>11, PresentWordsStay DEF MapTrampoline
<1>12. CASE MapRegisters
  BY <1>3, <1>9, <1>12, PresentWordsStay DEF MapRegisters, MapMmio
<1>13. CASE NewProcess
  BY <1>10, <1>13 DEF NewProcess
<1>14. ASSUME NEW w \in LibraryPages, LoadLibraryPage(w)
       PROVE  Translate(root, v)' = Translate(root, v)
  BY <1>3, <1>9, <1>14, SlotFacts, PresentWordsStay DEF LoadLibraryPage
<1>15. ASSUME NEW w \in BufferPages, MapBuffer(w) PROVE Translate(root, v)' = Translate(root, v)
  BY <1>3, <1>9, <1>15, SlotFacts, PresentWordsStay DEF MapBuffer, MapMmio
<1>16. ASSUME NEW r \in structures \ {Kernel}, CloneProcess(r)
       PROVE  Translate(root, v)' = Translate(root, v)
  BY <1>10, <1>16 DEF CloneProcess
<1>17. ASSUME NEW r \in structures \ {Kernel}, NEW w \in ProgramPages, LoadProgramPage(r, w)
       PROVE  Translate(root, v)' = Translate(root, v)
  BY <1>9, <1>17, SlotFacts, PresentWordsStay DEF LoadProgramPage
<1>18. CASE UnmapTrampoline
  <2> DEFINE k == TablesIn(entry, Kernel, Trampoline)
             p == k[Depth]
  <2>1. \/ entry' = entry
        \/ /\ FirstMissingIn(entry, Kernel, Trampoline) = Depth + 1
           /\ p \in 0..Top /\ rank[p] = Depth /\ Trampoline[Depth] \in Slots
           /\ \A f \in Places, s \in Slots :
                entry'[f][s] = IF f = p /\ s = Trampoline[Depth] THEN Absent ELSE entry[f][s]
    BY <1>1, <1>2, <1>3, <1>18, PageUnmapped DEF UnmapTrampoline
  <2>2. CASE entry' = entry
    BY <1>8, <2>2
  <2>3. CASE entry' # entry
    <3>1. /\ FirstMissingIn(entry, Kernel, Trampoline) = Depth + 1 /\ rank[p] = Depth
          /\ \A f \in Places, s \in Slots :
               entry'[f][s] = IF f = p /\ s = Trampoline[Depth] THEN Absent ELSE entry[f][s]
      BY <2>1, <2>3
    <3>2. \A d \in 1..Depth : k[d] # Nowhere
      <4>1. \A d \in 1..Depth : d < FirstMissingIn(entry, Kernel, Trampoline) => k[d] # Nowhere
        BY <1>3, WalkEnds
      <4> HIDE DEF k
      <4>2. \A d \in 1..Depth : d < Depth + 1
        BY <1>3
      <4> QED  BY <3>1, <4>1, <4>2
    <3>3. CASE t[Depth] = p /\ v[Depth] = Trampoline[Depth]
      <4>1. v = Trampoline
        <5>1. \A d \in 1..Depth : TablesIn(entry, root, v)[d] # Nowhere
                                  /\ TablesIn(entry, Kernel, Trampoline)[d] # Nowhere
          BY <1>5, <3>2 DEF t
        <5>2. TablesIn(entry, root, v)[Depth] = TablesIn(entry, Kernel, Trampoline)[Depth]
          BY <3>3 DEF t
        <5> QED  BY <1>2, <1>3, <3>3, <5>1, <5>2, SameLeaf
      <4> HIDE DEF p
      <4>2. \A d \in 1..(Depth - 1) : entry'[t[d]][v[d]] = entry[t[d]][v[d]]
        <5> SUFFICES ASSUME NEW d \in 1..(Depth - 1) PROVE entry'[t[d]][v[d]] = entry[t[d]][v[d]]
          OBVIOUS
        <5>1. d \in 1..Depth /\ d # Depth
          BY <1>3
        <5>2. t[d] \in Places /\ rank[t[d]] = d /\ v[d] \in Slots
          BY <1>3, <1>6, <1>7, <5>1
        <5>3. t[d] # p
          BY <3>1, <5>1, <5>2
        <5> QED  BY <3>1, <5>2, <5>3
      <4>3. ~Present(entry'[t[Depth]][v[Depth]])
        <5>1. Depth \in 1..Depth
          BY <1>3
        <5>2. t[Depth] \in Places /\ v[Depth] \in Slots
          BY <1>3, <1>6, <1>7, <5>1
        <5> QED  BY <3>1, <3>3, <5>2, Fields
      <4>4. TranslateIn(entry', root, v) = -1
        BY <1>3, <1>4, <4>2, <4>3, TranslationLost DEF t
      <4> QED  BY <1>18, <4>1, <4>4, WalksAreThere
    <3>4. CASE ~(t[Depth] = p /\ v[Depth] = Trampoline[Depth])
      <4> HIDE DEF p
      <4>1. ASSUME NEW d \in 1..Depth PROVE entry'[t[d]][v[d]] = entry[t[d]][v[d]]
        <5>1. t[d] \in Places /\ rank[t[d]] = d /\ v[d] \in Slots
          BY <1>3, <1>6, <1>7
        <5>2. ~(t[d] = p /\ v[d] = Trampoline[Depth])
          BY <3>1, <3>4, <5>1
        <5> QED  BY <3>1, <5>1, <5>2
      <4> QED  BY <1>8, <4>1
    <3> QED  BY <3>3, <3>4
  <2> QED  BY <2>2, <2>3
<1>19. CASE UNCHANGED vars
  BY <1>8, <1>19 DEF vars
<1> QED  BY <1>11, <1>12, <1>13, <1>14, <1>15, <1>16, <1>17, <1>18, <1>19 DEF Next

\* No place is both a table of one level and a table of another or a page, tables below
\* the second level hang from one entry, and nothing that a caller maps leads through
\* memory that was never cleared (mmu.c:127-157).
THEOREM FramesHaveOneRole == Spec => []OneRole
<1> QED  BY Invariant, OneRoleHolds, PTL

\* Whatever structure is loaded, the kernel is where KernelInitializePaging put it, and an
\* address of the upper half leads where it leads in kernel_pml4 (mmu.c:195-201).
THEOREM KernelIsEverywhere == Spec => []KernelEverywhere
<1> QED  BY Invariant, KernelEverywhereHolds, PTL

\* A page that an executable was loaded into can be reached from ring 3: no table on the
\* way was built by a mapping of the kernel's (mmu.c:144-157, elf.c).
THEOREM ProgramsAreReached == Spec => []UserReaches
<1> QED  BY Invariant, UserReachesHolds, PTL

\* KernelMapPage and KernelNewPageStructure leave every mapping of every structure as it
\* is; KernelUnmapPage takes its own leaf and no other (mmu.c:157, 189-190).
THEOREM MappingsStay == Spec => OnlyUnmapped
<1>1. IInv /\ [Next]_vars =>
        [\A root \in structures, v \in Addresses :
           Translate(root, v) > 0 =>
             \/ Translate(root, v)' = Translate(root, v)
             \/ v = Trampoline /\ UnmapTrampoline /\ Translate(root, v)' = -1]_vars
  BY OnlyUnmappedStep
<1> QED  BY <1>1, Invariant, PTL DEF Spec, OnlyUnmapped
=============================================================================
