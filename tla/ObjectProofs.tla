----------------------------- MODULE ObjectProofs -----------------------------
(***************************************************************************)
(* The object tree, and the keyboard's file in it.  The three properties   *)
(* of Keyboard, for any number of keys, any keymap and any size of the     *)
(* controller's buffer and of the file; Init, Next and Spec are its.  Then *)
(* the tree of Namespace, for any number of objects and processes and any  *)
(* names and paths.                                                        *)
(***************************************************************************)
EXTENDS Keyboard, Namespace, NaturalsInduction, WellFoundedInduction, SequenceTheorems, TLAPS

Bytes == Keys \cup {Nothing, Config, OldByte, Floating}
Characters == Keys \cup {Nothing}

KeyTypes ==
  /\ step \in 0..10 /\ timeout \in 0..FlushLimit
  /\ missing \in BOOLEAN /\ enabled \in BOOLEAN
  /\ output \in Seq(Bytes)
  /\ pressed \in 0..MaxKeys /\ sent \in 0..pressed /\ handled \in 0..sent
  /\ file \in {<<>>} \cup [0..FileSize -> Characters]
  /\ stream \in BOOLEAN /\ got \in 0..handled

\* Until the configuration has been read the keyboard is off, and between the two
\* the buffer is empty or the loop has come to its last round.
Quiet ==
  /\ step < 2 => timeout < FlushLimit /\ status = Nothing
  /\ step \in 1..4 => ~enabled
  /\ step = 2 => timeout = FlushLimit \/ (output = <<>> /\ ~missing)

\* Nothing that needs the file is possible before there is one.
FileFirst ==
  /\ step \in 6..9 \/ "unmask" \in irq \/ stream => file # <<>>
  /\ ~fault

IsKey(i) == output[i] \in Keys
\* At most one key is in the controller, the last that was sent, and newer than what
\* the file holds.
InOrder ==
  /\ \A i \in 1..Len(output) : IsKey(i) => output[i] = sent /\ handled < sent
  /\ \A i, j \in 1..Len(output) : IsKey(i) /\ IsKey(j) => i = j
  /\ file # <<>> => file[0] \in {Nothing, handled}

IInv == KeyTypes /\ Quiet /\ FileFirst /\ InOrder /\ StatusIsConfig

-----------------------------------------------------------------------------
\* Each step of the set-up has its number.
LEMMA StepNumber ==
  ASSUME step \in 0..10
  PROVE  /\ At("disable") => step = 0
         /\ At("flush") => step = 1
         /\ At("read") => step = 2
         /\ At("configure") => step = 3
         /\ At("enable") => step = 4
         /\ At("file") => step = 5
         /\ \A s \in {"entry", "map"} : At(s) => step \in {6, 7}
         /\ At("unmask") => step = 8
<1>1. Len(Steps) = 9
  BY DEF Steps
<1>2. /\ Steps[1] = "disable" /\ Steps[2] = "flush" /\ Steps[3] = "read"
      /\ Steps[4] = "configure" /\ Steps[5] = "enable" /\ Steps[6] = "file"
      /\ Steps[7] = "entry" /\ Steps[8] = "map" /\ Steps[9] = "unmask"
  BY DEF Steps
<1>3. step < 9 => step \in {0, 1, 2, 3, 4, 5, 6, 7, 8}
  BY Z3
<1> QED  BY <1>1, <1>2, <1>3 DEF At

LEMMA GivenUpNumber == GivenUp = 10
BY DEF GivenUp, Steps

LEMMA Initially == Init => IInv
<1> SUFFICES ASSUME Init PROVE IInv
  OBVIOUS
<1>1. PICK n \in 0..FlushLimit : output \in [1..n -> {OldByte}]
  BY DEF Init
<1>2. output \in Seq(Bytes) /\ Len(output) = n /\ \A i \in 1..n : output[i] = OldByte
  BY <1>1, KeyboardAssumption DEF Bytes
<1>3. \A i \in 1..Len(output) : ~IsKey(i)
  BY <1>2, KeyboardAssumption DEF IsKey, Keys, OldByte
<1>4. KeyTypes
  <2>1. enabled \in BOOLEAN /\ missing \in BOOLEAN /\ stream \in BOOLEAN
    BY Zenon DEF Init
  <2>2. file \in {<<>>} \cup [0..FileSize -> Characters]
    BY DEF Init
  <2>3. pressed \in 0..MaxKeys /\ sent \in 0..pressed /\ handled \in 0..sent /\ got \in 0..handled
    BY KeyboardAssumption DEF Init, Nothing
  <2>4. step \in 0..10 /\ timeout \in 0..FlushLimit
    BY KeyboardAssumption DEF Init
  <2> QED  BY <1>2, <2>1, <2>2, <2>3, <2>4 DEF KeyTypes
<1>5. Quiet /\ FileFirst /\ StatusIsConfig
  BY KeyboardAssumption DEF Init, Quiet, FileFirst, StatusIsConfig
<1>6. InOrder
  BY <1>3 DEF Init, InOrder
<1> QED  BY <1>4, <1>5, <1>6 DEF IInv

-----------------------------------------------------------------------------
\* A file that exists is not the null pointer, and a byte written to it keeps it a file.
LEMMA AFile ==
  ASSUME NEW f \in [0..FileSize -> Characters]
  PROVE  f # <<>>
BY KeyboardAssumption

LEMMA WrittenFile ==
  ASSUME file \in [0..FileSize -> Characters], NEW c \in Characters
  PROVE  /\ RamfsWriteByte(0, c) \in [0..FileSize -> Characters]
         /\ RamfsWriteByte(0, c)[0] = c
BY KeyboardAssumption DEF RamfsWriteByte

LEMMA NewFileIsEmpty ==
  NewFile \in [0..FileSize -> Characters] /\ NewFile[0] = Nothing
BY KeyboardAssumption DEF NewFile, Characters

\* What is left of the controller's output after a read of its port.
LEMMA TailOrdered ==
  ASSUME IInv, output # <<>>
  PROVE  /\ Tail(output) \in Seq(Bytes)
         /\ Len(Tail(output)) = Len(output) - 1
         /\ \A i \in 1..Len(Tail(output)) : Tail(output)[i] = output[i + 1]
         /\ Head(output) = output[1] /\ Len(output) > 0
BY DEF IInv, KeyTypes

-----------------------------------------------------------------------------
(* The steps of the set-up.                                                *)

LEMMA DisableKeeps == ASSUME IInv, Disable PROVE IInv'
<1>1. step = 0 /\ step' = 1 /\ enabled' = FALSE
  BY StepNumber DEF IInv, KeyTypes, Disable
<1> USE <1>1 DEF Disable, program, IInv
<1>2. KeyTypes'
  <2>1. enabled' \in BOOLEAN
    BY Zenon
  <2> QED  BY <2>1 DEF KeyTypes
<1>3. Quiet' /\ FileFirst'
  BY DEF Quiet, FileFirst
<1>4. InOrder' /\ StatusIsConfig'
  BY DEF InOrder, IsKey, StatusIsConfig
<1> QED  BY <1>2, <1>3, <1>4

LEMMA FlushKeeps == ASSUME IInv, Flush PROVE IInv'
<1>1. step = 1 /\ timeout < FlushLimit /\ status = Nothing /\ ~enabled
  BY StepNumber DEF IInv, KeyTypes, Flush, Quiet
<1>2. /\ timeout' \in 0..FlushLimit /\ step' \in {1, 2, 10}
      /\ step' = 1 => timeout' < FlushLimit
      /\ step' = 2 => timeout' = FlushLimit \/ (Rest = <<>> /\ ~missing)
  BY <1>1, GivenUpNumber, KeyboardAssumption DEF IInv, KeyTypes, Flush, Full
<1>3. output' = <<>> \/ (output # <<>> /\ output' = Tail(output))
  BY DEF Flush, Rest
<1>4. KeyTypes'
  <2>1. output' \in Seq(Bytes)
    <3>1. CASE output' = <<>>
      BY <3>1
    <3>2. CASE output # <<>> /\ output' = Tail(output)
      BY <3>2, TailOrdered
    <3> QED  BY <1>3, <3>1, <3>2
  <2> QED  BY <1>2, <2>1 DEF IInv, KeyTypes, Flush, program
<1>5. Quiet'
  BY <1>1, <1>2 DEF Quiet, Flush
<1>6. FileFirst' /\ StatusIsConfig'
  BY <1>1, <1>2 DEF IInv, FileFirst, StatusIsConfig, Flush, program
<1>7. InOrder'
  <2>1. CASE output' = <<>>
    BY <2>1 DEF IInv, InOrder, IsKey, Flush
  <2>2. CASE output # <<>> /\ output' = Tail(output)
    BY <2>2, TailOrdered DEF IInv, InOrder, IsKey, Flush
  <2> QED  BY <1>3, <2>1, <2>2
<1> QED  BY <1>4, <1>5, <1>6, <1>7 DEF IInv

LEMMA ReadConfigKeeps == ASSUME IInv, ReadConfig PROVE IInv'
<1>1. /\ step = 2 /\ step' = 3 /\ ~enabled
      /\ timeout = FlushLimit \/ (output = <<>> /\ ~missing)
  BY StepNumber DEF IInv, KeyTypes, ReadConfig, Quiet
<1> DEFINE answered == Append(output, Config)
<1>2. /\ answered \in Seq(Bytes) /\ answered # <<>> /\ Len(answered) = Len(output) + 1
      /\ \A i \in 1..Len(output) : answered[i] = output[i]
      /\ answered[Len(output) + 1] = Config
  BY DEF IInv, KeyTypes, Bytes
<1>3. \/ output' = output
      \/ /\ output' \in Seq(Bytes) /\ Len(output') = Len(output)
         /\ \A i \in 1..Len(output) : output'[i] = answered[i + 1]
  <2>1. output' = output \/ output' = Tail(answered)
    BY DEF ReadConfig
  <2>2. CASE output' = Tail(answered)
    <3>1. Tail(answered) \in Seq(Bytes) /\ Len(Tail(answered)) = Len(answered) - 1
      BY <1>2
    <3>2. \A i \in 1..Len(Tail(answered)) : Tail(answered)[i] = answered[i + 1]
      BY <1>2
    <3>3. Len(output) \in Nat
      BY DEF IInv, KeyTypes
    <3> HIDE DEF answered
    <3> QED  BY <1>2, <2>2, <3>1, <3>2, <3>3
  <2> QED  BY <2>1, <2>2
<1>4. KeyTypes'
  BY <1>1, <1>3 DEF IInv, KeyTypes, ReadConfig, program
<1>5. Quiet' /\ FileFirst'
  BY <1>1 DEF IInv, Quiet, FileFirst, ReadConfig, program
<1>6. StatusIsConfig'
  <2>1. output = <<>> /\ ~missing => status' = Config
    BY DEF ReadConfig
  <2> QED  BY <1>1, <2>1 DEF StatusIsConfig, ReadConfig
<1>7. InOrder'
  <2>1. CASE output' = output
    BY <2>1 DEF IInv, InOrder, IsKey, ReadConfig
  <2>2. CASE output' # output
    <3>1. Config \notin Keys
      BY KeyboardAssumption DEF Config, Keys
    <3>2. \A i \in 1..Len(output') : IsKey(i)' => i + 1 \in 1..Len(output) /\ output'[i] = output[i + 1]
      BY <1>2, <1>3, <2>2, <3>1 DEF IsKey, IInv, KeyTypes
    <3>3. \A i \in 1..Len(output') : IsKey(i)' => IsKey(i + 1)
      BY <3>2 DEF IsKey
    <3>4. /\ \A i \in 1..Len(output) : IsKey(i) => output[i] = sent /\ handled < sent
          /\ \A i, j \in 1..Len(output) : IsKey(i) /\ IsKey(j) => i = j
          /\ Len(output') = Len(output) /\ Len(output) \in Nat
      BY <1>3, <2>2 DEF IInv, InOrder, KeyTypes
    <3>5. \A i \in 1..Len(output') : IsKey(i)' => output'[i] = sent /\ handled < sent
      BY <3>2, <3>3, <3>4
    <3>6. \A i, j \in 1..Len(output') : IsKey(i)' /\ IsKey(j)' => i = j
      BY <3>2, <3>3, <3>4
    <3> QED  BY <3>5, <3>6 DEF IInv, InOrder, ReadConfig
  <2> QED  BY <2>1, <2>2
<1> QED  BY <1>4, <1>5, <1>6, <1>7 DEF IInv

LEMMA ConfigureKeeps == ASSUME IInv, Configure PROVE IInv'
<1>1. step = 3 /\ step' = 4
  BY StepNumber DEF IInv, KeyTypes, Configure
<1> USE <1>1 DEF Configure, controller, program, IInv
<1>2. KeyTypes'
  BY DEF KeyTypes
<1>3. Quiet' /\ FileFirst'
  BY DEF Quiet, FileFirst
<1>4. InOrder' /\ StatusIsConfig'
  BY DEF InOrder, IsKey, StatusIsConfig
<1> QED  BY <1>2, <1>3, <1>4

LEMMA EnableKeeps == ASSUME IInv, Enable PROVE IInv'
<1>1. step = 4 /\ step' = 5 /\ enabled' = TRUE
  BY StepNumber DEF IInv, KeyTypes, Enable
<1> USE <1>1 DEF Enable, program, IInv
<1>2. KeyTypes'
  BY DEF KeyTypes
<1>3. Quiet' /\ FileFirst'
  BY DEF Quiet, FileFirst
<1>4. InOrder' /\ StatusIsConfig'
  BY DEF InOrder, IsKey, StatusIsConfig
<1> QED  BY <1>2, <1>3, <1>4

LEMMA CreateFileKeeps == ASSUME IInv, CreateFile PROVE IInv'
<1>1. step = 5 /\ step' = 6
  BY StepNumber DEF IInv, KeyTypes, CreateFile
<1>2. file' \in [0..FileSize -> Characters] /\ file'[0] = Nothing /\ file' # <<>>
  BY NewFileIsEmpty, AFile DEF CreateFile
<1> USE <1>1, <1>2 DEF CreateFile, controller, program, IInv
<1>3. KeyTypes'
  BY DEF KeyTypes
<1>4. Quiet' /\ FileFirst'
  BY DEF Quiet, FileFirst
<1>5. InOrder' /\ StatusIsConfig'
  BY DEF InOrder, IsKey, StatusIsConfig
<1> QED  BY <1>3, <1>4, <1>5

LEMMA ConnectKeeps ==
  ASSUME IInv, NEW s \in {"entry", "map", "unmask"}, Connect(s)
  PROVE  IInv'
<1>1. step \in 6..8 /\ step' = step + 1 /\ step' \in 7..9
  BY StepNumber DEF IInv, KeyTypes, Connect
<1>2. file # <<>>
  BY <1>1 DEF IInv, FileFirst
<1> USE <1>1, <1>2 DEF Connect, controller, program, IInv
<1>3. KeyTypes'
  BY DEF KeyTypes
<1>4. Quiet' /\ FileFirst'
  BY DEF Quiet, FileFirst
<1>5. InOrder' /\ StatusIsConfig'
  BY DEF InOrder, IsKey, StatusIsConfig
<1> QED  BY <1>3, <1>4, <1>5

-----------------------------------------------------------------------------
(* The keyboard, its interrupt and the program.                            *)

LEMMA PressKeeps == ASSUME IInv, Press PROVE IInv'
<1> USE KeyboardAssumption DEF Press, boot, program, IInv
<1>1. KeyTypes'
  BY DEF KeyTypes
<1>2. Quiet' /\ FileFirst'
  BY DEF Quiet, FileFirst
<1>3. InOrder' /\ StatusIsConfig'
  BY DEF InOrder, IsKey, StatusIsConfig
<1> QED  BY <1>1, <1>2, <1>3

LEMMA SendKeeps == ASSUME IInv, Send PROVE IInv'
<1>1. sent + 1 \in Keys /\ sent' = sent + 1 /\ output' = <<sent + 1>> /\ handled <= sent
  BY KeyboardAssumption DEF IInv, KeyTypes, Send, Keys
<1>2. step \notin 1..4
  BY DEF IInv, Quiet, Send
<1>3. output' \in Seq(Bytes) /\ Len(output') = 1 /\ output'[1] = sent + 1
  BY <1>1 DEF Bytes
<1>4. KeyTypes'
  BY <1>1, <1>3, KeyboardAssumption DEF IInv, KeyTypes, Send, boot, program
<1>5. Quiet' /\ FileFirst' /\ StatusIsConfig'
  BY <1>2 DEF IInv, Quiet, FileFirst, StatusIsConfig, Send, boot, program
<1>6. InOrder'
  BY <1>1, <1>3 DEF IInv, KeyTypes, InOrder, IsKey, Send
<1> QED  BY <1>4, <1>5, <1>6 DEF IInv

LEMMA InterruptKeeps == ASSUME IInv, Interrupt PROVE IInv'
<1> DEFINE key == Head(output)
<1>1. file # <<>> /\ file \in [0..FileSize -> Characters]
  BY DEF IInv, KeyTypes, FileFirst, Interrupt
<1>2. ~fault'
  BY <1>1 DEF Interrupt
<1>3. output' = Tail(output) /\ output # <<>> /\ output' \in Seq(Bytes)
  BY TailOrdered DEF Interrupt
<1>4. \/ /\ key \in Keys /\ file' = RamfsWriteByte(0, key) /\ handled' = key
      \/ UNCHANGED <<file, handled>>
  BY <1>2, KeyboardAssumption DEF Interrupt
<1>5. key \in Keys => key = sent /\ handled < sent
  BY <1>3, TailOrdered DEF IInv, InOrder, IsKey
<1>6. /\ file' \in [0..FileSize -> Characters] /\ file' # <<>>
      /\ file'[0] \in {Nothing, handled'}
  <2>1. CASE key \in Keys /\ file' = RamfsWriteByte(0, key) /\ handled' = key
    <3>1. key \in Characters
      BY <2>1 DEF Characters
    <3> QED  BY <1>1, <2>1, <3>1, WrittenFile, AFile
  <2>2. CASE UNCHANGED <<file, handled>>
    BY <1>1, <2>2 DEF IInv, InOrder
  <2> QED  BY <1>4, <2>1, <2>2
<1>7. handled' \in 0..sent /\ handled <= handled'
  BY <1>4, <1>5 DEF IInv, KeyTypes
<1>8. KeyTypes'
  <2>1. got \in 0..handled'
    BY <1>7 DEF IInv, KeyTypes
  <2> QED  BY <1>3, <1>6, <1>7, <2>1 DEF IInv, KeyTypes, Interrupt, boot, program
<1>9. Quiet'
  <2>1. step = 2 => timeout = FlushLimit
    BY <1>3 DEF IInv, Quiet
  <2> QED  BY <2>1 DEF IInv, Quiet, Interrupt, boot
<1>10. FileFirst' /\ StatusIsConfig'
  BY <1>2, <1>6 DEF IInv, FileFirst, StatusIsConfig, Interrupt, boot
<1>11. InOrder'
  <2>1. \A i \in 1..Len(output') : IsKey(i)' => IsKey(i + 1) /\ output'[i] = output[i + 1]
    BY <1>3, TailOrdered DEF IsKey
  <2>2. Len(output') = Len(output) - 1 /\ Len(output) > 0 /\ Len(output) \in Nat
    BY <1>3, TailOrdered DEF IInv, KeyTypes
  <2>3. (\E i \in 1..Len(output') : IsKey(i)') => key \notin Keys
    BY <1>3, <2>1, <2>2, TailOrdered DEF IInv, InOrder, IsKey
  <2>4. (\E i \in 1..Len(output') : IsKey(i)') => handled' = handled
    BY <1>4, <2>3
  <2>5. sent' = sent
    BY DEF Interrupt
  <2> QED  BY <1>6, <2>1, <2>2, <2>4, <2>5 DEF IInv, InOrder
<1> QED  BY <1>8, <1>9, <1>10, <1>11 DEF IInv

LEMMA FopenKeeps == ASSUME IInv, Fopen PROVE IInv'
<1> USE DEF Fopen, boot, controller, IInv
<1>1. stream' \in BOOLEAN
  BY Zenon DEF Fopen
<1>2. KeyTypes'
  BY <1>1 DEF KeyTypes
<1>3. Quiet' /\ FileFirst'
  BY DEF Quiet, FileFirst
<1>4. InOrder' /\ StatusIsConfig'
  BY DEF InOrder, IsKey, StatusIsConfig
<1> QED  BY <1>2, <1>3, <1>4

\* What fgetc returns.
LEMMA FgetcReturns ==
  ASSUME IInv, Fgetc
  PROVE  got' \in {Nothing, handled}
<1>1. file # <<>>
  BY DEF IInv, FileFirst, Fgetc
<1>2. RamfsReadByte(0) = file[0]
  BY KeyboardAssumption DEF RamfsReadByte
<1> QED  BY <1>1, <1>2 DEF IInv, InOrder, Fgetc

LEMMA FgetcKeeps == ASSUME IInv, Fgetc PROVE IInv'
<1> USE DEF Fgetc, boot, controller, IInv
<1>1. got' \in 0..handled
  BY FgetcReturns DEF KeyTypes, Nothing
<1>2. KeyTypes'
  BY <1>1 DEF KeyTypes
<1>3. Quiet' /\ FileFirst'
  BY DEF Quiet, FileFirst
<1>4. InOrder' /\ StatusIsConfig'
  BY DEF InOrder, IsKey, StatusIsConfig
<1> QED  BY <1>2, <1>3, <1>4

LEMMA FputcKeeps == ASSUME IInv, Fputc PROVE IInv'
<1>1. file # <<>> /\ file \in [0..FileSize -> Characters] /\ Nothing \in Characters
  BY DEF IInv, KeyTypes, FileFirst, Fputc, Characters
<1>2. file' \in [0..FileSize -> Characters] /\ file'[0] = Nothing /\ file' # <<>>
  BY <1>1, WrittenFile, AFile DEF Fputc
<1> USE <1>2 DEF Fputc, boot, controller, program, IInv
<1>3. KeyTypes'
  BY DEF KeyTypes
<1>4. Quiet' /\ FileFirst'
  BY DEF Quiet, FileFirst
<1>5. InOrder' /\ StatusIsConfig'
  BY DEF InOrder, IsKey, StatusIsConfig
<1> QED  BY <1>3, <1>4, <1>5

LEMMA StutterKeeps == ASSUME IInv, UNCHANGED vars PROVE IInv'
<1> USE DEF vars, boot, controller, program, IInv
<1>1. KeyTypes'
  BY DEF KeyTypes
<1>2. Quiet' /\ FileFirst'
  BY DEF Quiet, FileFirst
<1>3. InOrder' /\ StatusIsConfig'
  BY DEF InOrder, IsKey, StatusIsConfig
<1> QED  BY <1>1, <1>2, <1>3

LEMMA Inductive == ASSUME IInv, [Next]_vars PROVE IInv'
BY DisableKeeps, FlushKeeps, ReadConfigKeeps, ConfigureKeeps, EnableKeeps, CreateFileKeeps,
   ConnectKeeps, PressKeeps, SendKeeps, InterruptKeeps, FopenKeeps, FgetcKeeps, FputcKeeps,
   StutterKeeps DEF Next

LEMMA Invariance == Spec => []IInv
BY Initially, Inductive, PTL DEF Spec

-----------------------------------------------------------------------------
(* The theorems.                                                           *)

\* ps2_handler never runs before HalInitializePs2 has made its file.
THEOREM TheHandlerHasAFile == Spec => []HandlerHasFile
<1>1. IInv => HandlerHasFile
  BY DEF IInv, FileFirst, HandlerHasFile
<1> QED  BY <1>1, Invariance, PTL

\* The status that HalInitializePs2 writes back is the controller's configuration,
\* or the loop that flushes has been to its last round.
THEOREM TheStatusIsTheConfiguration == Spec => []StatusIsConfig
<1>1. IInv => StatusIsConfig
  BY DEF IInv
<1> QED  BY <1>1, Invariance, PTL

\* fgetc returns nothing or the newest key that ps2_handler had, never an older one
\* after a newer.
THEOREM ReadsTheNewestKey == Spec => NewestKey
<1>1. ASSUME IInv, [Next]_vars
      PROVE  [got' # got => got' \in {Nothing, handled} /\ (got' # Nothing => got' >= got)]_vars
  <2>1. CASE Fgetc
    BY <1>1, <2>1, FgetcReturns DEF IInv, KeyTypes
  <2>2. CASE ~Fgetc
    BY <1>1, <2>2 DEF Next, Disable, Flush, ReadConfig, Configure, Enable, CreateFile, Connect,
       Press, Send, Interrupt, Fopen, Fputc, program, vars
  <2> QED  BY <2>1, <2>2
<1> QED  BY <1>1, Invariance, PTL DEF Spec, NewestKey

-----------------------------------------------------------------------------
(* The object tree.  First, numbers and functions that go on from one      *)
(* number to another.                                                      *)

LEMMA SmallestNumber ==
  ASSUME NEW S, S \subseteq Nat, S # {}
  PROVE  Min(S) \in S /\ \A n \in S : Min(S) <= n
<1> DEFINE R == OpToRel(<, Nat)
<1>1. IsWellFoundedOn(R, Nat)
  BY NatLessThanWellFounded
<1> HIDE DEF R
<1>2. PICK m \in S : \A n \in S : ~(<<n, m>> \in R)
  BY <1>1, WFMin
<1>3. \A n \in S : ~(n < m)
  BY <1>2 DEF R, OpToRel
<1>4. \A n \in S : m <= n
  BY <1>3
<1> QED  BY <1>4 DEF Min

LEMMA SetInduction ==
  ASSUME NEW S, 1 \in S, \A n \in Nat \ {0} : n \in S => n + 1 \in S
  PROVE  \A n \in Nat \ {0} : n \in S
<1> DEFINE T == (Nat \ {0}) \ S
<1> SUFFICES ASSUME T # {} PROVE FALSE
  OBVIOUS
<1>1. T \subseteq Nat
  OBVIOUS
<1> HIDE DEF T
<1>2. Min(T) \in T /\ \A n \in T : Min(T) <= n
  BY <1>1, SmallestNumber
<1> DEFINE m == Min(T)
<1>3. m \in Nat \ {0, 1} /\ m \notin S
  BY <1>2 DEF T
<1>4. m - 1 \in Nat \ {0} /\ m - 1 \notin T
  BY <1>1, <1>2, <1>3
<1> HIDE DEF m
<1> QED  BY <1>3, <1>4 DEF T

\* From the last number down to the first.
LEMMA Downwards ==
  ASSUME NEW N \in Nat, NEW S, \A i \in 1..N : (i < N => i + 1 \in S) => i \in S
  PROVE  \A i \in 1..N : i \in S
<1> DEFINE T == {x \in Nat : x < N /\ N - x \notin S}
<1>1. T = {}
  <2> SUFFICES ASSUME T # {} PROVE FALSE
    OBVIOUS
  <2>1. T \subseteq Nat
    OBVIOUS
  <2> HIDE DEF T
  <2> DEFINE m == Min(T)
  <2>2. m \in T /\ \A x \in T : m <= x
    BY <2>1, SmallestNumber
  <2> HIDE DEF m
  <2>3. m \in Nat /\ m < N /\ N - m \notin S
    BY <2>2 DEF T
  <2>4. ASSUME N - m < N PROVE N - m + 1 \in S
    <3>1. m - 1 \in Nat /\ m - 1 < N /\ N - (m - 1) = N - m + 1
      BY <2>3, <2>4
    <3>2. m - 1 \notin T
      BY <2>2, <2>3, <3>1
    <3> QED  BY <3>1, <3>2 DEF T
  <2>5. N - m \in 1..N
    BY <2>3
  <2> QED  BY <2>3, <2>4, <2>5
<1>2. \A i \in 1..N : N - i \in Nat /\ N - i < N /\ N - (N - i) = i
  OBVIOUS
<1> QED  BY <1>1, <1>2

LEMMA Upwards ==
  ASSUME NEW N \in Nat, NEW S, \A x \in 1..N : (\A y \in 1..(x - 1) : y \in S) => x \in S
  PROVE  \A x \in 1..N : x \in S
<1> DEFINE T == {x \in 1..N : x \notin S}
<1> SUFFICES ASSUME T # {} PROVE FALSE
  OBVIOUS
<1>1. T \subseteq Nat
  OBVIOUS
<1> HIDE DEF T
<1> DEFINE m == Min(T)
<1>2. m \in T /\ \A x \in T : m <= x
  BY <1>1, SmallestNumber
<1> HIDE DEF m
<1>3. m \in 1..N /\ m \notin S
  BY <1>2 DEF T
<1>4. \A y \in 1..(m - 1) : y \in S
  BY <1>2, <1>3 DEF T
<1> QED  BY <1>3, <1>4

\* A function that goes on from a number before it.
GoesOn(f, N, A, base, before, goes) ==
  /\ f \in [1..N -> A] /\ f[1] = base
  /\ \A x \in 2..N : f[x] = goes[x][f[before[x]]]
Goes(N, A, base, before, goes) == {n \in Nat : n <= N => \E f : GoesOn(f, n, A, base, before, goes)}

LEMMA RecursionDefined ==
  ASSUME NEW N \in Nat \ {0}, NEW A, NEW base \in A,
         NEW before, \A x \in 2..N : before[x] \in 1..(x - 1),
         NEW goes, \A x \in 2..N : goes[x] \in [A -> A]
  PROVE  \E f : GoesOn(f, N, A, base, before, goes)
<1> DEFINE S == Goes(N, A, base, before, goes)
<1>1. 1 \in S
  <2>1. GoesOn([x \in 1..1 |-> base], 1, A, base, before, goes)
    BY DEF GoesOn
  <2> QED  BY <2>1 DEF Goes
<1>2. ASSUME NEW n \in Nat \ {0}, n \in S PROVE n + 1 \in S
  <2> SUFFICES ASSUME n + 1 <= N PROVE \E f : GoesOn(f, n + 1, A, base, before, goes)
    BY DEF Goes
  <2>1. PICK f : GoesOn(f, n, A, base, before, goes)
    BY <1>2 DEF Goes
  <2> DEFINE v == goes[n + 1][f[before[n + 1]]]
             g == [x \in 1..(n + 1) |-> IF x = n + 1 THEN v ELSE f[x]]
  <2>2. n + 1 \in 2..N /\ before[n + 1] \in 1..n
    BY <1>2
  <2>3. v \in A
    BY <2>1, <2>2 DEF GoesOn
  <2>4. g[n + 1] = v /\ \A x \in 1..n : g[x] = f[x]
    OBVIOUS
  <2>5. g \in [1..(n + 1) -> A]
    BY <2>1, <2>3 DEF GoesOn
  <2>6. \A x \in 2..(n + 1) : x = n + 1 \/ (x \in 2..n /\ before[x] \in 1..n)
    BY <1>2
  <2> HIDE DEF g
  <2>7. \A x \in 2..(n + 1) : g[x] = goes[x][g[before[x]]]
    BY <2>1, <2>2, <2>4, <2>6 DEF GoesOn
  <2>8. g[1] = base
    BY <2>1, <2>4 DEF GoesOn
  <2> QED  BY <2>5, <2>7, <2>8 DEF GoesOn
<1> HIDE DEF S
<1>3. N \in S
  BY <1>1, <1>2, SetInduction
<1> QED  BY <1>3 DEF S, Goes

-----------------------------------------------------------------------------
TreeTypes ==
  /\ objects \in 2..MaxObjects
  /\ type \in [Objects -> Types] /\ name \in [Objects -> Names \cup {Dot}]
  /\ header_list \in [Objects -> Seq(Objects)]

TaskTypes ==
  /\ processes \in 0..MaxProcesses /\ current \in 0..processes
  /\ token \in [Processes -> {0, 1}] /\ cwd \in [Processes -> Objects \cup {Null}]
  /\ processes > 0 => token[Boot] = 1

Kids(d) == {header_list[d][k] : k \in 1..Len(header_list[d])}

\* Lists hold objects that exist, younger than the directory that the list is of, the
\* older ones first.
ListsRise ==
  \A d \in Objects : \A k \in 1..Len(header_list[d]) :
    /\ header_list[d][k] \in 2..objects /\ d < header_list[d][k]
    /\ type[d] = "directory"
    /\ \A j \in 1..Len(header_list[d]) : j < k => header_list[d][j] < header_list[d][k]

\* Every object has a name and lies in one directory.
OneParent ==
  /\ \A o \in 2..objects :
       name[o] \in Names /\ \E d \in Objects : o \in Kids(d)
  /\ \A d, e \in Objects : \A o \in Kids(d) : o \in Kids(e) => d = e

\* The device directory is the first child of the root.
DevicesFirst ==
  /\ type[Root] = "directory" /\ type[Devices] = "directory" /\ name[Devices] = DevicesName
  /\ Len(header_list[Root]) > 0 /\ header_list[Root][1] = Devices

TreeInv == TreeTypes /\ ListsRise /\ OneParent /\ DevicesFirst

-----------------------------------------------------------------------------
(* Resolution.                                                             *)

LEMMA KidsAre ==
  ASSUME TreeInv, NEW d \in Objects
  PROVE  /\ Kids(d) = ToSet(header_list[d])
         /\ \A o \in Kids(d) : o \in 2..objects /\ o \in Objects /\ d < o /\ type[d] = "directory"
<1>1. header_list[d] \in Seq(Objects)
  BY DEF TreeInv, TreeTypes
<1>2. Kids(d) = ToSet(header_list[d])
  BY <1>1 DEF Kids, ToSet
<1>3. 2..objects \subseteq Objects
  BY NamespaceAssumption DEF TreeInv, TreeTypes, Objects
<1> QED  BY <1>2, <1>3 DEF TreeInv, ListsRise, Kids

\* The child that is found is the oldest of that name.
LEMMA ChildParts ==
  ASSUME TreeInv, NEW d \in Objects, NEW n
  PROVE  /\ Child(d, n) = Null <=> \A o \in Kids(d) : name[o] # n
         /\ Child(d, n) # Null =>
              /\ Child(d, n) \in Kids(d) /\ Child(d, n) \in 2..objects /\ name[Child(d, n)] = n
              /\ \A o \in Kids(d) : name[o] = n => Child(d, n) <= o
<1> DEFINE at == {k \in 1..Len(header_list[d]) : name[header_list[d][k]] = n}
<1>1. Len(header_list[d]) \in Nat
  BY DEF TreeInv, TreeTypes
<1>2. Child(d, n) = IF at = {} THEN Null ELSE header_list[d][Min(at)]
  BY DEF Child
<1>3. at = {} <=> \A o \in Kids(d) : name[o] # n
  BY DEF Kids
<1>4. CASE at = {}
  BY <1>2, <1>3, <1>4
<1>5. CASE at # {}
  <2> DEFINE m == Min(at)
  <2>1. at \subseteq Nat
    BY <1>1
  <2> HIDE DEF at
  <2>2. m \in at /\ \A k \in at : m <= k
    BY <1>5, <2>1, SmallestNumber
  <2>3. Child(d, n) = header_list[d][m]
    BY <1>2, <1>5
  <2> HIDE DEF m
  <2>4. m \in 1..Len(header_list[d]) /\ name[header_list[d][m]] = n
    BY <2>2 DEF at
  <2>5. Child(d, n) \in Kids(d) /\ name[Child(d, n)] = n /\ Child(d, n) \in 2..objects
    BY <2>3, <2>4 DEF Kids, TreeInv, ListsRise
  <2>6. ASSUME NEW k \in 1..Len(header_list[d]), name[header_list[d][k]] = n
        PROVE  Child(d, n) <= header_list[d][k]
    <3>1. m <= k
      BY <2>2, <2>6 DEF at
    <3>2. m = k \/ m < k
      BY <2>4, <3>1
    <3>3. objects \in Nat
      BY DEF TreeInv, TreeTypes
    <3>4. m < k => header_list[d][m] < header_list[d][k]
      BY <2>4 DEF TreeInv, ListsRise
    <3>5. header_list[d][m] \in 2..objects /\ header_list[d][k] \in 2..objects
      BY <2>4 DEF TreeInv, ListsRise
    <3> QED  BY <2>3, <3>2, <3>3, <3>4, <3>5
  <2>7. Child(d, n) # Null
    BY <2>5 DEF Null
  <2> QED  BY <1>3, <1>5, <2>5, <2>6, <2>7 DEF Kids
<1> QED  BY <1>4, <1>5

Given == Objects \cup {Null}
Found == {Undefined, Null} \cup 1..objects
\* One component; r is what the rest of the path leads to, from each directory.
OneName(p, path, i, r, given) ==
  LET d == IF given # Null THEN given ELSE cwd[p]
      found == Child(d, path[i])
  IN  IF given = Null /\ p = 0 THEN Undefined
      ELSE IF i <= Len(path) /\ path[i] = Dot THEN r[ObjGetRootObject(p)]
      ELSE IF d = Null \/ type[d] # "directory" THEN Undefined
      ELSE IF i > Len(path) \/ found = Null THEN Null
      ELSE IF Descends(found, i < Len(path)) THEN r[found]
      ELSE found
ResolveStep(p, path, g) ==
  [i \in 1..(Len(path) + 1) |-> [given \in Given |-> OneName(p, path, i, g[i + 1], given)]]
Resolving(p, path) == CHOOSE g : g = ResolveStep(p, path, g)

Callers == 0..processes
ObjectPaths == Seq(Names \cup {Dot}) \ {<<>>}

LEMMA ResolveIs ==
  ASSUME NEW p, NEW path, NEW root
  PROVE  ResolveObjectName(p, root, path) = Resolving(p, path)[1][root]
BY DEF ResolveObjectName, Resolving, ResolveStep, OneName, Given

LEMMA AtFound ==
  ASSUME TreeInv, TaskTypes, NEW p \in Callers, NEW path \in ObjectPaths,
         NEW i \in 1..(Len(path) + 1), NEW given \in Given,
         NEW r, i <= Len(path) => r \in [Given -> Found]
  PROVE  OneName(p, path, i, r, given) \in Found
<1> DEFINE d == IF given # Null THEN given ELSE cwd[p]
           found == Child(d, path[i])
<1>1. ObjGetRootObject(p) \in Given
  BY NamespaceAssumption DEF ObjGetRootObject, Given, Root, Null, Objects
<1>2. (given = Null /\ p = 0) \/ d \in Given
  BY NamespaceAssumption DEF Callers, Given, TaskTypes, Processes
<1>3. d \in Given /\ d # Null => found = Null \/ (found \in 1..objects /\ found \in Given)
  <2> SUFFICES ASSUME d \in Objects, found # Null
               PROVE  found \in 1..objects /\ found \in Given
    BY DEF Given
  <2> HIDE DEF d
  <2>1. found \in 2..objects
    BY ChildParts
  <2>2. objects \in Nat /\ objects <= MaxObjects
    BY NamespaceAssumption DEF TreeInv, TreeTypes
  <2> HIDE DEF found
  <2> QED  BY <2>1, <2>2, NamespaceAssumption DEF Given, Objects
<1>4. Len(path) \in Nat
  BY DEF ObjectPaths
<1>5. OneName(p, path, i, r, given)
        = IF given = Null /\ p = 0 THEN Undefined
          ELSE IF i <= Len(path) /\ path[i] = Dot THEN r[ObjGetRootObject(p)]
          ELSE IF d = Null \/ type[d] # "directory" THEN Undefined
          ELSE IF i > Len(path) \/ found = Null THEN Null
          ELSE IF Descends(found, i < Len(path)) THEN r[found]
          ELSE found
  BY DEF OneName
<1> HIDE DEF d, found
<1> QED  BY <1>1, <1>2, <1>3, <1>4, <1>5 DEF Found

LEMMA ResolveRule ==
  ASSUME TreeInv, TaskTypes, NEW p \in Callers, NEW path \in ObjectPaths
  PROVE  /\ \A i \in 1..Len(path) : Resolving(p, path)[i] \in [Given -> Found]
         /\ \A i \in 1..(Len(path) + 1), given \in Given :
              Resolving(p, path)[i][given] = OneName(p, path, i, Resolving(p, path)[i + 1], given)
<1> DEFINE L == Len(path)
           A == [Given -> Found]
           base == [given \in Given |-> OneName(p, path, L + 1, <<>>, given)]
           goes == [x \in 2..(L + 1) |->
                      [r \in A |-> [given \in Given |-> OneName(p, path, L + 2 - x, r, given)]]]
           before == [x \in 2..(L + 1) |-> x - 1]
<1>1. L \in Nat /\ L + 1 \in Nat \ {0}
  BY DEF ObjectPaths
<1>2. base \in A
  BY <1>1, AtFound
<1>3. ASSUME NEW x \in 2..(L + 1) PROVE goes[x] \in [A -> A]
  <2>1. L + 2 - x \in 1..(L + 1)
    BY <1>1
  <2>2. ASSUME NEW r \in A, NEW given \in Given PROVE OneName(p, path, L + 2 - x, r, given) \in Found
    BY <2>1, AtFound
  <2> QED  BY <2>2
<1>4. \A x \in 2..(L + 1) : before[x] \in 1..(x - 1)
  BY <1>1
<1>5. \A r, given : OneName(p, path, L + 1, r, given) = OneName(p, path, L + 1, <<>>, given)
  BY <1>1 DEF OneName, Descends
<1>6. \A x \in 2..(L + 1), r \in A :
        goes[x][r] = [given \in Given |-> OneName(p, path, L + 2 - x, r, given)]
  OBVIOUS
<1>7. \A x \in 2..(L + 1) : before[x] = x - 1
  OBVIOUS
<1> HIDE DEF A, goes, before
<1>8. PICK f : GoesOn(f, L + 1, A, base, before, goes)
  BY <1>1, <1>2, <1>3, <1>4, RecursionDefined
<1> DEFINE g == [i \in 1..(L + 1) |-> f[L + 2 - i]]
<1> HIDE DEF base, L
<1>9. /\ \A x \in 1..(L + 1) : f[x] \in A
      /\ f[1] = base
      /\ \A x \in 2..(L + 1) : f[x] = goes[x][f[before[x]]]
  BY <1>8 DEF GoesOn
<1>10. ASSUME NEW i \in 1..(L + 1)
       PROVE  g[i] = [given \in Given |-> OneName(p, path, i, g[i + 1], given)]
  <2>1. CASE i = L + 1
    <3>1. g[i] = base
      BY <1>1, <1>9, <2>1
    <3> HIDE DEF g
    <3>2. \A given \in Given : base[given] = OneName(p, path, i, g[i + 1], given)
      BY <1>5, <2>1 DEF base
    <3>3. base = [given \in Given |-> base[given]]
      BY DEF base
    <3> QED  BY <3>1, <3>2, <3>3
  <2>2. CASE i # L + 1
    <3> DEFINE x == L + 2 - i
    <3>1. x \in 2..(L + 1) /\ x - 1 \in 1..(L + 1) /\ i + 1 \in 1..(L + 1)
          /\ L + 2 - (i + 1) = x - 1 /\ L + 2 - x = i
      BY <1>1, <2>2
    <3>2. g[i] = f[x] /\ g[i + 1] = f[x - 1]
      BY <3>1
    <3> HIDE DEF x, g
    <3>3. f[x] = goes[x][f[x - 1]] /\ f[x - 1] \in A
      BY <1>7, <1>9, <3>1
    <3> QED  BY <1>6, <3>1, <3>2, <3>3
  <2> QED  BY <2>1, <2>2
<1>11. g = ResolveStep(p, path, g)
  BY <1>10 DEF ResolveStep, L
<1> HIDE DEF g
<1>12. Resolving(p, path) = ResolveStep(p, path, Resolving(p, path))
  BY <1>11 DEF Resolving
<1>13. \A i \in 1..(L + 1), given \in Given :
         Resolving(p, path)[i][given] = OneName(p, path, i, Resolving(p, path)[i + 1], given)
  BY <1>12 DEF ResolveStep, L
<1>14. \A i \in 1..(L + 1) :
         Resolving(p, path)[i] = [given \in Given |-> Resolving(p, path)[i][given]]
  BY <1>12 DEF ResolveStep, L
<1> DEFINE R == Resolving(p, path)
           Bad == {x \in 0..L : R[L + 1 - x] \notin [Given -> Found]}
<1>15. Bad = {}
  <2> SUFFICES ASSUME Bad # {} PROVE FALSE
    OBVIOUS
  <2> DEFINE m == Min(Bad)
  <2>1. Bad \subseteq Nat
    BY <1>1
  <2> HIDE DEF Bad, R
  <2>2. m \in Bad /\ \A x \in Bad : m <= x
    BY <2>1, SmallestNumber
  <2> HIDE DEF m
  <2> DEFINE i == L + 1 - m
  <2>3. m \in 0..L /\ i \in 1..(L + 1) /\ (i <= L => m - 1 \in 0..L /\ L + 1 - (m - 1) = i + 1)
    BY <1>1, <2>2 DEF Bad
  <2>4. i <= L => R[i + 1] \in [Given -> Found]
    <3> SUFFICES ASSUME i <= L PROVE R[i + 1] \in [Given -> Found]
      OBVIOUS
    <3>1. m - 1 \notin Bad
      BY <2>2, <2>3
    <3> QED  BY <2>3, <3>1 DEF Bad
  <2>5. R[i] \notin [Given -> Found]
    BY <2>2 DEF Bad
  <2> HIDE DEF i
  <2>6. \A given \in Given : R[i][given] \in Found
    BY <1>13, <2>3, <2>4, AtFound DEF R, L
  <2>7. R[i] = [given \in Given |-> R[i][given]]
    BY <1>14, <2>3 DEF R
  <2> QED  BY <2>5, <2>6, <2>7
<1>16. \A i \in 1..L : L + 1 - i \in 0..L /\ L + 1 - (L + 1 - i) = i
  BY <1>1
<1>17. \A i \in 1..L : R[i] \in [Given -> Found]
  BY <1>15, <1>16
<1> QED  BY <1>13, <1>17 DEF L

\* Who may have the root object finds the device directory by its name.
LEMMA DevicesFound ==
  ASSUME TreeInv, TaskTypes, NEW p \in Callers, p = 0 \/ token[p] = 1
  PROVE  ResolveObjectName(p, Root, <<Dot, DevicesName>>) = Devices
<1> DEFINE path == <<Dot, DevicesName>>
           R == Resolving(p, path)
<1>1. path \in ObjectPaths /\ Len(path) = 2 /\ path[1] = Dot /\ path[2] = DevicesName
  BY NamespaceAssumption DEF ObjectPaths
<1> HIDE DEF path
<1>2. Root \in Given /\ Root \in Objects /\ Root # Null /\ ObjGetRootObject(p) = Root
  BY NamespaceAssumption DEF Given, Objects, Root, Null, ObjGetRootObject
<1>7. \A i \in 1..(Len(path) + 1), given \in Given : R[i][given] = OneName(p, path, i, R[i + 1], given)
  BY <1>1, ResolveRule
<1> HIDE DEF R
<1>3. R[1][Root] = OneName(p, path, 1, R[2], Root) /\ R[2][Root] = OneName(p, path, 2, R[3], Root)
  <2>1. 1 \in 1..(Len(path) + 1) /\ 2 \in 1..(Len(path) + 1) /\ 1 + 1 = 2 /\ 2 + 1 = 3
    BY <1>1
  <2>2. R[1][Root] = OneName(p, path, 1, R[1 + 1], Root) /\ R[2][Root] = OneName(p, path, 2, R[2 + 1], Root)
    BY <1>2, <1>7, <2>1
  <2> QED  BY <2>1, <2>2
<1>4. OneName(p, path, 1, R[2], Root) = R[2][Root]
  BY <1>1, <1>2 DEF OneName
<1>5. Child(Root, DevicesName) = Devices
  <2>1. Devices \in Kids(Root) /\ name[Devices] = DevicesName
    BY DEF TreeInv, DevicesFirst, Kids, TreeTypes
  <2> DEFINE c == Child(Root, DevicesName)
  <2>2. c \in 2..objects /\ c <= Devices
    BY <1>2, <2>1, ChildParts
  <2> HIDE DEF c
  <2>3. c = Devices
    BY <2>2 DEF Devices
  <2> QED  BY <2>3 DEF c
<1>6. OneName(p, path, 2, R[3], Root) = Devices
  <2>1. path[2] # Dot /\ type[Root] = "directory" /\ Devices # Null
    BY <1>1, NamespaceAssumption DEF TreeInv, DevicesFirst, Devices, Null
  <2> QED  BY <1>1, <1>2, <1>5, <2>1 DEF OneName, Descends
<1> QED  BY <1>3, <1>4, <1>6, ResolveIs DEF R, path

\* An object is made at the end of the list of a directory.
Made(d, t, n) ==
  /\ objects < MaxObjects /\ objects' = objects + 1
  /\ type' = [type EXCEPT ![objects + 1] = t]
  /\ name' = [name EXCEPT ![objects + 1] = n]
  /\ header_list' = [header_list EXCEPT ![d] = Append(header_list[d], objects + 1)]

LEMMA MadeParts ==
  ASSUME TreeInv, NEW d \in 1..objects, type[d] = "directory", NEW t \in Types,
         NEW n \in Names, Made(d, t, n)
  PROVE  /\ TreeTypes' /\ d \in Objects
         /\ objects + 1 \in Objects /\ objects' = objects + 1 /\ objects \in Nat
         /\ type'[objects + 1] = t /\ name'[objects + 1] = n
         /\ \A o \in 1..objects : o \in Objects /\ type'[o] = type[o] /\ name'[o] = name[o]
         /\ \A e \in Objects : e # d => header_list'[e] = header_list[e]
         /\ Len(header_list'[d]) = Len(header_list[d]) + 1
         /\ header_list'[d][Len(header_list[d]) + 1] = objects + 1
         /\ \A k \in 1..Len(header_list[d]) : header_list'[d][k] = header_list[d][k]
         /\ Kids(d)' = Kids(d) \cup {objects + 1}
         /\ \A e \in Objects : e # d => Kids(e)' = Kids(e)
<1>1. /\ objects \in 2..MaxObjects /\ objects + 1 \in 2..MaxObjects /\ MaxObjects \in Nat
      /\ objects' = objects + 1 /\ d \in Objects /\ objects + 1 \in Objects
  BY NamespaceAssumption DEF TreeInv, TreeTypes, Made, Objects
<1>2. type \in [Objects -> Types] /\ name \in [Objects -> Names \cup {Dot}]
      /\ header_list \in [Objects -> Seq(Objects)] /\ header_list[d] \in Seq(Objects)
  BY <1>1 DEF TreeInv, TreeTypes
<1>3. /\ type' \in [Objects -> Types] /\ name' \in [Objects -> Names \cup {Dot}]
      /\ type'[objects + 1] = t /\ name'[objects + 1] = n
      /\ \A o \in 1..objects : o \in Objects /\ type'[o] = type[o] /\ name'[o] = name[o]
  BY <1>1, <1>2 DEF Made, Objects
<1> DEFINE new == Append(header_list[d], objects + 1)
<1>4. /\ new \in Seq(Objects) /\ Len(new) = Len(header_list[d]) + 1
      /\ new[Len(header_list[d]) + 1] = objects + 1
      /\ \A k \in 1..Len(header_list[d]) : new[k] = header_list[d][k]
      /\ Len(header_list[d]) \in Nat
  BY <1>1, <1>2
<1>5. header_list' = [header_list EXCEPT ![d] = new]
  BY DEF Made
<1> HIDE DEF new
<1>6. header_list'[d] = new /\ header_list' \in [Objects -> Seq(Objects)]
      /\ \A e \in Objects : e # d => header_list'[e] = header_list[e]
  BY <1>1, <1>2, <1>4, <1>5
<1>7. Kids(d)' = Kids(d) \cup {objects + 1}
  <2>1. Kids(d)' = {new[k] : k \in 1..(Len(header_list[d]) + 1)}
    BY <1>4, <1>6 DEF Kids
  <2> DEFINE L == Len(header_list[d])
             K == Kids(d)
  <2>2. K = {header_list[d][k] : k \in 1..L}
    BY DEF Kids
  <2>3. \A k \in 1..L : new[k] = header_list[d][k]
    BY <1>4
  <2>4. new[L + 1] = objects + 1 /\ L \in Nat
    BY <1>4
  <2> HIDE DEF L, K
  <2>5. \A k \in 1..(L + 1) : k \in 1..L \/ k = L + 1
    BY <2>4
  <2>6. \A k \in 1..L : k \in 1..(L + 1)
    BY <2>4
  <2>7. L + 1 \in 1..(L + 1)
    BY <2>4
  <2>8. {new[k] : k \in 1..(L + 1)} = K \cup {objects + 1}
    BY <2>2, <2>3, <2>4, <2>5, <2>6, <2>7
  <2> QED  BY <2>1, <2>8 DEF L, K
<1>8. \A e \in Objects : e # d => Kids(e)' = Kids(e)
  BY <1>6 DEF Kids
<1>9. TreeTypes'
  BY <1>1, <1>3, <1>6 DEF TreeTypes
<1>10. /\ objects \in Nat
       /\ Len(header_list'[d]) = Len(header_list[d]) + 1
       /\ header_list'[d][Len(header_list[d]) + 1] = objects + 1
       /\ \A k \in 1..Len(header_list[d]) : header_list'[d][k] = header_list[d][k]
  BY <1>1, <1>4, <1>6
<1> QED  BY <1>1, <1>3, <1>6, <1>7, <1>8, <1>9, <1>10

LEMMA MadeKeeps ==
  ASSUME TreeInv, NEW d \in 1..objects, type[d] = "directory", NEW t \in Types,
         NEW n \in Names, Made(d, t, n)
  PROVE  TreeInv'
<1>1. /\ TreeTypes' /\ d \in Objects
      /\ objects + 1 \in Objects /\ objects' = objects + 1 /\ objects \in Nat
      /\ type'[objects + 1] = t /\ name'[objects + 1] = n
      /\ \A o \in 1..objects : o \in Objects /\ type'[o] = type[o] /\ name'[o] = name[o]
      /\ \A e \in Objects : e # d => header_list'[e] = header_list[e]
      /\ Len(header_list'[d]) = Len(header_list[d]) + 1
      /\ header_list'[d][Len(header_list[d]) + 1] = objects + 1
      /\ \A k \in 1..Len(header_list[d]) : header_list'[d][k] = header_list[d][k]
      /\ Kids(d)' = Kids(d) \cup {objects + 1}
      /\ \A e \in Objects : e # d => Kids(e)' = Kids(e)
  BY MadeParts
<1>2. \A e \in Objects : Len(header_list[e]) \in Nat
  BY DEF TreeInv, TreeTypes
<1>6. \A e \in Objects : e # d => header_list'[e] = header_list[e]
  BY <1>1
<1>7. /\ objects \in Nat /\ objects' = objects + 1 /\ d \in Objects
      /\ \A o \in 1..objects : o \in Objects /\ type'[o] = type[o] /\ name'[o] = name[o]
  BY <1>1
<1>8. /\ Kids(d)' = Kids(d) \cup {objects + 1}
      /\ \A e \in Objects : e # d => Kids(e)' = Kids(e)
  BY <1>1
<1>3. ListsRise'
  <2> SUFFICES ASSUME NEW e \in Objects, NEW k \in 1..Len(header_list'[e])
               PROVE  /\ header_list'[e][k] \in 2..objects' /\ e < header_list'[e][k]
                      /\ type'[e] = "directory"
                      /\ \A j \in 1..Len(header_list'[e]) :
                           j < k => header_list'[e][j] < header_list'[e][k]
    BY DEF ListsRise
  <2>1. CASE e # d
    <3>1. header_list'[e] = header_list[e] /\ k \in 1..Len(header_list[e])
      <4>1. header_list'[e] = header_list[e]
        BY <1>6, <2>1
      <4> QED  BY <4>1
    <3>2. /\ header_list[e][k] \in 2..objects /\ e < header_list[e][k] /\ type[e] = "directory"
          /\ \A j \in 1..Len(header_list[e]) : j < k => header_list[e][j] < header_list[e][k]
      BY <3>1 DEF TreeInv, ListsRise
    <3>3. e \in 1..objects
      BY <1>7, <3>2 DEF Objects
    <3>4. type'[e] = type[e]
      BY <1>7, <3>3
    <3>5. header_list[e][k] \in 2..objects'
      BY <1>7, <3>2
    <3> QED  BY <3>1, <3>2, <3>4, <3>5
  <2>2. CASE e = d
    <3>1. \A j \in 1..Len(header_list[d]) :
            /\ header_list[d][j] \in 2..objects /\ d < header_list[d][j]
            /\ header_list'[d][j] = header_list[d][j]
            /\ \A i \in 1..Len(header_list[d]) : i < j => header_list[d][i] < header_list[d][j]
      <4>1. ListsRise /\ d \in Objects
        BY <1>1 DEF TreeInv
      <4>2. \A j \in 1..Len(header_list[d]) :
              /\ header_list[d][j] \in 2..objects /\ d < header_list[d][j]
              /\ \A i \in 1..Len(header_list[d]) : i < j => header_list[d][i] < header_list[d][j]
        BY <4>1 DEF ListsRise
      <4>3. \A j \in 1..Len(header_list[d]) : header_list'[d][j] = header_list[d][j]
        BY <1>1
      <4> QED  BY <4>2, <4>3
    <3>2. type'[d] = "directory" /\ 2 <= objects
      BY <1>1 DEF TreeInv, TreeTypes
    <3> DEFINE N == Len(header_list[d])
    <3>3. N \in Nat /\ (k = N + 1 \/ k \in 1..N)
      BY <1>1, <1>2, <2>2
    <3>4. CASE k \in 1..N
      <4>1. \A j \in 1..Len(header_list'[d]) : j < k => j \in 1..N
        BY <1>1, <3>3, <3>4
      <4>2. header_list'[d][k] \in 2..objects' /\ d < header_list'[d][k]
        BY <1>7, <3>1, <3>4
      <4>3. \A j \in 1..Len(header_list'[d]) :
              j < k => header_list'[d][j] < header_list'[d][k]
        BY <3>1, <3>4, <4>1
      <4> QED  BY <2>2, <3>2, <4>2, <4>3
    <3>5. CASE k = N + 1
      <4>1. \A j \in 1..Len(header_list'[d]) : j < k => j \in 1..N
        BY <1>1, <3>3, <3>5
      <4>2. header_list'[d][k] = objects + 1 /\ d < objects + 1 /\ objects + 1 \in 2..objects'
        BY <1>1, <3>2, <3>5
      <4>3. \A j \in 1..N : header_list'[d][j] < objects + 1
        <5>1. objects \in Nat
          BY <1>1
        <5> QED  BY <3>1, <5>1
      <4>4. \A j \in 1..Len(header_list'[d]) :
              j < k => header_list'[d][j] < header_list'[d][k]
        BY <4>1, <4>2, <4>3
      <4> QED  BY <2>2, <3>2, <4>2, <4>4
    <3> QED  BY <3>3, <3>4, <3>5
  <2> QED  BY <2>1, <2>2
<1>4. OneParent'
  <2>1. ASSUME NEW o \in 2..(objects + 1)
        PROVE  name'[o] \in Names /\ \E e \in Objects : o \in Kids(e)'
    <3>1. CASE o \in 2..objects
      <4>1. name[o] \in Names /\ \E e \in Objects : o \in Kids(e)
        BY <3>1 DEF TreeInv, OneParent
      <4>2. name'[o] = name[o]
        BY <1>7, <3>1
      <4>3. \A e \in Objects : Kids(e) \subseteq Kids(e)'
        BY <1>8
      <4> QED  BY <4>1, <4>2, <4>3
    <3>2. CASE o = objects + 1
      <4>1. name'[o] \in Names
        BY <1>1, <3>2
      <4>2. o \in Kids(d)'
        BY <1>8, <3>2
      <4>3. d \in Objects
        BY <1>7
      <4>4. \E e \in Objects : o \in Kids(e)'
        BY <4>2, <4>3
      <4> QED  BY <4>1, <4>4
    <3>3. o \in 2..objects \/ o = objects + 1
      BY <1>7
    <3> QED  BY <3>1, <3>2, <3>3
  <2>2. \A e \in Objects : objects + 1 \notin Kids(e)
    BY <1>1, KidsAre
  <2>3. ASSUME NEW e \in Objects, NEW f \in Objects, NEW o \in Kids(e)', o \in Kids(f)'
        PROVE  e = f
    <3>1. o \in Kids(e) /\ o \in Kids(f) => e = f
      BY DEF TreeInv, OneParent
    <3> QED  BY <1>8, <2>2, <2>3, <3>1
  <2>4. \A e, f \in Objects : \A o \in Kids(e)' : o \in Kids(f)' => e = f
    BY <2>3
  <2> QED  BY <1>1, <2>1, <2>4 DEF OneParent
<1>5. DevicesFirst'
  <2>1. Root \in 1..objects /\ Devices \in 1..objects /\ Root \in Objects
    BY NamespaceAssumption DEF TreeInv, TreeTypes, Root, Devices, Objects
  <2>2. Len(header_list[Root]) > 0 /\ header_list[Root][1] = Devices
        /\ type[Root] = "directory" /\ type[Devices] = "directory" /\ name[Devices] = DevicesName
    BY DEF TreeInv, DevicesFirst
  <2>3. Len(header_list'[Root]) > 0 /\ header_list'[Root][1] = Devices
    <3>1. CASE d # Root
      BY <1>6, <2>1, <2>2, <3>1
    <3>2. CASE d = Root
      <4>1. 1 \in 1..Len(header_list[Root])
        BY <1>2, <2>1, <2>2
      <4> QED  BY <1>1, <1>2, <2>1, <2>2, <3>2, <4>1
    <3> QED  BY <3>1, <3>2
  <2> QED  BY <1>7, <2>1, <2>2, <2>3 DEF DevicesFirst
<1> QED  BY <1>1, <1>3, <1>4, <1>5 DEF TreeInv

LEMMA DirectoriesOfDevices ==
  ASSUME TreeInv, TaskTypes, current \in {0, Boot}
  PROVE  /\ DeviceDirectory = Devices
         /\ ResolveObjectName(0, Root, <<Dot, DevicesName>>) = Devices
         /\ Devices \in 1..objects /\ type[Devices] = "directory"
<1>1. current \in Callers /\ (current = 0 \/ token[current] = 1) /\ 0 \in Callers
  BY NamespaceAssumption DEF TaskTypes, Callers, Boot
<1>2. ObjGetRootObject(current) = Root
  BY <1>1 DEF ObjGetRootObject
<1>3. Devices \in 1..objects /\ type[Devices] = "directory"
  BY NamespaceAssumption DEF TreeInv, TreeTypes, DevicesFirst, Devices
<1> QED  BY <1>1, <1>2, <1>3, DevicesFound DEF DeviceDirectory

LEMMA CreationMakes ==
  ASSUME TreeInv, TaskTypes, NEW n, Create(n)
  PROVE  /\ UNCHANGED tasks
         /\ \E d \in 1..objects, t \in Types : type[d] = "directory" /\ Made(d, t, n)
<1>1. ASSUME NEW d, NEW t, NewObject(d, t, n) PROVE Made(d, t, n)
  BY <1>1 DEF NewObject, Made, DirectoryAddChild
<1>2. CASE CreateProcessor(n)
  BY <1>1, <1>2, DirectoriesOfDevices DEF CreateProcessor, Types
<1>3. CASE IoCreateBlockDevice(n)
  BY <1>1, <1>3, DirectoriesOfDevices DEF IoCreateBlockDevice, Booting, Types
<1>4. CASE IoCreateCharDevice(n)
  BY <1>1, <1>4, DirectoriesOfDevices DEF IoCreateCharDevice, Booting, Types
<1>5. ASSUME NEW d, CreateDirectory(d, n) \/ RamfsCreateFile(d, n)
      PROVE  UNCHANGED tasks
             /\ \E e \in 1..objects, t \in Types : type[e] = "directory" /\ Made(e, t, n)
  BY <1>1, <1>5 DEF CreateDirectory, RamfsCreateFile, IsDirectory, Types
<1> QED  BY <1>2, <1>3, <1>4, <1>5 DEF Create

LEMMA ResolvedFound ==
  ASSUME TreeInv, TaskTypes, NEW p \in Callers, NEW path \in ObjectPaths, NEW root \in Given
  PROVE  ResolveObjectName(p, root, path) \in Found
<1>1. 1 \in 1..Len(path)
  BY DEF ObjectPaths
<1> QED  BY <1>1, ResolveRule, ResolveIs

LEMMA SameTree ==
  ASSUME TreeInv, UNCHANGED tree
  PROVE  TreeInv'
<1>1. UNCHANGED <<objects, type, name, header_list>>
  BY DEF tree
<1>2. \A d : Kids(d)' = Kids(d)
  BY <1>1 DEF Kids
<1>3. TreeTypes'
  BY <1>1 DEF TreeInv, TreeTypes
<1>4. ListsRise'
  BY <1>1 DEF TreeInv, ListsRise
<1>5. OneParent'
  BY <1>1, <1>2 DEF TreeInv, OneParent
<1>6. DevicesFirst'
  BY <1>1 DEF TreeInv, DevicesFirst
<1> QED  BY <1>3, <1>4, <1>5, <1>6 DEF TreeInv

LEMMA NewProcessKeeps ==
  ASSUME TreeInv, TaskTypes, NEW permission \in {0, 1}, NewProcess(permission),
         processes = 0 => permission = 1,
         current' = current \/ (processes = 0 /\ current' = Boot)
  PROVE  TreeInv' /\ TaskTypes'
<1>1. UNCHANGED tree /\ processes < MaxProcesses /\ processes' = processes + 1
      /\ token' = [token EXCEPT ![processes + 1] = permission]
      /\ cwd' = [cwd EXCEPT ![processes + 1] = ObjGetRootObject(current)]
  BY DEF NewProcess
<1>2. TreeInv'
  BY <1>1, SameTree
<1>3. ObjGetRootObject(current) \in Objects \cup {Null}
  BY NamespaceAssumption DEF ObjGetRootObject, Objects, Root
<1>4. processes \in Nat /\ processes + 1 \in Processes /\ processes + 1 \in 0..MaxProcesses
      /\ current' \in 0..(processes + 1)
  BY <1>1, NamespaceAssumption DEF TaskTypes, Processes, Boot
<1>5. token'[Boot] = 1
  BY <1>1, <1>4 DEF TaskTypes, Boot, Processes
<1> QED  BY <1>1, <1>2, <1>3, <1>4, <1>5 DEF TaskTypes

LEMMA TreeStep == TreeInv /\ TaskTypes /\ [TreeNext]_tree_vars => TreeInv' /\ TaskTypes'
<1> SUFFICES ASSUME TreeInv, TaskTypes, [TreeNext]_tree_vars PROVE TreeInv' /\ TaskTypes'
  OBVIOUS
<1>1. ASSUME UNCHANGED tree PROVE TreeInv'
  BY <1>1, SameTree
<1>2. ASSUME NEW n \in Names, Create(n) PROVE TreeInv' /\ TaskTypes'
  BY <1>2, CreationMakes, MadeKeeps DEF tasks, TaskTypes
<1>3. ASSUME NEW permission \in {0, 1}, KernelInitializeProcess(permission)
      PROVE  TreeInv' /\ TaskTypes'
  BY <1>3, NewProcessKeeps DEF KernelInitializeProcess
<1>4. CASE KernelCloneProcess
  <2>1. current > Boot /\ NewProcess(1) /\ current' = current
    BY <1>4 DEF KernelCloneProcess
  <2> QED  BY <2>1, NewProcessKeeps
<1>5. CASE SwitchProcess
  <2>1. current' \in 0..processes
    BY <1>5 DEF SwitchProcess, TaskTypes
  <2> QED  BY <1>1, <1>5, <2>1 DEF SwitchProcess, TaskTypes
<1>6. ASSUME NEW root \in Handed, NEW path \in Paths, ChangeWorkingDirectory(root, path)
      PROVE  TreeInv' /\ TaskTypes'
  <2>1. UNCHANGED tree /\ UNCHANGED <<processes, token, current>>
        /\ cwd' \in [Processes -> Objects \cup {Null}]
    BY <1>6 DEF ChangeWorkingDirectory, TaskTypes
  <2> QED  BY <1>1, <2>1 DEF TaskTypes
<1>7. CASE UNCHANGED tree_vars
  BY <1>1, <1>7 DEF tree_vars, tasks, TaskTypes
<1> QED  BY <1>2, <1>3, <1>4, <1>5, <1>6, <1>7 DEF TreeNext

LEMMA TreeBegins == TreeInit => TreeInv /\ TaskTypes
<1> SUFFICES ASSUME TreeInit PROVE TreeInv /\ TaskTypes
  OBVIOUS
<1>1. /\ objects = 2 /\ type = [o \in Objects |-> "directory"]
      /\ name = [o \in Objects |-> IF o = Devices THEN DevicesName ELSE Dot]
      /\ header_list = [o \in Objects |-> IF o = Root THEN <<Devices>> ELSE <<>>]
  BY DEF TreeInit
<1>2. Root \in Objects /\ Devices \in Objects /\ 2 \in 2..MaxObjects /\ Root = 1 /\ Devices = 2
  BY NamespaceAssumption DEF Root, Devices, Objects
<1>3. TreeTypes
  BY <1>1, <1>2, NamespaceAssumption DEF TreeTypes, Types
<1>4. \A d \in Objects : \A k \in 1..Len(header_list[d]) : d = Root /\ k = 1 /\ header_list[d][k] = Devices
  BY <1>1, <1>2
<1>5. ListsRise
  BY <1>1, <1>2, <1>4 DEF ListsRise
<1>6. Kids(Root) = {Devices} /\ \A d \in Objects : d # Root => Kids(d) = {}
  BY <1>1, <1>2 DEF Kids
<1>7. OneParent
  <2>1. \A o \in 2..objects : o = Devices /\ name[o] \in Names
    BY <1>1, <1>2, NamespaceAssumption
  <2> QED  BY <1>2, <1>6, <2>1 DEF OneParent
<1>8. DevicesFirst
  BY <1>1, <1>2 DEF DevicesFirst
<1>9. TaskTypes
  BY NamespaceAssumption DEF TreeInit, TaskTypes, Processes, Null
<1> QED  BY <1>3, <1>5, <1>7, <1>8, <1>9 DEF TreeInv

LEMMA TreeSafe == TreeSpec => [](TreeInv /\ TaskTypes)
BY TreeBegins, TreeStep, PTL DEF TreeSpec

-----------------------------------------------------------------------------
(* Names stay.                                                             *)

\* ChildParts and ResolveRule as formulas, to be used of the next state as well.
OldestOfName ==
  \A d \in Objects, n \in Names \cup {Dot} :
    /\ Child(d, n) = Null <=> \A o \in Kids(d) : name[o] # n
    /\ Child(d, n) # Null =>
         /\ Child(d, n) \in Kids(d) /\ Child(d, n) \in 2..objects /\ name[Child(d, n)] = n
         /\ \A o \in Kids(d) : name[o] = n => Child(d, n) <= o
ByRule ==
  \A p \in Callers, path \in ObjectPaths :
    \A i \in 1..(Len(path) + 1), given \in Given :
      Resolving(p, path)[i][given] = OneName(p, path, i, Resolving(p, path)[i + 1], given)

LEMMA TreeRules == TreeInv /\ TaskTypes => OldestOfName /\ ByRule
<1> SUFFICES ASSUME TreeInv, TaskTypes PROVE OldestOfName /\ ByRule
  OBVIOUS
<1>1. OldestOfName
  BY ChildParts DEF OldestOfName
<1>2. ByRule
  BY ResolveRule DEF ByRule
<1> QED  BY <1>1, <1>2

LEMMA AbsoluteParts ==
  ASSUME NEW path \in AbsolutePaths
  PROVE  /\ path \in ObjectPaths /\ Len(path) \in Nat \ {0} /\ path[1] = Dot
         /\ Tail(path) \in Seq(Names) /\ Len(Tail(path)) = Len(path) - 1
         /\ \A i \in 2..Len(path) : path[i] \in Names /\ Tail(path)[i - 1] = path[i]
<1>1. PICK q \in Seq(Names) : path = <<Dot>> \o q
  BY DEF AbsolutePaths
<1>2. /\ path \in Seq(Names \cup {Dot}) /\ Len(path) = Len(q) + 1 /\ Len(q) \in Nat
      /\ path[1] = Dot /\ \A i \in 1..Len(q) : path[i + 1] = q[i]
  BY <1>1
<1>3. \A i \in 2..Len(path) : i - 1 \in 1..Len(q) /\ path[i] = q[i - 1]
  BY <1>2
<1>4. path # <<>> /\ path \in ObjectPaths
  BY <1>2 DEF ObjectPaths
<1>5. Tail(path) = q
  <2> DEFINE w == Tail(path)
  <2>1. w \in Seq(Names \cup {Dot}) /\ Len(w) = Len(path) - 1 /\ \A i \in 1..Len(w) : w[i] = path[i + 1]
    BY <1>2, <1>4, HeadTailProperties
  <2>2. q \in Seq(Names \cup {Dot})
    BY <1>2
  <2> HIDE DEF w
  <2>3. w = q
    BY <1>2, <2>1, <2>2, SeqEqual
  <2> QED  BY <2>3 DEF w
<1>6. \A i \in 2..Len(path) : path[i] \in Names /\ q[i - 1] = path[i]
  BY <1>3
<1>7. Len(q) = Len(path) - 1 /\ Len(path) \in Nat \ {0}
  BY <1>2
<1> DEFINE w == Tail(path)
<1>8. w = q
  BY <1>5
<1> HIDE DEF w
<1>9. /\ w \in Seq(Names) /\ Len(w) = Len(path) - 1
      /\ \A i \in 2..Len(path) : path[i] \in Names /\ w[i - 1] = path[i]
  BY <1>6, <1>7, <1>8
<1> QED  BY <1>2, <1>4, <1>7, <1>9 DEF w

LEMMA ChildStays ==
  ASSUME TreeInv, TaskTypes, TreeInv', TaskTypes',
         NEW d \in 1..objects, type[d] = "directory", NEW t \in Types, NEW n \in Names, Made(d, t, n),
         NEW e \in Objects, NEW m \in Names \cup {Dot}, Child(e, m) # Null
  PROVE  Child(e, m)' = Child(e, m)
<1>1. OldestOfName /\ OldestOfName'
  BY TreeRules, PTL
<1>2. /\ objects' = objects + 1 /\ objects \in Nat
      /\ \A o \in 1..objects : name'[o] = name[o]
      /\ Kids(e)' = Kids(e) \/ Kids(e)' = Kids(e) \cup {objects + 1}
  BY MadeParts
<1> DEFINE c == Child(e, m)
<1>3. c \in Kids(e) /\ c \in 2..objects /\ name[c] = m /\ \A o \in Kids(e) : name[o] = m => c <= o
  BY <1>1 DEF OldestOfName
<1>4. c \in Kids(e)' /\ name'[c] = m
  BY <1>2, <1>3
<1>5. \A o \in Kids(e) : o \in 1..objects /\ name'[o] = name[o]
  BY <1>2, KidsAre
<1> DEFINE b == Child(e, m)'
<1>6. b \in Kids(e)' /\ b \in 2..(objects + 1) /\ name'[b] = m
      /\ \A o \in Kids(e)' : name'[o] = m => b <= o
  <2>1. OldestOfName'
    BY <1>1
  <2>2. /\ Child(e, m)' = Null <=> \A o \in Kids(e)' : name'[o] # m
        /\ Child(e, m)' # Null =>
             /\ Child(e, m)' \in Kids(e)' /\ Child(e, m)' \in 2..objects' /\ name'[Child(e, m)'] = m
             /\ \A o \in Kids(e)' : name'[o] = m => Child(e, m)' <= o
    BY <2>1 DEF OldestOfName
  <2> QED  BY <1>2, <1>4, <2>2
<1> HIDE DEF b, c
<1>7. b <= c
  BY <1>4, <1>6
<1>8. b \in Kids(e)
  BY <1>2, <1>3, <1>6, <1>7
<1>9. c <= b
  BY <1>3, <1>5, <1>6, <1>8
<1> QED  BY <1>2, <1>3, <1>6, <1>7, <1>9 DEF b, c

\* What the rest of an absolute path leads to, it leads to when one object more is there.
LEMMA ResolvedStays ==
  ASSUME TreeInv, TaskTypes, TreeInv', TaskTypes', UNCHANGED tasks,
         NEW d \in 1..objects, type[d] = "directory", NEW t \in Types, NEW n \in Names, Made(d, t, n),
         NEW path \in ObjectPaths
  PROVE  \A i \in 1..(Len(path) + 1), given \in 1..objects :
           Resolving(0, path)[i][given] \in Objects =>
             Resolving(0, path)'[i][given] = Resolving(0, path)[i][given]
<1> DEFINE R == Resolving(0, path)
           L == Len(path)
           Q(i) == \A given \in 1..objects : R[i][given] \in Objects => R'[i][given] = R[i][given]
<1>1. L \in Nat /\ \A i \in 1..L : path[i] \in Names \cup {Dot}
  BY DEF ObjectPaths
<1>2. 0 \in Callers /\ 0 \in Callers' /\ ByRule /\ ByRule' /\ OldestOfName
  <2>1. ByRule /\ ByRule' /\ OldestOfName
    BY TreeRules, PTL
  <2> QED  BY <2>1 DEF Callers, TaskTypes
<1>3. \A i \in 1..(L + 1), given \in Given :
        /\ R[i][given] = OneName(0, path, i, R[i + 1], given)
        /\ R'[i][given] = OneName(0, path, i, R[i + 1], given)'
  BY <1>2 DEF ByRule
<1>4. /\ objects \in Nat /\ \A o \in 1..objects : o \in Objects /\ o \in Given /\ o # Null
      /\ \A o \in 1..objects : type'[o] = type[o]
      /\ Root \in 1..objects
  BY MadeParts, NamespaceAssumption DEF Given, Null, Root, TreeInv, TreeTypes, Objects
<1>5. ASSUME NEW i \in 1..(L + 1), i <= L => Q(i + 1), NEW given \in 1..objects,
             R[i][given] \in Objects
      PROVE  R'[i][given] = R[i][given]
  <2> DEFINE found == Child(given, path[i])
  <2>1. R[i][given]
          = IF i <= L /\ path[i] = Dot THEN R[i + 1][Root]
            ELSE IF type[given] # "directory" THEN Undefined
            ELSE IF i > L \/ found = Null THEN Null
            ELSE IF type[found] = "directory" /\ i < L THEN R[i + 1][found]
            ELSE found
    BY <1>3, <1>4 DEF OneName, ObjGetRootObject, Descends
  <2>2. R'[i][given]
          = IF i <= L /\ path[i] = Dot THEN R'[i + 1][Root]
            ELSE IF type'[given] # "directory" THEN Undefined
            ELSE IF i > L \/ found' = Null THEN Null
            ELSE IF type'[found'] = "directory" /\ i < L THEN R'[i + 1][found']
            ELSE found'
    BY <1>3, <1>4 DEF OneName, ObjGetRootObject, Descends
  <2>3. Undefined \notin Objects /\ Null \notin Objects
    BY DEF Undefined, Null, Objects
  <2>4. i <= L /\ found # Null => found' = found /\ found \in 1..objects
    <3> SUFFICES ASSUME i <= L, found # Null PROVE found' = found /\ found \in 1..objects
      OBVIOUS
    <3>1. path[i] \in Names \cup {Dot} /\ given \in Objects
      BY <1>1, <1>4
    <3>2. Child(given, path[i])' = Child(given, path[i])
      BY <3>1, ChildStays
    <3>3. found \in 2..objects
      BY <1>2, <3>1 DEF OldestOfName
    <3> HIDE DEF found
    <3>4. found \in 1..objects
      BY <3>3, <1>4
    <3> QED  BY <3>2, <3>4 DEF found
  <2> HIDE DEF found, R
  <2>5. CASE i <= L /\ path[i] = Dot
    BY <1>4, <1>5, <2>1, <2>2, <2>5
  <2>6. CASE ~(i <= L /\ path[i] = Dot)
    <3>1. type[given] = "directory" /\ i <= L /\ found # Null
      BY <1>1, <1>5, <2>1, <2>3, <2>6
    <3>2. found' = found /\ found \in 1..objects /\ type'[found] = type[found]
          /\ type'[given] = type[given]
      BY <1>4, <2>4, <3>1
    <3>3. CASE type[found] = "directory" /\ i < L
      <4>1. R[i][given] = R[i + 1][found] /\ R'[i][given] = R'[i + 1][found]
        BY <1>1, <2>1, <2>2, <2>6, <3>1, <3>2, <3>3
      <4> QED  BY <1>5, <3>1, <3>2, <4>1
    <3>4. CASE ~(type[found] = "directory" /\ i < L)
      BY <1>1, <2>1, <2>2, <2>6, <3>1, <3>2, <3>4
    <3> QED  BY <3>3, <3>4
  <2> QED  BY <2>5, <2>6
<1> DEFINE Bad == {x \in 0..L : ~Q(L + 1 - x)}
<1>6. Bad = {}
  <2> SUFFICES ASSUME Bad # {} PROVE FALSE
    OBVIOUS
  <2> DEFINE m == Min(Bad)
  <2>1. Bad \subseteq Nat
    BY <1>1
  <2> HIDE DEF Bad
  <2>2. m \in Bad /\ \A x \in Bad : m <= x
    BY <2>1, SmallestNumber
  <2> HIDE DEF m, L
  <2>3. m \in 0..L /\ L + 1 - m \in 1..(L + 1)
        /\ (L + 1 - m <= L => m - 1 \in 0..L /\ L + 1 - (m - 1) = L + 1 - m + 1)
    BY <1>1, <2>2 DEF Bad
  <2>4. L + 1 - m <= L => Q(L + 1 - m + 1)
    <3> SUFFICES ASSUME L + 1 - m <= L PROVE Q(L + 1 - m + 1)
      OBVIOUS
    <3>1. m - 1 \notin Bad
      BY <2>2, <2>3
    <3> HIDE DEF Q
    <3> QED  BY <2>3, <3>1 DEF Bad
  <2>5. Q(L + 1 - m)
    BY <1>5, <2>3, <2>4
  <2> HIDE DEF Q
  <2> QED  BY <2>2, <2>5 DEF Bad
<1>7. \A i \in 1..(L + 1) : L + 1 - i \in 0..L /\ L + 1 - (L + 1 - i) = i
  BY <1>1
<1>8. \A i \in 1..(L + 1) : Q(i)
  <2> HIDE DEF Q, L
  <2> QED  BY <1>6, <1>7
<1> QED  BY <1>8

\* An object that an absolute path leads to is what the path leads to ever after: the
\* list of a directory grows at its end and is searched from its beginning.
THEOREM NamesAreStable == TreeSpec => StableNames
<1>1. ASSUME TreeInv, TaskTypes, TreeInv', TaskTypes', TreeNext, tree' # tree,
             NEW path \in AbsolutePaths, ResolveObjectName(0, Root, path) \in Objects
      PROVE  ResolveObjectName(0, Root, path)' = ResolveObjectName(0, Root, path)
  <2>1. PICK n \in Names : Create(n)
    BY <1>1 DEF TreeNext, KernelInitializeProcess, KernelCloneProcess, NewProcess, SwitchProcess,
                ChangeWorkingDirectory
  <2>2. UNCHANGED tasks
        /\ \E d \in 1..objects, t \in Types : type[d] = "directory" /\ Made(d, t, n)
    BY <1>1, <2>1, CreationMakes
  <2>3. path \in ObjectPaths /\ 1 \in 1..(Len(path) + 1) /\ Root \in 1..objects
    BY <1>1, AbsoluteParts DEF TreeInv, TreeTypes, Root
  <2>4. /\ ResolveObjectName(0, Root, path) = Resolving(0, path)[1][Root]
        /\ ResolveObjectName(0, Root, path)' = Resolving(0, path)'[1][Root]
    BY ResolveIs DEF ResolveObjectName, Resolving, ResolveStep, OneName, Given
  <2> QED  BY <1>1, <2>1, <2>2, <2>3, <2>4, ResolvedStays
<1>2. /\ TreeInv /\ TaskTypes /\ (TreeInv /\ TaskTypes)'
      /\ [TreeNext]_tree_vars
      => [tree' # tree => \A path \in AbsolutePaths :
            LET o == ResolveObjectName(0, Root, path) IN
            o \in Objects => ResolveObjectName(0, Root, path)' = o]_tree_vars
  BY <1>1
<1> QED  BY <1>2, TreeSafe, PTL DEF TreeSpec, StableNames

-----------------------------------------------------------------------------
(* Where an object lies.                                                   *)

LEMMA ParentParts ==
  ASSUME TreeInv, NEW o \in 2..objects
  PROVE  /\ Parent(o) \in Objects /\ Parent(o) \in 1..(o - 1) /\ o \in Kids(Parent(o))
         /\ Parent(o) \in 1..objects /\ type[Parent(o)] = "directory" /\ name[o] \in Names
         /\ \A e \in Objects : o \in Kids(e) => Parent(o) = e
<1>1. \A d \in Objects : Kids(d) = ToSet(header_list[d])
  BY KidsAre
<1>2. \E d \in Objects : o \in ToSet(header_list[d])
  BY <1>1 DEF TreeInv, OneParent
<1> DEFINE d == Parent(o)
<1>3. d \in Objects /\ o \in Kids(d)
  BY <1>1, <1>2 DEF Parent
<1> HIDE DEF d
<1>4. d < o /\ type[d] = "directory" /\ objects \in Nat
  BY <1>3, KidsAre DEF TreeInv, TreeTypes
<1>5. d \in 1..(o - 1) /\ d \in 1..objects
  BY <1>3, <1>4 DEF Objects
<1>6. \A e \in Objects : o \in Kids(e) => d = e
  BY <1>3 DEF TreeInv, OneParent
<1>7. name[o] \in Names
  BY DEF TreeInv, OneParent
<1> QED  BY <1>3, <1>4, <1>5, <1>6, <1>7 DEF d

NameStep(g) == [x \in 1..objects |-> IF x = Root THEN <<>> ELSE Append(g[Parent(x)], name[x])]
LineStep(g) == [x \in 1..objects |-> IF x = Root THEN {} ELSE {x} \cup g[Parent(x)]]

LEMMA FullNames ==
  ASSUME TreeInv
  PROVE  /\ FullName(Root) = <<>>
         /\ \A o \in 2..objects : FullName(o) = Append(FullName(Parent(o)), name[o])
         /\ \A o \in 1..objects : FullName(o) \in Seq(Names)
<1> DEFINE A == Seq(Names)
           before == [x \in 2..objects |-> Parent(x)]
           goes == [x \in 2..objects |-> [s \in A |-> Append(s, name[x])]]
           names == CHOOSE g : g = NameStep(g)
<1>1. /\ objects \in Nat \ {0} /\ Root \in 1..objects /\ Root = 1
      /\ \A x \in 1..objects : x = Root \/ (x \in 2..objects /\ x # Root)
      /\ \A x \in 2..objects : x \in 1..objects /\ x # Root
  BY DEF TreeInv, TreeTypes, Root
<1>2. \A x \in 2..objects : /\ before[x] \in 1..(x - 1) /\ before[x] = Parent(x)
                            /\ name[x] \in Names
  BY ParentParts
<1>3. \A x \in 2..objects : goes[x] \in [A -> A]
  BY <1>2
<1>4. <<>> \in A
  OBVIOUS
<1>5. \A x \in 2..objects, s \in A : goes[x][s] = Append(s, name[x])
  OBVIOUS
<1> HIDE DEF A, before, goes
<1>6. PICK f : GoesOn(f, objects, A, <<>>, before, goes)
  BY <1>1, <1>2, <1>3, <1>4, RecursionDefined
<1>7. \A x \in 2..objects : Parent(x) \in 1..objects
  BY ParentParts
<1>8. ASSUME NEW x \in 1..objects
      PROVE  f[x] = IF x = Root THEN <<>> ELSE Append(f[Parent(x)], name[x])
  <2>1. f[1] = <<>>
    BY <1>6 DEF GoesOn
  <2>2. CASE x # Root
    <3>1. x \in 2..objects /\ before[x] = Parent(x) /\ Parent(x) \in 1..objects
      BY <1>1, <1>2, <1>7, <2>2
    <3>2. f[x] = goes[x][f[Parent(x)]] /\ f[Parent(x)] \in A
      BY <1>6, <3>1 DEF GoesOn
    <3> QED  BY <1>5, <2>2, <3>1, <3>2
  <2> QED  BY <1>1, <2>1, <2>2
<1>9. f = NameStep(f)
  <2>1. f = [x \in 1..objects |-> f[x]]
    BY <1>6 DEF GoesOn
  <2> QED  BY <1>8, <2>1 DEF NameStep
<1>10. names = NameStep(names)
  BY <1>9
<1>11. \A o \in 1..objects : FullName(o) = names[o]
  BY DEF FullName, NameStep
<1> HIDE DEF names
<1>12. \A x \in 1..objects : names[x] = IF x = Root THEN <<>> ELSE Append(names[Parent(x)], name[x])
  BY <1>10 DEF NameStep
<1> DEFINE Bad == {x \in 1..objects : names[x] \notin Seq(Names)}
<1>13. Bad = {}
  <2> SUFFICES ASSUME Bad # {} PROVE FALSE
    OBVIOUS
  <2> DEFINE m == Min(Bad)
  <2>1. Bad \subseteq Nat
    OBVIOUS
  <2> HIDE DEF Bad
  <2>2. m \in Bad /\ \A x \in Bad : m <= x
    BY <2>1, SmallestNumber
  <2> HIDE DEF m
  <2>3. m \in 1..objects /\ names[m] \notin Seq(Names)
    BY <2>2 DEF Bad
  <2>4. m \in 2..objects /\ m # Root
    <3>1. m # Root
      BY <1>1, <1>4, <1>12, <2>3 DEF A
    <3> QED  BY <1>1, <2>3, <3>1
  <2>5. Parent(m) \in 1..(m - 1) /\ Parent(m) \in 1..objects /\ name[m] \in Names
    BY <2>4, ParentParts
  <2>6. names[Parent(m)] \in Seq(Names)
    BY <2>2, <2>3, <2>5 DEF Bad
  <2>7. names[m] = Append(names[Parent(m)], name[m])
    BY <1>12, <2>3, <2>4
  <2> QED  BY <2>3, <2>5, <2>6, <2>7
<1>14. \A x \in 1..objects : names[x] \in Seq(Names)
  BY <1>13
<1>15. \A x \in 2..objects : Parent(x) \in 1..objects
  BY ParentParts
<1> QED  BY <1>1, <1>11, <1>12, <1>14, <1>15

LEMMA Ancestries ==
  ASSUME TreeInv
  PROVE  /\ Ancestry(Root) = {}
         /\ \A o \in 2..objects : Ancestry(o) = {o} \cup Ancestry(Parent(o))
         /\ \A o \in 1..objects : Ancestry(o) \subseteq 2..o
<1> DEFINE A == SUBSET (2..objects)
           before == [x \in 2..objects |-> Parent(x)]
           goes == [x \in 2..objects |-> [s \in A |-> {x} \cup s]]
           line == CHOOSE g : g = LineStep(g)
<1>1. /\ objects \in Nat \ {0} /\ Root \in 1..objects /\ Root = 1
      /\ \A x \in 1..objects : x = Root \/ (x \in 2..objects /\ x # Root)
      /\ \A x \in 2..objects : x \in 1..objects /\ x # Root
  BY DEF TreeInv, TreeTypes, Root
<1>2. \A x \in 2..objects : before[x] \in 1..(x - 1) /\ before[x] = Parent(x)
  BY ParentParts
<1>3. \A x \in 2..objects : goes[x] \in [A -> A]
  OBVIOUS
<1>4. {} \in A
  OBVIOUS
<1>5. \A x \in 2..objects, s \in A : goes[x][s] = {x} \cup s
  OBVIOUS
<1> HIDE DEF A, before, goes
<1>6. PICK f : GoesOn(f, objects, A, {}, before, goes)
  BY <1>1, <1>2, <1>3, <1>4, RecursionDefined
<1>7. \A x \in 2..objects : Parent(x) \in 1..objects
  BY ParentParts
<1>8. ASSUME NEW x \in 1..objects
      PROVE  f[x] = IF x = Root THEN {} ELSE {x} \cup f[Parent(x)]
  <2>1. f[1] = {}
    BY <1>6 DEF GoesOn
  <2>2. CASE x # Root
    <3>1. x \in 2..objects /\ before[x] = Parent(x) /\ Parent(x) \in 1..objects
      BY <1>1, <1>2, <1>7, <2>2
    <3>2. f[x] = goes[x][f[Parent(x)]] /\ f[Parent(x)] \in A
      BY <1>6, <3>1 DEF GoesOn
    <3> QED  BY <1>5, <2>2, <3>1, <3>2
  <2> QED  BY <1>1, <2>1, <2>2
<1>9. f = LineStep(f)
  <2>1. f = [x \in 1..objects |-> f[x]]
    BY <1>6 DEF GoesOn
  <2> QED  BY <1>8, <2>1 DEF LineStep
<1>10. line = LineStep(line)
  BY <1>9
<1>11. \A o \in 1..objects : Ancestry(o) = line[o]
  BY DEF Ancestry, LineStep
<1> HIDE DEF line
<1>12. \A x \in 1..objects : line[x] = IF x = Root THEN {} ELSE {x} \cup line[Parent(x)]
  BY <1>10 DEF LineStep
<1> DEFINE Bad == {x \in 1..objects : ~(line[x] \subseteq 2..x)}
<1>13. Bad = {}
  <2> SUFFICES ASSUME Bad # {} PROVE FALSE
    OBVIOUS
  <2> DEFINE m == Min(Bad)
  <2>1. Bad \subseteq Nat
    OBVIOUS
  <2> HIDE DEF Bad
  <2>2. m \in Bad /\ \A x \in Bad : m <= x
    BY <2>1, SmallestNumber
  <2> HIDE DEF m
  <2>3. m \in 1..objects /\ ~(line[m] \subseteq 2..m)
    BY <2>2 DEF Bad
  <2>4. m \in 2..objects /\ m # Root
    <3>1. m # Root
      BY <1>1, <1>12, <2>3
    <3> QED  BY <1>1, <2>3, <3>1
  <2>5. Parent(m) \in 1..(m - 1) /\ Parent(m) \in 1..objects
    BY <2>4, ParentParts
  <2>6. line[Parent(m)] \subseteq 2..Parent(m)
    BY <2>2, <2>3, <2>5 DEF Bad
  <2>7. line[m] = {m} \cup line[Parent(m)]
    BY <1>12, <2>3, <2>4
  <2>8. \A y \in line[m] : y \in 2..m
    BY <2>4, <2>5, <2>6, <2>7
  <2> QED  BY <2>3, <2>8
<1>14. \A x \in 1..objects : line[x] \subseteq 2..x
  BY <1>13
<1>15. \A x \in 2..objects : Parent(x) \in 1..objects
  BY ParentParts
<1> QED  BY <1>1, <1>11, <1>12, <1>14, <1>15

LEMMA UnderClosed ==
  ASSUME TreeInv, NEW w \in Objects, NEW d \in Under(w) \cup {w}, d \in Objects, NEW c \in Kids(d)
  PROVE  c \in Under(w)
<1>1. c \in 2..objects /\ d < c /\ objects \in Nat /\ Parent(c) = d
  <2>1. c \in 2..objects /\ d < c
    BY KidsAre
  <2> QED  BY <2>1, ParentParts DEF TreeInv, TreeTypes
<1>2. d \in 1..objects /\ w \in Nat /\ (d = Root \/ d \in 2..objects) /\ w # Null
  BY <1>1 DEF Objects, Root, Null
<1>3. Ancestry(c) = {c} \cup Ancestry(d) /\ Ancestry(d) \subseteq 2..d
  BY <1>1, <1>2, Ancestries
<1>4. CASE d = w
  <2>1. w \in {Root} \cup Ancestry(d)
    BY <1>2, <1>4, Ancestries
  <2> QED  BY <1>1, <1>2, <1>3, <1>4, <2>1 DEF Under
<1>5. CASE d # w
  <2>1. w \in {Root} \cup Ancestry(d)
    BY <1>5 DEF Under
  <2>2. w <= d
    BY <1>2, <1>3, <2>1 DEF Root
  <2>3. c # w
    BY <1>1, <1>2, <2>2
  <2> QED  BY <1>1, <1>2, <1>3, <2>1, <2>3 DEF Under
<1> QED  BY <1>4, <1>5

Below(p, root) == Under(root) \cup Under(cwd[p])

LEMMA StaysBelow ==
  ASSUME TreeInv, TaskTypes, NEW p \in 1..processes, token[p] = 0, NEW path \in ObjectPaths,
         NEW root \in Given
  PROVE  Resolving(p, path)[1][root] \in {Null, Undefined} \cup Below(p, root)
<1> DEFINE B == Below(p, root)
           R == Resolving(p, path)
           N == Len(path) + 1
           Q(i) == \A given \in {Null, root} \cup B : R[i][given] \in {Null, Undefined} \cup B
           S == {i \in 1..N : Q(i)}
<1>1. N \in Nat /\ 1 \in 1..N /\ Len(path) \in Nat
  BY DEF ObjectPaths
<1>2. p \in Callers /\ p # 0 /\ cwd[p] \in Objects \cup {Null} /\ ObjGetRootObject(p) = Null
  BY NamespaceAssumption DEF TaskTypes, Callers, Processes, ObjGetRootObject
<1>3. B \subseteq Objects /\ Null \notin Objects
  BY NamespaceAssumption DEF Below, Under, Objects, Null, TreeInv, TreeTypes
<1>4. \A i \in 1..N, given \in Given : R[i][given] = OneName(p, path, i, R[i + 1], given)
  BY <1>2, ResolveRule
<1>5. \A w \in Objects, d \in Objects, c \in Objects :
        d \in Under(w) \cup {w} /\ c \in Kids(d) => c \in Under(w)
  BY UnderClosed
<1>6. \A d \in Objects, c \in Objects :
        d \in {root, cwd[p]} \cup B /\ c \in Kids(d) => c \in B
  BY <1>5, <1>2 DEF Below, Under, Given
<1> HIDE DEF R, B
<1>7. ASSUME NEW i \in 1..N, i < N => Q(i + 1), NEW given \in {Null, root} \cup B
      PROVE  R[i][given] \in {Null, Undefined} \cup B
  <2> DEFINE d == IF given # Null THEN given ELSE cwd[p]
             found == Child(d, path[i])
  <2>1. given \in Given
    BY <1>3 DEF Given
  <2>2. R[i][given]
          = IF i <= Len(path) /\ path[i] = Dot THEN R[i + 1][Null]
            ELSE IF d = Null \/ type[d] # "directory" THEN Undefined
            ELSE IF i > Len(path) \/ found = Null THEN Null
            ELSE IF Descends(found, i < Len(path)) THEN R[i + 1][found]
            ELSE found
    BY <1>2, <1>4, <2>1 DEF OneName
  <2>3. d # Null => d \in Objects /\ d \in {root, cwd[p]} \cup B
    BY <1>2, <1>3, <2>1 DEF Given
  <2>4. d # Null /\ found # Null => found \in B
    <3> SUFFICES ASSUME d # Null, found # Null PROVE found \in B
      OBVIOUS
    <3> HIDE DEF d
    <3>1. found \in Kids(d) /\ found \in Objects
      BY <2>3, ChildParts, KidsAre
    <3> QED  BY <1>6, <2>3, <3>1
  <2>5. i <= Len(path) => i < N
    BY <1>1
  <2>6. i < Len(path) => i <= Len(path)
    BY <1>1
  <2> HIDE DEF d, found, N
  <2> QED  BY <1>7, <2>2, <2>4, <2>5, <2>6 DEF Descends
<1>8. \A i \in 1..N : (i < N => i + 1 \in S) => i \in S
  <2> SUFFICES ASSUME NEW i \in 1..N, i < N => i + 1 \in S PROVE Q(i)
    OBVIOUS
  <2> QED  BY <1>7
<1> HIDE DEF S, N
<1>9. 1 \in S
  BY <1>1, <1>8, Downwards
<1> QED  BY <1>9 DEF S, R, B

LEMMA HandedAre == TreeInv => Handed \subseteq Given /\ Paths \subseteq ObjectPaths
BY NamespaceAssumption DEF TreeInv, TreeTypes, Handed, Given, Objects, Null, ObjectPaths

\* Whatever directory it gives: what a process without the permission finds lies under
\* that directory or under its working directory.
THEOREM PathsNeverLeadUp == TreeSpec => []NeverUp
<1>1. TreeInv /\ TaskTypes => NeverUp
  <2> SUFFICES ASSUME TreeInv, TaskTypes, NEW p \in 1..processes, token[p] = 0,
                      NEW root \in Handed, NEW path \in Paths
               PROVE  Lookup(p, root, path) \in {Null, Undefined} \cup Below(p, root)
    BY DEF NeverUp, Below
  <2>1. path \in ObjectPaths /\ root \in Given
    BY HandedAre
  <2> QED  BY <2>1, StaysBelow, ResolveIs DEF Lookup
<1> QED  BY <1>1, TreeSafe, PTL

Directories == {o \in Objects : type[o] = "directory"}

LEMMA StaysDefined ==
  ASSUME TreeInv, TaskTypes, NEW p \in 1..processes, IsDirectory(cwd[p]),
         NEW path \in ObjectPaths, NEW root \in {Null} \cup Directories
  PROVE  Resolving(p, path)[1][root] # Undefined
<1> DEFINE R == Resolving(p, path)
           N == Len(path) + 1
           Q(i) == \A given \in {Null} \cup Directories : R[i][given] # Undefined
           S == {i \in 1..N : Q(i)}
<1>1. N \in Nat /\ 1 \in 1..N /\ Len(path) \in Nat
  BY DEF ObjectPaths
<1>2. p \in Callers /\ p # 0 /\ cwd[p] \in Directories
  BY NamespaceAssumption DEF TaskTypes, Callers, Processes, IsDirectory, Directories, Objects,
                             TreeInv, TreeTypes
<1>3. ObjGetRootObject(p) \in {Null} \cup Directories
  BY NamespaceAssumption DEF ObjGetRootObject, TreeInv, DevicesFirst, Directories, Root, Objects
<1>4. Null \notin Directories /\ Undefined # Null /\ Undefined \notin Objects
  BY DEF Null, Undefined, Directories, Objects
<1>5. \A i \in 1..N, given \in Given : R[i][given] = OneName(p, path, i, R[i + 1], given)
  BY <1>2, ResolveRule
<1> HIDE DEF R
<1>6. ASSUME NEW i \in 1..N, i < N => Q(i + 1), NEW given \in {Null} \cup Directories
      PROVE  R[i][given] # Undefined
  <2> DEFINE d == IF given # Null THEN given ELSE cwd[p]
             found == Child(d, path[i])
  <2>1. given \in Given
    BY DEF Given, Directories
  <2>2. d \in Directories /\ d \in Objects
    BY <1>2 DEF Directories
  <2>3. R[i][given]
          = IF i <= Len(path) /\ path[i] = Dot THEN R[i + 1][ObjGetRootObject(p)]
            ELSE IF d = Null \/ type[d] # "directory" THEN Undefined
            ELSE IF i > Len(path) \/ found = Null THEN Null
            ELSE IF Descends(found, i < Len(path)) THEN R[i + 1][found]
            ELSE found
    BY <1>2, <1>5, <2>1 DEF OneName
  <2>4. d # Null /\ type[d] = "directory"
    BY <1>4, <2>2 DEF Directories
  <2>5. found # Null => found \in Objects
    <3> HIDE DEF d
    <3> QED  BY <2>2, ChildParts, KidsAre
  <2>6. i <= Len(path) => i < N
    BY <1>1
  <2>7. i < Len(path) => i <= Len(path)
    BY <1>1
  <2>8. found # Null /\ Descends(found, i < Len(path)) => i < Len(path) /\ found \in Directories
    BY <2>5 DEF Descends, Directories
  <2> HIDE DEF d, found, N
  <2> QED  BY <1>3, <1>4, <1>6, <2>3, <2>4, <2>5, <2>6, <2>7, <2>8
<1>7. \A i \in 1..N : (i < N => i + 1 \in S) => i \in S
  <2> SUFFICES ASSUME NEW i \in 1..N, i < N => i + 1 \in S PROVE Q(i)
    OBVIOUS
  <2> QED  BY <1>6
<1> HIDE DEF S, N
<1>8. 1 \in S
  BY <1>1, <1>7, Downwards
<1> QED  BY <1>8 DEF S, R

\* From two directories, the one given and the working directory, no path leads the
\* kernel into something else.
THEOREM OnlyTheStartsFail == TreeSpec => []OnlyStartsFail
<1>1. TreeInv /\ TaskTypes => OnlyStartsFail
  <2> SUFFICES ASSUME TreeInv, TaskTypes, NEW p \in 1..processes, IsDirectory(cwd[p]),
                      NEW root \in Handed, NEW path \in Paths, root = Null \/ IsDirectory(root)
               PROVE  Lookup(p, root, path) # Undefined
    BY DEF OnlyStartsFail
  <2>1. path \in ObjectPaths /\ root \in Given
    BY HandedAre
  <2>2. root \in {Null} \cup Directories
    BY <2>1 DEF IsDirectory, Directories, Given
  <2> QED  BY <2>1, <2>2, StaysDefined, ResolveIs DEF Lookup
<1> QED  BY <1>1, TreeSafe, PTL

-----------------------------------------------------------------------------
(* What names lead to.                                                     *)

\* The names of o are the first n of these.
Leads(o, names, n) ==
  /\ Len(FullName(o)) = n /\ n <= Len(names)
  /\ \A k \in 1..n : FullName(o)[k] = names[k]

LEMMA LeadsOn ==
  ASSUME TreeInv, NEW d \in 1..objects, NEW names \in Seq(Names), NEW n \in Nat,
         Leads(d, names, n), n < Len(names), NEW o \in Kids(d), name[o] = names[n + 1]
  PROVE  Leads(o, names, n + 1) /\ FullName(o) = Append(FullName(d), name[o])
<1>1. d \in Objects
  BY NamespaceAssumption DEF TreeInv, TreeTypes, Objects
<1>2. o \in 2..objects /\ Parent(o) = d
  <2>1. o \in 2..objects
    BY <1>1, KidsAre
  <2> QED  BY <1>1, <2>1, ParentParts
<1> DEFINE f == FullName(d)
<1>3. FullName(o) = Append(f, name[o]) /\ f \in Seq(Names)
  BY <1>2, FullNames
<1>4. Len(f) = n /\ \A k \in 1..n : f[k] = names[k]
  BY DEF Leads
<1> HIDE DEF f
<1> DEFINE g == Append(f, name[o])
<1>5. Len(g) = n + 1 /\ g[n + 1] = names[n + 1] /\ \A k \in 1..n : g[k] = names[k]
  BY <1>3, <1>4
<1> HIDE DEF g
<1>6. n + 1 <= Len(names) /\ \A k \in 1..(n + 1) : g[k] = names[k]
  BY <1>5
<1>7. FullName(o) = g
  BY <1>3 DEF g
<1> QED  BY <1>3, <1>5, <1>6, <1>7 DEF Leads, f

\* It carries the names, all of them if it is a directory.
Named(o, names) ==
  \E n \in Nat : Leads(o, names, n) /\ (n = Len(names) \/ type[o] # "directory")

LEMMA FoundIsNamed ==
  ASSUME TreeInv, TaskTypes, NEW path \in AbsolutePaths,
         ResolveObjectName(0, Root, path) \in Objects
  PROVE  Named(ResolveObjectName(0, Root, path), Tail(path))
<1> DEFINE R == Resolving(0, path)
           N == Len(path)
           names == Tail(path)
           Q(i) == \A given \in 1..objects :
                     Leads(given, names, i - 1) /\ R[i + 1][given] \in Objects => Named(R[i + 1][given], names)
           S == {i \in 1..N : Q(i)}
<1>1. /\ path \in ObjectPaths /\ N \in Nat \ {0} /\ path[1] = Dot
      /\ names \in Seq(Names) /\ Len(names) = N - 1
      /\ \A i \in 2..N : path[i] \in Names /\ names[i - 1] = path[i]
  BY AbsoluteParts
<1>2. /\ 0 \in Callers /\ objects \in Nat /\ Root \in 1..objects /\ Root # Null
      /\ \A o \in 1..objects : o \in Objects /\ o \in Given /\ o # Null
  BY NamespaceAssumption DEF TaskTypes, Callers, TreeInv, TreeTypes, Root, Null, Objects, Given
<1>3. \A i \in 1..(N + 1), given \in Given : R[i][given] = OneName(0, path, i, R[i + 1], given)
  BY <1>1, <1>2, ResolveRule
<1>4. Undefined \notin Objects /\ Null \notin Objects
  BY DEF Undefined, Null, Objects
<1> HIDE DEF R, names, N
<1>5. ASSUME NEW i \in 1..N, i < N => Q(i + 1), NEW given \in 1..objects,
             Leads(given, names, i - 1), R[i + 1][given] \in Objects
      PROVE  Named(R[i + 1][given], names)
  <2> DEFINE j == i + 1
             found == Child(given, path[j])
  <2>1. j \in 1..(N + 1) /\ j \in Nat /\ j - 1 = i /\ i \in Nat /\ i - 1 \in Nat
        /\ (j <= N => j \in 2..N) /\ (i < N <=> j <= N)
    BY <1>1
  <2> HIDE DEF j
  <2>2. R[j][given]
          = IF j <= N /\ path[j] = Dot THEN R[j + 1][Root]
            ELSE IF type[given] # "directory" THEN Undefined
            ELSE IF j > N \/ found = Null THEN Null
            ELSE IF type[found] = "directory" /\ j < N THEN R[j + 1][found]
            ELSE found
    BY <1>2, <1>3, <2>1 DEF OneName, ObjGetRootObject, Descends, N
  <2>3. R[j][given] \in Objects
    BY <1>5 DEF j
  <2>4. j <= N => path[j] \in Names /\ path[j] # Dot /\ names[i] = path[j]
    BY <1>1, <2>1, NamespaceAssumption
  <2> HIDE DEF found
  <2>5. j <= N /\ found # Null /\ R[j][given] = IF type[found] = "directory" /\ j < N THEN R[j + 1][found] ELSE found
    BY <1>1, <1>4, <2>1, <2>2, <2>3, <2>4
  <2>6. found \in Kids(given) /\ found \in 2..objects /\ name[found] = names[i]
    BY <1>2, <2>4, <2>5, ChildParts DEF found
  <2>7. i - 1 < Len(names) /\ i - 1 + 1 = i
    BY <1>1, <2>1, <2>5
  <2>8. Leads(found, names, i)
    <3> DEFINE n == i - 1
    <3>1. n \in Nat /\ n < Len(names) /\ n + 1 = i /\ Leads(given, names, n)
      BY <1>5, <2>1, <2>7
    <3> HIDE DEF n
    <3> QED  BY <1>1, <2>6, <3>1, LeadsOn
  <2>9. CASE type[found] = "directory" /\ j < N
    <3>1. R[j][given] = R[j + 1][found] /\ found \in 1..objects
      BY <1>2, <2>5, <2>6, <2>9
    <3>2. Q(j)
      BY <1>5, <2>1, <2>5 DEF j
    <3>3. Named(R[j + 1][found], names)
      BY <2>1, <2>3, <2>8, <3>1, <3>2
    <3> QED  BY <3>1, <3>3 DEF j
  <2>10. CASE ~(type[found] = "directory" /\ j < N)
    <3>1. R[j][given] = found
      BY <2>5, <2>10
    <3>2. i = Len(names) \/ type[found] # "directory"
      BY <1>1, <2>1, <2>5, <2>10
    <3>3. Named(found, names)
      BY <2>1, <2>8, <3>2 DEF Named
    <3> QED  BY <3>1, <3>3 DEF j
  <2> QED  BY <2>9, <2>10
<1>6. \A i \in 1..N : (i < N => i + 1 \in S) => i \in S
  <2> SUFFICES ASSUME NEW i \in 1..N, i < N => i + 1 \in S PROVE Q(i)
    OBVIOUS
  <2> QED  BY <1>5
<1>7. 1 \in 1..N /\ N \in Nat
  BY <1>1
<1> HIDE DEF Q
<1>8. Q(1)
  <2> HIDE DEF S
  <2>1. 1 \in S
    BY <1>6, <1>7, Downwards
  <2> QED  BY <2>1 DEF S
<1>9. Leads(Root, names, 0)
  BY <1>1, FullNames DEF Leads
<1>10. R[1][Root] = R[2][Root]
  <2>1. 1 \in 1..(N + 1) /\ 1 <= Len(path) /\ 1 + 1 = 2
    BY <1>1 DEF N
  <2>2. R[1][Root] = OneName(0, path, 1, R[1 + 1], Root)
    BY <1>2, <1>3, <2>1
  <2>3. OneName(0, path, 1, R[2], Root) = R[2][Root]
    BY <1>1, <1>2, <2>1 DEF OneName, ObjGetRootObject
  <2> QED  BY <2>1, <2>2, <2>3
<1>11. ResolveObjectName(0, Root, path) = R[2][Root]
  BY <1>10, ResolveIs DEF R
<1>12. 1 + 1 = 2 /\ 1 - 1 = 0
  OBVIOUS
<1> QED  BY <1>2, <1>8, <1>9, <1>11, <1>12 DEF Q, names

\* x is o or a directory above it, whose names o's begin with.
Above(x, o) ==
  /\ x \in 1..o
  /\ Leads(x, FullName(o), Len(FullName(x)))
  /\ x # o => type[x] = "directory" /\ Len(FullName(x)) < Len(FullName(o))
  /\ x # Root => Parent(x) \in {Root} \cup Ancestry(o)

LEMMA AncestorParts ==
  ASSUME TreeInv
  PROVE  \A o \in 1..objects : \A x \in {Root} \cup Ancestry(o) : Above(x, o)
<1> DEFINE Q(o) == \A x \in {Root} \cup Ancestry(o) : Above(x, o)
           S == {o \in 1..objects : Q(o)}
<1>1. /\ objects \in Nat /\ Root \in 1..objects /\ Root = 1
      /\ \A o \in 1..objects : o = Root \/ (o \in 2..objects /\ o # Root)
  BY DEF TreeInv, TreeTypes, Root
<1>2. \A o \in 1..objects : FullName(o) \in Seq(Names)
  BY FullNames
<1>3. Above(Root, Root) /\ Ancestry(Root) = {}
  <2>1. FullName(Root) = <<>>
    BY FullNames
  <2>2. Ancestry(Root) = {}
    BY Ancestries
  <2> QED  BY <1>1, <2>1, <2>2 DEF Above, Leads
<1>4. ASSUME NEW o \in 2..objects, o # Root, \A y \in 1..(o - 1) : y \in S PROVE Q(o)
  <2> DEFINE y == Parent(o)
             f == FullName(y)
             g == FullName(o)
  <2>1. y \in 1..(o - 1) /\ y \in 1..objects /\ type[y] = "directory" /\ name[o] \in Names
    BY <1>4, ParentParts
  <2>2. Q(y)
    BY <1>4, <2>1
  <2>3. Ancestry(o) = {o} \cup Ancestry(y) /\ g = Append(f, name[o]) /\ y \in {Root} \cup Ancestry(y)
    <3>1. Ancestry(o) = {o} \cup Ancestry(Parent(o)) /\ FullName(o) = Append(FullName(Parent(o)), name[o])
      BY <1>4, Ancestries, FullNames
    <3>2. y \in 2..objects => y \in Ancestry(y)
      BY Ancestries
    <3>3. y = Root \/ y \in 2..objects
      BY <1>1, <2>1
    <3> QED  BY <3>1, <3>2, <3>3
  <2>4. o \in 1..objects /\ o \in Nat /\ y \in Nat /\ y < o
    BY <1>1, <2>1
  <2> HIDE DEF f
  <2>5. f \in Seq(Names) /\ g \in Seq(Names)
    BY <1>2, <2>1, <2>4 DEF f
  <2> HIDE DEF g
  <2>6. Len(g) = Len(f) + 1 /\ Len(f) \in Nat /\ \A k \in 1..Len(f) : g[k] = f[k]
    BY <2>1, <2>3, <2>5
  <2>7. Above(o, o)
    <3>1. y \in {Root} \cup Ancestry(o)
      BY <2>3
    <3>2. Leads(o, g, Len(g))
      BY <2>6 DEF Leads, g
    <3> QED  BY <1>4, <2>4, <3>1, <3>2 DEF Above, g
  <2>8. ASSUME NEW x \in {Root} \cup Ancestry(y) PROVE Above(x, o)
    <3> DEFINE n == Len(FullName(x))
    <3>1. /\ x \in 1..y /\ Leads(x, f, n)
          /\ x # y => type[x] = "directory" /\ n < Len(f)
          /\ x # Root => Parent(x) \in {Root} \cup Ancestry(o)
      <4>1. Above(x, y)
        BY <2>2, <2>8
      <4>2. Ancestry(y) \subseteq Ancestry(o)
        BY <2>3
      <4> HIDE DEF y
      <4>3. /\ x \in 1..y /\ Leads(x, FullName(y), n)
            /\ x # y => type[x] = "directory" /\ n < Len(FullName(y))
            /\ x # Root => Parent(x) \in {Root} \cup Ancestry(y)
        BY <4>1 DEF Above
      <4> HIDE DEF n
      <4>4. x # Root => Parent(x) \in {Root} \cup Ancestry(o)
        BY <4>2, <4>3
      <4> QED  BY <4>3, <4>4 DEF f
    <3>2. x \in 1..o /\ x # o /\ x \in 1..objects
      <4>1. x \in 1..y
        BY <3>1
      <4> HIDE DEF y
      <4> QED  BY <1>1, <2>4, <4>1
    <3>3. n \in Nat
      BY <1>2, <3>2
    <3> HIDE DEF n
    <3>4. n <= Len(f)
      BY <3>1 DEF Leads
    <3>5. type[x] = "directory"
      BY <2>1, <3>1
    <3>6. Leads(x, g, n) /\ n < Len(g)
      BY <2>6, <3>1, <3>3, <3>4 DEF Leads
    <3> QED  BY <3>1, <3>2, <3>5, <3>6 DEF Above, n, g
  <2> QED  BY <2>3, <2>7, <2>8
<1>5. \A o \in 1..objects : (\A y \in 1..(o - 1) : y \in S) => o \in S
  <2> SUFFICES ASSUME NEW o \in 1..objects, \A y \in 1..(o - 1) : y \in S PROVE Q(o)
    OBVIOUS
  <2> HIDE DEF S
  <2> QED  BY <1>1, <1>3, <1>4
<1> HIDE DEF Q, S
<1>6. \A o \in 1..objects : o \in S
  BY <1>1, <1>5, Upwards
<1> QED  BY <1>6 DEF S, Q

\* The oldest of the siblings of one name is the one found.
LEMMA OldestFound ==
  ASSUME TreeInv, NEW o \in 2..objects, ~Shadowed(o), NEW x \in Ancestry(o), x \in 2..objects
  PROVE  Child(Parent(x), name[x]) = x
<1> DEFINE y == Parent(x)
           c == Child(y, name[x])
<1>1. y \in Objects /\ x \in Kids(y)
  BY ParentParts
<1> HIDE DEF y
<1>2. c # Null /\ c \in Kids(y) /\ c \in 2..objects /\ name[c] = name[x] /\ c <= x
  BY <1>1, ChildParts
<1> HIDE DEF c
<1>3. Parent(c) = y
  BY <1>1, <1>2, ParentParts
<1>4. ~(c < x)
  BY <1>2, <1>3 DEF Shadowed, y
<1>5. c = x
  BY <1>2, <1>4
<1> QED  BY <1>5 DEF c, y

LEMMA FoundByItsNames ==
  ASSUME TreeInv, TaskTypes, NEW o \in 2..objects, ~Shadowed(o)
  PROVE  ResolveObjectName(0, Root, <<Dot>> \o FullName(o)) = o
<1> DEFINE names == FullName(o)
           path == <<Dot>> \o names
           R == Resolving(0, path)
           L == Len(names)
           K(x) == Len(FullName(x))
           Q(x) == x \in {Root} \cup Ancestry(o) /\ x # o => R[2][Root] = R[K(x) + 2][x]
           S == {x \in 1..o : Q(x)}
<1>1. /\ objects \in Nat /\ Root \in 1..objects /\ Root = 1 /\ Root # Null /\ o \in 1..objects
      /\ o # Root /\ o \in Nat
      /\ \A x \in 1..objects : x \in Given /\ x # Null /\ (x # Root => x \in 2..objects)
  BY NamespaceAssumption DEF TreeInv, TreeTypes, Root, Null, Objects, Given
<1>2. \A x \in 1..objects : FullName(x) \in Seq(Names) /\ K(x) \in Nat
  BY FullNames
<1>3. \A x \in {Root} \cup Ancestry(o) : Above(x, o)
  BY <1>1, AncestorParts
<1>4. o \in Ancestry(o) /\ FullName(o) = Append(FullName(Parent(o)), name[o])
  BY Ancestries, FullNames
<1>5. names \in Seq(Names)
  BY <1>1, <1>2
<1>6. K(Root) = 0
  BY FullNames
<1> HIDE DEF names
<1>7. /\ path \in ObjectPaths /\ Len(path) = L + 1 /\ L \in Nat /\ path[1] = Dot
      /\ \A k \in 1..L : path[k + 1] = names[k] /\ names[k] \in Names
  <2>1. /\ path \in Seq(Names \cup {Dot}) /\ Len(path) = L + 1 /\ L \in Nat /\ path[1] = Dot
        /\ \A k \in 1..L : path[k + 1] = names[k] /\ names[k] \in Names
    BY <1>5
  <2> QED  BY <2>1 DEF ObjectPaths
<1> HIDE DEF path
<1>8. 0 \in Callers
  BY DEF TaskTypes, Callers
<1>9. \A i \in 1..(L + 2), given \in Given : R[i][given] = OneName(0, path, i, R[i + 1], given)
  <2>1. \A i \in 1..(Len(path) + 1), given \in Given : R[i][given] = OneName(0, path, i, R[i + 1], given)
    BY <1>7, <1>8, ResolveRule
  <2>2. Len(path) + 1 = L + 2
    BY <1>7
  <2> QED  BY <2>1, <2>2
<1> HIDE DEF R
\* One component on, from the directory of x to x.
<1>10. ASSUME NEW x \in Ancestry(o), x # Root
       PROVE  /\ Parent(x) \in {Root} \cup Ancestry(o) /\ Parent(x) # o /\ Parent(x) \in 1..(x - 1)
              /\ R[K(Parent(x)) + 2][Parent(x)] = IF x = o THEN o ELSE R[K(x) + 2][x]
  <2> DEFINE y == Parent(x)
             n == K(x)
  <2>1. Above(x, o)
    BY <1>3
  <2>2. x \in 1..o /\ x \in 1..objects /\ x \in 2..objects
    <3>1. x \in 1..o
      BY <2>1 DEF Above
    <3>2. x \in 1..objects
      BY <1>1, <3>1
    <3> QED  BY <1>1, <1>10, <3>1, <3>2
  <2>3. /\ y \in {Root} \cup Ancestry(o) /\ n <= L
        /\ x # o => type[x] = "directory" /\ n < L
        /\ \A k \in 1..n : FullName(x)[k] = names[k]
    BY <1>10, <2>1 DEF Above, Leads, names
  <2>4. /\ y \in 1..(x - 1) /\ y \in 1..objects /\ type[y] = "directory" /\ name[x] \in Names
        /\ FullName(x) = Append(FullName(y), name[x])
    BY <2>2, ParentParts, FullNames
  <2>5. Child(y, name[x]) = x
    BY <2>2, OldestFound
  <2>6. n = K(y) + 1 /\ FullName(x)[n] = name[x] /\ K(y) \in Nat
    <3> DEFINE f == FullName(y)
    <3>1. f \in Seq(Names) /\ FullName(x) = Append(f, name[x])
      BY <1>2, <2>4
    <3> HIDE DEF f
    <3>2. Len(Append(f, name[x])) = Len(f) + 1 /\ Append(f, name[x])[Len(f) + 1] = name[x] /\ Len(f) \in Nat
      BY <2>4, <3>1
    <3> QED  BY <3>1, <3>2 DEF f
  <2> HIDE DEF n, y
  <2> DEFINE i == n + 1
  <2>7. i \in 1..(L + 2) /\ i <= L + 1 /\ n \in 1..L /\ K(y) + 2 = i /\ i + 1 = n + 2
    BY <1>7, <2>3, <2>6
  <2>8. path[i] = name[x] /\ path[i] # Dot
    BY <1>7, <2>3, <2>4, <2>6, <2>7, NamespaceAssumption
  <2> DEFINE found == Child(y, path[i])
  <2>9. R[i][y]
          = IF i <= L + 1 /\ path[i] = Dot THEN R[i + 1][Root]
            ELSE IF type[y] # "directory" THEN Undefined
            ELSE IF i > L + 1 \/ found = Null THEN Null
            ELSE IF type[found] = "directory" /\ i < L + 1 THEN R[i + 1][found]
            ELSE found
    <3>1. y \in Given /\ y # Null
      BY <1>1, <2>4
    <3> HIDE DEF i
    <3> QED  BY <1>7, <1>9, <2>7, <3>1 DEF OneName, ObjGetRootObject, Descends
  <2>10. found = x
    BY <2>5, <2>8
  <2> HIDE DEF found
  <2>11. R[i][y] = IF type[x] = "directory" /\ i < L + 1 THEN R[i + 1][x] ELSE x
    <3>1. x # Null /\ ~(i > L + 1)
      BY <1>1, <2>2, <2>7
    <3> HIDE DEF i
    <3> QED  BY <2>4, <2>7, <2>8, <2>9, <2>10, <3>1
  <2>12. x = o => n = L
    BY DEF n, names
  <2>13. R[i][y] = IF x = o THEN o ELSE R[n + 2][x]
    <3>1. CASE x = o
      BY <2>7, <2>11, <2>12, <3>1, <1>7
    <3>2. CASE x # o
      BY <2>3, <2>7, <2>11, <3>2, <1>7
    <3> QED  BY <3>1, <3>2
  <2>14. y # o
    BY <1>1, <2>2, <2>4
  <2> QED  BY <2>3, <2>4, <2>7, <2>13, <2>14 DEF n, y
<1> HIDE DEF L, K
<1>11. ASSUME NEW x \in 1..o, \A y \in 1..(x - 1) : Q(y) PROVE Q(x)
  <2> SUFFICES ASSUME x \in {Root} \cup Ancestry(o), x # o PROVE R[2][Root] = R[K(x) + 2][x]
    OBVIOUS
  <2>1. CASE x = Root
    BY <1>6, <2>1
  <2>2. CASE x # Root
    BY <1>10, <1>11, <2>2
  <2> QED  BY <2>1, <2>2
<1> HIDE DEF Q
<1>12. \A x \in 1..o : (\A y \in 1..(x - 1) : y \in S) => x \in S
  BY <1>11
<1> HIDE DEF S
<1>13. \A x \in 1..o : x \in S
  BY <1>1, <1>12, Upwards
<1>14. R[2][Root] = o
  <2> DEFINE y == Parent(o)
  <2>1. /\ y \in {Root} \cup Ancestry(o) /\ y # o /\ y \in 1..(o - 1)
        /\ R[K(y) + 2][y] = o
    BY <1>1, <1>4, <1>10
  <2> HIDE DEF y
  <2>2. y \in 1..o
    BY <1>1, <2>1
  <2>3. Q(y)
    BY <1>13, <2>2 DEF S
  <2> QED  BY <2>1, <2>3 DEF Q
<1>15. R[1][Root] = R[2][Root]
  <2>1. 1 \in 1..(L + 2) /\ 1 <= Len(path) /\ 1 + 1 = 2
    BY <1>7
  <2>2. R[1][Root] = OneName(0, path, 1, R[1 + 1], Root)
    BY <1>1, <1>9, <2>1
  <2>3. OneName(0, path, 1, R[2], Root) = R[2][Root]
    BY <1>1, <1>7, <2>1 DEF OneName, ObjGetRootObject
  <2> QED  BY <2>1, <2>2, <2>3
<1>16. ResolveObjectName(0, Root, path) = R[1][Root]
  BY ResolveIs DEF R
<1>17. ResolveObjectName(0, Root, path) = o
  BY <1>14, <1>15, <1>16
<1> QED  BY <1>17 DEF path, names

LEMMA LeadsPrefix ==
  ASSUME NEW o, FullName(o) \in Seq(Names), NEW names \in Seq(Names), NEW n \in Nat, Leads(o, names, n)
  PROVE  IsPrefix(FullName(o), names) /\ (n = Len(names) => FullName(o) = names)
<1> DEFINE f == FullName(o)
<1>1. f \in Seq(Names) /\ Len(f) = n /\ n <= Len(names) /\ \A k \in 1..n : f[k] = names[k]
  BY DEF Leads
<1> HIDE DEF f
<1>2. SubSeq(f, 1, n) = SubSeq(names, 1, n)
  BY <1>1
<1>3. n = Len(names) => f = names
  BY <1>1, SeqEqual
<1> QED  BY <1>1, <1>2, <1>3 DEF f, IsPrefix

\* A path of names leads to an object with these names, or to one on the way that is no
\* directory, and every object that no older sibling hides is found by its names.
THEOREM NamesMeanTheTree == TreeSpec => []NamesMean
<1>1. TreeInv /\ TaskTypes => NamesMean
  <2> SUFFICES ASSUME TreeInv, TaskTypes PROVE NamesMean
    OBVIOUS
  <2>1. ASSUME NEW path \in AbsolutePaths, ResolveObjectName(0, Root, path) \in Objects
        PROVE  /\ IsPrefix(FullName(ResolveObjectName(0, Root, path)), Tail(path))
               /\ \/ FullName(ResolveObjectName(0, Root, path)) = Tail(path)
                  \/ type[ResolveObjectName(0, Root, path)] # "directory"
    <3> DEFINE o == ResolveObjectName(0, Root, path)
               names == Tail(path)
    <3>1. path \in ObjectPaths /\ names \in Seq(Names)
      BY AbsoluteParts
    <3>2. o \in 1..objects
      <4>1. 0 \in Callers /\ Root \in Given
        BY NamespaceAssumption DEF TaskTypes, Callers, Root, Given, Objects
      <4>2. o \in Found
        BY <3>1, <4>1, ResolvedFound
      <4> QED  BY <2>1, <4>2 DEF Found, Objects, Undefined, Null
    <3>3. Named(o, names)
      BY <2>1, FoundIsNamed
    <3> HIDE DEF o, names
    <3>4. FullName(o) \in Seq(Names)
      BY <3>2, FullNames
    <3>5. PICK n \in Nat : Leads(o, names, n) /\ (n = Len(names) \/ type[o] # "directory")
      BY <3>3 DEF Named
    <3>6. IsPrefix(FullName(o), names) /\ (n = Len(names) => FullName(o) = names)
      BY <3>1, <3>4, <3>5, LeadsPrefix
    <3> QED  BY <3>5, <3>6 DEF o, names
  <2> QED  BY <2>1, FoundByItsNames DEF NamesMean
<1> QED  BY <1>1, TreeSafe, PTL
===============================================================================
