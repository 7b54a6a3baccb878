------------------------------- MODULE Keyboard -------------------------------
(***************************************************************************)
(* The PS/2 keyboard: its set-up and interrupt handler                     *)
(* (kernel/arch/ps2.c), the RAM file they leave keys in                    *)
(* (kernel/fs/ramfs.c), and a program that reads and writes that file      *)
(* through the C library's stdio and system calls 3 and 4.                 *)
(*                                                                         *)
(* Keys are numbered in the order they are pressed; the character that a   *)
(* key stands for is the key.  The controller is external: an output       *)
(* buffer, the enable bits, and an I/O APIC that remembers an edge.        *)
(***************************************************************************)
EXTENDS Integers, Sequences

CONSTANTS
  MaxKeys,     \* BOUND: keys pressed
  Mapped,      \* those that the keymap has: scan codes below 0x3A
  FlushLimit,  \* reads that empty the controller's buffer: 1024 in the code
  FileSize     \* 64 in the code

Keys == 1..MaxKeys
Nothing == 0
Config == -1       \* the controller's configuration byte
OldByte == -2      \* a byte that the firmware left
Floating == -3     \* what a missing controller reads as

ASSUME KeyboardAssumption ==
  MaxKeys \in Nat /\ Mapped \subseteq Keys /\ FlushLimit \in Nat \ {0} /\ FileSize \in Nat \ {0}

VARIABLES
  step,      \* how many steps of HalInitializePs2 are done
  timeout,   \* its loop counter
  status,    \* the byte it takes for the configuration
  missing,   \* external: there is no controller behind the ports
  output,    \* external: the controller's output, first byte at the port
  enabled,   \* external: the keyboard may send
  pressed,   \* keys pressed; those after sent are still in the keyboard
  sent,
  irq,       \* what is done of letting the interrupt through
  file,      \* ps2_file: null, or the characters of its data and the one behind
  handled,   \* the last mapped key the handler had
  fault,     \* the handler has used a null pointer
  stream,    \* the program has opened the file
  got        \* what its last fgetc returned

boot == <<step, timeout, status, irq>>
controller == <<missing, output, enabled, pressed, sent>>
program == <<stream, got>>
vars == <<boot, controller, file, handled, fault, program>>

-----------------------------------------------------------------------------
(* The RAM file.                                                           *)

NewFile == [i \in 0..FileSize |-> Nothing]
\* Offsets are compared with > in both: the one after the last passes.
RamfsReadByte(offset) == IF offset > FileSize THEN Nothing ELSE file[offset]
RamfsKeepByte(offset, byte) ==
  IF offset > FileSize \/ file[offset] # Nothing THEN file ELSE [file EXCEPT ![offset] = byte]
RamfsWriteByte(offset, byte) ==
  IF offset > FileSize THEN file ELSE [file EXCEPT ![offset] = byte]

-----------------------------------------------------------------------------
(* HalInitializePs2.  wait_ps2 is long enough for the controller.          *)

StepsTyping == <<"flush", "read", "configure", "enable", "file", "entry", "map", "unmask">>
StepsUnmasking == <<"disable", "flush", "read", "configure", "enable", "entry", "map", "unmask", "file">>
Steps == <<"disable", "flush", "read", "configure", "enable", "file", "entry", "map", "unmask">>
GivenUp == Len(Steps) + 1

At(s) == ~fault /\ step < Len(Steps) /\ Steps[step + 1] = s
Port == IF missing THEN Floating ELSE IF output = <<>> THEN Nothing ELSE Head(output)
Rest == IF output = <<>> THEN <<>> ELSE Tail(output)
Full(o) == missing \/ o # <<>>

Disable ==
  /\ At("disable") /\ enabled' = FALSE /\ step' = step + 1
  /\ UNCHANGED <<timeout, status, irq, missing, output, pressed, sent, file, handled, fault, program>>

\* One round of the loop; a counter of FlushLimit - 1 afterwards is taken for a
\* timeout, FlushLimit is not.
Flush ==
  /\ At("flush") /\ output' = Rest
  /\ timeout' = IF Full(Rest) THEN timeout + 1 ELSE timeout
  /\ step' = IF Full(Rest) /\ timeout' < FlushLimit THEN step
             ELSE IF timeout' = FlushLimit - 1 THEN GivenUp ELSE step + 1
  /\ UNCHANGED <<status, irq, missing, enabled, pressed, sent, file, handled, fault, program>>

\* The command for the configuration, and the read of the answer.
ReadConfig ==
  /\ At("read") /\ step' = step + 1
  /\ LET answered == Append(output, Config)
     IN  IF missing THEN status' = Floating /\ UNCHANGED output
         ELSE status' = Head(answered) /\ output' = Tail(answered)
  /\ UNCHANGED <<timeout, irq, missing, enabled, pressed, sent, file, handled, fault, program>>

\* The bits for interrupts are set in it; they are the last three steps' first.
Configure ==
  /\ At("configure") /\ step' = step + 1 /\ irq' = irq \cup {"configure"}
  /\ UNCHANGED <<timeout, status, controller, file, handled, fault, program>>

Enable ==
  /\ At("enable") /\ enabled' = TRUE /\ step' = step + 1
  /\ UNCHANGED <<timeout, status, irq, missing, output, pressed, sent, file, handled, fault, program>>

CreateFile ==
  /\ At("file") /\ file' = NewFile /\ step' = step + 1
  /\ UNCHANGED <<timeout, status, irq, controller, handled, fault, program>>

\* HalSetIrqEntry, HalMapInterrupt, HalUnmaskInterrupt.
Connect(s) ==
  /\ At(s) /\ irq' = irq \cup {s} /\ step' = step + 1
  /\ UNCHANGED <<timeout, status, controller, file, handled, fault, program>>

-----------------------------------------------------------------------------
(* The keyboard and its interrupt.                                         *)

Press ==
  /\ ~missing /\ pressed < MaxKeys /\ pressed' = pressed + 1
  /\ UNCHANGED <<boot, missing, output, enabled, sent, file, handled, fault, program>>

Send ==
  /\ enabled /\ output = <<>> /\ sent < pressed
  /\ sent' = sent + 1 /\ output' = <<sent + 1>>
  /\ UNCHANGED <<boot, missing, enabled, pressed, file, handled, fault, program>>

\* isr_handler and ps2_handler, with interrupts off.
Interrupt ==
  /\ ~fault /\ ~missing /\ output # <<>> /\ irq = {"configure", "entry", "map", "unmask"}
  /\ output' = Tail(output)
  /\ fault' = (Head(output) \in Mapped /\ file = <<>>)
  /\ IF Head(output) \in Mapped /\ ~fault'
     THEN file' = RamfsWriteByte(0, Head(output)) /\ handled' = Head(output)
     ELSE UNCHANGED <<file, handled>>
  /\ UNCHANGED <<boot, missing, enabled, pressed, sent, program>>

-----------------------------------------------------------------------------
(* The program; a system call runs with interrupts off.                    *)

\* fopen of "./Devices/Ps2Keyboard" returns null before there is one.
Fopen ==
  /\ ~fault /\ stream' = (file # <<>>)
  /\ UNCHANGED <<boot, controller, file, handled, fault, got>>

\* The type of the object, 5, selects system call 3; the offset is always 0.
Fgetc ==
  /\ ~fault /\ stream /\ got' = RamfsReadByte(0)
  /\ UNCHANGED <<boot, controller, file, handled, fault, stream>>

\* BOUND: a program clears the byte; its stream's position, which fopen does not
\* set, is 0.
Fputc ==
  /\ ~fault /\ stream /\ file' = RamfsWriteByte(0, Nothing)
  /\ UNCHANGED <<boot, controller, handled, fault, program>>

Init ==
  /\ step = 0 /\ timeout = 0 /\ status = Nothing /\ irq = {}
  /\ missing \in BOOLEAN /\ output \in UNION {[1..n -> {OldByte}] : n \in 0..FlushLimit}
  /\ enabled = ~missing /\ pressed = 0 /\ sent = 0
  /\ file = <<>> /\ handled = 0 /\ fault = FALSE /\ stream = FALSE /\ got = Nothing

Next ==
  \/ Disable \/ Flush \/ ReadConfig \/ Configure \/ Enable \/ CreateFile
  \/ \E s \in {"entry", "map", "unmask"} : Connect(s)
  \/ Press \/ Send \/ Interrupt \/ Fopen \/ Fgetc \/ Fputc
Spec == Init /\ [][Next]_vars

-----------------------------------------------------------------------------
(* Properties.                                                             *)

\* What HalInitializePs2 writes back as the configuration comes from the controller,
\* whoever types meanwhile: the keyboard is off and the buffer has been seen empty.
\* The exception is a buffer that was still full in the last round of the loop.
StatusIsConfig == status \notin {Nothing, Config} => timeout = FlushLimit

\* ps2_handler never runs before it has its file, although the keyboard is enabled
\* before that and keys wait in the controller.
HandlerHasFile == ~fault

\* fgetc gives a program a key once the handler has had it, the newest if none has
\* come since, and never goes back to an older one; a key may be lost.
NewestKey ==
  [][got' # got => got' \in {Nothing, handled} /\ (got' # Nothing => got' >= got)]_vars
=============================================================================
