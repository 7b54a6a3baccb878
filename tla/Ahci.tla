-------------------------------- MODULE Ahci --------------------------------
(***************************************************************************)
(* modules/ahci/ahci.c: the driver of the SATA controller, one caller at a *)
(* time, and the controller as the driver sees it through its registers.   *)
(*                                                                         *)
(* The driver polls.  It has one buffer, sata_buffer, that the reads of    *)
(* all ports go through, and it never resets a port that has failed.       *)
(***************************************************************************)
EXTENDS Integers, FiniteSetsExt

CONSTANTS
  Ports,      \* 1..n for the ports of the controller: 32 in the code
  Slots,      \* command slots of a port: 0..31
  Sectors     \* BOUND: the sectors that callers ask for

ASSUME AhciAssumption ==
  /\ Ports \subseteq Nat \ {0} /\ \E n \in Ports \cup {0} : Ports = 1..n
  /\ Slots \subseteq Nat /\ Slots # {}
  /\ Sectors \subseteq Nat \ {0}

Identify == 0            \* what AhciSendIdentify asks for
NoSlot == -1
NoSector == -1
Firmware == 0            \* the memory the firmware's commands point to
Buffers == Ports \cup {Firmware}

\* What is in a buffer: how much of which sector.
Parts == {"old", "zero", "some", "all"}
Contents == [of : Sectors \cup {Identify, NoSector}, part : Parts]
Content(sector, part) == [of |-> sector, part |-> part]
Old == Content(NoSector, "old")
Zero == Content(NoSector, "zero")

VARIABLES
  attached,     \* the ports whose sata_status says present and active
  start,        \* start[p]: the driver has set ST and FRE
  running,      \* running[p]: CR and FR, the engine works on its lists
  busy,         \* busy[p]: BSY or DRQ in task_file_data
  error,        \* error[p]: ERR in task_file_data
  issued,       \* issued[p]: the bits of command_issue
  active,       \* active[p]: the slot whose command is being executed
  table,        \* table[p][s]: the command in slot s, [sector, to]
  memory,       \* memory[b]: the content of buffer b
  sata_buffer,  \* the buffer in use
  devices,      \* the ports with a device object, SataDevice<n>
  pc,           \* where the driver is
  call,         \* the command in progress or just returned: [port, sector, slot]
  outcome       \* which return statement a read took

port == call.port
hardware == <<attached, running, busy, error, active>>
driver == <<start, table, sata_buffer, devices, pc, call, outcome>>
vars == <<hardware, driver, issued, memory>>

Commands == [sector : Sectors \cup {Identify, NoSector}, to : Buffers]

\* The firmware has booted from one of the disks: ports may still run, on
\* lists of its own, and even have commands left.
Init ==
  /\ attached \in SUBSET Ports
  /\ start \in [Ports -> BOOLEAN]
  /\ running = start
  /\ busy \in [Ports -> BOOLEAN]
  /\ error = [p \in Ports |-> FALSE]
  /\ issued \in [Ports -> {{}, Slots}]
  /\ \A p \in Ports : ~start[p] => issued[p] = {}
  /\ active = [p \in Ports |-> NoSlot]
  /\ table = [p \in Ports |-> [s \in Slots |-> [sector |-> NoSector, to |-> Firmware]]]
  /\ memory = [b \in Buffers |-> Old]
  /\ sata_buffer = Firmware
  /\ devices = {}
  /\ pc = "scan"
  /\ call = [port |-> 1, sector |-> Identify, slot |-> NoSlot]
  /\ outcome = "none"

-----------------------------------------------------------------------------
(* The controller.                                                         *)

Stop(p) ==
  /\ ~start[p] /\ running[p]
  /\ running' = [running EXCEPT ![p] = FALSE]
  /\ issued' = [issued EXCEPT ![p] = {}]
  /\ active' = [active EXCEPT ![p] = NoSlot]
  /\ UNCHANGED <<attached, busy, error, driver, memory>>

Run(p) ==
  /\ start[p] /\ ~running[p]
  /\ running' = [running EXCEPT ![p] = TRUE]
  /\ UNCHANGED <<attached, busy, error, active, driver, issued, memory>>

\* The first frame that the disk sends after the port starts.
Ready(p) ==
  /\ running[p] /\ busy[p] /\ active[p] = NoSlot
  /\ busy' = [busy EXCEPT ![p] = FALSE]
  /\ UNCHANGED <<attached, running, error, active, driver, issued, memory>>

Begin(p) == \E s \in issued[p] :
  /\ running[p] /\ active[p] = NoSlot /\ ~busy[p] /\ ~error[p]
  /\ active' = [active EXCEPT ![p] = s]
  /\ busy' = [busy EXCEPT ![p] = TRUE]
  /\ UNCHANGED <<attached, running, error, driver, issued, memory>>

\* The data of the active command goes to memory in pieces.
Move(p, part) ==
  LET command == table[p][active[p]] IN
  /\ active[p] # NoSlot
  /\ memory[command.to] # Content(command.sector, "all")
  /\ memory' = [memory EXCEPT ![command.to] = Content(command.sector, part)]
  /\ UNCHANGED <<hardware, driver, issued>>
Transfer(p) == Move(p, "some") \/ Move(p, "all")

Finish(p) ==
  /\ active[p] # NoSlot
  /\ LET command == table[p][active[p]]
     IN  memory[command.to] = Content(command.sector, "all")
  /\ issued' = [issued EXCEPT ![p] = @ \ {active[p]}]
  /\ active' = [active EXCEPT ![p] = NoSlot]
  /\ busy' = [busy EXCEPT ![p] = FALSE]
  /\ UNCHANGED <<attached, running, error, driver, memory>>

\* A command fails: the port reports it and executes no other until software
\* restarts it.  The bit of the command stays set.
Fail(p) ==
  /\ active[p] # NoSlot
  /\ error' = [error EXCEPT ![p] = TRUE]
  /\ active' = [active EXCEPT ![p] = NoSlot]
  /\ busy' = [busy EXCEPT ![p] = FALSE]
  /\ UNCHANGED <<attached, running, driver, issued, memory>>

Controller(p) == Stop(p) \/ Run(p) \/ Ready(p) \/ Begin(p) \/ Transfer(p)
                 \/ Finish(p) \/ Fail(p)

-----------------------------------------------------------------------------
(* InitializeAhci, a port at a time, with InitializeAhciPort and           *)
(* AhciAddDevice for those that have a disk.                               *)

Scanning == pc = "scan" /\ port \in Ports

SkipPort ==
  /\ Scanning /\ port \notin attached
  /\ call' = [call EXCEPT !.port = @ + 1]
  /\ UNCHANGED <<hardware, start, table, sata_buffer, devices, pc, outcome, issued, memory>>

StopEngine ==
  /\ Scanning /\ port \in attached
  /\ start' = [start EXCEPT ![port] = FALSE]
  /\ pc' = "stopping"
  /\ UNCHANGED <<hardware, table, sata_buffer, devices, call, outcome, issued, memory>>

\* while CR or FR.
EngineStopped == ~running[port]

\* New lists, new tables, and a new frame for the one buffer.
SetUp ==
  /\ pc = "stopping" /\ EngineStopped
  /\ table' = [table EXCEPT ![port] =
                 [s \in Slots |-> [sector |-> NoSector, to |-> Firmware]]]
  /\ sata_buffer' = port
  /\ pc' = "starting"
  /\ UNCHANGED <<hardware, start, devices, call, outcome, issued, memory>>

StartLater ==
  /\ pc = "starting" /\ EngineStopped
  /\ devices' = devices \cup {port}
  /\ call' = [call EXCEPT !.sector = Identify]
  /\ pc' = "clear"
  /\ UNCHANGED <<hardware, start, table, sata_buffer, outcome, issued, memory>>

\* The engine starts, the device object is made, and AhciSendIdentify is called.
StartEngine ==
  /\ pc = "starting" /\ EngineStopped
  /\ start' = [start EXCEPT ![port] = TRUE]
  /\ devices' = devices \cup {port}
  /\ call' = [call EXCEPT !.sector = Identify]
  /\ pc' = "clear"
  /\ UNCHANGED <<hardware, table, sata_buffer, outcome, issued, memory>>

Initialized ==
  /\ pc = "scan" /\ port \notin Ports
  /\ pc' = "idle"
  /\ UNCHANGED <<hardware, start, table, sata_buffer, devices, call, outcome, issued, memory>>

-----------------------------------------------------------------------------
(* AhciSendIdentify and AhciReadSectorInner, which share their shape.      *)

Reading == call.sector # Identify

\* Where a call returns to: the scan of the ports, or whoever reads.
Return(result) ==
  IF Reading THEN pc' = "idle" /\ outcome' = result /\ UNCHANGED call
  ELSE /\ pc' = "scan" /\ call' = [call EXCEPT !.port = @ + 1]
       /\ UNCHANGED outcome

\* AhciReadSector, for a device object that somebody has found.
ReadSector(p, sector) ==
  /\ pc = "idle"
  /\ call' = [port |-> p, sector |-> sector, slot |-> NoSlot]
  /\ outcome' = "none"
  /\ pc' = "clear"
  /\ UNCHANGED <<hardware, start, table, sata_buffer, devices, issued, memory>>

ClearNothing ==
  /\ pc = "clear"
  /\ pc' = "prepare"
  /\ UNCHANGED <<hardware, start, table, sata_buffer, devices, call, outcome, issued, memory>>

ClearBuffer ==
  /\ pc = "clear"
  /\ memory' = [memory EXCEPT ![sata_buffer] = Zero]
  /\ pc' = "prepare"
  /\ UNCHANGED <<hardware, start, table, sata_buffer, devices, call, outcome, issued>>

FirstSlot == Min(Slots)
AhciFindFreeCommandSlot ==
  IF issued[port] = Slots THEN NoSlot ELSE Min(Slots \ issued[port])

Prepare ==
  /\ pc = "prepare"
  /\ AhciFindFreeCommandSlot # NoSlot
  /\ LET slot == AhciFindFreeCommandSlot IN
     /\ call' = [call EXCEPT !.slot = slot]
     /\ table' = [table EXCEPT ![port][slot] = [sector |-> call.sector, to |-> sata_buffer]]
  /\ pc' = IF Reading THEN "wait" ELSE "precheck"
  /\ UNCHANGED <<hardware, start, sata_buffer, devices, outcome, issued, memory>>

NoFreeSlot ==
  /\ pc = "prepare"
  /\ AhciFindFreeCommandSlot = NoSlot
  /\ Return("failed")
  /\ UNCHANGED <<hardware, start, table, sata_buffer, devices, issued, memory>>

\* Only AhciSendIdentify looks at ERR before it issues.
Precheck ==
  /\ pc = "precheck"
  /\ IF error[port] THEN Return("failed")
     ELSE pc' = "wait" /\ UNCHANGED <<call, outcome>>
  /\ UNCHANGED <<hardware, start, table, sata_buffer, devices, issued, memory>>

Issue ==
  /\ pc = "wait" /\ ~busy[port]
  /\ issued' = [issued EXCEPT ![port] = @ \cup {call.slot}]
  /\ pc' = "poll"
  /\ UNCHANGED <<hardware, start, table, sata_buffer, devices, call, outcome, memory>>

Completed == call.slot \notin issued[port]

PollDone ==
  /\ pc = "poll" /\ Completed
  /\ pc' = "postcheck"
  /\ UNCHANGED <<hardware, start, table, sata_buffer, devices, call, outcome, issued, memory>>

IgnoreError == FALSE
\* Only a read looks at ERR while it waits.
SeesError == Reading /\ error[port]

PollError ==
  /\ pc = "poll" /\ ~Completed /\ SeesError
  /\ Return("failed")
  /\ UNCHANGED <<hardware, start, table, sata_buffer, devices, issued, memory>>

Postcheck ==
  /\ pc = "postcheck"
  /\ Return(IF error[port] THEN "failed" ELSE "ok")
  /\ UNCHANGED <<hardware, start, table, sata_buffer, devices, issued, memory>>

Initializing == SkipPort \/ StopEngine \/ SetUp \/ StartEngine \/ Initialized
Commanding == ClearBuffer \/ Prepare \/ NoFreeSlot \/ Precheck \/ Issue
              \/ PollDone \/ PollError \/ Postcheck

Next ==
  \/ Initializing \/ Commanding
  \/ \E p \in devices, sector \in Sectors : ReadSector(p, sector)
  \/ \E p \in Ports : Controller(p)

Spec == Init /\ [][Next]_vars

\* The processor executes the driver, and every part of the controller that has
\* something to do does it: it stops and starts when told, and each command
\* ends one way or the other.
FairSpec ==
  /\ Spec
  /\ WF_vars(Initializing \/ Commanding)
  /\ \A p \in Ports :
       /\ WF_vars(Stop(p)) /\ WF_vars(Run(p)) /\ WF_vars(Ready(p)) /\ WF_vars(Begin(p))
       /\ WF_vars(Move(p, "all")) /\ WF_vars(Finish(p))

-----------------------------------------------------------------------------
\* While its caller copies it, the buffer holds the sector that was asked for,
\* all of it, if the read ended well; if it failed, and the caller is not told,
\* the buffer holds part of that sector or zeroes, never what an earlier read,
\* another port or the firmware left (ahci.c:243, 278-292).
ReturnedSector ==
  pc = "idle" /\ outcome # "none" =>
    LET content == memory[sata_buffer] IN
    /\ outcome = "ok" => content = Content(call.sector, "all")
    /\ outcome = "failed" => content = Zero \/ content.of = call.sector

\* A command in the controller's hands is never rewritten under it: not by the
\* preparation of another command, also after commands were given up, and not
\* by the set-up of a port that the firmware left running (ahci.c:158-161, 245).
InFlightStays ==
  [][\A p \in Ports : \A s \in issued[p] : running[p] => table'[p][s] = table[p][s]]_vars

\* A read comes back, whether the disk answers, fails, or failed long ago.
ReadReturns == pc = "clear" /\ Reading ~> pc = "idle"

\* The initialisation comes to its end unless a disk reports an error: only
\* AhciSendIdentify waits for ever then (ahci.c:236).
Initializes == <>(pc = "idle" \/ \E p \in Ports : error[p])
=============================================================================
