---------------------------- MODULE StorageProofs -----------------------------
(***************************************************************************)
(* The safety of Ahci, for any number of ports, any command slots and any  *)
(* sectors: the buffer holds what was asked for, and no command is         *)
(* rewritten while the controller has it; Init, Next and Spec are its.     *)
(* Then the mount of Ext2, for any disks.                                  *)
(***************************************************************************)
EXTENDS Ahci, Ext2, WellFoundedInduction, TLAPS

FirmwareCommand == [sector |-> NoSector, to |-> Firmware]
Setting == {"scan", "stopping", "starting"}
Chosen == {"precheck", "wait", "poll", "postcheck"}
Calling == {"clear", "prepare"} \cup Chosen
Ours == call.slot

Types ==
  /\ attached \subseteq Ports /\ devices \subseteq Ports
  /\ start \in [Ports -> BOOLEAN] /\ running \in [Ports -> BOOLEAN]
  /\ busy \in [Ports -> BOOLEAN] /\ error \in [Ports -> BOOLEAN]
  /\ issued \in [Ports -> SUBSET Slots]
  /\ active \in [Ports -> Slots \cup {NoSlot}]
  /\ table \in [Ports -> [Slots -> Commands]]
  /\ memory \in [Buffers -> Contents]
  /\ sata_buffer \in Buffers
  /\ pc \in Setting \cup Calling \cup {"idle"}
  /\ call \in [port : Nat \ {0}, sector : Sectors \cup {Identify}, slot : Slots \cup {NoSlot}]
  /\ outcome \in {"none", "ok", "failed"}

\* What the controller keeps to, whoever set a port up; a port that does not run holds
\* no command unless the driver has started it.
Engines == \A p \in Ports :
  /\ active[p] # NoSlot => active[p] \in issued[p] /\ running[p] /\ ~error[p]
  /\ p \notin devices /\ ~running[p] => issued[p] = {}

\* The ports are set up one after the other, and a command is for one that is.
Progress ==
  /\ pc \in Setting => ~Reading /\ \A p \in devices : p < port
  /\ pc \in Calling /\ ~Reading => \A p \in devices : p <= port
  /\ pc \in {"stopping", "starting"} => port \in Ports /\ ~start[port]
  /\ pc = "starting" => ~running[port] /\ sata_buffer = port
  /\ pc \in Calling => port \in devices
  /\ pc = "precheck" => ~Reading
  /\ pc \in Chosen => Ours \in Slots
  /\ outcome # "none" => Reading /\ devices # {}
  /\ devices # {} => sata_buffer # Firmware

\* A port without a device object has nothing but the firmware's commands; one with a
\* device object executes the command in progress or, if it has failed, none ever again.
Executing ==
  /\ \A p \in Ports \ devices : \A s \in Slots : table[p][s] = FirmwareCommand
  /\ \A p \in devices :
       /\ start[p]
       /\ error[p] \/ issued[p] \subseteq (IF p = port /\ pc = "poll" THEN {Ours} ELSE {})
  /\ pc \in Chosen => table[port][Ours] = [sector |-> call.sector, to |-> sata_buffer]

\* How far the buffer has come.
Buffer ==
  LET content == memory[sata_buffer] IN
  /\ pc \in {"prepare", "precheck", "wait"} => content = Zero
  /\ pc = "poll" => content = Zero \/ content.of = call.sector
  /\ pc = "postcheck" \/ (pc = "poll" /\ Completed) => content = Content(call.sector, "all")

IInv == Types /\ Engines /\ Progress /\ Executing /\ Buffer /\ ReturnedSector

-----------------------------------------------------------------------------
(* What the proofs need about numbers and functions.                       *)

LEMMA SmallestNumber ==
  ASSUME NEW S \in SUBSET Nat, S # {}
  PROVE  Min(S) \in S /\ \A n \in S : Min(S) <= n
<1> DEFINE R == OpToRel(<, Nat)
<1>1. IsWellFoundedOn(R, Nat)
  BY NatLessThanWellFounded
<1> HIDE DEF R
<1>2. PICK m \in S : \A n \in S : ~(<<n, m>> \in R)
  BY <1>1, WFMin
<1>3. \A n \in S : ~(n < m)
  BY <1>2 DEF R, OpToRel
<1>4. \A n \in S : m <= n
  BY <1>3
<1> QED  BY <1>4 DEF Min

\* The slot that AhciFindFreeCommandSlot finds is free.
LEMMA FreeSlot ==
  ASSUME Types, port \in Ports, AhciFindFreeCommandSlot # NoSlot
  PROVE  AhciFindFreeCommandSlot \in Slots \ issued[port]
<1>1. issued[port] \subseteq Slots /\ issued[port] # Slots
  BY DEF Types, AhciFindFreeCommandSlot
<1>2. Slots \ issued[port] \in SUBSET Nat /\ Slots \ issued[port] # {}
  BY <1>1, AhciAssumption
<1> QED  BY <1>1, <1>2, SmallestNumber DEF AhciFindFreeCommandSlot

\* A bit of one port is set or cleared.
LEMMA Switched ==
  ASSUME NEW f \in [Ports -> BOOLEAN], NEW p \in Ports, NEW b \in BOOLEAN,
         NEW g, g = [f EXCEPT ![p] = b]
  PROVE  /\ g \in [Ports -> BOOLEAN] /\ g[p] = b
         /\ \A q \in Ports : q # p => g[q] = f[q]
<1>1. g \in [Ports -> BOOLEAN]
  BY Zenon
<1>2. g[p] = b
  BY Zenon
<1>3. \A q \in Ports : q # p => g[q] = f[q]
  BY Zenon
<1> QED  BY <1>1, <1>2, <1>3

LEMMA Numbers ==
  /\ NoSlot \notin Slots /\ Identify \notin Sectors /\ Firmware \notin Ports
  /\ Ports \subseteq Nat \ {0}
BY AhciAssumption DEF NoSlot, Identify, Firmware

\* The commands that can be under way: the firmware's, or the one in progress.
LEMMA UnderWay ==
  ASSUME IInv, NEW p \in Ports, active[p] # NoSlot
  PROVE  /\ active[p] \in Slots /\ active[p] \in issued[p]
         /\ running[p] /\ ~error[p]
         /\ \/ p \notin devices /\ table[p][active[p]] = FirmwareCommand
            \/ /\ p \in devices /\ p = port /\ pc = "poll" /\ active[p] = Ours /\ start[p]
               /\ table[p][active[p]] = [sector |-> call.sector, to |-> sata_buffer]
<1>1. active[p] \in Slots /\ active[p] \in issued[p] /\ running[p] /\ ~error[p]
  BY DEF IInv, Types, Engines
<1>2. CASE p \notin devices
  BY <1>1, <1>2 DEF IInv, Executing
<1>3. CASE p \in devices
  BY <1>1, <1>3 DEF IInv, Executing, Chosen
<1> QED  BY <1>1, <1>2, <1>3
-----------------------------------------------------------------------------
(* Steps of the controller.                                                *)

LEMMA Initially == Init => IInv
<1> SUFFICES ASSUME Init PROVE IInv
  OBVIOUS
<1>1. Types
  <2>1. start \in [Ports -> BOOLEAN] /\ running \in [Ports -> BOOLEAN] /\ busy \in [Ports -> BOOLEAN]
    BY Zenon DEF Init
  <2>2. error \in [Ports -> BOOLEAN]
    BY Zenon DEF Init
  <2>3. /\ issued \in [Ports -> SUBSET Slots] /\ active \in [Ports -> Slots \cup {NoSlot}]
        /\ attached \subseteq Ports /\ devices \subseteq Ports
    BY DEF Init
  <2>4. /\ table \in [Ports -> [Slots -> Commands]] /\ memory \in [Buffers -> Contents]
        /\ sata_buffer \in Buffers
    BY DEF Init, Commands, Contents, Content, Parts, Old, Buffers
  <2>5. call \in [port : Nat \ {0}, sector : Sectors \cup {Identify}, slot : Slots \cup {NoSlot}]
    BY DEF Init
  <2> QED  BY <2>1, <2>2, <2>3, <2>4, <2>5 DEF Init, Types, Setting
<1>2. Engines
  BY DEF Init, Engines
<1>3. Progress /\ Buffer /\ ReturnedSector
  BY DEF Init, Progress, Setting, Calling, Chosen, Reading, Buffer, ReturnedSector
<1>4. Executing
  BY DEF Init, Executing, FirmwareCommand, Chosen
<1> QED  BY <1>1, <1>2, <1>3, <1>4 DEF IInv

LEMMA StopKeeps == ASSUME IInv, NEW p \in Ports, Stop(p) PROVE IInv'
<1>1. p \notin devices
  BY DEF IInv, Executing, Stop
<1>2. /\ running' \in [Ports -> BOOLEAN] /\ ~running'[p]
      /\ \A q \in Ports : q # p => running'[q] = running[q]
  BY Switched DEF IInv, Types, Stop
<1>3. /\ issued' \in [Ports -> SUBSET Slots] /\ active' \in [Ports -> Slots \cup {NoSlot}]
      /\ issued'[p] = {} /\ active'[p] = NoSlot
      /\ \A q \in Ports : q # p => issued'[q] = issued[q] /\ active'[q] = active[q]
  BY DEF IInv, Types, Stop
<1>4. Types'
  BY <1>2, <1>3 DEF IInv, Types, Stop, driver
<1>5. Engines'
  BY <1>2, <1>3 DEF IInv, Engines, Stop, driver
<1>6. Progress'
  BY <1>2 DEF IInv, Types, Progress, Stop, driver, Reading, port, Ours, Calling, Chosen, Setting
<1>7. Executing'
  BY <1>1, <1>3 DEF IInv, Types, Executing, Stop, driver, port, Ours, Reading, Calling,
       Chosen, Setting
<1>8. Buffer' /\ ReturnedSector'
  BY <1>1, <1>3 DEF IInv, Types, Progress, Buffer, Completed, ReturnedSector, Stop, driver,
       Calling, Chosen, port, Ours, Reading, Setting
<1> QED  BY <1>4, <1>5, <1>6, <1>7, <1>8 DEF IInv

LEMMA RunKeeps == ASSUME IInv, NEW p \in Ports, Run(p) PROVE IInv'
<1>1. /\ running' \in [Ports -> BOOLEAN] /\ running'[p]
      /\ \A q \in Ports : q # p => running'[q] = running[q]
  BY Switched DEF IInv, Types, Run
<1>2. Types'
  BY <1>1 DEF IInv, Types, Run, driver
<1>3. Engines'
  BY <1>1 DEF IInv, Engines, Run, driver
<1>4. Progress'
  BY <1>1 DEF IInv, Types, Progress, Run, driver, Reading, port, Ours, Calling, Chosen, Setting
<1>5. Executing' /\ Buffer' /\ ReturnedSector'
  BY DEF IInv, Executing, Buffer, Completed, ReturnedSector, Run, driver, port, Ours,
       Reading, Calling, Chosen, Setting
<1> QED  BY <1>2, <1>3, <1>4, <1>5 DEF IInv

LEMMA ReadyKeeps == ASSUME IInv, NEW p \in Ports, Ready(p) PROVE IInv'
<1>1. busy' \in [Ports -> BOOLEAN]
  BY Switched DEF IInv, Types, Ready
<1>2. Types'
  BY <1>1 DEF IInv, Types, Ready, driver
<1>3. Engines' /\ Progress'
  BY DEF IInv, Engines, Progress, Ready, driver, Reading, port, Ours, Calling, Chosen, Setting
<1>4. Executing' /\ Buffer' /\ ReturnedSector'
  BY DEF IInv, Executing, Buffer, Completed, ReturnedSector, Ready, driver, port, Ours,
       Reading, Calling, Chosen, Setting
<1> QED  BY <1>2, <1>3, <1>4 DEF IInv

LEMMA BeginKeeps == ASSUME IInv, NEW p \in Ports, Begin(p) PROVE IInv'
<1>1. PICK s \in issued[p] :
        /\ running[p] /\ ~error[p] /\ active' = [active EXCEPT ![p] = s]
        /\ busy' = [busy EXCEPT ![p] = TRUE]
        /\ UNCHANGED <<attached, running, error, driver, issued, memory>>
  BY DEF Begin
<1>2. s \in Slots /\ s # NoSlot
  BY <1>1, Numbers DEF IInv, Types
<1>3. busy' \in [Ports -> BOOLEAN]
  BY <1>1, Switched DEF IInv, Types
<1>4. /\ active' \in [Ports -> Slots \cup {NoSlot}] /\ active'[p] = s
      /\ \A q \in Ports : q # p => active'[q] = active[q]
  BY <1>1, <1>2 DEF IInv, Types
<1>5. Types'
  BY <1>1, <1>3, <1>4 DEF IInv, Types, driver
<1>6. Engines' /\ Progress'
  BY <1>1, <1>4 DEF IInv, Engines, Progress, driver, Reading, port, Ours, Calling, Chosen, Setting
<1>7. Executing' /\ Buffer' /\ ReturnedSector'
  BY <1>1 DEF IInv, Executing, Buffer, Completed, ReturnedSector, driver, port, Ours,
       Reading, Calling, Chosen, Setting
<1> QED  BY <1>5, <1>6, <1>7 DEF IInv

\* What the active command moves goes to the firmware's memory, or is the data that
\* the driver waits for.
LEMMA TransferKeeps ==
  ASSUME IInv, NEW p \in Ports, NEW part \in {"some", "all"}, Move(p, part)
  PROVE  IInv'
<1> DEFINE command == table[p][active[p]]
<1>1. active[p] # NoSlot /\ memory' = [memory EXCEPT ![command.to] = Content(command.sector, part)]
  BY DEF Move
<1>2. command \in Commands
  BY <1>1, UnderWay DEF IInv, Types
<1>3. memory' \in [Buffers -> Contents]
  BY <1>1, <1>2 DEF IInv, Types, Commands, Contents, Content, Parts
<1>4. Types' /\ Engines' /\ Progress' /\ Executing'
  BY <1>3 DEF IInv, Types, Engines, Progress, Executing, Move, hardware, driver, Reading,
       port, Ours, Calling, Chosen, Setting
<1>5. Buffer' /\ ReturnedSector'
  <2>1. CASE command = FirmwareCommand
    <3>1. pc \in Calling \/ outcome # "none" => memory'[sata_buffer] = memory[sata_buffer]
      BY <1>1, <2>1 DEF IInv, Types, Progress, FirmwareCommand
    <3> QED
      BY <3>1 DEF IInv, Buffer, Completed, ReturnedSector, Calling, Chosen, Move, hardware,
           driver, port, Ours, Reading, Setting
  <2>2. CASE /\ p = port /\ pc = "poll" /\ active[p] = Ours
             /\ command = [sector |-> call.sector, to |-> sata_buffer]
    <3>1. memory'[sata_buffer] = Content(call.sector, part)
      BY <1>1, <2>2 DEF IInv, Types
    <3>2. ~Completed
      BY <1>1, <2>2, UnderWay DEF Completed, Ours, port
    <3> QED
      BY <2>2, <3>1, <3>2 DEF Buffer, Completed, ReturnedSector, Content, Move, hardware,
           driver, port, Ours, Reading, Calling, Chosen, Setting
  <2> QED  BY <1>1, <2>1, <2>2, UnderWay
<1> QED  BY <1>4, <1>5 DEF IInv

LEMMA FinishKeeps == ASSUME IInv, NEW p \in Ports, Finish(p) PROVE IInv'
<1> DEFINE command == table[p][active[p]]
<1>1. /\ active[p] # NoSlot /\ memory[command.to] = Content(command.sector, "all")
      /\ UNCHANGED <<attached, running, error, driver, memory>>
  BY DEF Finish
<1>2. /\ issued' \in [Ports -> SUBSET Slots] /\ issued'[p] = issued[p] \ {active[p]}
      /\ \A q \in Ports : q # p => issued'[q] = issued[q]
  BY DEF IInv, Types, Finish
<1>3. /\ active' \in [Ports -> Slots \cup {NoSlot}] /\ active'[p] = NoSlot
      /\ \A q \in Ports : q # p => active'[q] = active[q]
  BY DEF IInv, Types, Finish
<1>4. busy' \in [Ports -> BOOLEAN]
  BY Switched DEF IInv, Types, Finish
<1>5. Types'
  BY <1>1, <1>2, <1>3, <1>4 DEF IInv, Types, driver
<1>6. Engines' /\ Progress'
  BY <1>1, <1>2, <1>3 DEF IInv, Types, Engines, Progress, driver, Reading, port, Ours,
       Calling, Chosen, Setting
<1>7. Executing'
  BY <1>1, <1>2 DEF IInv, Types, Executing, driver, port, Ours, Reading, Calling, Chosen, Setting
<1>8. Buffer'
  <2>1. CASE p = port /\ pc = "poll"
    <3>1. p \in devices
      BY <2>1 DEF IInv, Progress, Calling, Chosen
    <3>2. memory[sata_buffer] = Content(call.sector, "all")
      BY <1>1, <3>1, UnderWay
    <3> QED  BY <1>1, <2>1, <3>2 DEF IInv, Buffer, driver, Content
  <2>2. CASE ~(p = port /\ pc = "poll")
    BY <1>1, <1>2, <2>2 DEF IInv, Types, Progress, Buffer, Completed, driver, Calling,
         Chosen, port, Ours, Reading, Setting
  <2> QED  BY <2>1, <2>2
<1>9. ReturnedSector'
  BY <1>1 DEF IInv, ReturnedSector, driver, port, Ours, Reading, Calling, Chosen, Setting
<1> QED  BY <1>5, <1>6, <1>7, <1>8, <1>9 DEF IInv

LEMMA FailKeeps == ASSUME IInv, NEW p \in Ports, Fail(p) PROVE IInv'
<1>1. /\ error' \in [Ports -> BOOLEAN] /\ error'[p]
      /\ \A q \in Ports : q # p => error'[q] = error[q]
  BY Switched DEF IInv, Types, Fail
<1>2. /\ active' \in [Ports -> Slots \cup {NoSlot}] /\ active'[p] = NoSlot
      /\ \A q \in Ports : q # p => active'[q] = active[q]
  BY DEF IInv, Types, Fail
<1>3. busy' \in [Ports -> BOOLEAN]
  BY Switched DEF IInv, Types, Fail
<1>4. Types'
  BY <1>1, <1>2, <1>3 DEF IInv, Types, Fail, driver
<1>5. Engines' /\ Progress'
  BY <1>1, <1>2 DEF IInv, Engines, Progress, Fail, driver, Reading, port, Ours, Calling,
       Chosen, Setting
<1>6. Executing'
  BY <1>1 DEF IInv, Types, Executing, Fail, driver, port, Ours, Reading, Calling, Chosen, Setting
<1>7. Buffer' /\ ReturnedSector'
  BY DEF IInv, Buffer, Completed, ReturnedSector, Fail, driver, port, Ours, Reading,
       Calling, Chosen, Setting
<1> QED  BY <1>4, <1>5, <1>6, <1>7 DEF IInv

LEMMA ControllerKeeps == ASSUME IInv, NEW p \in Ports, Controller(p) PROVE IInv'
BY StopKeeps, RunKeeps, ReadyKeeps, BeginKeeps, TransferKeeps, FinishKeeps, FailKeeps
   DEF Controller, Transfer

-----------------------------------------------------------------------------
(* Steps of the driver.                                                    *)

LEMMA SkipPortKeeps == ASSUME IInv, SkipPort PROVE IInv'
<1>1. /\ port \in Ports /\ pc = "scan" /\ call.port \in Nat /\ call' = [call EXCEPT !.port = @ + 1]
      /\ UNCHANGED <<hardware, start, table, sata_buffer, devices, pc, outcome, issued, memory>>
  BY DEF SkipPort, Scanning, IInv, Types
<1> DEFINE next == port + 1
<1>2. /\ call'.port = next /\ call'.sector = call.sector /\ call'.slot = call.slot
      /\ call' \in [port : Nat \ {0}, sector : Sectors \cup {Identify}, slot : Slots \cup {NoSlot}]
  <2>1. next \in Nat \ {0} /\ call' = [call EXCEPT !.port = next]
    BY <1>1, Numbers DEF port
  <2> HIDE DEF next
  <2> QED  BY <2>1 DEF IInv, Types
<1>3. Types'
  BY <1>1, <1>2 DEF IInv, Types, hardware
<1>4. Engines'
  BY <1>1 DEF IInv, Engines, hardware
<1>5. Progress'
  <2>1. devices \subseteq Ports /\ port \in Nat
    BY <1>1 DEF IInv, Types, port
  <2>2. \A q \in devices : q < port + 1
    BY <1>1, <2>1, Numbers DEF IInv, Progress, Setting
  <2> QED
    BY <1>1, <1>2, <2>2 DEF IInv, Progress, Setting, Calling, Chosen, Reading, Ours, port, hardware
<1>6. Executing'
  BY <1>1, <1>2 DEF IInv, Executing, Chosen, Ours, port, hardware
<1>7. Buffer' /\ ReturnedSector'
  BY <1>1, <1>2 DEF IInv, Buffer, ReturnedSector, hardware
<1> QED  BY <1>3, <1>4, <1>5, <1>6, <1>7 DEF IInv

LEMMA StopEngineKeeps == ASSUME IInv, StopEngine PROVE IInv'
<1>1. /\ port \in Ports /\ pc = "scan" /\ pc' = "stopping"
      /\ start' = [start EXCEPT ![port] = FALSE]
      /\ UNCHANGED <<hardware, table, sata_buffer, devices, call, outcome, issued, memory>>
  BY DEF StopEngine, Scanning
<1>2. PICK p \in Ports : p = port
  BY <1>1
<1>3. /\ start' \in [Ports -> BOOLEAN] /\ ~start'[p]
      /\ \A q \in Ports : q # p => start'[q] = start[q]
  BY <1>1, <1>2, Switched DEF IInv, Types
<1>4. p \notin devices
  BY <1>1, <1>2, Numbers DEF IInv, Progress, Setting
<1>5. Types'
  BY <1>1, <1>3 DEF IInv, Types, hardware, Setting
<1>6. Engines'
  BY <1>1, <1>3 DEF IInv, Engines, hardware
<1>7. Progress'
  BY <1>1, <1>2, <1>3 DEF IInv, Progress, Setting, Calling, Chosen, Reading, Ours, port, hardware
<1>8. Executing'
  BY <1>1, <1>3, <1>4 DEF IInv, Types, Executing, Chosen, Ours, port, hardware
<1>9. Buffer' /\ ReturnedSector'
  BY <1>1 DEF IInv, Buffer, ReturnedSector, hardware
<1> QED  BY <1>5, <1>6, <1>7, <1>8, <1>9 DEF IInv

LEMMA SetUpKeeps == ASSUME IInv, SetUp PROVE IInv'
<1>1. /\ pc = "stopping" /\ pc' = "starting" /\ ~running[port] /\ sata_buffer' = port
      /\ table' = [table EXCEPT ![port] = [s \in Slots |-> FirmwareCommand]]
      /\ UNCHANGED <<hardware, start, devices, call, outcome, issued, memory>>
  BY DEF SetUp, EngineStopped, FirmwareCommand
<1>2. port \in Ports /\ port \notin devices /\ ~Reading
  <2>1. PICK p \in Ports : p = port
    BY <1>1 DEF IInv, Progress
  <2>2. p \notin devices /\ ~Reading
    BY <1>1, <2>1, Numbers DEF IInv, Progress, Setting
  <2> QED  BY <2>1, <2>2
<1>3. /\ table' \in [Ports -> [Slots -> Commands]]
      /\ table'[port] = [s \in Slots |-> FirmwareCommand]
      /\ \A q \in Ports : q # port => table'[q] = table[q]
  BY <1>1, <1>2 DEF IInv, Types, FirmwareCommand, Commands, Buffers
<1>4. Types'
  BY <1>1, <1>2, <1>3 DEF IInv, Types, hardware, Setting, Buffers
<1>5. Engines'
  BY <1>1 DEF IInv, Engines, hardware
<1>6. Progress'
  BY <1>1, <1>2, Numbers DEF IInv, Progress, Setting, Calling, Chosen, Reading, Ours, port, hardware
<1>7. Executing'
  BY <1>1, <1>2, <1>3 DEF IInv, Types, Executing, Chosen, Ours, port, hardware
<1>8. Buffer' /\ ReturnedSector'
  BY <1>1, <1>2 DEF IInv, Progress, Buffer, ReturnedSector, hardware
<1> QED  BY <1>4, <1>5, <1>6, <1>7, <1>8 DEF IInv

LEMMA StartEngineKeeps == ASSUME IInv, StartEngine PROVE IInv'
<1>1. /\ pc = "starting" /\ pc' = "clear" /\ start' = [start EXCEPT ![port] = TRUE]
      /\ devices' = devices \cup {port} /\ call' = [call EXCEPT !.sector = Identify]
      /\ UNCHANGED <<hardware, table, sata_buffer, outcome, issued, memory>>
  BY DEF StartEngine
<1>2. PICK p \in Ports : p = port
  BY <1>1 DEF IInv, Progress
<1>3. /\ start' \in [Ports -> BOOLEAN] /\ start'[p]
      /\ \A q \in Ports : q # p => start'[q] = start[q]
  BY <1>1, <1>2, Switched DEF IInv, Types
<1>4. issued[p] = {} /\ ~running[p] /\ ~Reading /\ sata_buffer = p
  <2>1. p \notin devices /\ ~running[p] /\ ~Reading /\ sata_buffer = p
    BY <1>1, <1>2, Numbers DEF IInv, Progress, Setting
  <2> QED  BY <2>1 DEF IInv, Engines
<1>5. call' = call
  BY <1>1, <1>4 DEF IInv, Types, Reading
<1>6. Types'
  BY <1>1, <1>2, <1>3, <1>5 DEF IInv, Types, hardware, Calling
<1>7. Engines'
  BY <1>1, <1>2, <1>3, <1>4 DEF IInv, Engines, hardware
<1>8. Progress'
  <2>1. p \in Nat /\ devices \subseteq Nat
    BY Numbers DEF IInv, Types
  <2>2. \A q \in devices' : q <= p
    BY <1>1, <1>2, <2>1 DEF IInv, Progress, Setting
  <2> QED
    BY <1>1, <1>2, <1>4, <1>5, <2>2, Numbers
    DEF IInv, Progress, Setting, Calling, Chosen, Reading, Ours, port, hardware
<1>9. Executing'
  BY <1>1, <1>2, <1>3, <1>4, <1>5 DEF IInv, Types, Executing, Chosen, Ours, port, hardware
<1>10. Buffer' /\ ReturnedSector'
  BY <1>1 DEF IInv, Buffer, ReturnedSector, hardware
<1> QED  BY <1>6, <1>7, <1>8, <1>9, <1>10 DEF IInv

LEMMA InitializedKeeps == ASSUME IInv, Initialized PROVE IInv'
<1>1. pc = "scan" /\ ~Reading /\ outcome = "none"
  BY DEF IInv, Types, Progress, Initialized, Setting
<1>2. Types' /\ Engines'
  BY DEF IInv, Types, Engines, Initialized, hardware
<1>3. Progress'
  BY <1>1 DEF IInv, Progress, Initialized, Setting, Calling, Chosen, Reading, Ours, port, hardware
<1>4. Executing' /\ Buffer' /\ ReturnedSector'
  BY <1>1 DEF IInv, Executing, Buffer, ReturnedSector, Initialized, Chosen, Ours, port, hardware
<1> QED  BY <1>2, <1>3, <1>4 DEF IInv

LEMMA ReadSectorKeeps ==
  ASSUME IInv, NEW p \in devices, NEW sector \in Sectors, ReadSector(p, sector) PROVE IInv'
<1>1. /\ pc = "idle" /\ pc' = "clear" /\ outcome' = "none"
      /\ call' = [port |-> p, sector |-> sector, slot |-> NoSlot]
      /\ UNCHANGED <<hardware, start, table, sata_buffer, devices, issued, memory>>
  BY DEF ReadSector
<1>2. p \in Nat \ {0} /\ sector # Identify
  BY Numbers DEF IInv, Types
<1>3. Types'
  BY <1>1, <1>2 DEF IInv, Types, hardware, Calling
<1>4. Engines'
  BY <1>1 DEF IInv, Engines, hardware
<1>5. Progress'
  BY <1>1, <1>2 DEF IInv, Progress, Setting, Calling, Chosen, Reading, Ours, port, hardware
<1>6. Executing'
  BY <1>1 DEF IInv, Executing, Chosen, Ours, port, hardware
<1>7. Buffer' /\ ReturnedSector'
  BY <1>1 DEF IInv, Buffer, ReturnedSector, hardware
<1> QED  BY <1>3, <1>4, <1>5, <1>6, <1>7 DEF IInv

LEMMA ClearBufferKeeps == ASSUME IInv, ClearBuffer PROVE IInv'
<1>1. /\ pc = "clear" /\ pc' = "prepare" /\ memory' = [memory EXCEPT ![sata_buffer] = Zero]
      /\ UNCHANGED <<hardware, start, table, sata_buffer, devices, call, outcome, issued>>
  BY DEF ClearBuffer
<1>2. memory' \in [Buffers -> Contents] /\ memory'[sata_buffer] = Zero
  BY <1>1 DEF IInv, Types, Contents, Zero, Content, Parts
<1>3. Types'
  BY <1>1, <1>2 DEF IInv, Types, hardware, Calling
<1>4. Engines' /\ Progress'
  BY <1>1 DEF IInv, Engines, Progress, Setting, Calling, Chosen, Reading, Ours, port, hardware
<1>5. Executing' /\ Buffer' /\ ReturnedSector'
  BY <1>1, <1>2 DEF IInv, Executing, Buffer, ReturnedSector, Chosen, Ours, port, hardware
<1> QED  BY <1>3, <1>4, <1>5 DEF IInv

LEMMA PrepareKeeps == ASSUME IInv, Prepare PROVE IInv'
<1> DEFINE slot == AhciFindFreeCommandSlot
           command == [sector |-> call.sector, to |-> sata_buffer]
<1>1. /\ pc = "prepare" /\ pc' = IF Reading THEN "wait" ELSE "precheck"
      /\ slot # NoSlot /\ call' = [call EXCEPT !.slot = slot]
      /\ table' = [table EXCEPT ![port][slot] = command]
      /\ UNCHANGED <<hardware, start, sata_buffer, devices, outcome, issued, memory>>
  BY DEF Prepare
<1>2. port \in devices /\ port \in Ports
  BY <1>1 DEF IInv, Types, Progress, Calling
<1>3. slot \in Slots
  BY <1>1, <1>2, FreeSlot DEF IInv
<1>4. command \in Commands
  BY DEF IInv, Types, Commands
<1> HIDE DEF slot, command
<1>5. /\ call'.port = call.port /\ call'.sector = call.sector /\ call'.slot = slot
      /\ call' \in [port : Nat \ {0}, sector : Sectors \cup {Identify}, slot : Slots \cup {NoSlot}]
  BY <1>1, <1>3 DEF IInv, Types
<1>6. /\ table' \in [Ports -> [Slots -> Commands]] /\ table'[port][slot] = command
      /\ \A q \in Ports : q # port => table'[q] = table[q]
  BY <1>1, <1>2, <1>3, <1>4 DEF IInv, Types
<1>7. Types'
  BY <1>1, <1>5, <1>6 DEF IInv, Types, hardware, Calling, Chosen
<1>8. Engines'
  BY <1>1 DEF IInv, Engines, hardware
<1>9. Progress'
  BY <1>1, <1>3, <1>5 DEF IInv, Progress, Setting, Calling, Chosen, Reading, Ours, port, hardware
<1>10. Executing'
  <2>1. port' = port /\ Ours' = slot /\ table'[port'][Ours'] = command
    BY <1>5, <1>6 DEF port, Ours
  <2>2. \A p \in Ports \ devices : table'[p] = table[p]
    BY <1>2, <1>6
  <2> QED
    BY <1>1, <1>5, <2>1, <2>2 DEF IInv, Executing, Chosen, hardware, command
<1>11. Buffer' /\ ReturnedSector'
  BY <1>1, <1>5 DEF IInv, Buffer, ReturnedSector, hardware
<1> QED  BY <1>7, <1>8, <1>9, <1>10, <1>11 DEF IInv

\* A call returns, to the scan of the ports or to whoever reads.
LEMMA Returning ==
  ASSUME IInv, pc \in Calling, pc = "poll" => error[port],
         NEW result \in {"ok", "failed"}, Return(result),
         result = "ok" => memory[sata_buffer] = Content(call.sector, "all"),
         memory[sata_buffer] = Zero \/ memory[sata_buffer].of = call.sector,
         UNCHANGED <<hardware, start, table, sata_buffer, devices, issued, memory>>
  PROVE  IInv'
<1>1. port \in devices /\ port \in Ports /\ port \in Nat /\ port \in Nat \ {0}
  BY Numbers DEF IInv, Types, Progress
<1>2. \A p \in devices : error[p] \/ issued[p] = {}
  BY DEF IInv, Executing
<1>3. Engines'
  BY DEF IInv, Engines, hardware
<1>4. CASE Reading
  <2>1. pc' = "idle" /\ outcome' = result /\ call' = call
    BY <1>4 DEF Return
  <2>2. Types'
    BY <2>1 DEF IInv, Types, hardware
  <2>3. Progress'
    BY <1>1, <1>4, <2>1
    DEF IInv, Progress, Setting, Calling, Chosen, Reading, Ours, port, hardware
  <2>4. Executing'
    BY <1>2, <2>1 DEF IInv, Executing, Chosen, hardware
  <2>5. Buffer' /\ ReturnedSector'
    BY <2>1 DEF Buffer, ReturnedSector
  <2> QED  BY <1>3, <2>2, <2>3, <2>4, <2>5 DEF IInv
<1>5. CASE ~Reading
  <2> DEFINE next == port + 1
  <2>1. pc' = "scan" /\ outcome' = outcome /\ call' = [call EXCEPT !.port = next]
    BY <1>5 DEF Return, port
  <2>2. next \in Nat \ {0}
    BY <1>1
  <2>3. \A p \in devices : p < next
    <3>1. devices \subseteq Nat /\ \A p \in devices : p <= port
      BY <1>5, Numbers DEF IInv, Types, Progress
    <3>2. PICK n \in Nat : n = port
      BY <1>1
    <3>3. \A p \in devices : p \in Nat /\ p <= n
      BY <3>1, <3>2
    <3>4. \A p \in devices : p < n + 1
      BY <3>3
    <3> QED  BY <3>2, <3>4
  <2> HIDE DEF next
  <2>4. /\ call'.port = next /\ call'.sector = call.sector
        /\ call' \in [port : Nat \ {0}, sector : Sectors \cup {Identify}, slot : Slots \cup {NoSlot}]
    BY <2>1, <2>2 DEF IInv, Types
  <2>5. Types'
    BY <2>1, <2>4 DEF IInv, Types, hardware, Setting
  <2>6. Progress'
    BY <1>5, <2>1, <2>3, <2>4
    DEF IInv, Progress, Setting, Calling, Chosen, Reading, Ours, port, hardware
  <2>7. Executing'
    BY <1>2, <2>1 DEF IInv, Executing, Chosen, hardware
  <2>8. Buffer' /\ ReturnedSector'
    BY <2>1 DEF Buffer, ReturnedSector
  <2> QED  BY <1>3, <2>5, <2>6, <2>7, <2>8 DEF IInv
<1> QED  BY <1>4, <1>5

LEMMA NoFreeSlotKeeps == ASSUME IInv, NoFreeSlot PROVE IInv'
<1>1. /\ pc = "prepare" /\ Return("failed")
      /\ UNCHANGED <<hardware, start, table, sata_buffer, devices, issued, memory>>
  BY DEF NoFreeSlot
<1>2. pc \in Calling /\ memory[sata_buffer] = Zero
  BY <1>1 DEF Calling, IInv, Buffer
<1> QED  BY <1>1, <1>2, Returning

LEMMA PrecheckKeeps == ASSUME IInv, Precheck PROVE IInv'
<1>1. /\ pc = "precheck"
      /\ UNCHANGED <<hardware, start, table, sata_buffer, devices, issued, memory>>
  BY DEF Precheck
<1>2. pc \in Calling /\ memory[sata_buffer] = Zero
  BY <1>1 DEF Calling, Chosen, IInv, Buffer
<1>3. CASE Return("failed")
  BY <1>1, <1>2, <1>3, Returning
<1>4. CASE pc' = "wait" /\ UNCHANGED <<call, outcome>>
  <2>1. Types' /\ Engines'
    BY <1>1, <1>4 DEF IInv, Types, Engines, hardware, Calling, Chosen
  <2>2. Progress'
    BY <1>1, <1>4 DEF IInv, Progress, Setting, Calling, Chosen, Reading, Ours, port, hardware
  <2>3. Executing' /\ Buffer' /\ ReturnedSector'
    BY <1>1, <1>4 DEF IInv, Executing, Buffer, ReturnedSector, Chosen, Ours, port, hardware
  <2> QED  BY <2>1, <2>2, <2>3 DEF IInv
<1> QED  BY <1>3, <1>4 DEF Precheck

LEMMA IssueKeeps == ASSUME IInv, Issue PROVE IInv'
<1>1. /\ pc = "wait" /\ pc' = "poll" /\ issued' = [issued EXCEPT ![port] = @ \cup {Ours}]
      /\ UNCHANGED <<hardware, start, table, sata_buffer, devices, call, outcome, memory>>
  BY DEF Issue, Ours
<1>2. port \in devices /\ port \in Ports /\ Ours \in Slots
  BY <1>1 DEF IInv, Types, Progress, Calling, Chosen
<1>3. /\ issued' \in [Ports -> SUBSET Slots] /\ issued'[port] = issued[port] \cup {Ours}
      /\ \A q \in Ports : q # port => issued'[q] = issued[q]
  BY <1>1, <1>2 DEF IInv, Types
<1>4. Types'
  BY <1>1, <1>3 DEF IInv, Types, hardware, Calling, Chosen
<1>5. Engines'
  BY <1>1, <1>2, <1>3 DEF IInv, Engines, hardware
<1>6. Progress'
  BY <1>1 DEF IInv, Progress, Setting, Calling, Chosen, Reading, Ours, port, hardware
<1>7. Executing'
  BY <1>1, <1>2, <1>3 DEF IInv, Types, Executing, Chosen, Ours, port, hardware
<1>8. Buffer' /\ ReturnedSector'
  BY <1>1, <1>2, <1>3 DEF IInv, Buffer, Completed, ReturnedSector, Ours, port, hardware
<1> QED  BY <1>4, <1>5, <1>6, <1>7, <1>8 DEF IInv

LEMMA PollDoneKeeps == ASSUME IInv, PollDone PROVE IInv'
<1>1. /\ pc = "poll" /\ pc' = "postcheck" /\ Completed
      /\ UNCHANGED <<hardware, start, table, sata_buffer, devices, call, outcome, issued, memory>>
  BY DEF PollDone
<1>2. Types' /\ Engines'
  BY <1>1 DEF IInv, Types, Engines, hardware, Calling, Chosen
<1>3. Progress'
  BY <1>1 DEF IInv, Progress, Setting, Calling, Chosen, Reading, Ours, port, hardware
<1>4. Executing'
  BY <1>1 DEF IInv, Types, Executing, Completed, Chosen, Ours, port, hardware
<1>5. Buffer' /\ ReturnedSector'
  BY <1>1 DEF IInv, Buffer, ReturnedSector, hardware
<1> QED  BY <1>2, <1>3, <1>4, <1>5 DEF IInv

LEMMA PollErrorKeeps == ASSUME IInv, PollError PROVE IInv'
<1>1. /\ pc = "poll" /\ error[port] /\ Return("failed")
      /\ UNCHANGED <<hardware, start, table, sata_buffer, devices, issued, memory>>
  BY DEF PollError, SeesError
<1>2. /\ pc \in Calling
      /\ memory[sata_buffer] = Zero \/ memory[sata_buffer].of = call.sector
  BY <1>1 DEF Calling, Chosen, IInv, Buffer
<1> QED  BY <1>1, <1>2, Returning

LEMMA PostcheckKeeps == ASSUME IInv, Postcheck PROVE IInv'
<1>1. /\ pc = "postcheck" /\ Return(IF error[port] THEN "failed" ELSE "ok")
      /\ UNCHANGED <<hardware, start, table, sata_buffer, devices, issued, memory>>
  BY DEF Postcheck
<1>2. /\ pc \in Calling /\ memory[sata_buffer] = Content(call.sector, "all")
      /\ memory[sata_buffer].of = call.sector
  BY <1>1 DEF Calling, Chosen, IInv, Buffer, Content
<1>3. PICK result \in {"ok", "failed"} : Return(result)
  BY <1>1
<1> QED  BY <1>1, <1>2, <1>3, Returning

LEMMA StutterKeeps == ASSUME IInv, UNCHANGED vars PROVE IInv'
BY DEF vars, hardware, driver, IInv, Types, Engines, Progress, Executing, Buffer, ReturnedSector,
       Completed, Reading, Ours, port

LEMMA Inductive == IInv /\ [Next]_vars => IInv'
BY ControllerKeeps, SkipPortKeeps, StopEngineKeeps, SetUpKeeps, StartEngineKeeps, InitializedKeeps,
   ReadSectorKeeps, ClearBufferKeeps, PrepareKeeps, NoFreeSlotKeeps, PrecheckKeeps, IssueKeeps,
   PollDoneKeeps, PollErrorKeeps, PostcheckKeeps, StutterKeeps
   DEF Next, Initializing, Commanding

LEMMA Invariance == Spec => []IInv
BY Initially, Inductive, PTL DEF Spec

-----------------------------------------------------------------------------
(* The theorems.                                                           *)

\* When a read has returned, the buffer holds the whole sector that was asked for if
\* it ended well, and zeroes or part of that sector if not (ahci.c:243, 278-292).
THEOREM ReadsReturnTheSector == Spec => []ReturnedSector
<1>1. IInv => ReturnedSector
  BY DEF IInv
<1> QED  BY <1>1, Invariance, PTL

\* A step rewrites no command that the controller has: SetUp waits for the engine, and
\* Prepare takes a slot that is free (ahci.c:158-161, 245).
LEMMA CommandsStay ==
  ASSUME IInv, [Next]_vars, NEW p \in Ports, NEW s \in issued[p], running[p]
  PROVE  table'[p][s] = table[p][s]
<1>1. CASE SetUp
  <2>1. ~running[port] /\ port \in Ports
    BY <1>1 DEF SetUp, EngineStopped, IInv, Progress
  <2>2. p # port
    BY <2>1
  <2> QED  BY <1>1, <2>1, <2>2 DEF SetUp, IInv, Types
<1>2. CASE Prepare
  <2> DEFINE slot == AhciFindFreeCommandSlot
             command == [sector |-> call.sector, to |-> sata_buffer]
  <2>1. slot # NoSlot /\ table' = [table EXCEPT ![port][slot] = command]
    BY <1>2 DEF Prepare
  <2>2. port \in Ports
    BY <1>2 DEF Prepare, IInv, Types, Progress, Calling
  <2>3. slot \in Slots \ issued[port]
    BY <2>1, <2>2, FreeSlot DEF IInv
  <2>4. s \in Slots
    BY DEF IInv, Types
  <2> HIDE DEF slot, command
  <2> QED  BY <2>1, <2>2, <2>3, <2>4 DEF IInv, Types
<1>3. CASE UNCHANGED table
  BY <1>3
<1>4. SetUp \/ Prepare \/ UNCHANGED table
  <2>1. ASSUME NEW q \in Ports, Controller(q) PROVE UNCHANGED table
    BY <2>1 DEF Controller, Stop, Run, Ready, Begin, Transfer, Move, Finish, Fail, driver
  <2>2. Initializing => SetUp \/ UNCHANGED table
    BY DEF Initializing, SkipPort, StopEngine, StartEngine, Initialized
  <2>3. Commanding => Prepare \/ UNCHANGED table
    BY DEF Commanding, ClearBuffer, NoFreeSlot, Precheck, Issue, PollDone, PollError, Postcheck
  <2>4. ASSUME NEW q \in devices, NEW sector \in Sectors, ReadSector(q, sector)
        PROVE  UNCHANGED table
    BY <2>4 DEF ReadSector
  <2> QED  BY <2>1, <2>2, <2>3, <2>4 DEF Next, vars, driver
<1> QED  BY <1>1, <1>2, <1>3, <1>4

\* No command is rewritten while the controller has it.
THEOREM CommandsInFlightStay == Spec => InFlightStays
<1>1. IInv /\ [Next]_vars =>
        [\A p \in Ports : \A s \in issued[p] : running[p] => table'[p][s] = table[p][s]]_vars
  BY CommandsStay
<1> QED  BY <1>1, Invariance, PTL DEF Spec, InFlightStays

-----------------------------------------------------------------------------
(* Ext2: the objects that the recursion has made so far.                   *)

Calls == [object : Objects, index : Int, sector : Nat \ {0}, next : Nat \ {0}]
MountTypes ==
  /\ disk \in Disks /\ block_size \in {1024, 2048, 4096}
  /\ objects \in 1..MaxObjects
  /\ children \in [Objects -> Seq(Objects)]
  /\ inode \in [Objects -> Int] /\ directory \in [Objects -> BOOLEAN]
  /\ DOMAIN name = Objects
  /\ stack \in Seq(Calls)

\* Directories are there for inodes of the disk that have the bit.
DirectoriesOnDisk ==
  \A o \in 1..objects : directory[o] =>
    inode[o] \in DOMAIN disk /\ disk[inode[o]].type # "file"

\* A call is for the directory of an object, and each for another.
CallsAreFor ==
  /\ \A f \in 1..Len(stack) :
       /\ stack[f].object \in 1..objects /\ directory[stack[f].object]
       /\ stack[f].index = inode[stack[f].object]
  /\ \A f, g \in 1..Len(stack) : f < g => stack[f].object < stack[g].object

\* The entries of sector b of the inode that o was made for.
EntriesOf(o, b) == disk[inode[o]].sectors[b]

\* The calls for o are past entry k of sector b.
Past(f, b, k) == b < stack[f].sector \/ (b = stack[f].sector /\ k < stack[f].next)
Passed(o, b, k) == \A f \in 1..Len(stack) : stack[f].object = o => Past(f, b, k)

\* The places of what was made for e in the list of o begin with j.
PlacedAt(o, e, j) ==
  /\ Places(o, e) = j..(j + Times(e) - 1)
  /\ \A l \in Places(o, e) : children[o][l] = children[o][j]

\* Each entry that was passed has its object, and each object such an entry.
EntriesMade ==
  \A o \in 1..objects : directory[o] =>
    \A b \in SectorsOf(inode[o]) : \A k \in 1..Len(EntriesOf(o, b)) :
      Passed(o, b, k) /\ ~Skipped(EntriesOf(o, b)[k]) =>
        \E j \in 1..Len(children[o]) : PlacedAt(o, EntriesOf(o, b)[k], j)
MadeForOne(o, c) ==
  \E b \in SectorsOf(inode[o]) : \E k \in 1..Len(EntriesOf(o, b)) :
    Passed(o, b, k) /\ ~Skipped(EntriesOf(o, b)[k]) /\ MadeFor(c, EntriesOf(o, b)[k])
ChildrenNamed ==
  \A o \in 1..objects : directory[o] => \A j \in 1..Len(children[o]) :
    children[o][j] \in 1..objects /\ MadeForOne(o, children[o][j])
NewAreEmpty == \A o \in Objects : o > objects => children[o] = <<>>

CallInv == MountTypes /\ DirectoriesOnDisk /\ CallsAreFor
MountInv == CallInv /\ EntriesMade /\ ChildrenNamed /\ NewAreEmpty /\ StopsBeyondLimits

\* The sectors that the loops go through are those of the direct blocks.
LEMMA SectorsAre ==
  ASSUME block_size \in {1024, 2048, 4096}, NEW i, disk[i].sectors \in Seq(Seq(DirectoryEntry))
  PROVE  SectorsOf(i) = {t \in DOMAIN disk[i].sectors : t * 512 <= Direct * block_size}
<1> DEFINE N == Direct * (block_size \div 512)
<1>1. Direct \in Nat
  BY Ext2Assumption
<1>2. N \in Nat /\ Direct * block_size = N * 512
  <2>1. CASE block_size = 1024
    <3>1. block_size \div 512 = 2
      BY <2>1
    <3> QED  BY <1>1, <2>1, <3>1
  <2>2. CASE block_size = 2048
    <3>1. block_size \div 512 = 4
      BY <2>2
    <3> QED  BY <1>1, <2>2, <3>1
  <2>3. CASE block_size = 4096
    <3>1. block_size \div 512 = 8
      BY <2>3
    <3> QED  BY <1>1, <2>3, <3>1
  <2> QED  BY <2>1, <2>2, <2>3
<1>3. SectorsOf(i) = (1..N) \cap DOMAIN disk[i].sectors
  BY DEF SectorsOf
<1> DEFINE D == DOMAIN disk[i].sectors
           L == Direct * block_size
<1>4. D \subseteq Nat \ {0}
  OBVIOUS
<1> HIDE DEF N, D, L
<1>5. \A t \in Nat \ {0} : t \in 1..N <=> t * 512 <= L
  BY <1>2 DEF L
<1>6. (1..N) \cap D = {t \in D : t * 512 <= L}
  <2>1. \A t \in D : t \in 1..N <=> t * 512 <= L
    BY <1>4, <1>5
  <2> DEFINE R == 1..N
             P(t) == t * 512 <= L
  <2> HIDE DEF R, P
  <2>2. \A t \in D : t \in R <=> P(t)
    BY <2>1 DEF R, P
  <2>3. R \cap D = {t \in D : P(t)}
    BY <2>2
  <2> QED  BY <2>3 DEF R, P
<1> QED  BY <1>3, <1>6 DEF D, L

LEMMA DiskParts ==
  ASSUME disk \in Disks, block_size \in {1024, 2048, 4096}, NEW i \in DOMAIN disk
  PROVE  /\ disk[i].type \in InodeTypes /\ disk[i].sectors \in Seq(Seq(DirectoryEntry))
         /\ \A b \in SectorsOf(i) :
              /\ b \in Nat \ {0} /\ b \in 1..Len(disk[i].sectors)
              /\ disk[i].sectors[b] \in Seq(DirectoryEntry)
              /\ \A k \in 1..Len(disk[i].sectors[b]) : disk[i].sectors[b][k] \in DirectoryEntry
         /\ \A b \in Nat \ {0} : b \notin SectorsOf(i) => \A c \in SectorsOf(i) : c < b
         /\ \A b \in SectorsOf(i) : \A k \in 1..Len(disk[i].sectors[b]) :
              disk[i].sectors[b][k] \in EntriesIn(i)
         /\ \A e \in EntriesIn(i) :
              \E b \in SectorsOf(i) : \E k \in 1..Len(disk[i].sectors[b]) :
                e = disk[i].sectors[b][k]
<1>1. disk[i].type \in InodeTypes /\ disk[i].sectors \in Seq(Seq(DirectoryEntry))
  BY Ext2Assumption
<1> DEFINE B == disk[i].sectors
           N == Direct * (block_size \div 512)
<1>2. B \in Seq(Seq(DirectoryEntry)) /\ SectorsOf(i) = (1..N) \cap DOMAIN B
  BY <1>1 DEF SectorsOf
<1>3. N \in Nat
  <2>1. Direct \in Nat /\ block_size \div 512 \in Nat
    BY Ext2Assumption
  <2> QED  BY <2>1
<1>4. \A e : e \in EntriesIn(i) <=> \E b \in SectorsOf(i) : \E k \in DOMAIN B[b] : e = B[b][k]
  <2> DEFINE E(b) == {B[b][k] : k \in DOMAIN B[b]}
             X == SectorsOf(i)
  <2>1. EntriesIn(i) = UNION {E(b) : b \in X}
    BY <1>1, SectorsAre DEF EntriesIn
  <2>2. \A b, e : e \in E(b) <=> \E k \in DOMAIN B[b] : e = B[b][k]
    OBVIOUS
  <2> HIDE DEF E, X
  <2>3. \A e : e \in EntriesIn(i) <=> \E b \in X : e \in E(b)
    BY <2>1
  <2> QED  BY <2>2, <2>3 DEF X
<1> HIDE DEF B, N
<1>5. DOMAIN B = 1..Len(B) /\ Len(B) \in Nat
  BY <1>2
<1>6. \A b \in SectorsOf(i) : b \in Nat \ {0} /\ b \in 1..Len(B) /\ B[b] \in Seq(DirectoryEntry)
  BY <1>2, <1>5
<1>7. \A b \in SectorsOf(i) : /\ DOMAIN B[b] = 1..Len(B[b])
                              /\ \A k \in 1..Len(B[b]) : B[b][k] \in DirectoryEntry
  BY <1>6
<1>8. \A b \in Nat \ {0} : b \notin SectorsOf(i) => \A c \in SectorsOf(i) : c < b
  BY <1>2, <1>3, <1>5
<1>9. \A b \in SectorsOf(i) : \A k \in 1..Len(B[b]) : B[b][k] \in EntriesIn(i)
  BY <1>4, <1>7
<1>10. \A e \in EntriesIn(i) : \E b \in SectorsOf(i) : \E k \in 1..Len(B[b]) : e = B[b][k]
  BY <1>4, <1>7
<1>11. \A b \in SectorsOf(i) : /\ b \in Nat \ {0} /\ b \in 1..Len(B)
                               /\ B[b] \in Seq(DirectoryEntry)
                               /\ \A k \in 1..Len(B[b]) : B[b][k] \in DirectoryEntry
  BY <1>6, <1>7
<1> QED  BY <1>1, <1>8, <1>9, <1>10, <1>11 DEF B

\* Entries of one name are one entry.
LEMMA OneOfName ==
  ASSUME CallInv, NEW o \in 1..objects, directory[o],
         NEW b \in SectorsOf(inode[o]), NEW c \in SectorsOf(inode[o]),
         NEW j \in 1..Len(EntriesOf(o, b)), NEW k \in 1..Len(EntriesOf(o, c)),
         ~Skipped(EntriesOf(o, b)[j]), EntriesOf(o, c)[k].name = EntriesOf(o, b)[j].name
  PROVE  b = c /\ j = k
<1> DEFINE i == inode[o]
<1>1. disk \in Disks /\ block_size \in {1024, 2048, 4096} /\ i \in DOMAIN disk /\ disk[i].type # "file"
  BY DEF CallInv, MountTypes, DirectoriesOnDisk
<1> DEFINE S == disk[i].sectors
<1>2. S \in Seq(Seq(DirectoryEntry)) /\ b \in 1..Len(S) /\ c \in 1..Len(S)
      /\ S[b] \in Seq(DirectoryEntry) /\ S[c] \in Seq(DirectoryEntry)
  BY <1>1, DiskParts
<1>3. j \in 1..Len(S[b]) /\ k \in 1..Len(S[c]) /\ ~Skipped(S[b][j]) /\ S[c][k].name = S[b][j].name
  BY DEF EntriesOf
<1>4. NamesApart(S)
  <2> HIDE DEF i
  <2> QED  BY <1>1, Ext2Assumption
<1> HIDE DEF S
<1>5. b \in DOMAIN S /\ c \in DOMAIN S /\ j \in DOMAIN S[b] /\ k \in DOMAIN S[c]
  BY <1>2, <1>3
<1> QED  BY <1>3, <1>4, <1>5 DEF NamesApart

\* What is made for an entry has its name.
LEMMA StoredOne ==
  ASSUME NEW e, NEW f, NEW m, m \in StoredNames(e), m \in StoredNames(f)
  PROVE  e.name = f.name
<1>1. ASSUME NEW g, m \in StoredNames(g) PROVE m[1] = g.name
  <2>1. m = <<g.name>> \/ m = <<g.name, "and more">>
    BY <1>1 DEF StoredNames
  <2>2. CASE m = <<g.name>>
    BY <2>2
  <2>3. CASE m = <<g.name, "and more">>
    BY <2>3
  <2> QED  BY <2>1, <2>2, <2>3
<1> QED  BY <1>1

\* The innermost call.
LEMMA TopParts ==
  ASSUME CallInv, stack # <<>>
  PROVE  /\ Len(stack) \in 1..Len(stack) /\ Top = stack[Len(stack)]
         /\ Top.object \in 1..objects /\ Top.object \in Objects /\ directory[Top.object]
         /\ Top.index = inode[Top.object] /\ Top.index \in DOMAIN disk /\ disk[Top.index].type # "file"
         /\ Top.sector \in Nat \ {0} /\ Top.next \in Nat \ {0}
         /\ \A f \in 1..Len(stack) : f # Len(stack) => stack[f].object # Top.object
<1>1. stack \in Seq(Calls)
  BY DEF CallInv, MountTypes
<1> DEFINE n == Len(stack)
<1>2. n \in Nat /\ n # 0 /\ n \in 1..n /\ Top = stack[n] /\ \A f \in 1..n : stack[f] \in Calls
  BY <1>1 DEF Top
<1> HIDE DEF n
<1>3. Top \in Calls /\ Top.object \in Objects /\ Top.sector \in Nat \ {0} /\ Top.next \in Nat \ {0}
  <2>1. Top \in Calls
    BY <1>2
  <2> QED  BY <2>1 DEF Calls
<1>4. /\ \A f \in 1..n : /\ stack[f].object \in 1..objects /\ directory[stack[f].object]
                         /\ stack[f].index = inode[stack[f].object]
      /\ \A f, g \in 1..n : f < g => stack[f].object < stack[g].object
  BY DEF CallInv, CallsAreFor, n
<1>5. Top.object \in 1..objects /\ directory[Top.object] /\ Top.index = inode[Top.object]
  BY <1>2, <1>4
<1>6. \A f \in 1..n : f # n => f < n
  BY <1>2
<1>7. ASSUME NEW f \in 1..n, f # n PROVE stack[f].object # Top.object
  <2>1. stack[f].object < stack[n].object /\ stack[f].object \in 1..objects
    BY <1>2, <1>4, <1>6, <1>7
  <2> QED  BY <1>2, <1>5, <2>1
<1> QED  BY <1>2, <1>3, <1>5, <1>7 DEF CallInv, DirectoriesOnDisk, n

LEMMA EntryParts ==
  ASSUME CallInv, InEntry
  PROVE  /\ stack # <<>> /\ ~undefined /\ Top.sector \in SectorsOf(Top.index)
         /\ Top.next \in 1..Len(EntriesOf(Top.object, Top.sector))
         /\ Entry = EntriesOf(Top.object, Top.sector)[Top.next] /\ Entry \in DirectoryEntry
         /\ Entry \in EntriesIn(Top.index)
<1>1. stack # <<>> /\ ~undefined /\ Top.sector \in SectorsOf(Top.index) /\ Top.next <= Len(Sector)
  BY DEF InEntry, InSector
<1>2. Top.index = inode[Top.object] /\ Top.index \in DOMAIN disk /\ Top.next \in Nat \ {0}
  BY <1>1, TopParts
<1>3. Sector = disk[Top.index].sectors[Top.sector] /\ Sector = EntriesOf(Top.object, Top.sector)
  BY <1>2 DEF Sector, EntriesOf
<1>4. /\ disk[Top.index].sectors[Top.sector] \in Seq(DirectoryEntry)
      /\ \A k \in 1..Len(disk[Top.index].sectors[Top.sector]) :
           disk[Top.index].sectors[Top.sector][k] \in EntriesIn(Top.index)
  <2> DEFINE i == Top.index
  <2>1. disk \in Disks /\ block_size \in {1024, 2048, 4096}
    BY DEF CallInv, MountTypes
  <2>2. /\ \A b \in SectorsOf(i) : disk[i].sectors[b] \in Seq(DirectoryEntry)
        /\ \A b \in SectorsOf(i) : \A k \in 1..Len(disk[i].sectors[b]) :
             disk[i].sectors[b][k] \in EntriesIn(i)
    <3> HIDE DEF i
    <3>1. i \in DOMAIN disk
      BY <1>2 DEF i
    <3> QED  BY <2>1, <3>1, DiskParts
  <2> QED  BY <1>1, <2>2
<1>5. Sector \in Seq(DirectoryEntry) /\ Len(Sector) \in Nat
  BY <1>3, <1>4
<1>6. Top.next \in 1..Len(Sector)
  BY <1>1, <1>2, <1>5
<1>7. Entry = Sector[Top.next] /\ Entry \in DirectoryEntry
  BY <1>5, <1>6 DEF Entry
<1> QED  BY <1>1, <1>3, <1>4, <1>6, <1>7

Kept == <<disk, block_size, objects, children, name, inode, directory>>

LEMMA SameDisk ==
  ASSUME disk' = disk, block_size' = block_size
  PROVE  /\ \A i : SectorsOf(i)' = SectorsOf(i) /\ EntriesIn(i)' = EntriesIn(i)
         /\ \A e : StoredNames(e)' = StoredNames(e) /\ Times(e)' = Times(e)
BY DEF SectorsOf, EntriesIn, StoredNames, Times, DirectoryBit

\* Nothing but the calls has changed, and they have passed the same entries.
LEMMA SameObjects ==
  ASSUME EntriesMade, ChildrenNamed, NewAreEmpty, UNCHANGED Kept,
         \A o \in 1..objects : directory[o] =>
           \A b \in SectorsOf(inode[o]) : \A k \in 1..Len(EntriesOf(o, b)) :
             ~Skipped(EntriesOf(o, b)[k]) => (Passed(o, b, k)' <=> Passed(o, b, k))
  PROVE  EntriesMade' /\ ChildrenNamed' /\ NewAreEmpty'
<1>1. /\ disk' = disk /\ block_size' = block_size /\ objects' = objects /\ children' = children
      /\ name' = name /\ inode' = inode /\ directory' = directory
  BY DEF Kept
<1>2. \A i : SectorsOf(i)' = SectorsOf(i)
  BY <1>1, SameDisk
<1>3. \A e : StoredNames(e)' = StoredNames(e) /\ Times(e)' = Times(e)
  BY <1>1, SameDisk
<1>4. \A c, e : MadeFor(c, e)' <=> MadeFor(c, e)
  BY <1>1, <1>3 DEF MadeFor
<1>5. \A o, b : EntriesOf(o, b)' = EntriesOf(o, b)
  BY <1>1 DEF EntriesOf
<1>6. \A o, e : Places(o, e)' = Places(o, e)
  BY <1>1, <1>4 DEF Places
<1>7. \A o, e, j : PlacedAt(o, e, j)' <=> PlacedAt(o, e, j)
  BY <1>1, <1>3, <1>6 DEF PlacedAt
<1>8. EntriesMade'
  <2> SUFFICES ASSUME NEW o \in 1..objects, directory[o], NEW b \in SectorsOf(inode[o]),
                      NEW k \in 1..Len(EntriesOf(o, b)), Passed(o, b, k)', ~Skipped(EntriesOf(o, b)[k])
               PROVE  \E j \in 1..Len(children[o]) : PlacedAt(o, EntriesOf(o, b)[k], j)
    BY <1>1, <1>2, <1>5, <1>7 DEF EntriesMade
  <2> QED  BY DEF EntriesMade
<1>9. \A o \in 1..objects : directory[o] => \A c : MadeForOne(o, c) => MadeForOne(o, c)'
  BY <1>1, <1>2, <1>4, <1>5 DEF MadeForOne
<1>10. ChildrenNamed'
  BY <1>1, <1>9 DEF ChildrenNamed
<1>11. NewAreEmpty'
  BY <1>1 DEF NewAreEmpty
<1> QED  BY <1>8, <1>10, <1>11

LEMMA SameLimits ==
  ASSUME StopsBeyondLimits, disk' = disk, block_size' = block_size, undefined' = undefined
  PROVE  StopsBeyondLimits'
<1>1. \A i : EntriesIn(i)' = EntriesIn(i)
  BY SameDisk
<1> QED  BY <1>1 DEF StopsBeyondLimits

Goods == <<Kept, undefined>>

\* The innermost call goes on, past entries that make no object.
LEMMA MoveKeeps ==
  ASSUME MountInv, stack # <<>>, UNCHANGED Goods, NEW t \in Calls,
         t.object = Top.object, t.index = Top.index, stack' = [stack EXCEPT ![Len(stack)] = t],
         \A b \in SectorsOf(Top.index) : \A k \in 1..Len(EntriesOf(Top.object, b)) :
           ~Skipped(EntriesOf(Top.object, b)[k]) =>
             (b < t.sector \/ (b = t.sector /\ k < t.next) <=> Past(Len(stack), b, k))
  PROVE  MountInv'
<1> DEFINE n == Len(stack)
<1>1. /\ disk' = disk /\ block_size' = block_size /\ objects' = objects /\ children' = children
      /\ name' = name /\ inode' = inode /\ directory' = directory /\ undefined' = undefined
  BY DEF Goods, Kept
<1>2. /\ n \in 1..n /\ n \in Nat /\ stack' \in Seq(Calls) /\ Len(stack') = n
      /\ stack'[n] = t /\ \A f \in 1..n : f # n => stack'[f] = stack[f]
      /\ Top = stack[n] /\ Top.index = inode[Top.object]
  <2>1. stack \in Seq(Calls) /\ n \in 1..n /\ Top = stack[n] /\ Top.index = inode[Top.object]
    BY TopParts DEF MountInv, CallInv, MountTypes
  <2> QED  BY <2>1
<1> HIDE DEF n
<1>3. MountTypes'
  BY <1>1, <1>2 DEF MountInv, CallInv, MountTypes
<1>4. DirectoriesOnDisk'
  BY <1>1 DEF MountInv, CallInv, DirectoriesOnDisk
<1>5. \A f \in 1..n : stack'[f].object = stack[f].object /\ stack'[f].index = stack[f].index
  BY <1>2
<1>6. CallsAreFor'
  <2>1. /\ \A f \in 1..n : /\ stack[f].object \in 1..objects /\ directory[stack[f].object]
                           /\ stack[f].index = inode[stack[f].object]
        /\ \A f, g \in 1..n : f < g => stack[f].object < stack[g].object
    BY DEF MountInv, CallInv, CallsAreFor, n
  <2> QED  BY <1>1, <1>2, <1>5, <2>1 DEF CallsAreFor
<1>7. ASSUME NEW o \in 1..objects, NEW b \in SectorsOf(inode[o]), NEW k \in 1..Len(EntriesOf(o, b)),
             ~Skipped(EntriesOf(o, b)[k]), NEW f \in 1..n, stack[f].object = o
      PROVE  b < stack'[f].sector \/ (b = stack'[f].sector /\ k < stack'[f].next) <=> Past(f, b, k)
  <2>1. CASE f # n
    BY <1>2, <2>1 DEF Past
  <2>2. CASE f = n
    BY <1>2, <1>7, <2>2 DEF n
  <2> QED  BY <2>1, <2>2
<1>8. ASSUME NEW o \in 1..objects, NEW b \in SectorsOf(inode[o]), NEW k \in 1..Len(EntriesOf(o, b)),
             ~Skipped(EntriesOf(o, b)[k])
      PROVE  Passed(o, b, k)' <=> Passed(o, b, k)
  <2>1. Passed(o, b, k) <=> \A f \in 1..n : stack[f].object = o => Past(f, b, k)
    BY DEF Passed, n
  <2>2. Passed(o, b, k)' <=>
          \A f \in 1..n : stack[f].object = o =>
            b < stack'[f].sector \/ (b = stack'[f].sector /\ k < stack'[f].next)
    BY <1>2, <1>5 DEF Passed, Past
  <2> QED  BY <1>7, <1>8, <2>1, <2>2
<1>9. EntriesMade' /\ ChildrenNamed' /\ NewAreEmpty'
  <2>1. UNCHANGED Kept
    BY DEF Goods
  <2> QED  BY <1>8, <2>1, SameObjects DEF MountInv
<1>10. StopsBeyondLimits'
  BY <1>1, SameLimits DEF MountInv
<1> QED  BY <1>3, <1>4, <1>6, <1>9, <1>10 DEF MountInv, CallInv

\* The place of an innermost call that goes on to the next entry.
LEMMA OnwardParts ==
  ASSUME CallInv, stack # <<>>
  PROVE  \E t \in Calls : /\ t.object = Top.object /\ t.index = Top.index
                          /\ t.sector = Top.sector /\ t.next = Top.next + 1
                          /\ Onward = [stack EXCEPT ![Len(stack)] = t]
<1> DEFINE n == Len(stack)
           t == [Top EXCEPT !.next = Top.next + 1]
<1>1. stack \in Seq(Calls) /\ n \in 1..n /\ Top = stack[n]
  BY TopParts DEF CallInv, MountTypes
<1>2. Top \in Calls
  BY <1>1
<1>3. t \in Calls /\ t.object = Top.object /\ t.index = Top.index /\ t.sector = Top.sector /\ t.next = Top.next + 1
  BY <1>2 DEF Calls
<1>4. Onward = [stack EXCEPT ![n] = t]
  BY <1>1 DEF Onward
<1> QED  BY <1>3, <1>4

LEMMA SkipKeeps == ASSUME MountInv, SkipEntry PROVE MountInv'
<1>1. InEntry /\ Skipped(Entry) /\ stack' = Onward /\ UNCHANGED Goods
  BY DEF SkipEntry, Goods, Kept
<1>2. CallInv
  BY DEF MountInv
<1>3. /\ stack # <<>> /\ Entry = EntriesOf(Top.object, Top.sector)[Top.next]
      /\ Top.sector \in Nat \ {0} /\ Top.next \in Nat \ {0} /\ Top = stack[Len(stack)]
      /\ Top.index \in DOMAIN disk
  BY <1>1, <1>2, EntryParts, TopParts
<1>4. PICK t \in Calls : /\ t.object = Top.object /\ t.index = Top.index
                        /\ t.sector = Top.sector /\ t.next = Top.next + 1
                        /\ Onward = [stack EXCEPT ![Len(stack)] = t]
  BY <1>2, <1>3, OnwardParts
<1>5. ASSUME NEW b \in SectorsOf(Top.index), NEW k \in 1..Len(EntriesOf(Top.object, b)),
             ~Skipped(EntriesOf(Top.object, b)[k])
      PROVE  b < t.sector \/ (b = t.sector /\ k < t.next) <=> Past(Len(stack), b, k)
  <2>1. b = Top.sector => k # Top.next
    BY <1>1, <1>3, <1>5
  <2>2. k \in Nat
    OBVIOUS
  <2>3. b < t.sector \/ (b = t.sector /\ k < t.next) <=> b < Top.sector \/ (b = Top.sector /\ k < Top.next)
    BY <1>3, <1>4, <2>1, <2>2
  <2> QED  BY <1>3, <2>3 DEF Past
<1> QED  BY <1>1, <1>3, <1>4, <1>5, MoveKeeps

LEMMA NextSectorKeeps == ASSUME MountInv, NextSector PROVE MountInv'
<1>1. InSector /\ Top.next > Len(Sector) /\ UNCHANGED Goods
      /\ stack' = [stack EXCEPT ![Len(stack)] = Frame(Top.object, Top.index, Top.sector + 1)]
  BY DEF NextSector, Goods, Kept
<1>2. CallInv /\ stack # <<>>
  BY <1>1 DEF MountInv, InSector
<1> DEFINE n == Len(stack)
           t == Frame(Top.object, Top.index, Top.sector + 1)
<1>3. /\ stack \in Seq(Calls) /\ n \in 1..n /\ Top = stack[n] /\ Top.index = inode[Top.object]
      /\ Top.index \in DOMAIN disk /\ Top.sector \in Nat \ {0} /\ Top.next \in Nat \ {0}
  BY <1>2, TopParts DEF CallInv, MountTypes
<1>4. stack' = [stack EXCEPT ![n] = t]
  BY <1>1
<1>5. t \in Calls /\ t.object = Top.object /\ t.index = Top.index /\ t.sector = Top.sector + 1 /\ t.next = 1
  <2>1. Top \in Calls
    BY <1>3
  <2>2. Top.object \in Objects /\ Top.index \in Int
    BY <2>1 DEF Calls
  <2> QED  BY <1>3, <2>2 DEF Calls, Frame
<1> HIDE DEF t
<1>6. Sector = EntriesOf(Top.object, Top.sector)
  BY <1>3 DEF Sector, EntriesOf
<1>7. ASSUME NEW b \in SectorsOf(Top.index), NEW k \in 1..Len(EntriesOf(Top.object, b))
      PROVE  b < t.sector \/ (b = t.sector /\ k < t.next) <=> Past(n, b, k)
  <2>1. b \in Nat \ {0} /\ k \in Nat \ {0}
    BY <1>2, <1>3, DiskParts DEF CallInv, MountTypes
  <2>2. EntriesOf(Top.object, b) \in Seq(DirectoryEntry)
    <3>1. disk[Top.index].sectors[b] \in Seq(DirectoryEntry)
      BY <1>2, <1>3, DiskParts DEF CallInv, MountTypes
    <3> QED  BY <1>3, <3>1 DEF EntriesOf
  <2>3. b < t.sector \/ (b = t.sector /\ k < t.next) <=> b < Top.sector \/ b = Top.sector
    BY <1>3, <1>5, <2>1
  <2>4. b = Top.sector => k < Top.next
    BY <1>1, <1>3, <1>6, <2>2
  <2>5. Past(n, b, k) <=> b < Top.sector \/ b = Top.sector
    BY <1>3, <2>4 DEF Past
  <2> QED  BY <2>3, <2>5
<1> QED  BY <1>1, <1>2, <1>4, <1>5, <1>7, MoveKeeps

\* An object is made for the entry and added.
LEMMA NewObjectParts ==
  ASSUME MountInv, NEW isDirectory \in BOOLEAN, NEW times \in {1, 2}, NewObject(isDirectory, times)
  PROVE  /\ disk' = disk /\ block_size' = block_size /\ undefined' = undefined /\ stack # <<>>
         /\ objects \in Nat /\ objects' = objects + 1 /\ objects + 1 \in Objects
         /\ objects' \in 1..MaxObjects
         /\ DOMAIN name' = Objects /\ inode' \in [Objects -> Int] /\ directory' \in [Objects -> BOOLEAN]
         /\ children' \in [Objects -> Seq(Objects)]
         /\ \A o \in 1..objects : /\ o \in Objects /\ o # objects + 1
                                 /\ inode'[o] = inode[o] /\ name'[o] = name[o]
                                 /\ directory'[o] = directory[o]
         /\ inode'[objects + 1] = Entry.inode /\ name'[objects + 1] \in StoredNames(Entry)
         /\ directory'[objects + 1] = isDirectory
         /\ \A o \in Objects : o # Top.object => children'[o] = children[o]
         /\ LET old == children[Top.object]
                new == children'[Top.object]
            IN  /\ Len(old) \in Nat /\ Len(new) = Len(old) + times
                /\ \A j \in 1..Len(old) : new[j] = old[j]
                /\ \A j \in 1..Len(new) : j \in 1..Len(old) \/ new[j] = objects + 1
                /\ Len(old) + 1 \in 1..Len(new) /\ new[Len(old) + 1] = objects + 1
<1>1. /\ InEntry /\ ~Skipped(Entry) /\ Readable(Entry.inode) /\ objects < MaxObjects
      /\ objects' = objects + 1 /\ disk' = disk /\ block_size' = block_size /\ undefined' = undefined
      /\ children' = [children EXCEPT ![Top.object] = @ \o [k \in 1..times |-> objects + 1]]
      /\ \E stored \in StoredNames(Entry) : name' = [name EXCEPT ![objects + 1] = stored]
      /\ inode' = [inode EXCEPT ![objects + 1] = Entry.inode]
      /\ directory' = [directory EXCEPT ![objects + 1] = isDirectory]
  BY DEF NewObject
<1>2. /\ objects \in 1..MaxObjects /\ MaxObjects \in Nat /\ objects \in Nat
      /\ objects + 1 \in Objects /\ objects' \in 1..MaxObjects
      /\ \A o \in 1..objects : o \in Objects /\ o # objects + 1
  BY <1>1, Ext2Assumption DEF MountInv, CallInv, MountTypes, Objects
<1>3. /\ DOMAIN name = Objects /\ inode \in [Objects -> Int] /\ directory \in [Objects -> BOOLEAN]
      /\ children \in [Objects -> Seq(Objects)]
  BY DEF MountInv, CallInv, MountTypes
<1>4. CallInv
  BY DEF MountInv
<1>5. stack # <<>> /\ Entry.inode \in Int /\ Top.object \in Objects
  <2>1. stack # <<>> /\ Entry \in DirectoryEntry
    BY <1>1, <1>4, EntryParts
  <2>2. Top.object \in Objects
    BY <1>4, <2>1, TopParts
  <2> QED  BY <2>1, <2>2 DEF DirectoryEntry
<1>6. /\ DOMAIN name' = Objects /\ inode' \in [Objects -> Int] /\ directory' \in [Objects -> BOOLEAN]
      /\ inode'[objects + 1] = Entry.inode /\ name'[objects + 1] \in StoredNames(Entry)
      /\ directory'[objects + 1] = isDirectory
      /\ \A o \in 1..objects : inode'[o] = inode[o] /\ name'[o] = name[o] /\ directory'[o] = directory[o]
  BY <1>1, <1>2, <1>3, <1>5
<1> DEFINE old == children[Top.object]
           more == [k \in 1..times |-> objects + 1]
           new == old \o more
<1>7. old \in Seq(Objects) /\ more \in Seq(Objects) /\ Len(more) = times /\ \A k \in 1..times : more[k] = objects + 1
  <2>1. times \in Nat
    OBVIOUS
  <2> QED  BY <1>2, <1>3, <1>5, <2>1
<1> HIDE DEF more
<1>8. /\ new \in Seq(Objects) /\ Len(new) = Len(old) + times /\ Len(old) \in Nat
      /\ \A j \in 1..Len(old) : new[j] = old[j]
      /\ \A j \in 1..Len(new) : j \in 1..Len(old) \/ new[j] = objects + 1
      /\ Len(old) + 1 \in 1..Len(new) /\ new[Len(old) + 1] = objects + 1
  <2> HIDE DEF old
  <2>1. /\ new \in Seq(Objects) /\ Len(new) = Len(old) + times /\ Len(old) \in Nat
        /\ \A j \in 1..Len(old) : new[j] = old[j]
        /\ \A k \in 1..times : new[Len(old) + k] = more[k]
    BY <1>7
  <2> HIDE DEF new
  <2>2. ASSUME NEW k \in 1..times PROVE new[Len(old) + k] = objects + 1
    <3>1. new[Len(old) + k] = more[k]
      BY <2>1
    <3> QED  BY <1>7, <3>1
  <2>3. times \in Nat /\ 1 \in 1..times
    OBVIOUS
  <2>4. \A j \in 1..Len(new) : j \in 1..Len(old) \/ (j - Len(old) \in 1..times /\ Len(old) + (j - Len(old)) = j)
    BY <2>1, <2>3
  <2>5. \A j \in 1..Len(new) : j \in 1..Len(old) \/ new[j] = objects + 1
    BY <2>2, <2>4
  <2>6. Len(old) + 1 \in 1..Len(new)
    BY <2>1, <2>3
  <2> QED  BY <2>1, <2>2, <2>3, <2>5, <2>6
<1> HIDE DEF new
<1>9. children' = [children EXCEPT ![Top.object] = new]
  BY <1>1 DEF new, more
<1>10. children' \in [Objects -> Seq(Objects)] /\ children'[Top.object] = new
       /\ \A o \in Objects : o # Top.object => children'[o] = children[o]
  BY <1>3, <1>5, <1>8, <1>9
<1> QED  BY <1>1, <1>2, <1>5, <1>6, <1>8, <1>10

\* What an added object keeps: all but what is said of the calls.
LEMMA NewObjectKeeps ==
  ASSUME MountInv, NEW isDirectory \in BOOLEAN, NEW times \in {1, 2}, NewObject(isDirectory, times),
         times = IF isDirectory THEN 2 ELSE 1,
         NEW t \in Calls, t.object = Top.object, t.index = Top.index, t.sector = Top.sector,
         t.next = Top.next + 1,
         Len(stack) \in 1..Len(stack'), stack'[Len(stack)] = t,
         \A f \in 1..Len(stack) : f \in 1..Len(stack') /\ (f # Len(stack) => stack'[f] = stack[f]),
         \A f \in 1..Len(stack') : f \in 1..Len(stack) \/ stack'[f].object = objects + 1,
         isDirectory => \E f \in 1..Len(stack') : stack'[f] = Frame(objects + 1, Entry.inode, 1)
  PROVE  DirectoriesOnDisk' /\ EntriesMade' /\ ChildrenNamed' /\ NewAreEmpty' /\ StopsBeyondLimits'
<1> DEFINE n == Len(stack)
           new == objects + 1
           own == Top.object
           Now(c, e) == inode'[c] = e.inode /\ name'[c] \in StoredNames(e)
           Spots(o, e) == {k \in 1..Len(children'[o]) : Now(children'[o][k], e)}
<1>1. /\ disk' = disk /\ block_size' = block_size /\ undefined' = undefined /\ stack # <<>>
      /\ objects \in Nat /\ objects' = new /\ new \in Objects
      /\ \A o \in 1..objects : /\ o \in Objects /\ o # new
                              /\ inode'[o] = inode[o] /\ name'[o] = name[o]
                              /\ directory'[o] = directory[o]
      /\ inode'[new] = Entry.inode /\ name'[new] \in StoredNames(Entry)
      /\ directory'[new] = isDirectory
      /\ \A o \in Objects : o # own => children'[o] = children[o]
  BY NewObjectParts
<1>2. /\ Len(children[own]) \in Nat /\ Len(children'[own]) = Len(children[own]) + times
      /\ \A j \in 1..Len(children[own]) : children'[own][j] = children[own][j]
      /\ \A j \in 1..Len(children'[own]) : j \in 1..Len(children[own]) \/ children'[own][j] = new
      /\ Len(children[own]) + 1 \in 1..Len(children'[own])
      /\ children'[own][Len(children[own]) + 1] = new
  BY NewObjectParts
<1>3. InEntry /\ ~Skipped(Entry) /\ Readable(Entry.inode) /\ DirectoryBit(Entry.inode) = isDirectory
  BY DEF NewObject
<1>4. /\ Top.sector \in SectorsOf(Top.index) /\ Top.next \in 1..Len(EntriesOf(own, Top.sector))
      /\ Entry = EntriesOf(own, Top.sector)[Top.next] /\ Entry \in DirectoryEntry
  BY <1>3, EntryParts DEF MountInv
<1>5. /\ n \in 1..n /\ Top = stack[n] /\ own \in 1..objects /\ own \in Objects /\ directory[own]
      /\ Top.index = inode[own] /\ Top.index \in DOMAIN disk /\ disk[Top.index].type # "file"
      /\ Top.sector \in Nat \ {0} /\ Top.next \in Nat \ {0}
  BY <1>1, TopParts DEF MountInv
<1> HIDE DEF new, own
<1>6. \A o \in 1..objects' : o \in 1..objects \/ o = new
  BY <1>1 DEF new
<1>7. \A i : SectorsOf(i)' = SectorsOf(i)
  BY <1>1, SameDisk
<1>8. \A e : StoredNames(e)' = StoredNames(e) /\ Times(e)' = Times(e)
  BY <1>1, SameDisk
<1>9. \A c \in 1..objects : \A e : Now(c, e) <=> MadeFor(c, e)
  BY <1>1 DEF MadeFor
<1>10. Now(new, Entry)
  BY <1>1
<1>11. \A o \in 1..objects : \A b : EntriesOf(o, b)' = EntriesOf(o, b)
  BY <1>1 DEF EntriesOf
<1>12. /\ Len(children[own]) \in Nat /\ Len(children'[own]) = Len(children[own]) + times
       /\ times \in Nat /\ times > 0
  BY <1>2
<1>13. \A e : Now(new, e) => e.name = Entry.name
  BY <1>1, StoredOne
<1>14. \A c, e : MadeFor(c, e) /\ MadeFor(c, Entry) => e.name = Entry.name
  BY StoredOne DEF MadeFor
<1>15. Times(Entry) = times
  BY <1>3 DEF Times
<1>16. DirectoriesOnDisk'
  <2>1. isDirectory => Entry.inode \in DOMAIN disk /\ disk[Entry.inode].type # "file"
    <3> DEFINE i == Top.index
               S == disk[i].sectors
    <3>1. disk \in Disks /\ block_size \in {1024, 2048, 4096}
      BY DEF MountInv, CallInv, MountTypes
    <3>2. i \in DOMAIN disk /\ disk[i].type # "file"
      BY <1>5
    <3> HIDE DEF i
    <3>3. InodesThere(S, DOMAIN disk)
      BY <3>1, <3>2, Ext2Assumption
    <3>4. S \in Seq(Seq(DirectoryEntry)) /\ \A b \in SectorsOf(i) : b \in 1..Len(S) /\ S[b] \in Seq(DirectoryEntry)
      BY <3>1, <3>2, DiskParts
    <3>5. /\ Top.sector \in SectorsOf(i) /\ Top.next \in 1..Len(S[Top.sector])
          /\ Entry = S[Top.sector][Top.next]
      BY <1>4, <1>5 DEF i, EntriesOf
    <3> HIDE DEF S
    <3>6. Top.sector \in DOMAIN S /\ Top.next \in DOMAIN S[Top.sector]
      BY <3>4, <3>5
    <3>7. InReach(Entry.inode)
      BY <1>3 DEF Readable, ReadInode
    <3>8. Entry.inode \in DOMAIN disk
      BY <1>3, <3>3, <3>5, <3>6, <3>7 DEF InodesThere
    <3> QED  BY <1>3, <3>8 DEF DirectoryBit
  <2> QED  BY <1>1, <1>6, <2>1 DEF MountInv, CallInv, DirectoriesOnDisk
\* What was passed before is passed now, and the entry besides.
<1>17. ~Passed(own, Top.sector, Top.next)
  <2>1. ~Past(n, Top.sector, Top.next)
    BY <1>5 DEF Past
  <2>2. n \in 1..Len(stack) /\ stack[n].object = own
    BY <1>5 DEF own
  <2> QED  BY <2>1, <2>2 DEF Passed
<1>18. ASSUME NEW o \in 1..objects, NEW b \in SectorsOf(inode[o]), NEW k \in 1..Len(EntriesOf(o, b)),
              Passed(o, b, k)', ~(o = own /\ b = Top.sector /\ k = Top.next)
       PROVE  Passed(o, b, k)
  <2> SUFFICES ASSUME NEW f \in 1..n, stack[f].object = o PROVE Past(f, b, k)
    BY DEF Passed
  <2>1. f \in 1..Len(stack') /\ stack'[f].object = o
    BY <1>5 DEF own
  <2>2. b < stack'[f].sector \/ (b = stack'[f].sector /\ k < stack'[f].next)
    BY <1>18, <2>1 DEF Passed, Past
  <2>3. CASE f # n
    BY <2>2, <2>3 DEF Past
  <2>4. CASE f = n
    <3>1. o = own /\ (b < Top.sector \/ (b = Top.sector /\ k < Top.next + 1))
      BY <1>5, <2>2, <2>4 DEF own
    <3>2. k \in Nat
      OBVIOUS
    <3>3. b < Top.sector \/ (b = Top.sector /\ k < Top.next)
      BY <1>5, <1>18, <3>1, <3>2
    <3> QED  BY <1>5, <2>4, <3>3 DEF Past
  <2> QED  BY <2>3, <2>4
<1>19. ASSUME NEW o \in 1..objects, NEW b, NEW k \in Nat,
              Passed(o, b, k) \/ (o = own /\ b = Top.sector /\ k = Top.next)
       PROVE  Passed(o, b, k)'
  <2> SUFFICES ASSUME NEW f \in 1..Len(stack'), stack'[f].object = o
               PROVE  b < stack'[f].sector \/ (b = stack'[f].sector /\ k < stack'[f].next)
    BY DEF Passed, Past
  <2>1. f \in 1..n
    BY <1>1 DEF new
  <2>2. CASE f # n
    <3>1. stack'[f] = stack[f] /\ stack[f].object = o
      BY <2>1, <2>2
    <3>2. o # own
      BY <1>1, <2>1, <2>2, <3>1, TopParts DEF MountInv, own
    <3>3. Past(f, b, k)
      BY <1>19, <2>1, <3>1, <3>2 DEF Passed
    <3> QED  BY <3>1, <3>3 DEF Past
  <2>3. CASE f = n
    <3>1. o = own
      BY <2>3 DEF own
    <3>2. Passed(o, b, k) => Past(n, b, k)
      BY <1>5, <3>1 DEF Passed, own
    <3>3. b < Top.sector \/ (b = Top.sector /\ (k < Top.next \/ k = Top.next))
      BY <1>5, <1>19, <3>1, <3>2 DEF Past
    <3> QED  BY <1>5, <2>3, <3>3
  <2> QED  BY <2>2, <2>3
<1>20. \A o \in 1..objects : directory[o] => \A j \in 1..Len(children[o]) :
         children[o][j] \in 1..objects /\ MadeForOne(o, children[o][j])
  BY DEF MountInv, ChildrenNamed
\* No other entry has the name, and no object was made for this one.
<1>21. ASSUME NEW b \in SectorsOf(inode[own]), NEW k \in 1..Len(EntriesOf(own, b)),
              ~Skipped(EntriesOf(own, b)[k]), EntriesOf(own, b)[k].name = Entry.name
       PROVE  b = Top.sector /\ k = Top.next
  <2>1. /\ CallInv /\ own \in 1..objects /\ directory[own] /\ Top.sector \in SectorsOf(inode[own])
        /\ Top.next \in 1..Len(EntriesOf(own, Top.sector))
        /\ EntriesOf(own, Top.sector)[Top.next].name = EntriesOf(own, b)[k].name
    BY <1>4, <1>5, <1>21 DEF MountInv
  <2> QED  BY <1>21, <2>1, OneOfName
<1>22. ASSUME NEW j \in 1..Len(children[own]) PROVE ~MadeFor(children[own][j], Entry)
  <2> SUFFICES ASSUME MadeFor(children[own][j], Entry) PROVE FALSE
    OBVIOUS
  <2>1. PICK b \in SectorsOf(inode[own]) : \E k \in 1..Len(EntriesOf(own, b)) :
               /\ Passed(own, b, k) /\ ~Skipped(EntriesOf(own, b)[k])
               /\ MadeFor(children[own][j], EntriesOf(own, b)[k])
    BY <1>5, <1>20 DEF MadeForOne
  <2>2. PICK k \in 1..Len(EntriesOf(own, b)) :
               /\ Passed(own, b, k) /\ ~Skipped(EntriesOf(own, b)[k])
               /\ MadeFor(children[own][j], EntriesOf(own, b)[k])
    BY <2>1
  <2>3. EntriesOf(own, b)[k].name = Entry.name
    BY <1>14, <2>2
  <2>4. b = Top.sector /\ k = Top.next
    BY <1>21, <2>2, <2>3
  <2> QED  BY <1>17, <2>2, <2>4
\* The places of the entry, and those of the entries before.
<1>23. Spots(own, Entry) = (Len(children[own]) + 1)..Len(children'[own])
  <2> DEFINE L == Len(children[own])
             M == Len(children'[own])
  <2>1. \A j \in 1..L : children'[own][j] = children[own][j] /\ children[own][j] \in 1..objects
    BY <1>2, <1>5, <1>20
  <2>2. \A j \in 1..L : ~Now(children'[own][j], Entry)
    BY <1>9, <1>22, <2>1
  <2>3. \A j \in 1..M : j \in 1..L \/ Now(children'[own][j], Entry)
    BY <1>2, <1>10
  <2>4. L \in Nat /\ M \in Nat /\ L <= M
    <3> HIDE DEF L, M
    <3>1. L \in Nat /\ M = L + times /\ times \in Nat
      BY <1>12 DEF L, M
    <3> QED  BY <3>1
  <2>5. Spots(own, Entry) = {k \in 1..M : Now(children'[own][k], Entry)}
    OBVIOUS
  <2> DEFINE P(k) == Now(children'[own][k], Entry)
  <2> HIDE DEF L, M, P
  <2>6. /\ \A j \in 1..L : ~P(j)
        /\ \A j \in 1..M : j \in 1..L \/ P(j)
    BY <2>2, <2>3 DEF P
  <2>7. {k \in 1..M : P(k)} = (L + 1)..M
    BY <2>4, <2>6
  <2> QED  BY <2>5, <2>7 DEF L, M, P
<1>24. ASSUME NEW o \in 1..objects, directory[o], NEW e, o = own => e.name # Entry.name
       PROVE  Spots(o, e) = Places(o, e)
  <2>1. CASE o # own
    <3>1. children'[o] = children[o] /\ \A j \in 1..Len(children[o]) : children[o][j] \in 1..objects
      BY <1>1, <1>20, <1>24, <2>1
    <3> QED  BY <1>9, <3>1 DEF Places
  <2>2. CASE o = own
    <3> DEFINE L == Len(children[own])
               M == Len(children'[own])
    <3>1. \A j \in 1..L : children'[own][j] = children[own][j] /\ children[own][j] \in 1..objects
      BY <1>2, <1>5, <1>20
    <3>2. \A j \in 1..L : Now(children'[own][j], e) <=> MadeFor(children[own][j], e)
      BY <1>9, <3>1
    <3>3. \A j \in 1..M : j \in 1..L \/ ~Now(children'[own][j], e)
      BY <1>2, <1>13, <1>24, <2>2
    <3>4. L \in Nat /\ M \in Nat /\ L <= M
      <4> HIDE DEF L, M
      <4>1. L \in Nat /\ M = L + times /\ times \in Nat
        BY <1>12 DEF L, M
      <4> QED  BY <4>1
    <3> DEFINE P(k) == Now(children'[own][k], e)
               Q(k) == MadeFor(children[own][k], e)
    <3> HIDE DEF L, M, P, Q
    <3>5. /\ \A j \in 1..L : P(j) <=> Q(j)
          /\ \A j \in 1..M : j \in 1..L \/ ~P(j)
      BY <3>2, <3>3 DEF P, Q
    <3>6. {k \in 1..M : P(k)} = {k \in 1..L : Q(k)}
      BY <3>4, <3>5
    <3>7. Spots(own, e) = {k \in 1..M : P(k)}
      BY DEF M, P
    <3>8. Places(own, e) = {k \in 1..L : Q(k)}
      BY DEF L, Q, Places
    <3> QED  BY <2>2, <3>6, <3>7, <3>8
  <2> QED  BY <2>1, <2>2
<1>25. \A o, e : Places(o, e)' = Spots(o, e)
  BY <1>8 DEF Places, MadeFor
<1>26. \A o \in 1..objects : \A j \in 1..Len(children[o]) :
         j \in 1..Len(children'[o]) /\ children'[o][j] = children[o][j]
  <2> SUFFICES ASSUME NEW o \in 1..objects, NEW j \in 1..Len(children[o])
               PROVE  j \in 1..Len(children'[o]) /\ children'[o][j] = children[o][j]
    OBVIOUS
  <2>1. CASE o = own
    <3> DEFINE L == Len(children[own])
               M == Len(children'[own])
    <3>1. j \in 1..L /\ children'[own][j] = children[own][j]
      BY <1>2, <2>1
    <3>2. L \in Nat /\ M = L + times /\ times \in Nat
      BY <1>12
    <3> HIDE DEF L, M
    <3>3. j \in 1..M
      BY <3>1, <3>2
    <3> QED  BY <2>1, <3>1, <3>3 DEF M
  <2>2. CASE o # own
    BY <1>1, <2>2
  <2> QED  BY <2>1, <2>2
<1>27. children'[new] = <<>>
  <2>1. new # own /\ new > objects
    BY <1>1, <1>5 DEF new
  <2>2. children[new] = <<>>
    BY <1>1, <2>1 DEF MountInv, NewAreEmpty
  <2> QED  BY <1>1, <2>1, <2>2
<1>28. EntriesMade'
  <2>1. ASSUME NEW o \in 1..objects, directory[o], NEW b \in SectorsOf(inode[o]),
               NEW k \in 1..Len(EntriesOf(o, b)), Passed(o, b, k)', ~Skipped(EntriesOf(o, b)[k]),
               NEW e, e = EntriesOf(o, b)[k]
        PROVE  \E j \in 1..Len(children'[o]) :
                 /\ Spots(o, e) = j..(j + Times(e) - 1)
                 /\ \A l \in Spots(o, e) : children'[o][l] = children'[o][j]
    <3>1. CASE o = own /\ b = Top.sector /\ k = Top.next
      <4> DEFINE L == Len(children[own])
                 M == Len(children'[own])
      <4>1. e = Entry /\ Spots(o, e) = (L + 1)..M
        BY <1>4, <1>23, <2>1, <3>1
      <4>2. L \in Nat /\ M = L + times /\ times \in Nat /\ times > 0 /\ Times(e) = times
        BY <1>12, <1>15, <4>1
      <4>3. \A l \in 1..M : l \in 1..L \/ children'[own][l] = new
        BY <1>2
      <4> HIDE DEF L, M, Spots
      <4>4. L + 1 \in 1..M /\ (L + 1) + Times(e) - 1 = M
        BY <4>2
      <4>5. \A l \in (L + 1)..M : children'[own][l] = new
        BY <4>2, <4>3
      <4>6. L + 1 \in (L + 1)..M
        BY <4>2
      <4>7. children'[own][L + 1] = new
        BY <4>5, <4>6
      <4>8. L + 1 \in 1..Len(children'[o])
        BY <3>1, <4>4 DEF M
      <4> QED  BY <3>1, <4>1, <4>4, <4>5, <4>7, <4>8
    <3>2. CASE ~(o = own /\ b = Top.sector /\ k = Top.next)
      <4>1. Passed(o, b, k)
        BY <1>18, <2>1, <3>2
      <4>2. PICK j \in 1..Len(children[o]) : PlacedAt(o, e, j)
        BY <2>1, <4>1 DEF MountInv, EntriesMade
      <4>3. o = own => e.name # Entry.name
        <5> SUFFICES ASSUME o = own, e.name = Entry.name PROVE FALSE
          OBVIOUS
        <5>1. b = Top.sector /\ k = Top.next
          BY <1>21, <2>1
        <5> QED  BY <3>2, <5>1
      <4>4. Spots(o, e) = Places(o, e)
        BY <1>24, <2>1, <4>3
      <4>5. Places(o, e) = j..(j + Times(e) - 1) /\ \A l \in Places(o, e) : children[o][l] = children[o][j]
        BY <4>2 DEF PlacedAt
      <4>6. \A l \in Places(o, e) : l \in 1..Len(children[o])
        BY DEF Places
      <4>7. \A l \in Places(o, e) : children'[o][l] = children'[o][j]
        BY <1>26, <4>5, <4>6
      <4>8. j \in 1..Len(children'[o])
        BY <1>26
      <4> HIDE DEF Spots
      <4> QED  BY <4>4, <4>5, <4>7, <4>8
    <3> QED  BY <3>1, <3>2
  <2>2. ASSUME NEW o, o = new, isDirectory, NEW b \in SectorsOf(Entry.inode), NEW k \in Nat \ {0},
               Passed(o, b, k)'
        PROVE  FALSE
    <3>1. PICK f \in 1..Len(stack') : stack'[f] = Frame(new, Entry.inode, 1)
      BY <2>2 DEF new
    <3>2. stack'[f].object = o /\ stack'[f].sector = 1 /\ stack'[f].next = 1
      BY <2>2, <3>1 DEF Frame
    <3>3. b < 1 \/ (b = 1 /\ k < 1)
      BY <2>2, <3>2 DEF Passed, Past
    <3>4. b \in Nat \ {0}
      BY <2>2, Ext2Assumption DEF SectorsOf
    <3> QED  BY <2>2, <3>3, <3>4
  <2> HIDE DEF Spots, Now
  <2>3. \A o, e, j : PlacedAt(o, e, j)' <=>
          /\ Spots(o, e) = j..(j + Times(e) - 1)
          /\ \A l \in Spots(o, e) : children'[o][l] = children'[o][j]
    BY <1>8, <1>25 DEF PlacedAt
  <2>4. ASSUME NEW o \in 1..objects', directory'[o], NEW b \in SectorsOf(inode'[o]),
               NEW k \in 1..Len(EntriesOf(o, b)'), Passed(o, b, k)',
               NEW e, e = EntriesOf(o, b)'[k], ~Skipped(e)
        PROVE  \E j \in 1..Len(children'[o]) : PlacedAt(o, e, j)'
    <3>1. CASE o \in 1..objects
      <4>1. /\ directory[o] /\ inode'[o] = inode[o] /\ EntriesOf(o, b)' = EntriesOf(o, b)
            /\ b \in SectorsOf(inode[o]) /\ k \in 1..Len(EntriesOf(o, b))
            /\ ~Skipped(EntriesOf(o, b)[k]) /\ e = EntriesOf(o, b)[k] /\ Passed(o, b, k)'
        BY <1>1, <1>11, <2>4, <3>1
      <4>2. \E j \in 1..Len(children'[o]) :
              /\ Spots(o, e) = j..(j + Times(e) - 1)
              /\ \A l \in Spots(o, e) : children'[o][l] = children'[o][j]
        BY <2>1, <3>1, <4>1
      <4> QED  BY <2>3, <4>2
    <3>2. CASE o = new
      <4>1. isDirectory /\ b \in SectorsOf(Entry.inode) /\ k \in Nat \ {0}
        BY <1>1, <2>4, <3>2
      <4> QED  BY <2>2, <2>4, <3>2, <4>1
    <3> QED  BY <1>6, <2>4, <3>1, <3>2
  <2> QED  BY <1>7, <2>4 DEF EntriesMade
<1>29. ChildrenNamed'
  <2>1. ASSUME NEW o \in 1..objects, directory[o], NEW j \in 1..Len(children'[o])
        PROVE  /\ children'[o][j] \in 1..objects'
               /\ \E b \in SectorsOf(inode[o]) : \E k \in 1..Len(EntriesOf(o, b)) :
                    Passed(o, b, k)' /\ ~Skipped(EntriesOf(o, b)[k])
                    /\ Now(children'[o][j], EntriesOf(o, b)[k])
    <3>1. CASE j \in 1..Len(children[o])
      <4> DEFINE c == children[o][j]
      <4>1. children'[o][j] = c /\ c \in 1..objects /\ MadeForOne(o, c)
        BY <1>20, <1>26, <2>1, <3>1
      <4> HIDE DEF c
      <4>2. c \in 1..objects'
        BY <1>1, <4>1 DEF new
      <4>3. PICK b \in SectorsOf(inode[o]) : \E k \in 1..Len(EntriesOf(o, b)) :
              Passed(o, b, k) /\ ~Skipped(EntriesOf(o, b)[k]) /\ MadeFor(c, EntriesOf(o, b)[k])
        BY <4>1 DEF MadeForOne
      <4>4. PICK k \in 1..Len(EntriesOf(o, b)) :
              Passed(o, b, k) /\ ~Skipped(EntriesOf(o, b)[k]) /\ MadeFor(c, EntriesOf(o, b)[k])
        BY <4>3
      <4>5. k \in Nat
        OBVIOUS
      <4>6. Passed(o, b, k)'
        BY <1>19, <4>4, <4>5
      <4>7. Now(c, EntriesOf(o, b)[k])
        BY <1>9, <4>1, <4>4
      <4> HIDE DEF Now
      <4> QED  BY <4>1, <4>2, <4>4, <4>6, <4>7
    <3>2. CASE j \notin 1..Len(children[o])
      <4>1. o = own
        BY <1>1, <3>2
      <4>2. children'[o][j] = new
        BY <1>2, <3>2, <4>1
      <4>3. new \in 1..objects'
        BY <1>1 DEF new
      <4>4. ASSUME NEW b, NEW k, b = Top.sector, k = Top.next PROVE Passed(o, b, k)'
        <5>1. k \in Nat /\ o \in 1..objects
          BY <1>5, <4>1, <4>4
        <5> QED  BY <1>19, <4>1, <4>4, <5>1
      <4>5. Top.sector \in SectorsOf(inode[o])
        BY <1>4, <1>5, <4>1
      <4>6. ~Skipped(EntriesOf(o, Top.sector)[Top.next]) /\ Now(new, EntriesOf(o, Top.sector)[Top.next])
        BY <1>3, <1>4, <1>10, <4>1
      <4> HIDE DEF Now
      <4>7. \E b \in SectorsOf(inode[o]) : \E k \in 1..Len(EntriesOf(o, b)) :
              /\ Passed(o, b, k)' /\ ~Skipped(EntriesOf(o, b)[k])
              /\ Now(new, EntriesOf(o, b)[k])
        BY <1>4, <4>1, <4>4, <4>5, <4>6
      <4> QED  BY <4>1, <4>2, <4>3, <4>7
    <3> QED  BY <3>1, <3>2
  <2>2. Len(children'[new]) = 0
    BY <1>27
  <2>3. \A c, e : Now(c, e) <=> MadeFor(c, e)'
    BY <1>8 DEF MadeFor
  <2> HIDE DEF Now
  <2>4. ASSUME NEW o \in 1..objects', directory'[o], NEW j \in 1..Len(children'[o])
        PROVE  children'[o][j] \in 1..objects' /\ MadeForOne(o, children[o][j])'
    <3>1. o # new
      BY <2>2, <2>4
    <3>2. o \in 1..objects /\ directory[o] /\ inode'[o] = inode[o]
      BY <1>1, <1>6, <2>4, <3>1
    <3>3. \A b : EntriesOf(o, b)' = EntriesOf(o, b)
      BY <1>11, <3>2
    <3>4. PICK b \in SectorsOf(inode[o]) : \E k \in 1..Len(EntriesOf(o, b)) :
            Passed(o, b, k)' /\ ~Skipped(EntriesOf(o, b)[k])
            /\ Now(children'[o][j], EntriesOf(o, b)[k])
      BY <2>1, <2>4, <3>2
    <3>5. PICK k \in 1..Len(EntriesOf(o, b)) :
            Passed(o, b, k)' /\ ~Skipped(EntriesOf(o, b)[k])
            /\ Now(children'[o][j], EntriesOf(o, b)[k])
      BY <3>4
    <3>6. MadeFor(children[o][j], EntriesOf(o, b)[k])'
      BY <2>3, <3>3, <3>5
    <3>7. b \in SectorsOf(inode[o])' /\ k \in 1..Len(EntriesOf(o, b)') /\ ~Skipped(EntriesOf(o, b)'[k])
      BY <1>7, <3>2, <3>3, <3>5
    <3>8. MadeForOne(o, children[o][j])'
      BY <3>5, <3>6, <3>7 DEF MadeForOne
    <3>9. children'[o][j] \in 1..objects'
      BY <2>1, <2>4, <3>2
    <3> QED  BY <3>8, <3>9
  <2> QED  BY <2>4 DEF ChildrenNamed
<1>30. NewAreEmpty'
  <2> SUFFICES ASSUME NEW o \in Objects, o > objects + 1 PROVE children'[o] = <<>>
    BY <1>1 DEF NewAreEmpty, new
  <2>1. o # own /\ o > objects
    BY <1>1, <1>5 DEF Objects
  <2> QED  BY <1>1, <2>1 DEF MountInv, NewAreEmpty
<1>31. StopsBeyondLimits'
  BY <1>1, SameLimits DEF MountInv
<1> QED  BY <1>16, <1>28, <1>29, <1>30, <1>31

LEMMA AddFileKeeps == ASSUME MountInv, AddFile PROVE MountInv'
<1> DEFINE n == Len(stack)
<1>1. NewObject(FALSE, 1) /\ stack' = Onward
  BY DEF AddFile
<1>2. /\ disk' = disk /\ block_size' = block_size /\ stack # <<>>
      /\ objects' = objects + 1 /\ objects \in Nat /\ objects' \in 1..MaxObjects
      /\ DOMAIN name' = Objects /\ inode' \in [Objects -> Int] /\ directory' \in [Objects -> BOOLEAN]
      /\ children' \in [Objects -> Seq(Objects)]
      /\ \A o \in 1..objects : o \in Objects /\ inode'[o] = inode[o] /\ directory'[o] = directory[o]
  BY <1>1, NewObjectParts
<1>3. CallInv
  BY DEF MountInv
<1>4. PICK t \in Calls : /\ t.object = Top.object /\ t.index = Top.index
                        /\ t.sector = Top.sector /\ t.next = Top.next + 1
                        /\ Onward = [stack EXCEPT ![Len(stack)] = t]
  BY <1>2, <1>3, OnwardParts
<1>5. stack \in Seq(Calls) /\ n \in 1..n /\ Top = stack[n]
  BY <1>2, <1>3, TopParts DEF CallInv, MountTypes
<1>6. /\ stack' \in Seq(Calls) /\ Len(stack') = n /\ stack'[n] = t /\ n \in Nat
      /\ \A f \in 1..n : f # n => stack'[f] = stack[f]
  BY <1>1, <1>4, <1>5
<1>7. DirectoriesOnDisk' /\ EntriesMade' /\ ChildrenNamed' /\ NewAreEmpty' /\ StopsBeyondLimits'
  <2>1. n \in 1..Len(stack') /\ \A f \in 1..n : f \in 1..Len(stack')
    BY <1>5, <1>6
  <2>2. \A f \in 1..Len(stack') : f \in 1..n \/ stack'[f].object = objects + 1
    BY <1>6
  <2> QED  BY <1>1, <1>4, <1>6, <2>1, <2>2, NewObjectKeeps
<1>8. MountTypes'
  BY <1>2, <1>3, <1>6 DEF CallInv, MountTypes
<1>9. CallsAreFor'
  <2> HIDE DEF n
  <2>1. /\ \A f \in 1..n : /\ stack[f].object \in 1..objects /\ directory[stack[f].object]
                           /\ stack[f].index = inode[stack[f].object]
        /\ \A f, g \in 1..n : f < g => stack[f].object < stack[g].object
    BY <1>3 DEF CallInv, CallsAreFor, n
  <2>2. \A f \in 1..n : stack'[f].object = stack[f].object /\ stack'[f].index = stack[f].index
    BY <1>4, <1>5, <1>6
  <2>3. \A o \in 1..objects : o \in 1..objects' /\ inode'[o] = inode[o] /\ directory'[o] = directory[o]
    BY <1>2
  <2>4. ASSUME NEW f \in 1..n
        PROVE  /\ stack'[f].object \in 1..objects' /\ directory'[stack'[f].object]
               /\ stack'[f].index = inode'[stack'[f].object]
    <3> DEFINE o == stack[f].object
    <3>1. o \in 1..objects /\ directory[o] /\ stack[f].index = inode[o] /\ stack'[f].object = o
          /\ stack'[f].index = stack[f].index
      BY <2>1, <2>2
    <3> HIDE DEF o
    <3> QED  BY <2>3, <3>1
  <2> QED  BY <1>6, <2>1, <2>2, <2>4 DEF CallsAreFor
<1> QED  BY <1>7, <1>8, <1>9 DEF MountInv, CallInv

LEMMA AddDirectoryKeeps == ASSUME MountInv, AddDirectory PROVE MountInv'
<1> DEFINE n == Len(stack)
           new == Frame(objects + 1, Entry.inode, 1)
<1>1. NewObject(TRUE, 2) /\ stack' = Append(Onward, Frame(objects', Entry.inode, 1))
  BY DEF AddDirectory
<1>2. /\ disk' = disk /\ block_size' = block_size /\ stack # <<>>
      /\ objects' = objects + 1 /\ objects \in Nat
      /\ objects' \in 1..MaxObjects /\ objects + 1 \in Objects
      /\ DOMAIN name' = Objects /\ inode' \in [Objects -> Int] /\ directory' \in [Objects -> BOOLEAN]
      /\ children' \in [Objects -> Seq(Objects)]
      /\ \A o \in 1..objects : o \in Objects /\ inode'[o] = inode[o] /\ directory'[o] = directory[o]
      /\ inode'[objects + 1] = Entry.inode /\ directory'[objects + 1] = TRUE
  BY <1>1, NewObjectParts
<1>3. CallInv
  BY DEF MountInv
<1>4. PICK t \in Calls : /\ t.object = Top.object /\ t.index = Top.index
                        /\ t.sector = Top.sector /\ t.next = Top.next + 1
                        /\ Onward = [stack EXCEPT ![Len(stack)] = t]
  BY <1>2, <1>3, OnwardParts
<1>5. stack \in Seq(Calls) /\ n \in 1..n /\ Top = stack[n]
  BY <1>2, <1>3, TopParts DEF CallInv, MountTypes
<1>6. new \in Calls /\ new.object = objects + 1 /\ new.index = Entry.inode
  <2>1. Entry.inode \in Int
    BY <1>1, <1>3, EntryParts DEF NewObject, DirectoryEntry
  <2> QED  BY <1>2, <2>1 DEF Calls, Frame
<1>7. stack' = Append([stack EXCEPT ![n] = t], new)
  BY <1>1, <1>2, <1>4
<1> HIDE DEF new
<1>8. /\ stack' \in Seq(Calls) /\ Len(stack') = n + 1 /\ stack'[n] = t /\ n \in Nat
      /\ stack'[n + 1] = new /\ \A f \in 1..n : f # n => stack'[f] = stack[f]
  <2> DEFINE s == [stack EXCEPT ![n] = t]
  <2>1. s \in Seq(Calls) /\ Len(s) = n /\ s[n] = t /\ \A f \in 1..n : f # n => s[f] = stack[f]
    BY <1>4, <1>5
  <2>2. stack' = Append(s, new) /\ n \in Nat
    BY <1>5, <1>7
  <2> HIDE DEF s
  <2> QED  BY <1>5, <1>6, <2>1, <2>2
<1>9. DirectoriesOnDisk' /\ EntriesMade' /\ ChildrenNamed' /\ NewAreEmpty' /\ StopsBeyondLimits'
  <2>1. n \in 1..Len(stack') /\ n + 1 \in 1..Len(stack') /\ \A f \in 1..n : f \in 1..Len(stack')
    BY <1>5, <1>8
  <2>2. \E f \in 1..Len(stack') : stack'[f] = Frame(objects + 1, Entry.inode, 1)
    BY <1>8, <2>1 DEF new
  <2>3. \A f \in 1..Len(stack') : f \in 1..n \/ stack'[f].object = objects + 1
    <3>1. \A f \in 1..Len(stack') : f \in 1..n \/ f = n + 1
      BY <1>8
    <3> QED  BY <1>6, <1>8, <3>1
  <2> QED  BY <1>1, <1>4, <1>8, <2>1, <2>2, <2>3, NewObjectKeeps
<1>10. MountTypes'
  BY <1>2, <1>3, <1>8 DEF CallInv, MountTypes
<1>11. CallsAreFor'
  <2> HIDE DEF n
  <2>1. /\ \A f \in 1..n : /\ stack[f].object \in 1..objects /\ directory[stack[f].object]
                           /\ stack[f].index = inode[stack[f].object]
        /\ \A f, g \in 1..n : f < g => stack[f].object < stack[g].object
    BY <1>3 DEF CallInv, CallsAreFor, n
  <2>2. \A f \in 1..n : stack'[f].object = stack[f].object /\ stack'[f].index = stack[f].index
    BY <1>4, <1>5, <1>8
  <2>3. \A f \in 1..(n + 1) : f \in 1..n \/ f = n + 1
    BY <1>8
  <2>4. \A o \in 1..objects : o \in 1..objects' /\ o < objects + 1
    BY <1>2
  <2>5. objects + 1 \in 1..objects'
    BY <1>2
  <2>6. ASSUME NEW f \in 1..(n + 1)
        PROVE  /\ stack'[f].object \in 1..objects' /\ directory'[stack'[f].object]
               /\ stack'[f].index = inode'[stack'[f].object]
    <3>1. CASE f = n + 1
      BY <1>2, <1>6, <1>8, <2>5, <3>1
    <3>2. CASE f \in 1..n
      <4> DEFINE o == stack[f].object
      <4>1. o \in 1..objects /\ directory[o] /\ stack[f].index = inode[o] /\ stack'[f].object = o
            /\ stack'[f].index = stack[f].index
        BY <2>1, <2>2, <3>2
      <4> HIDE DEF o
      <4> QED  BY <1>2, <2>4, <4>1
    <3> QED  BY <2>3, <3>1, <3>2
  <2>7. ASSUME NEW f \in 1..(n + 1), NEW g \in 1..(n + 1), f < g
        PROVE  stack'[f].object < stack'[g].object
    <3>1. f \in 1..n
      BY <1>8, <2>7
    <3>2. CASE g \in 1..n
      BY <2>1, <2>2, <2>7, <3>1, <3>2
    <3>3. CASE g = n + 1
      BY <1>6, <1>8, <2>1, <2>2, <2>4, <3>1, <3>3
    <3> QED  BY <2>3, <3>2, <3>3
  <2> QED  BY <1>8, <2>6, <2>7 DEF CallsAreFor
<1> QED  BY <1>9, <1>10, <1>11 DEF MountInv, CallInv

LEMMA Shorter ==
  ASSUME NEW A, NEW s \in Seq(A), NEW m \in 0..Len(s)
  PROVE  /\ SubSeq(s, 1, m) \in Seq(A) /\ Len(SubSeq(s, 1, m)) = m
         /\ \A f \in 1..m : SubSeq(s, 1, m)[f] = s[f]
OBVIOUS

LEMMA EndOfDirectoryKeeps == ASSUME MountInv, EndOfDirectory PROVE MountInv'
<1> DEFINE n == Len(stack)
<1>1. /\ stack # <<>> /\ Top.sector \notin SectorsOf(Top.index) /\ stack' = SubSeq(stack, 1, n - 1)
      /\ disk' = disk /\ block_size' = block_size /\ objects' = objects /\ children' = children
      /\ name' = name /\ inode' = inode /\ directory' = directory /\ undefined' = undefined
  BY DEF EndOfDirectory
<1>2. CallInv
  BY DEF MountInv
<1>3. /\ stack \in Seq(Calls) /\ n \in 1..n /\ Top = stack[n] /\ Top.index = inode[Top.object]
      /\ Top.index \in DOMAIN disk /\ Top.sector \in Nat \ {0}
  BY <1>1, <1>2, TopParts DEF CallInv, MountTypes
<1>4. /\ stack' \in Seq(Calls) /\ Len(stack') = n - 1 /\ n \in Nat
      /\ \A f \in 1..(n - 1) : stack'[f] = stack[f] /\ f \in 1..n
      /\ \A f \in 1..n : f = n \/ f \in 1..(n - 1)
  <2>1. n \in Nat /\ n - 1 \in 0..n
    BY <1>3
  <2>2. stack' \in Seq(Calls) /\ Len(stack') = n - 1 /\ \A f \in 1..(n - 1) : stack'[f] = stack[f]
    BY <1>1, <1>3, <2>1, Shorter
  <2> HIDE DEF n
  <2> QED  BY <2>1, <2>2
<1> HIDE DEF n
<1>9. MountTypes' /\ DirectoriesOnDisk'
  BY <1>1, <1>4 DEF MountInv, CallInv, MountTypes, DirectoriesOnDisk
<1>10. CallsAreFor'
  <2>1. /\ \A f \in 1..n : /\ stack[f].object \in 1..objects /\ directory[stack[f].object]
                           /\ stack[f].index = inode[stack[f].object]
        /\ \A f, g \in 1..n : f < g => stack[f].object < stack[g].object
    BY <1>2 DEF CallInv, CallsAreFor, n
  <2> QED  BY <1>1, <1>4, <2>1 DEF CallsAreFor
<1>11. ASSUME NEW o \in 1..objects, NEW b \in SectorsOf(inode[o]), NEW k \in 1..Len(EntriesOf(o, b))
       PROVE  Passed(o, b, k)' <=> Passed(o, b, k)
  <2>1. \A f \in 1..(n - 1) : stack'[f] = stack[f] /\ f \in 1..n
    BY <1>4
  <2>2. Passed(o, b, k)' <=> \A f \in 1..(n - 1) : stack[f].object = o => Past(f, b, k)
    BY <1>4, <2>1 DEF Passed, Past
  <2>3. Passed(o, b, k) <=> \A f \in 1..n : stack[f].object = o => Past(f, b, k)
    BY DEF Passed, n
  <2>4. stack[n].object = o => Past(n, b, k)
    <3> SUFFICES ASSUME stack[n].object = o PROVE Past(n, b, k)
      OBVIOUS
    <3>1. b \in SectorsOf(Top.index)
      BY <1>3
    <3>2. b < Top.sector
      <4> DEFINE i == Top.index
      <4>1. disk \in Disks /\ block_size \in {1024, 2048, 4096} /\ i \in DOMAIN disk
        BY <1>2, <1>3 DEF CallInv, MountTypes
      <4> HIDE DEF i
      <4>2. \A c \in Nat \ {0} : c \notin SectorsOf(i) => \A d \in SectorsOf(i) : d < c
        BY <4>1, DiskParts
      <4> QED  BY <1>1, <1>3, <3>1, <4>2 DEF i
    <3> QED  BY <1>3, <3>2 DEF Past
  <2> QED  BY <1>3, <1>4, <2>2, <2>3, <2>4
<1>12. EntriesMade' /\ ChildrenNamed' /\ NewAreEmpty'
  <2>1. UNCHANGED Kept
    BY <1>1 DEF Kept
  <2> QED  BY <1>11, <2>1, SameObjects DEF MountInv
<1>13. StopsBeyondLimits'
  BY <1>1, SameLimits DEF MountInv
<1> QED  BY <1>9, <1>10, <1>12, <1>13 DEF MountInv, CallInv

\* An inode that ReadInode does not return.
LEMMA UnreadableInode ==
  ASSUME NEW i \in Nat, ~Readable(i), block_size \in {1024, 2048, 4096}
  PROVE  \/ block_size > 2048 \/ i = 0 \/ i > GroupsRead * InodesPerGroup
         \/ (i - 1) % InodesPerGroup >= InodesRead
<1> SUFFICES ASSUME ~(block_size > 2048), i # 0, ~((i - 1) % InodesPerGroup >= InodesRead)
             PROVE  i > GroupsRead * InodesPerGroup
  OBVIOUS
<1> DEFINE q == (i - 1) \div InodesPerGroup
           r == (i - 1) % InodesPerGroup
<1>1. GroupsRead \in Nat \ {0} /\ InodesPerGroup \in Nat \ {0} /\ InodesRead \in Nat
  BY Ext2Assumption
<1>2. i - 1 = q * InodesPerGroup + r /\ q \in Nat /\ r \in Nat
  BY <1>1
<1>3. DescriptorTable = 2048
  BY DEF DescriptorTable
<1>4. ~InReach(i)
  BY <1>3 DEF Readable, ReadInode, Null, Garbage
<1>5. ~(q < GroupsRead)
  <2>1. r < InodesRead
    BY <1>1, <1>2
  <2> QED  BY <1>4, <2>1 DEF InReach
<1> HIDE DEF q, r
<1>6. q * InodesPerGroup >= GroupsRead * InodesPerGroup
  BY <1>1, <1>2, <1>5
<1>7. q * InodesPerGroup \in Nat /\ GroupsRead * InodesPerGroup \in Nat
  BY <1>1, <1>2
<1> QED  BY <1>2, <1>6, <1>7

LEMMA BadEntryKeeps == ASSUME MountInv, BadEntry PROVE MountInv'
<1>1. /\ InEntry /\ undefined' = TRUE
      /\ \/ ~Entry.whole
         \/ ~Skipped(Entry) /\ ~Readable(Entry.inode)
         \/ ~Skipped(Entry) /\ ~Fits(Entry)
      /\ disk' = disk /\ block_size' = block_size /\ objects' = objects /\ children' = children
      /\ name' = name /\ inode' = inode /\ directory' = directory /\ stack' = stack
  BY DEF BadEntry
<1>2. CallInv /\ block_size \in {1024, 2048, 4096}
  BY DEF MountInv, CallInv, MountTypes
<1> DEFINE i == Top.index
           e == Entry
<1>3. i \in DOMAIN disk /\ e \in EntriesIn(i) /\ e.inode \in Nat /\ e.name \in Names
  <2>1. stack # <<>> /\ e \in EntriesIn(i) /\ e \in DirectoryEntry
    BY <1>1, <1>2, EntryParts
  <2> QED  BY <1>2, <2>1, TopParts DEF DirectoryEntry
<1> HIDE DEF i, e
<1>4. CallInv'
  <2>1. MountTypes' /\ DirectoriesOnDisk' /\ CallsAreFor'
    BY <1>1, <1>2 DEF CallInv, MountTypes, DirectoriesOnDisk, CallsAreFor
  <2> QED  BY <2>1 DEF CallInv
<1>5. EntriesMade' /\ ChildrenNamed' /\ NewAreEmpty'
  <2>1. UNCHANGED Kept
    BY <1>1 DEF Kept
  <2>2. \A o, b, k : Passed(o, b, k)' <=> Passed(o, b, k)
    BY <1>1 DEF Passed, Past
  <2> QED  BY <2>1, <2>2, SameObjects DEF MountInv
<1>6. StopsBeyondLimits'
  <2>1. NameLength[e.name] \in Nat
    <3>1. NameLength \in [Names -> 0..255]
      BY Ext2Assumption
    <3> QED  BY <1>3, <3>1
  <2>2. \/ block_size > 2048
        \/ ~e.whole
        \/ /\ ~Skipped(e)
           /\ \/ e.inode = 0 \/ e.inode > GroupsRead * InodesPerGroup
              \/ (e.inode - 1) % InodesPerGroup >= InodesRead
              \/ NameLength[e.name] > 64
    <3>1. CASE ~Entry.whole
      BY <3>1 DEF e
    <3>2. CASE ~Skipped(Entry) /\ ~Readable(Entry.inode)
      BY <1>2, <1>3, <3>2, UnreadableInode DEF e
    <3>3. CASE ~Skipped(Entry) /\ ~Fits(Entry)
      <4>1. ~Skipped(e) /\ ~(NameLength[e.name] <= 64)
        BY <3>3 DEF Fits, e
      <4> QED  BY <2>1, <4>1
    <3> QED  BY <1>1, <3>1, <3>2, <3>3
  <2>3. \A c : EntriesIn(c)' = EntriesIn(c)
    BY <1>1, SameDisk
  <2>4. i \in DOMAIN disk' /\ e \in EntriesIn(i)
    BY <1>1, <1>3
  <2> HIDE DEF Skipped
  <2> QED  BY <1>1, <2>2, <2>3, <2>4 DEF StopsBeyondLimits
<1> QED  BY <1>4, <1>5, <1>6 DEF MountInv

\* Inode 2 is read, but from blocks of 4096 bytes.
LEMMA RootReadable ==
  ASSUME block_size \in {1024, 2048, 4096}, ~Readable(RootInode)
  PROVE  block_size > 2048
<1> SUFFICES ASSUME ~(block_size > 2048) PROVE FALSE
  OBVIOUS
<1>1. DescriptorTable = 2048
  BY DEF DescriptorTable
<1>2. ~InReach(RootInode)
  BY <1>1 DEF Readable, ReadInode, Null, Garbage, RootInode
<1> DEFINE N == InodesPerGroup
<1>3. N \in Nat \ {0, 1} /\ InodesRead \in Nat \ {0, 1} /\ GroupsRead \in Nat \ {0}
  BY Ext2Assumption
<1>4. 1 \div N = 0 /\ 1 % N = 1
  <2> HIDE DEF N
  <2> QED  BY <1>3
<1> QED  BY <1>2, <1>3, <1>4 DEF InReach, RootInode

LEMMA MountBegins == MountInit => MountInv
<1> SUFFICES ASSUME MountInit PROVE MountInv
  OBVIOUS
<1>1. /\ disk \in Disks /\ block_size \in BlockSizes
      /\ objects = 1 /\ children = [o \in Objects |-> <<>>] /\ name = [o \in Objects |-> <<>>]
      /\ inode = [o \in Objects |-> IF o = Root THEN RootInode ELSE Null]
      /\ directory = [o \in Objects |-> o = Root]
      /\ stack = <<Frame(Root, RootInode, 1)>> /\ undefined = ~Readable(RootInode)
  BY DEF MountInit
<1>2. Root \in Objects /\ 1 \in 1..MaxObjects /\ Root = 1 /\ RootInode \in Int /\ Null \in Int
  BY Ext2Assumption DEF Root, Objects, RootInode, Null
<1>3. RootInode \in DOMAIN disk /\ disk[RootInode].type = "directory"
  BY <1>1, Ext2Assumption
<1>4. Frame(Root, RootInode, 1) \in Calls
  BY <1>2 DEF Frame, Calls
<1>5. directory \in [Objects -> BOOLEAN] /\ directory[Root] /\ inode[Root] = RootInode
      /\ inode \in [Objects -> Int] /\ \A o \in 1..objects : o = Root
  <2>1. directory \in [Objects -> BOOLEAN]
    BY <1>1, Zenon
  <2>2. directory[Root]
    BY <1>1, <1>2, Zenon
  <2>3. inode[Root] = RootInode /\ inode \in [Objects -> Int] /\ \A o \in 1..objects : o = Root
    BY <1>1, <1>2
  <2> QED  BY <2>1, <2>2, <2>3
<1>6. block_size \in {1024, 2048, 4096}
  <2>1. BlockSizes \subseteq {1024, 2048, 4096}
    BY Ext2Assumption
  <2> QED  BY <1>1, <2>1
<1>7. MountTypes
  <2>1. stack \in Seq(Calls)
    BY <1>1, <1>4
  <2> QED  BY <1>1, <1>2, <1>5, <1>6, <2>1 DEF MountTypes
<1>8. DirectoriesOnDisk
  BY <1>3, <1>5 DEF DirectoriesOnDisk
<1>9. Len(stack) = 1 /\ stack[1] = Frame(Root, RootInode, 1)
  BY <1>1
<1>10. CallsAreFor
  BY <1>1, <1>2, <1>5, <1>9 DEF CallsAreFor, Frame
<1>11. EntriesMade
  <2> SUFFICES ASSUME NEW b \in SectorsOf(inode[Root]), NEW k \in 1..Len(EntriesOf(Root, b)),
                      Passed(Root, b, k)
               PROVE  FALSE
    BY <1>5 DEF EntriesMade
  <2>1. b < 1 \/ (b = 1 /\ k < 1)
    BY <1>9 DEF Passed, Past, Frame
  <2>2. b \in Nat \ {0} /\ k \in Nat \ {0}
    BY Ext2Assumption DEF SectorsOf
  <2> QED  BY <2>1, <2>2
<1>12. ChildrenNamed /\ NewAreEmpty
  <2>1. \A o \in Objects : children[o] = <<>> /\ Len(children[o]) = 0
    BY <1>1
  <2> QED  BY <1>2, <1>5, <2>1 DEF ChildrenNamed, NewAreEmpty
<1>13. StopsBeyondLimits
  <2>1. undefined => ~Readable(RootInode)
    BY <1>1, Zenon
  <2>2. undefined => block_size > 2048
    BY <1>6, <2>1, RootReadable
  <2> QED  BY <2>2 DEF StopsBeyondLimits
<1> QED  BY <1>7, <1>8, <1>10, <1>11, <1>12, <1>13 DEF MountInv, CallInv

LEMMA MountStep == MountInv /\ [MountNext]_mount_vars => MountInv'
<1> SUFFICES ASSUME MountInv, [MountNext]_mount_vars PROVE MountInv'
  OBVIOUS
<1>1. CASE UNCHANGED mount_vars
  <2>1. UNCHANGED Kept /\ stack' = stack /\ undefined' = undefined
    BY <1>1 DEF mount_vars, Kept
  <2>2. \A o, b, k : Passed(o, b, k)' <=> Passed(o, b, k)
    BY <2>1 DEF Passed, Past
  <2>3. EntriesMade' /\ ChildrenNamed' /\ NewAreEmpty'
    BY <2>1, <2>2, SameObjects DEF MountInv
  <2>4. StopsBeyondLimits'
    BY <2>1, SameLimits DEF MountInv, Kept
  <2>5. CallInv'
    BY <2>1 DEF MountInv, CallInv, MountTypes, DirectoriesOnDisk, CallsAreFor, Kept
  <2> QED  BY <2>3, <2>4, <2>5 DEF MountInv
<1> QED  BY <1>1, SkipKeeps, BadEntryKeeps, AddDirectoryKeeps, AddFileKeeps, NextSectorKeeps,
            EndOfDirectoryKeeps DEF MountNext

\* The smallest of one number, or of two.
LEMMA FirstPlace ==
  ASSUME NEW j \in Nat, NEW m \in {1, 2}
  PROVE  Min(j..(j + m - 1)) = j
<1> DEFINE S == j..(j + m - 1)
<1>1. j \in S /\ S \subseteq Nat /\ \A k \in S : j <= k
  OBVIOUS
<1> HIDE DEF S
<1>2. Min(S) \in S /\ Min(S) <= j
  BY <1>1, SmallestNumber
<1>3. Min(S) \in Nat /\ j <= Min(S)
  BY <1>1, <1>2
<1>4. Min(S) = j
  BY <1>2, <1>3
<1> QED  BY <1>4 DEF S

\* When no call is under way, every entry was passed.
LEMMA TreeMade == MountInv => TreeOfDisk
<1> SUFFICES ASSUME MountInv, stack = <<>>, NEW o \in 1..objects, directory[o]
             PROVE  /\ \A e \in Named(inode[o]) : \E k \in 1..Len(children[o]) :
                         /\ Places(o, e) = k..(k + Times(e) - 1)
                         /\ \A j \in Places(o, e) : children[o][j] = children[o][k]
                         /\ ~Lost(e) => Child(o, e.name) = children[o][k]
                    /\ \A k \in 1..Len(children[o]) : \E e \in Named(inode[o]) : k \in Places(o, e)
  BY DEF TreeOfDisk
<1> DEFINE i == inode[o]
<1>1. CallInv /\ i \in DOMAIN disk /\ disk \in Disks /\ block_size \in {1024, 2048, 4096}
  BY DEF MountInv, CallInv, MountTypes, DirectoriesOnDisk
<1>2. /\ \A b \in SectorsOf(i) : \A k \in 1..Len(EntriesOf(o, b)) :
           ~Skipped(EntriesOf(o, b)[k]) => EntriesOf(o, b)[k] \in Named(i)
      /\ \A e \in Named(i) : \E b \in SectorsOf(i) : \E k \in 1..Len(EntriesOf(o, b)) :
           e = EntriesOf(o, b)[k] /\ ~Skipped(EntriesOf(o, b)[k])
  <2>1. /\ \A b \in SectorsOf(i) : \A k \in 1..Len(disk[i].sectors[b]) :
             disk[i].sectors[b][k] \in EntriesIn(i)
        /\ \A e \in EntriesIn(i) :
             \E b \in SectorsOf(i) : \E k \in 1..Len(disk[i].sectors[b]) : e = disk[i].sectors[b][k]
    <3> HIDE DEF i
    <3> QED  BY <1>1, DiskParts
  <2>2. \A b : EntriesOf(o, b) = disk[i].sectors[b]
    BY DEF EntriesOf
  <2>3. \A e : e \in Named(i) <=> e \in EntriesIn(i) /\ ~Skipped(e)
    BY DEF Named
  <2> HIDE DEF i
  <2> QED  BY <2>1, <2>2, <2>3
<1>3. \A b, k : Passed(o, b, k)
  BY DEF Passed
<1>4. \A b \in SectorsOf(i) : \A k \in 1..Len(EntriesOf(o, b)) :
        ~Skipped(EntriesOf(o, b)[k]) =>
          \E j \in 1..Len(children[o]) : PlacedAt(o, EntriesOf(o, b)[k], j)
  BY <1>3 DEF MountInv, EntriesMade
<1>5. \A c \in 1..Len(children[o]) : \E b \in SectorsOf(i) : \E k \in 1..Len(EntriesOf(o, b)) :
        ~Skipped(EntriesOf(o, b)[k]) /\ MadeFor(children[o][c], EntriesOf(o, b)[k])
  BY DEF MountInv, ChildrenNamed, MadeForOne
\* What is found by the name of an entry was made for it.
<1>6. ASSUME NEW e \in Named(i), ~Lost(e), NEW c \in 1..Len(children[o])
      PROVE  name[children[o][c]] = <<e.name>> <=> MadeFor(children[o][c], e)
  <2>1. StoredNames(e) = {<<e.name>>}
    BY <1>6 DEF Lost, StoredNames
  <2>2. ASSUME name[children[o][c]] = <<e.name>> PROVE MadeFor(children[o][c], e)
    <3>1. PICK b \in SectorsOf(i) : \E k \in 1..Len(EntriesOf(o, b)) :
            ~Skipped(EntriesOf(o, b)[k]) /\ MadeFor(children[o][c], EntriesOf(o, b)[k])
      BY <1>5
    <3>2. PICK k \in 1..Len(EntriesOf(o, b)) :
            ~Skipped(EntriesOf(o, b)[k]) /\ MadeFor(children[o][c], EntriesOf(o, b)[k])
      BY <3>1
    <3>3. PICK d \in SectorsOf(i) : \E l \in 1..Len(EntriesOf(o, d)) :
            e = EntriesOf(o, d)[l] /\ ~Skipped(EntriesOf(o, d)[l])
      BY <1>2
    <3>4. PICK l \in 1..Len(EntriesOf(o, d)) :
            e = EntriesOf(o, d)[l] /\ ~Skipped(EntriesOf(o, d)[l])
      BY <3>3
    <3>5. EntriesOf(o, b)[k].name = e.name
      BY <2>1, <2>2, <3>2, StoredOne DEF MadeFor
    <3>6. b = d /\ k = l
      <4>1. EntriesOf(o, d)[l].name = EntriesOf(o, b)[k].name
        BY <3>4, <3>5
      <4> QED  BY <1>1, <3>2, <4>1, OneOfName
    <3> QED  BY <3>2, <3>4, <3>6
  <2> QED  BY <2>1, <2>2 DEF MadeFor
<1>7. ASSUME NEW e \in Named(i)
      PROVE  \E k \in 1..Len(children[o]) :
               /\ Places(o, e) = k..(k + Times(e) - 1)
               /\ \A j \in Places(o, e) : children[o][j] = children[o][k]
               /\ ~Lost(e) => Child(o, e.name) = children[o][k]
  <2>1. PICK b \in SectorsOf(i) : \E k \in 1..Len(EntriesOf(o, b)) :
               e = EntriesOf(o, b)[k] /\ ~Skipped(EntriesOf(o, b)[k])
    BY <1>2
  <2>2. PICK k \in 1..Len(children[o]) : PlacedAt(o, e, k)
    BY <1>4, <2>1
  <2>3. Places(o, e) = k..(k + Times(e) - 1) /\ \A j \in Places(o, e) : children[o][j] = children[o][k]
    BY <2>2 DEF PlacedAt
  <2>4. ASSUME ~Lost(e) PROVE Child(o, e.name) = children[o][k]
    <3> DEFINE at == {j \in 1..Len(children[o]) : name[children[o][j]] = <<e.name>>}
    <3>1. at = Places(o, e)
      BY <1>6, <2>4 DEF Places
    <3>2. Child(o, e.name) =
            IF NameLength[e.name] > 31 \/ at = {} THEN Null ELSE children[o][Min(at)]
      BY DEF Child
    <3> HIDE DEF at
    <3>3. k \in Nat /\ Times(e) \in {1, 2}
      BY DEF Times
    <3>4. Min(at) = k
      BY <2>3, <3>1, <3>3, FirstPlace
    <3>5. at # {}
      <4>1. k \in k..(k + Times(e) - 1)
        BY <3>3
      <4> QED  BY <2>3, <3>1, <4>1
    <3> QED  BY <2>4, <3>2, <3>4, <3>5 DEF Lost
  <2> QED  BY <2>3, <2>4
<1>8. ASSUME NEW c \in 1..Len(children[o]) PROVE \E e \in Named(i) : c \in Places(o, e)
  <2>1. PICK b \in SectorsOf(i) : \E k \in 1..Len(EntriesOf(o, b)) :
          ~Skipped(EntriesOf(o, b)[k]) /\ MadeFor(children[o][c], EntriesOf(o, b)[k])
    BY <1>5
  <2>2. PICK k \in 1..Len(EntriesOf(o, b)) :
          ~Skipped(EntriesOf(o, b)[k]) /\ MadeFor(children[o][c], EntriesOf(o, b)[k])
    BY <2>1
  <2>3. EntriesOf(o, b)[k] \in Named(i) /\ c \in Places(o, EntriesOf(o, b)[k])
    BY <1>2, <2>2 DEF Places
  <2> QED  BY <2>3
<1> QED  BY <1>7, <1>8

LEMMA MountInvariance == MountSpec => []MountInv
BY MountBegins, MountStep, PTL DEF MountSpec

\* Mounting makes the tree that the disk holds, for every number of blocks, sectors and
\* entries and with all three sizes of blocks: each entry of a directory has its places
\* in the list of the directory's object, one for a file and two for a directory
\* (ext2.c:145, 146), nothing else is there, and a path finds the object by the name.
THEOREM MountMakesTheTree == MountSpec => []TreeOfDisk
BY MountInvariance, TreeMade, PTL

\* The driver leaves the disk for what lies behind a buffer or behind a null pointer only
\* if the disk is beyond the limits that ext2.c:104-114, 132, 142 and 150 set.
THEOREM MountStopsBeyondLimits == MountSpec => []StopsBeyondLimits
<1>1. MountInv => StopsBeyondLimits
  BY DEF MountInv
<1> QED  BY <1>1, MountInvariance, PTL
===============================================================================
