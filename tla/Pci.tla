--------------------------------- MODULE Pci ----------------------------------
(***************************************************************************)
(* The PCI walk of kernel/misc/pci.c: HalCheckPciBus lists every function  *)
(* it meets under ./Devices/PciDevices and calls itself for the bus that   *)
(* it takes to be behind a bridge; HalSearchForPciDevice goes through the  *)
(* list by name.                                                           *)
(*                                                                         *)
(* The recursion is the variable stack: one frame per call, holding the    *)
(* parameter and the two loop counters.                                    *)
(***************************************************************************)
EXTENDS Integers, Sequences, FiniteSetsExt

CONSTANTS
  Busses,     \* bus numbers fit a byte in the code: 256
  Slots,      \* 32 in the code
  Functions,  \* 8 in the code
  Machines    \* configuration spaces: functions from addresses to headers

Null == 0
Bus == 0..(Busses - 1)
Addresses == Bus \X (0..(Slots - 1)) \X (0..(Functions - 1))
\* The fields of a header that matter; header_type is taken apart into the layout
\* (1: bridge) and the bit 0x80.  For the bus behind a bridge HalAddPciDevice reads the
\* byte 0x1D, which is the limit of the bridge's I/O window; the number is at 0x19, where
\* pci.h:49 declares it, and nothing reads it.
Headers == [class_code: {"disk", "other"}, layout: {0, 1}, multi: BOOLEAN, io_limit: Bus]

ASSUME PciAssumption ==
  /\ Busses \in Nat \ {0} /\ Slots \in Nat \ {0} /\ Functions \in Nat \ {0}
  /\ \A m \in Machines : DOMAIN m \subseteq Addresses /\ \A a \in DOMAIN m : m[a] \in Headers

VARIABLES
  config,        \* the machine
  stack,         \* calls of HalCheckPciBus, innermost last
  device_count,
  children       \* the objects in ./Devices/PciDevices, in order

pci_vars == <<config, stack, device_count, children>>

-----------------------------------------------------------------------------
(* One step of the walk.                                                   *)

BusAsGiven(bus) == bus
\* The bus number is a uint8_t again where it is used.
Byte(bus) == bus % Busses
\* The number of the bus to go on with passes through a (signed) char.
Char(bus) == IF 2 * bus < Busses THEN bus ELSE bus - Busses

Present(a) == a \in DOMAIN config

\* HalAddPciDevice: the layout is asked of function 0, and the whole header type
\* is compared with 1, so that a bridge with the bit 0x80 counts as a device.
PciObject(a, number) ==
  LET zero == config[<<a[1], a[2], 0>>]
      bridge == zero.layout = 1 /\ ~zero.multi
  IN  [name |-> number, address |-> a, type |-> IF bridge THEN 1 ELSE 0,
       header |-> IF bridge THEN zero ELSE config[a]]

\* What pci_to_pci->secondary_bus_number is filled with: the high byte of the word at
\* 0x1C.  (For contrast, the bus that the bridge itself is on.)
OwnBus(x) == x.address[1]
Followed(x) == x.header.io_limit

NumberPerBus(count, x) == IF x.type = 1 THEN 0 ELSE count + 1
NextNumber(count, x) == count + 1

Frame(bus) == [bus |-> bus, dev |-> 0, func |-> 0]
Top == stack[Len(stack)]
Here == <<Byte(Top.bus), Top.dev, Top.func>>

\* Where the two loops go on.  The inner one is only entered for x, what function
\* 0 was listed as, if that has the bit 0x80.
Advance(multi) ==
  IF (Top.func = 0 /\ ~multi) \/ Top.func = Functions - 1
  THEN [Top EXCEPT !.dev = @ + 1, !.func = 0] ELSE [Top EXCEPT !.func = @ + 1]
Continue(frame) == [stack EXCEPT ![Len(stack)] = frame]

Walking == stack # <<>> /\ Top.dev < Slots

\* HalCheckPciDevice reads 0xFFFF.
SkipAbsent ==
  /\ Walking /\ ~Present(Here)
  /\ stack' = Continue(Advance(FALSE))
  /\ UNCHANGED <<config, device_count, children>>

\* The object is listed, and for a bridge the bus it names is walked, from its first
\* slot on, before the loops go on.
\* BOUND: a walk that is deeper than there are busses has come to one of them again
\* inside itself, and nests until the stack is gone; it is not followed further.
AddPciDevice ==
  LET x == PciObject(Here, device_count)
      on == Continue(Advance(x.header.multi))
  IN  /\ Walking /\ Present(Here) /\ Len(stack) <= Busses
      /\ device_count' = NextNumber(device_count, x)
      /\ children' = Append(children, x)
      /\ stack' = IF x.type = 1 THEN Append(on, Frame(Char(Followed(x)))) ELSE on
      /\ UNCHANGED config

Return ==
  /\ stack # <<>> /\ Top.dev = Slots
  /\ stack' = SubSeq(stack, 1, Len(stack) - 1)
  /\ UNCHANGED <<config, device_count, children>>

\* KernelStart calls HalInitializePci and then HalCheckPciBus(0), once.
PciInit ==
  /\ config \in Machines
  /\ stack = <<Frame(0)>> /\ device_count = 0 /\ children = <<>>

\* The first call has returned, or the walk is as deep as it is followed.
Stopped == (stack = <<>> \/ Len(stack) > Busses) /\ UNCHANGED pci_vars

PciNext == SkipAbsent \/ AddPciDevice \/ Return \/ Stopped
PciSpec == PciInit /\ [][PciNext]_pci_vars
\* The walk is one sequence of calls on the only processor that runs.
FairPciSpec == PciSpec /\ WF_pci_vars(PciNext)

-----------------------------------------------------------------------------
(* The search.                                                             *)

\* ResolveObjectName("./Devices/PciDevices/PciDevice<i>").
Named(i) ==
  LET at == {k \in 1..Len(children) : children[k].name = i}
  IN  IF at = {} THEN Null ELSE Min(at)

\* HalSearchForPciDevice, for a class and subclass, as the place of the object in
\* the list; the loop ends at the first name that is not there.
HalSearchForPciDevice(class, number) ==
  LET from[i \in 0..Len(children)] ==
        [n \in 0..number |->
           LET x == Named(i)
           IN  IF x = Null THEN Null
               ELSE IF children[x].header.class_code # class THEN from[i + 1][n]
               ELSE IF n > 0 THEN from[i + 1][n - 1]
               ELSE x]
  IN  from[0][number]

-----------------------------------------------------------------------------
(* Properties.                                                             *)

\* What the loops do not pass over on a bus that they come to: any function 0, the
\* others behind a function 0 with the bit 0x80.
Visible(a) ==
  LET zero == <<a[1], a[2], 0>>
  IN  Present(a) /\ Present(zero) /\ (a[3] = 0 \/ config[zero].multi)

Listings(a) == {k \in 1..Len(children) : children[k].address = a}
\* The listed bridges that sent the walk to bus b.
SentTo(b) == {k \in 1..Len(children) : children[k].type = 1 /\ children[k].header.io_limit = b}
Entries(b) == Cardinality(SentTo(b)) + (IF b = 0 THEN 1 ELSE 0)

\* HalCheckPciBus lists each visible function of a bus once for each time it is sent
\* to that bus, by the first call or by a bridge, and nothing else: however often it
\* descends in the middle of a bus, comes to a bus again, or takes numbers above 127
\* through a signed char.  While calls are under way no function is ahead.
ListedPerEntry ==
  \A a \in Addresses :
    LET times == Cardinality(Listings(a))
    IN  IF Visible(a)
        THEN times <= Entries(a[1]) /\ (stack = <<>> => times = Entries(a[1]))
        ELSE times = 0

\* What the kernel follows as a bridge: function 0, with the header type 1 exactly.
IsBridge(a) == Present(a) /\ a[3] = 0 /\ config[a].layout = 1 /\ ~config[a].multi
\* The busses at the end of a way over n bridges from bus 0.
WaysOf[n \in 0..Busses] ==
  IF n = 0 THEN {0}
  ELSE {config[a].io_limit : a \in {x \in DOMAIN config : IsBridge(x) /\ x[1] \in WaysOf[n - 1]}}

\* HalCheckPciBus(0) returns on every machine where the bytes it takes for bus
\* numbers do not lead in a circle: no way over as many bridges as there are busses.
WalkEnds == WaysOf[Busses] = {} => <>(stack = <<>>)

\* HalSearchForPciDevice, which stops at the first name it does not find, sees all
\* functions listed so far and returns the one with that number among those of the
\* class, or null: device_count runs on through the nested calls.
SearchFinds ==
  \A class \in {"disk", "other"}, number \in 0..Len(children) :
    LET Of == {k \in 1..Len(children) : children[k].header.class_code = class}
        wanted == {k \in Of : Cardinality({j \in Of : j < k}) = number}
    IN  HalSearchForPciDevice(class, number) = IF wanted = {} THEN Null ELSE Min(wanted)
=============================================================================
