------------------------------- MODULE MCPci ---------------------------------
(* Every machine of up to two functions, with bridges at any place and any     *)
(* byte for the bus to follow; and of three, where each is on a bus that the   *)
(* walk may come to.                                                           *)
EXTENDS Pci

\* A plain device has no bus behind it; what a bridge is of is no disk.
Kinds == {h \in Headers : IF h.layout = 0 THEN h.io_limit = 0 ELSE h.class_code = "other"}
Connected(m) ==
  \A a \in DOMAIN m :
    a[1] = 0 \/ \E b \in DOMAIN m : b # a /\ m[b].layout = 1 /\ m[b].io_limit = a[1]
MCMachines ==
  UNION {[p -> Kinds] : p \in UNION {kSubset(n, Addresses) : n \in 0..2}}
    \cup UNION {{m \in [p -> Kinds] : Connected(m)} : p \in kSubset(3, Addresses)}
=============================================================================
