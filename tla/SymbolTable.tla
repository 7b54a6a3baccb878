----------------------------- MODULE SymbolTable ------------------------------
(***************************************************************************)
(* What the kernel's symbol list stands for: a table in which the first    *)
(* registration of a name is the one that counts.                          *)
(***************************************************************************)
CONSTANTS Names, Functions, Nothing

VARIABLE table   \* table[n]: the function of that name, or Nothing

Init == table = [n \in Names |-> Nothing]

Register(n, f) == table[n] = Nothing /\ table' = [table EXCEPT ![n] = f]

Next == \E n \in Names, f \in Functions : Register(n, f)
Spec == Init /\ [][Next]_table
=============================================================================
