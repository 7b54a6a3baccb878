------------------------------- MODULE MCHeap -------------------------------
(***************************************************************************)
(* Pages of 16 words: lists 0 to 3 of blocks of 1, 2, 4 and 8 words, and   *)
(* big bins from list 4 on, with the proportions of the real geometry.     *)
(* Two usable regions with a hole of one frame between them: a block of 31 *)
(* words behind its header covers three frames, and can span the hole.     *)
(***************************************************************************)
EXTENDS Heap

MCMemMap == <<[usable |-> FALSE, base |-> 1, length |-> 2],
              [usable |-> TRUE, base |-> 3, length |-> 2],
              [usable |-> FALSE, base |-> 5, length |-> 1],
              [usable |-> TRUE, base |-> 6, length |-> 4]>>

MCSizes == {1, 3, 7, 15, 31}
=============================================================================
