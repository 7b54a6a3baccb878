------------------------------ MODULE MCSymbols -------------------------------
(* Modules that define a name of the kernel, of each other or their own, one   *)
(* twice, and use symbols before and after they are defined; the second        *)
(* relocation is of a symbol of two words, next to the first or over it.       *)
EXTENDS Symbols

CONSTANTS kprint, init, itoa
MCNames == {kprint, init, itoa}
MCKernelNames == <<kprint>>

Sym(n, v) == [name |-> n, function |-> n # init \/ v # 3, value |-> v]
Rel(t, o, n, size) == [type |-> t, offset |-> o, section |-> IF t = 7 THEN 1 ELSE 0,
                       name |-> n, value |-> 1, size |-> size, addend |-> 1]
MCModules ==
  [symbols : {<<>>, <<Sym(init, 1)>>, <<Sym(itoa, 1), Sym(init, 3)>>, <<Sym(init, 0), Sym(itoa, 3)>>,
              <<Sym(init, 1), Sym(kprint, 2)>>, <<Sym(itoa, 1), Sym(itoa, 2)>>},
   relocations : {<<Rel(t, 2, n, 1), Rel(6, o, m, 2)>> :
                    t \in {1, 5, 6, 7, 8}, n \in {init, itoa}, m \in {kprint, itoa}, o \in {1, 2}}]
=============================================================================
