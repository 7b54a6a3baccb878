------------------------------ MODULE MCPaging ------------------------------
(* A small machine for Paging: four levels of four slots, of which the last  *)
(* two are the kernel's.                                                   *)
EXTENDS Paging

MCText == <<2, 0, 0, 0>>
MCTrampoline == <<0, 0, 0, 1>>
MCRegisters == <<0, 1, 0, 0>>
MCBufferPages == {<<3, 0, 0, 0>>, <<3, 0, 0, 1>>}
MCLibraryPages == {<<2, 0, 1, 0>>}
MCProgramPages == {<<0, 0, 0, 0>>, <<1, 0, 0, 0>>}
=============================================================================
