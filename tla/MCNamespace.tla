---------------------------- MODULE MCNamespace -----------------------------
(* Few names, and every path of up to three components.                   *)
EXTENDS Namespace

MCNames == {"Devices", "a"}
MCPaths == UNION {[1..n -> MCNames \cup {Dot}] : n \in 1..3}
=============================================================================
