---------------------------- MODULE RoundRobin ----------------------------
(***************************************************************************)
(* What the scheduler promises: tasks are numbered in the order of their   *)
(* creation, a new task takes its place at the end of the turn order, and  *)
(* every turn passes to the next one in that order.  Module Scheduler      *)
(* implements it with a circular list.                                     *)
(***************************************************************************)
EXTENDS Naturals

VARIABLES tasks, turn

Init == tasks = 0 /\ turn = 0

\* The first task is created with the turn: it is the code that is running.
Create ==
  /\ tasks' = tasks + 1
  /\ turn' = IF tasks = 0 THEN 1 ELSE turn

Pass ==
  /\ tasks > 1
  /\ turn' = IF turn = tasks THEN 1 ELSE turn + 1
  /\ UNCHANGED tasks

Next == Create \/ Pass

Spec == Init /\ [][Next]_<<tasks, turn>>
=============================================================================
