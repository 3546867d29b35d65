----------------------------- MODULE Iteration -----------------------------
(***************************************************************************)
(* Loops that follow links.  The kernel walks sibling lists and paths one  *)
(* step at a time; Iterate is such a walk, as a function of the number of  *)
(* steps taken.  step[k][x] is where step number k leads from x.           *)
(*                                                                         *)
(* It is written as a recursive function over Nat so that facts about it   *)
(* can be proved (see Iteration_proofs).                                   *)
(***************************************************************************)
EXTENDS Naturals

Iterate(step, start) ==
  LET walk[k \in Nat] == IF k = 0 THEN start ELSE step[k][walk[k - 1]]
  IN  walk
============================================================================
