----------------------------- MODULE MCTgEngine -----------------------------
(***************************************************************************)
(* TgEngine on small instances; calls of a direction, and the coroutines   *)
(* that end them, are interchangeable.                                     *)
(***************************************************************************)
EXTENDS TgEngine, TLC

Symmetry == Permutations(Out) \cup Permutations(In) \cup Permutations(Enders)

=============================================================================
