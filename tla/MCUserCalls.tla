---------------------------- MODULE MCUserCalls ----------------------------
(***************************************************************************)
(* UserCalls on small instances.  Calls of a kind, and commands, are       *)
(* interchangeable; the safety runs use that.                              *)
(***************************************************************************)
EXTENDS UserCalls, TLC

Symmetry == Permutations(InLegs) \cup Permutations(OutLegs)
                \cup Permutations(TgCalls) \cup Permutations(Cmds)

=============================================================================
