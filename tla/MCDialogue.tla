------------------------------ MODULE MCDialogue ------------------------------
(* The updates of Dialogue are interchangeable. *)
EXTENDS Dialogue, TLC

Symmetry == Permutations(Updates)

=============================================================================
