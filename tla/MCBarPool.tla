----------------------------- MODULE MCBarPool -----------------------------
(* BarPool for TLC: instances are interchangeable. *)
EXTENDS BarPool, TLC

Symmetry == Permutations(Insts)

=============================================================================
