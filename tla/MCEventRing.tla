---------------------------- MODULE MCEventRing ----------------------------
(* Small instances of EventRing, and the mutants its properties must catch. *)
EXTENDS EventRing, TLC

Symmetry == Permutations(Producers) \cup Permutations(Setters)

=============================================================================
