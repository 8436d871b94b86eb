------------------------------ MODULE MCIrqfd ------------------------------
(* Small instances of Irqfd. *)
EXTENDS Irqfd, TLC

Symmetry == Permutations(Irqfds) \cup Permutations(Eventfds)

=============================================================================
