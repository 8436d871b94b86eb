----------------------------- MODULE EventQueue -----------------------------
(***************************************************************************)
(* What the PCIem event channel promises a userspace device emulator: a    *)
(* bounded FIFO of trace events that loses an event only when it is full.  *)
(* Nothing is said here of slots, indices, locks or memcpy: EventRing is   *)
(* the shared ring of kernel/framework/userspace.c that implements it.     *)
(***************************************************************************)
EXTENDS Naturals, Sequences

CONSTANTS
    Event,      \* the events the kernel can offer
    Capacity    \* how many accepted events may wait

VARIABLES
    accepted,   \* the events taken from the kernel, in order
    handled,    \* the events the consumer finished, in order
    dropped     \* the events refused because the queue was full

vars == <<accepted, handled, dropped>>

Waiting == Len(accepted) - Len(handled)

Init ==
    /\ accepted = << >>
    /\ handled = << >>
    /\ dropped = {}

Accept(ev) ==
    /\ Waiting < Capacity
    /\ accepted' = Append(accepted, ev)
    /\ UNCHANGED <<handled, dropped>>

Drop(ev) ==
    /\ Waiting = Capacity
    /\ dropped' = dropped \cup {ev}
    /\ UNCHANGED <<accepted, handled>>

(* The consumer finishes the oldest waiting event: never a later one, never *)
(* the same one twice, never half of one.                                   *)
Take ==
    /\ Waiting > 0
    /\ handled' = Append(handled, accepted[Len(handled) + 1])
    /\ UNCHANGED <<accepted, dropped>>

Next ==
    \/ \E ev \in Event : Accept(ev) \/ Drop(ev)
    \/ Take

Spec == Init /\ [][Next]_vars

=============================================================================
