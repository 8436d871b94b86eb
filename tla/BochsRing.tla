------------------------------ MODULE BochsRing ------------------------------
(***************************************************************************)
(* The kernel side of EventRing with the event loop of                     *)
(* examples/bochs_bga/bochs_card.c in place of the hda one. It loads the   *)
(* tail once per wake-up, reduces the index only to reach the slot, and    *)
(* stores the head unreduced.                                              *)
(***************************************************************************)
EXTENDS EventRing, SequencesExt

CONSTANT MaxHead    \* bound: the unreduced head is followed up to here

VARIABLE btail      \* the tail loaded at the wake-up

bochsVars == <<vars, btail>>

BochsInit == Init /\ btail = 0

(* poll, read and both loads. *)
BochsPollRead(e) ==
    /\ PollRead(e)
    /\ btail' = tail

BochsCheck ==
    /\ cpc = "check"
    /\ cpc' = IF head = btail THEN "poll" ELSE "handle"
    /\ UNCHANGED <<ringVars, fdVars, ppc, pev, spc, cev, issued, history, btail>>

BochsHandle ==
    /\ cpc = "handle"
    /\ cev' = events[head % RingSize]
    /\ cpc' = "store"
    /\ UNCHANGED <<ringVars, fdVars, ppc, pev, spc, issued, history, btail>>

(* head++; the store keeps the count, not the index. *)
BochsStoreHead ==
    /\ cpc = "store"
    /\ head < MaxHead
    /\ head' = head + 1
    /\ handled' = Append(handled, cev)
    /\ cpc' = "check"
    /\ UNCHANGED <<tail, events, ringLock, fdVars, ppc, pev, spc, cev, issued,
                   accepted, dropped, btail>>

BochsNext ==
    \/ Kernel /\ UNCHANGED btail
    \/ \E e \in Eventfds : BochsPollRead(e)
    \/ BochsCheck \/ BochsHandle \/ BochsStoreHead

BochsSpec == BochsInit /\ [][BochsNext]_bochsVars

(* Userspace consumes the circular buffer's events by advancing head: each  *)
(* one once, in order. With a head that is never reduced modulo             *)
(* PCIEM_RING_SIZE the emulator runs past the tail once the ring has        *)
(* wrapped, and handles stale slots.                                        *)
HandledInOrder == IsPrefix(handled, accepted)

=============================================================================
