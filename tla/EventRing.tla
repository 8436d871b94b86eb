------------------------------ MODULE EventRing ------------------------------
(***************************************************************************)
(* The event channel between the kernel and a userspace device emulator:   *)
(*                                                                         *)
(*   - the ring shared by mmap (struct pciem_shared_ring), filled by       *)
(*     pciem_shared_ring_push on whichever CPUs take a traced MMIO access; *)
(*   - the wake-up that follows each push: the registered eventfd, or the  *)
(*     event_pending flag while none is registered;                        *)
(*   - PCIEM_IOCTL_SET_EVENTFD, which replaces the eventfd at any time;    *)
(*   - the consumer loop of the emulators (examples/hda/hda_card.c).       *)
(*                                                                         *)
(* An event is a number, given in the order of the calls to                *)
(* pciem_userspace_queue_event: its payload does not matter here.          *)
(***************************************************************************)
EXTENDS Naturals, Sequences

CONSTANTS
    RingSize,   \* PCIEM_RING_SIZE
    Producers,  \* contexts (CPUs) that queue events
    Setters,    \* threads that call PCIEM_IOCTL_SET_EVENTFD
    Eventfds,   \* eventfd contexts userspace owns
    SetArgs,    \* what SET_EVENTFD is called with: eventfds, or None (fd < 0)
    MaxEvents,  \* bound: events queued in one behaviour
    None,       \* NULL, and the free lock
    Torn        \* contents of a slot while memcpy is writing it

ASSUME RingSizeAssumption == RingSize \in Nat \ {0, 1}
ASSUME MaxEventsAssumption == MaxEvents \in Nat
ASSUME NoneAssumption == None \notin Producers \cup Eventfds
ASSUME SetArgsAssumption == SetArgs \subseteq Eventfds \cup {None}
ASSUME TornAssumption == Torn \notin Nat

VARIABLES
    head,           \* shared_ring->head, stored by userspace only
    tail,           \* shared_ring->tail, stored by the kernel only
    events,         \* shared_ring->events
    ringLock,       \* shared_ring_lock: its holder, or None
    eventfd,        \* us->eventfd
    event_pending,  \* us->event_pending
    signalled,      \* per eventfd: its counter is not zero
    oops,           \* eventfd_signal was called with NULL
    ppc, pev,       \* per producer: control point, event in hand
    spc,            \* per setter: control point
    cpc, cev,       \* consumer: control point, event read from the slot
    issued,         \* calls to queue_event so far
    accepted,       \* history: events published, in ring order
    handled,        \* history: events the consumer finished, in order
    dropped         \* history: events refused by a full ring

ringVars == <<head, tail, events, ringLock>>
fdVars   == <<eventfd, event_pending, signalled, oops>>
history  == <<accepted, handled, dropped>>
vars == <<head, tail, events, ringLock, eventfd, event_pending, signalled,
          oops, ppc, pev, spc, cpc, cev, issued, accepted, handled, dropped>>

-----------------------------------------------------------------------------
(* Index arithmetic of both sides. *)

NextIndexUnreduced(i) == i + 1          \* mutant: the modulo is forgotten
NextIndex(i) == (i + 1) % RingSize

RingFullNever == FALSE                  \* mutant: the room is not checked

(* One slot always stays empty, so that head = tail means empty. *)
RingFull == NextIndex(tail) = head

-----------------------------------------------------------------------------
Init ==
    /\ head = 0 /\ tail = 0
    /\ events = [i \in 0..(RingSize - 1) |-> 0]
    /\ ringLock = None
    /\ eventfd = None /\ event_pending = FALSE
    /\ signalled = [e \in Eventfds |-> FALSE]
    /\ oops = FALSE
    /\ ppc = [p \in Producers |-> "idle"]
    /\ pev = [p \in Producers |-> 0]
    /\ spc = [s \in Setters |-> "idle"]
    /\ cpc = "poll" /\ cev = 0
    /\ issued = 0
    /\ accepted = << >> /\ handled = << >> /\ dropped = {}

-----------------------------------------------------------------------------
(* The producer: pciem_userspace_queue_event. *)

(* A traced access reaches queue_event with a new event. *)
QueueEvent(p) ==
    /\ ppc[p] = "idle"
    /\ issued < MaxEvents
    /\ issued' = issued + 1
    /\ pev' = [pev EXCEPT ![p] = issued + 1]
    /\ ppc' = [ppc EXCEPT ![p] = "push"]
    /\ UNCHANGED <<ringVars, fdVars, spc, cpc, cev, history>>

(* shared_ring_push under the lock finds no room: the event is dropped, and *)
(* queue_event goes on to the wake-up all the same.                         *)
PushFull(p) ==
    /\ ppc[p] = "push"
    /\ ringLock = None
    /\ RingFull
    /\ dropped' = dropped \cup {pev[p]}
    /\ ppc' = [ppc EXCEPT ![p] = "notify"]
    /\ UNCHANGED <<ringVars, fdVars, pev, spc, cpc, cev, issued, accepted,
                   handled>>

(* Mutant: the push does not take shared_ring_lock. *)
PushReserveUnlocked(p) ==
    /\ ppc[p] = "push"
    /\ ~RingFull
    /\ events' = [events EXCEPT ![tail] = Torn]
    /\ ppc' = [ppc EXCEPT ![p] = "copy"]
    /\ UNCHANGED <<head, tail, ringLock, fdVars, pev, spc, cpc, cev, issued,
                   history>>

(* It takes the lock, finds room and starts the memcpy into events[tail]. *)
PushReserve(p) ==
    /\ ppc[p] = "push"
    /\ ringLock = None
    /\ ~RingFull
    /\ ringLock' = p
    /\ events' = [events EXCEPT ![tail] = Torn]
    /\ ppc' = [ppc EXCEPT ![p] = "copy"]
    /\ UNCHANGED <<head, tail, fdVars, pev, spc, cpc, cev, issued, history>>

(* The memcpy ends. *)
PushCopied(p) ==
    /\ ppc[p] = "copy"
    /\ events' = [events EXCEPT ![tail] = pev[p]]
    /\ ppc' = [ppc EXCEPT ![p] = "publish"]
    /\ UNCHANGED <<head, tail, ringLock, fdVars, pev, spc, cpc, cev, issued,
                   history>>

(* atomic_set_release of the tail, and the lock guard goes out of scope. *)
PushPublish(p) ==
    /\ ppc[p] = "publish"
    /\ tail' = NextIndex(tail)
    /\ ringLock' = None
    /\ accepted' = Append(accepted, pev[p])
    /\ ppc' = [ppc EXCEPT ![p] = "notify"]
    /\ UNCHANGED <<head, events, fdVars, pev, spc, cpc, cev, issued, handled,
                   dropped>>

(* Mutant: nothing is remembered while no eventfd is registered. *)
NotifyForgetful(p) ==
    /\ ppc[p] = "notify"
    /\ signalled' = [e \in Eventfds |-> signalled[e] \/ e = eventfd]
    /\ ppc' = [ppc EXCEPT ![p] = "idle"]
    /\ UNCHANGED <<ringVars, eventfd, event_pending, oops, pev, spc, cpc, cev,
                   issued, history>>

(* The eventfd_lock section that ends queue_event. It is one step: every    *)
(* store to us->eventfd is under the same lock.                             *)
Notify(p) ==
    /\ ppc[p] = "notify"
    /\ \/ /\ eventfd # None
          /\ signalled' = [signalled EXCEPT ![eventfd] = TRUE]
          /\ UNCHANGED event_pending
       \/ /\ eventfd = None
          /\ event_pending' = TRUE
          /\ UNCHANGED signalled
    /\ ppc' = [ppc EXCEPT ![p] = "idle"]
    /\ UNCHANGED <<ringVars, eventfd, oops, pev, spc, cpc, cev, issued,
                   history>>

-----------------------------------------------------------------------------
(* pciem_ioctl_set_eventfd *)

(* Mutant: the events from before the registration are not looked at. *)
SwapEventfdForgetful(s, e) ==
    /\ spc[s] = "idle"
    /\ eventfd' = e
    /\ UNCHANGED <<ringVars, event_pending, signalled, oops, ppc, pev, spc, cpc,
                   cev, issued, history>>

(* The swap under eventfd_lock. With an old eventfd the call only drops its *)
(* reference; without one it goes on to the pending events.                 *)
SwapEventfd(s, e) ==
    /\ spc[s] = "idle"
    /\ eventfd' = e
    /\ spc' = [spc EXCEPT ![s] = IF eventfd = None THEN "xchg" ELSE "idle"]
    /\ UNCHANGED <<ringVars, event_pending, signalled, oops, ppc, pev, cpc,
                   cev, issued, history>>

(* atomic_xchg(&us->event_pending, 0), after the unlock. *)
XchgPending(s) ==
    /\ spc[s] = "xchg"
    /\ event_pending' = FALSE
    /\ spc' = [spc EXCEPT ![s] = IF event_pending THEN "signal" ELSE "idle"]
    /\ UNCHANGED <<ringVars, eventfd, signalled, oops, ppc, pev, cpc, cev,
                   issued, history>>

(* pciem_eventfd_signal(us) loads us->eventfd again, without the lock and   *)
(* without a check: with NULL there, the thread dies in the kernel.         *)
SignalPending(s) ==
    /\ spc[s] = "signal"
    /\ \/ /\ eventfd # None
          /\ signalled' = [signalled EXCEPT ![eventfd] = TRUE]
          /\ spc' = [spc EXCEPT ![s] = "idle"]
          /\ UNCHANGED oops
       \/ /\ eventfd = None
          /\ oops' = TRUE
          /\ spc' = [spc EXCEPT ![s] = "dead"]
          /\ UNCHANGED signalled
    /\ UNCHANGED <<ringVars, eventfd, event_pending, ppc, pev, cpc, cev,
                   issued, history>>

-----------------------------------------------------------------------------
(* The consumer: the event loop of an emulator. Its local head always       *)
(* equals the shared one, which nobody else stores.                         *)

(* poll returns and read resets the counter of the eventfd. An emulator     *)
(* polls every eventfd it registered (the examples register one).           *)
PollRead(e) ==
    /\ cpc = "poll"
    /\ signalled[e]
    /\ signalled' = [signalled EXCEPT ![e] = FALSE]
    /\ cpc' = "check"
    /\ UNCHANGED <<ringVars, eventfd, event_pending, oops, ppc, pev, spc, cev,
                   issued, history>>

(* Load the tail; while (head != tail). *)
CheckRing ==
    /\ cpc = "check"
    /\ cpc' = IF head = tail THEN "poll" ELSE "handle"
    /\ UNCHANGED <<ringVars, fdVars, ppc, pev, spc, cev, issued, history>>

(* The handler reads the event through its pointer into the ring. *)
HandleEvent ==
    /\ cpc = "handle"
    /\ cev' = events[head]
    /\ cpc' = "store"
    /\ UNCHANGED <<ringVars, fdVars, ppc, pev, spc, issued, history>>

(* The handler has returned: store the next head. *)
StoreHead ==
    /\ cpc = "store"
    /\ head' = NextIndex(head)
    /\ handled' = Append(handled, cev)
    /\ cpc' = "check"
    /\ UNCHANGED <<tail, events, ringLock, fdVars, ppc, pev, spc, cev, issued,
                   accepted, dropped>>

-----------------------------------------------------------------------------
Producer(p) ==
    \/ PushFull(p) \/ PushReserve(p) \/ PushCopied(p) \/ PushPublish(p)
    \/ Notify(p)

Kernel ==
    \/ \E p \in Producers : QueueEvent(p) \/ Producer(p)
    \/ \E s \in Setters :
          \/ \E e \in SetArgs : SwapEventfd(s, e)
          \/ XchgPending(s)
          \/ SignalPending(s)

Consumer ==
    \/ \E e \in Eventfds : PollRead(e)
    \/ CheckRing \/ HandleEvent \/ StoreHead

Next == Kernel \/ Consumer

Spec == Init /\ [][Next]_vars

(* A CPU inside queue_event or SET_EVENTFD runs on (no step of theirs       *)
(* sleeps), and the emulator's event thread is scheduled. Nobody has to     *)
(* queue another event or call SET_EVENTFD again.                           *)
Fairness ==
    /\ \A p \in Producers : WF_vars(Producer(p))
    /\ \A s \in Setters : WF_vars(XchgPending(s) \/ SignalPending(s))
    /\ WF_vars(Consumer)

FairSpec == Spec /\ Fairness

-----------------------------------------------------------------------------
(* Properties *)

Index == 0..(RingSize - 1)

(* Every variable stays in its range. The indices are never RingSize: both  *)
(* sides reduce them before they store them, so events[...] is in bounds.   *)
TypeOK ==
    /\ head \in Index /\ tail \in Index
    /\ events \in [Index -> Nat \cup {Torn}]
    /\ ringLock \in Producers \cup {None}
    /\ eventfd \in Eventfds \cup {None}
    /\ event_pending \in BOOLEAN
    /\ signalled \in [Eventfds -> BOOLEAN]
    /\ oops \in BOOLEAN
    /\ ppc \in [Producers -> {"idle", "push", "copy", "publish", "notify"}]
    /\ pev \in [Producers -> 0..MaxEvents]
    /\ spc \in [Setters -> {"idle", "xchg", "signal", "dead"}]
    /\ cpc \in {"poll", "check", "handle", "store"}
    /\ cev \in Nat \cup {Torn}
    /\ issued \in 0..MaxEvents
    /\ accepted \in Seq(Nat)
    /\ handled \in Seq(Nat \cup {Torn})
    /\ dropped \in SUBSET Nat

(* While a handler works on its pointer into the ring, the slot keeps the   *)
(* oldest event not yet handled: no producer's memcpy tears or replaces it, *)
(* however many CPUs push meanwhile (userspace.c pushes under a lock into   *)
(* events[tail] only; hda_card.c stores head after the handler returned).   *)
HandledSlotIntact ==
    cpc \in {"handle", "store"} =>
        /\ Len(handled) < Len(accepted)
        /\ events[head] = accepted[Len(handled) + 1]

(* No wake-up is lost: when events wait and the emulator sleeps in poll     *)
(* with no eventfd readable, somebody still owes it a signal -- a producer  *)
(* between its push and its notification, a thread inside SET_EVENTFD, or   *)
(* event_pending, which the next SET_EVENTFD will find.                     *)
NoLostWakeup ==
    (head # tail /\ cpc = "poll" /\ \A e \in Eventfds : ~signalled[e]) =>
        \/ \E p \in Producers : ppc[p] = "notify"
        \/ event_pending /\ (eventfd = None \/ \E s \in Setters : spc[s] = "xchg")
        \/ \E s \in Setters : spc[s] = "signal"

(* pciem_eventfd_signal is never called on NULL. set_eventfd signals "pending*)
(* events from before userspace registered this eventfd": it takes the      *)
(* eventfd it has just stored for granted.                                  *)
NoNullSignal == ~oops

Queue == INSTANCE EventQueue WITH Event <- 1..MaxEvents, Capacity <- RingSize - 1

(* The ring implements the bounded FIFO: events are handled once, whole and *)
(* in the order they were accepted, and one is dropped only when RingSize-1 *)
(* events wait.                                                             *)
ImplementsQueue == Queue!Spec

(* Once an eventfd is registered, every accepted event is handled, whether  *)
(* it came before the registration (event_pending) or after it.             *)
AcceptedIsHandled ==
    \A n \in 1..MaxEvents :
        (eventfd # None /\ Len(accepted) >= n) ~> (Len(handled) >= n)

-----------------------------------------------------------------------------
(* The inductive invariant behind HandledSlotIntact and ImplementsQueue.    *)

(* How many slots are in use, and the k-th of them. *)
Used == IF head <= tail THEN tail - head ELSE tail - head + RingSize
Slot(k) == IF head + k < RingSize THEN head + k ELSE head + k - RingSize

RingInv ==
    \* shared_ring_lock covers the memcpy and the store of the tail
    /\ \A p \in Producers : ppc[p] \in {"copy", "publish"} <=> ringLock = p
    \* the room found by its holder stays: userspace can only add to it
    /\ ringLock # None => Used < RingSize - 1
    /\ \A p \in Producers : ppc[p] = "publish" => events[tail] = pev[p]
    /\ \A p \in Producers : ppc[p] # "idle" => pev[p] \in 1..MaxEvents
    \* the slots in use hold the events that wait, in order
    /\ Len(accepted) = Len(handled) + Used
    /\ \A k \in Index : k < Used =>
          events[Slot(k)] = accepted[Len(handled) + k + 1]
    \* the consumer works on the first of them
    /\ cpc \in {"handle", "store"} => head # tail
    /\ cpc = "store" => cev = events[head]

(* Behind NoLostWakeup and NoNullSignal, when SET_EVENTFD is only called    *)
(* with eventfds: a thread that owes a signal finds one to signal.          *)
SetterInv ==
    \A s \in Setters : spc[s] \in {"xchg", "signal"} => eventfd # None

=============================================================================
