------------------------------- MODULE Irqfd -------------------------------
(***************************************************************************)
(* irqfds: an emulator hands the kernel an eventfd (PCIEM_IOCTL_SET_IRQFD) *)
(* and every write to it injects an interrupt into the emulated function.  *)
(* An irqfd is reached from four sides that do not wait for each other:    *)
(*                                                                         *)
(*   - the wait queue of its eventfd (a write, or the last close = HUP);   *)
(*   - inject_work on the system workqueue;                                *)
(*   - shutdown_work on the cleanup workqueue, which frees it;             *)
(*   - pciem_irqfds_shutdown when the last PCIem fd is closed.             *)
(*                                                                         *)
(* The registering thread takes irqfds->lock and then the eventfd's        *)
(* wqh.lock; the HUP wake-up takes them in the opposite order.             *)
(* SET_IRQFD looks its fd number up twice: the first lookup gives          *)
(* irqfd->trigger, the second the file whose wait queue the irqfd joins.   *)
(* Between them userspace may close the number or let it name another      *)
(* eventfd (dup2, close and reuse); what it names is always an eventfd.    *)
(***************************************************************************)
EXTENDS Naturals, FiniteSets

CONSTANTS
    Irqfds,     \* struct pciem_irqfd objects, one SET_IRQFD call each
    Eventfds,   \* eventfd contexts
    IrqReady,   \* subset of BOOLEAN: may trigger_msi find an IRQ? (see InjectEnd)
    None

ASSUME IrqReadyAssumption == IrqReady \subseteq BOOLEAN /\ TRUE \in IrqReady
ASSUME IrqfdsAssumption == IsFiniteSet(Irqfds)
ASSUME NoneAssumption == None \notin Irqfds \cup Eventfds

VARIABLES
    ipc,        \* per irqfd: where its SET_IRQFD call is
    trigger,    \* irqfd->trigger: the eventfd of the first lookup
    file,       \* the eventfd of the second lookup, whose wait queue it joins
    live,       \* irqfds that are allocated
    items,      \* irqfds->items
    lock,       \* irqfds->lock, when it is held across steps
    waiters,    \* per eventfd: the irqfds in its wait queue
    wqh,        \* per eventfd: wqh.lock held across steps
    counter,    \* per eventfd: its counter is not zero
    fdOpen,     \* eventfds whose fd userspace has open
    fileRefs,   \* per eventfd: references to its struct file
    ctxRefs,    \* per eventfd: references to its context
    rel,        \* per eventfd: where eventfd_release is
    todo,       \* per eventfd: waiters the HUP has still to wake
    injQueued,  \* irqfds whose inject_work is queued
    injRunning, \* irqfds whose inject_work is running
    cleanup,    \* per irqfd: where its shutdown_work is
    dpc,        \* where pciem_userspace_destroy is
    owed,       \* history: irqfds whose eventfd was written, not yet injected
    bug,        \* BUG() was reached
    corrupt     \* a wait queue was changed without its lock, or after its end

regVars  == <<ipc, trigger, file>>
listVars == <<items, lock>>
fdVars   == <<waiters, wqh, counter, fdOpen, fileRefs, ctxRefs, rel, todo>>
injVars  == <<injQueued, injRunning, owed, bug, corrupt>>
vars == <<ipc, trigger, file, live, items, lock, waiters, wqh, counter, fdOpen,
          fileRefs, ctxRefs, rel, todo, injQueued, injRunning, cleanup, dpc,
          owed, bug, corrupt>>

Init ==
    /\ ipc = [i \in Irqfds |-> "none"]
    /\ trigger = [i \in Irqfds |-> None]
    /\ file = [i \in Irqfds |-> None]
    /\ live = {} /\ items = {} /\ lock = None
    /\ waiters = [e \in Eventfds |-> {}]
    /\ wqh = [e \in Eventfds |-> FALSE]
    /\ counter = [e \in Eventfds |-> FALSE]
    /\ fdOpen = Eventfds
    /\ fileRefs = [e \in Eventfds |-> 1]
    /\ ctxRefs = [e \in Eventfds |-> 1]
    /\ rel = [e \in Eventfds |-> "no"]
    /\ todo = [e \in Eventfds |-> {}]
    /\ injQueued = {} /\ injRunning = {}
    /\ cleanup = [i \in Irqfds |-> "none"]
    /\ dpc = "open"
    /\ owed = {} /\ bug = FALSE /\ corrupt = FALSE

-----------------------------------------------------------------------------
(* pciem_ioctl_set_irqfd *)

(* kzalloc and eventfd_ctx_fdget; the call keeps the PCIem fd open. *)
GetCtx(i, e) ==
    /\ ipc[i] = "none" /\ dpc = "open"
    /\ e \in fdOpen
    /\ ipc' = [ipc EXCEPT ![i] = "ctx"]
    /\ trigger' = [trigger EXCEPT ![i] = e]
    /\ live' = live \cup {i}
    /\ ctxRefs' = [ctxRefs EXCEPT ![e] = @ + 1]
    /\ UNCHANGED <<file, listVars, waiters, wqh, counter, fdOpen, fileRefs, rel,
                   todo, injVars, cleanup, dpc>>

(* Mutant: the lookup takes no reference. *)
GetFileNoRef(i, e) ==
    /\ ipc[i] = "ctx"
    /\ e \in fdOpen
    /\ ipc' = [ipc EXCEPT ![i] = "file"]
    /\ file' = [file EXCEPT ![i] = e]
    /\ UNCHANGED <<trigger, live, listVars, fdVars, injVars, cleanup, dpc>>

(* fdget: the second lookup, of whatever eventfd the number names now; the  *)
(* reference keeps that file open until the fdput.                          *)
GetFile(i, e) ==
    /\ ipc[i] = "ctx"
    /\ e \in fdOpen
    /\ ipc' = [ipc EXCEPT ![i] = "file"]
    /\ file' = [file EXCEPT ![i] = e]
    /\ fileRefs' = [fileRefs EXCEPT ![e] = @ + 1]
    /\ UNCHANGED <<trigger, live, listVars, waiters, wqh, counter, fdOpen,
                   ctxRefs, rel, todo, injVars, cleanup, dpc>>

(* The number was closed between the two lookups: the fail path. *)
GetFileFails(i) ==
    /\ ipc[i] = "ctx"
    /\ ipc' = [ipc EXCEPT ![i] = "failed"]
    /\ live' = live \ {i}
    /\ ctxRefs' = [ctxRefs EXCEPT ![trigger[i]] = @ - 1]
    /\ UNCHANGED <<trigger, file, listVars, waiters, wqh, counter, fdOpen,
                   fileRefs, rel, todo, injVars, cleanup, dpc>>

(* vfs_poll -> pciem_irqfd_ptable_queue_proc takes irqfds->lock ...         *)
QueueProcLock(i) ==
    /\ ipc[i] = "file"
    /\ lock = None
    /\ lock' = i
    /\ ipc' = [ipc EXCEPT ![i] = "locked"]
    /\ UNCHANGED <<trigger, file, live, items, fdVars, injVars, cleanup, dpc>>

(* ... then, inside add_wait_queue, wqh.lock; both are released after       *)
(* list_add_tail. A count that is already there is owed an injection.       *)
QueueProcAdd(i) ==
    /\ ipc[i] = "locked"
    /\ LET e == file[i] IN
          /\ ~wqh[e]
          /\ waiters' = [waiters EXCEPT ![e] = @ \cup {i}]
          /\ owed' = IF counter[e] THEN owed \cup {i} ELSE owed
    /\ items' = items \cup {i}
    /\ lock' = None
    /\ ipc' = [ipc EXCEPT ![i] = "added"]
    /\ UNCHANGED <<trigger, file, live, wqh, counter, fdOpen, fileRefs, ctxRefs,
                   rel, todo, injQueued, injRunning, bug, corrupt, cleanup, dpc>>

(* Mutant: a count that was there before the registration is ignored. *)
PollCountIgnored(i) ==
    /\ ipc[i] = "added"
    /\ ipc' = [ipc EXCEPT ![i] = "polled"]
    /\ UNCHANGED <<trigger, file, live, listVars, fdVars, injVars, cleanup, dpc>>

(* eventfd_poll returns; EPOLLIN if the counter is not zero. *)
PollCount(i) ==
    /\ ipc[i] = "added"
    /\ injQueued' = IF counter[file[i]] THEN injQueued \cup {i} ELSE injQueued
    /\ ipc' = [ipc EXCEPT ![i] = "polled"]
    /\ UNCHANGED <<trigger, file, live, listVars, fdVars, injRunning, owed, bug,
                   corrupt, cleanup, dpc>>

-----------------------------------------------------------------------------
(* References to the eventfd's file: the last one starts eventfd_release. *)

PutFile(e) ==
    /\ fileRefs' = [fileRefs EXCEPT ![e] = @ - 1]
    /\ rel' = [rel EXCEPT ![e] = IF fileRefs[e] = 1 THEN "hup" ELSE @]

(* fdput, and the ioctl returns. *)
FdPut(i) ==
    /\ ipc[i] = "polled"
    /\ PutFile(file[i])
    /\ ipc' = [ipc EXCEPT ![i] = "done"]
    /\ UNCHANGED <<trigger, file, live, listVars, waiters, wqh, counter, fdOpen,
                   ctxRefs, todo, injVars, cleanup, dpc>>

(* Userspace closes the eventfd. *)
CloseFd(e) ==
    /\ e \in fdOpen
    /\ fdOpen' = fdOpen \ {e}
    /\ PutFile(e)
    /\ UNCHANGED <<regVars, live, listVars, waiters, wqh, counter, ctxRefs,
                   todo, injVars, cleanup, dpc>>

(* Userspace writes the eventfd: under wqh.lock every waiter gets EPOLLIN   *)
(* (pciem_irqfd_wakeup), resets the counter of its own trigger, which need  *)
(* not be the eventfd written, and schedules its inject_work.               *)
Write(e) ==
    /\ e \in fdOpen
    /\ ~wqh[e]
    /\ counter' = [f \in Eventfds |->
                      /\ \A i \in waiters[e] : trigger[i] # f
                      /\ f = e \/ counter[f]]
    /\ injQueued' = injQueued \cup waiters[e]
    /\ owed' = owed \cup waiters[e]
    /\ UNCHANGED <<regVars, live, listVars, waiters, wqh, fdOpen, fileRefs,
                   ctxRefs, rel, todo, injRunning, bug, corrupt, cleanup,
                   dpc>>

-----------------------------------------------------------------------------
(* eventfd_release: wake_up_poll(EPOLLHUP), then eventfd_ctx_put. *)

HupLock(e) ==
    /\ rel[e] = "hup"
    /\ ~wqh[e]
    /\ wqh' = [wqh EXCEPT ![e] = TRUE]
    /\ todo' = [todo EXCEPT ![e] = waiters[e]]
    /\ rel' = [rel EXCEPT ![e] = "waking"]
    /\ UNCHANGED <<regVars, live, listVars, waiters, counter, fdOpen, fileRefs,
                   ctxRefs, injVars, cleanup, dpc>>

(* pciem_irqfd_shutdown, for the irqfds of S, under irqfds->lock: only one  *)
(* that is still on the list is queued for cleanup.                         *)
Shutdown(S) ==
    /\ items' = items \ S
    /\ cleanup' = [i \in Irqfds |-> IF i \in S \cap items THEN "queued"
                                    ELSE cleanup[i]]

(* pciem_irqfd_wakeup with EPOLLHUP, under wqh.lock. *)
HupWakeup(e, i) ==
    /\ rel[e] = "waking"
    /\ i \in todo[e]
    /\ lock = None
    /\ Shutdown({i})
    /\ todo' = [todo EXCEPT ![e] = @ \ {i}]
    /\ UNCHANGED <<regVars, live, lock, waiters, wqh, counter, fdOpen, fileRefs,
                   ctxRefs, rel, injVars, dpc>>

HupUnlock(e) ==
    /\ rel[e] = "waking"
    /\ todo[e] = {}
    /\ wqh' = [wqh EXCEPT ![e] = FALSE]
    /\ rel' = [rel EXCEPT ![e] = "put"]
    /\ UNCHANGED <<regVars, live, listVars, waiters, counter, fdOpen, fileRefs,
                   ctxRefs, todo, injVars, cleanup, dpc>>

ReleasePut(e) ==
    /\ rel[e] = "put"
    /\ ctxRefs' = [ctxRefs EXCEPT ![e] = @ - 1]
    /\ rel' = [rel EXCEPT ![e] = "done"]
    /\ UNCHANGED <<regVars, live, listVars, waiters, wqh, counter, fdOpen,
                   fileRefs, todo, injVars, cleanup, dpc>>

-----------------------------------------------------------------------------
(* pciem_irqfd_work on the system workqueue; a work item never runs twice   *)
(* at the same time.                                                        *)

InjectStart(i) ==
    /\ i \in injQueued \ injRunning
    /\ injQueued' = injQueued \ {i}
    /\ injRunning' = injRunning \cup {i}
    /\ owed' = owed \ {i}
    /\ UNCHANGED <<regVars, live, listVars, fdVars, bug, corrupt, cleanup, dpc>>

(* pciem_trigger_msi fails when the function has no IRQ (no driver has      *)
(* enabled one, or it was unbound), and the worker dies in BUG().           *)
InjectEnd(i) ==
    /\ i \in injRunning
    /\ ~bug
    /\ \E ok \in IrqReady :
          /\ bug' = ~ok
          /\ injRunning' = IF ok THEN injRunning \ {i} ELSE injRunning
    /\ UNCHANGED <<regVars, live, listVars, fdVars, injQueued, owed, corrupt,
                   cleanup, dpc>>

-----------------------------------------------------------------------------
(* pciem_irqfd_shutdown_work on the cleanup workqueue *)

(* eventfd_ctx_remove_wait_queue unlinks the irqfd from the queue it is in  *)
(* and resets the counter, under the wqh.lock of its trigger. When it waits *)
(* on another eventfd that is the wrong lock: whoever holds the right one   *)
(* may be walking the queue (seen for a HUP, whose wake-ups are steps;      *)
(* possible for a write or a poll, which are one step each), and the        *)
(* eventfd the queue is part of may be gone.                                *)
RemoveWait(i) ==
    /\ cleanup[i] = "queued"
    /\ ~wqh[trigger[i]]
    /\ waiters' = [waiters EXCEPT ![file[i]] = @ \ {i}]
    /\ counter' = [counter EXCEPT ![trigger[i]] = FALSE]
    /\ \E raced \in {FALSE, file[i] # trigger[i]} :
          corrupt' = (corrupt \/ raced \/ wqh[file[i]] \/ ctxRefs[file[i]] = 0)
    /\ cleanup' = [cleanup EXCEPT ![i] = "removed"]
    /\ UNCHANGED <<regVars, live, listVars, wqh, fdOpen, fileRefs, ctxRefs, rel,
                   todo, injQueued, injRunning, owed, bug, dpc>>

(* Mutant: the work is not flushed. *)
NoFlushInject(i) ==
    /\ cleanup[i] = "removed"
    /\ cleanup' = [cleanup EXCEPT ![i] = "flushed"]
    /\ UNCHANGED <<regVars, live, listVars, fdVars, injVars, dpc>>

(* flush_work(&irqfd->inject_work) *)
FlushInject(i) ==
    /\ cleanup[i] = "removed"
    /\ i \notin injQueued \cup injRunning
    /\ cleanup' = [cleanup EXCEPT ![i] = "flushed"]
    /\ UNCHANGED <<regVars, live, listVars, fdVars, injVars, dpc>>

(* eventfd_ctx_put and kfree *)
FreeIrqfd(i) ==
    /\ cleanup[i] = "flushed"
    /\ ctxRefs' = [ctxRefs EXCEPT ![trigger[i]] = @ - 1]
    /\ live' = live \ {i}
    /\ cleanup' = [cleanup EXCEPT ![i] = "done"]
    /\ UNCHANGED <<regVars, listVars, waiters, wqh, counter, fdOpen, fileRefs,
                   rel, todo, injVars, dpc>>

-----------------------------------------------------------------------------
(* pciem_userspace_destroy, after the last PCIem fd is closed *)

(* A running ioctl holds a reference to the PCIem file. *)
LastClose ==
    /\ dpc = "open"
    /\ \A i \in Irqfds : ipc[i] \in {"none", "done", "failed"}
    /\ dpc' = "shutdown"
    /\ UNCHANGED <<regVars, live, listVars, fdVars, injVars, cleanup>>

(* Mutant: the lock is not released. *)
ShutdownAllKeepsLock ==
    /\ dpc = "shutdown"
    /\ lock = None
    /\ Shutdown(items)
    /\ lock' = CHOOSE i \in Irqfds : TRUE
    /\ dpc' = "drain"
    /\ UNCHANGED <<regVars, live, fdVars, injVars>>

(* pciem_irqfds_shutdown: every irqfd still on the list, under the lock. *)
ShutdownAll ==
    /\ dpc = "shutdown"
    /\ lock = None
    /\ Shutdown(items)
    /\ dpc' = "drain"
    /\ UNCHANGED <<regVars, live, lock, fdVars, injVars>>

(* Mutant: destroy_workqueue does not wait for the queued work. *)
NoDrain ==
    /\ dpc = "drain"
    /\ dpc' = "free"
    /\ UNCHANGED <<regVars, live, listVars, fdVars, injVars, cleanup>>

(* destroy_workqueue drains the cleanup workqueue. *)
DestroyWorkqueue ==
    /\ dpc = "drain"
    /\ \A i \in Irqfds : cleanup[i] \in {"none", "done"}
    /\ dpc' = "free"
    /\ UNCHANGED <<regVars, live, listVars, fdVars, injVars, cleanup>>

(* The root complexes and the state itself are freed. *)
FreeState ==
    /\ dpc = "free"
    /\ dpc' = "freed"
    /\ UNCHANGED <<regVars, live, listVars, fdVars, injVars, cleanup>>

-----------------------------------------------------------------------------
SetIrqfd(i) ==
    \/ \E e \in Eventfds : GetFile(i, e)
    \/ GetFileFails(i) \/ QueueProcLock(i) \/ QueueProcAdd(i)
    \/ PollCount(i) \/ FdPut(i)

Release(e) ==
    \/ HupLock(e) \/ HupUnlock(e) \/ ReleasePut(e)
    \/ \E i \in Irqfds : HupWakeup(e, i)

Inject(i) == InjectStart(i) \/ InjectEnd(i)

Cleanup(i) == RemoveWait(i) \/ FlushInject(i) \/ FreeIrqfd(i)

Destroy == ShutdownAll \/ DestroyWorkqueue \/ FreeState

Userspace ==
    \/ \E i \in Irqfds : \E e \in Eventfds : GetCtx(i, e)
    \/ \E e \in Eventfds : CloseFd(e) \/ Write(e)
    \/ LastClose

(* What follows the corruption of a wait queue is not modelled. *)
Sound(A) == ~corrupt /\ A

Next ==
    \/ Sound(Userspace)
    \/ \E i \in Irqfds : Sound(SetIrqfd(i)) \/ Sound(Inject(i)) \/ Sound(Cleanup(i))
    \/ \E e \in Eventfds : Sound(Release(e))
    \/ Sound(Destroy)

Spec == Init /\ [][Next]_vars

(* Kernel code that has started runs on: an ioctl, the release of a file,   *)
(* both workqueues and the destruction. Userspace owes nothing.             *)
Fairness ==
    /\ \A i \in Irqfds :
          /\ WF_vars(Sound(SetIrqfd(i)))
          /\ WF_vars(Sound(Inject(i)))
          /\ WF_vars(Sound(Cleanup(i)))
    /\ \A e \in Eventfds : WF_vars(Sound(Release(e)))
    /\ WF_vars(Sound(Destroy))

FairSpec == Spec /\ Fairness

-----------------------------------------------------------------------------
(* Properties *)

TypeOK ==
    /\ ipc \in [Irqfds -> {"none", "ctx", "file", "locked", "added", "polled",
                           "done", "failed"}]
    /\ trigger \in [Irqfds -> Eventfds \cup {None}]
    /\ file \in [Irqfds -> Eventfds \cup {None}]
    /\ live \subseteq Irqfds /\ items \subseteq Irqfds
    /\ lock \in Irqfds \cup {None}
    /\ waiters \in [Eventfds -> SUBSET Irqfds]
    /\ wqh \in [Eventfds -> BOOLEAN]
    /\ counter \in [Eventfds -> BOOLEAN]
    /\ fdOpen \subseteq Eventfds
    /\ fileRefs \in [Eventfds -> Nat]
    /\ ctxRefs \in [Eventfds -> Nat]
    /\ rel \in [Eventfds -> {"no", "hup", "waking", "put", "done"}]
    /\ todo \in [Eventfds -> SUBSET Irqfds]
    /\ injQueued \subseteq Irqfds /\ injRunning \subseteq Irqfds
    /\ cleanup \in [Irqfds -> {"none", "queued", "removed", "flushed", "done"}]
    /\ dpc \in {"open", "shutdown", "drain", "free", "freed"}
    /\ owed \subseteq Irqfds /\ bug \in BOOLEAN /\ corrupt \in BOOLEAN

(* An irqfd can still be reached: from the wait queue (a write or a HUP may *)
(* come at any time), by the HUP in progress, by the queued or running      *)
(* inject_work, or by shutdown_work.                                        *)
InUse(i) ==
    \/ i \in injQueued \cup injRunning
    \/ cleanup[i] \in {"queued", "removed", "flushed"}
    \/ \E e \in Eventfds : i \in waiters[e] \cup todo[e]

(* Some SET_IRQFD found two eventfds under one number. *)
TwoEventfds == \E i \in Irqfds : file[i] \notin {None, trigger[i]}

(* Whoever can still reach an irqfd finds it allocated, with its state and  *)
(* its eventfd: shutdown_work leaves the wait queue and flushes inject_work *)
(* before kfree, and the state waits for shutdown_work. A wait queue is     *)
(* never changed without its lock or after its end, unless a number named   *)
(* two eventfds: nothing is claimed of what follows such a change.          *)
NoUseAfterFree ==
    /\ corrupt => TwoEventfds
    /\ ~corrupt =>
          \A i \in Irqfds : InUse(i) =>
              /\ i \in live
              /\ dpc \notin {"free", "freed"}
              /\ ctxRefs[trigger[i]] > 0

(* No wait queue is ever changed without its lock or after its end: false   *)
(* of the code when a number names two eventfds.                            *)
WaitQueuesSound == ~corrupt

(* Nothing is left behind: when the state is freed no irqfd is allocated    *)
(* and none of them holds a reference to its eventfd any more.              *)
NothingLeaked ==
    dpc = "freed" =>
        /\ live = {}
        /\ \A e \in Eventfds : ctxRefs[e] = (IF rel[e] = "done" THEN 0 ELSE 1)

(* The two lock orders never meet: while a registering thread holds         *)
(* irqfds->lock and wants the wqh.lock of the eventfd it polls, no HUP      *)
(* holds that wqh.lock and wants irqfds->lock. Only the file reference of   *)
(* fdget, held until after vfs_poll, makes it so.                           *)
NoLockInversion ==
    \A i \in Irqfds : \A e \in Eventfds :
        ~(ipc[i] = "locked" /\ file[i] = e /\ rel[e] = "waking")

(* pciem_irqfd_work never reaches its BUG(): trigger_msi always succeeds. *)
NoBug == ~bug

(* A write to a registered irqfd's eventfd is injected, even when a close,  *)
(* a HUP or the destruction of the device follows at once. An irqfd that    *)
(* waits on one eventfd resets another's count: nothing is claimed then.    *)
WriteIsInjected ==
    \A i \in Irqfds : (i \in owed) ~> (i \notin owed \/ TwoEventfds)

(* Closing the last PCIem fd ends with everything freed: nobody waits for   *)
(* a work item or a lock for ever.                                          *)
DestroyEnds == (dpc = "shutdown") ~> (dpc = "freed" \/ corrupt)

(* Closing the eventfd alone frees its irqfds, without closing the device. *)
HupFrees ==
    \A e \in Eventfds : \A i \in Irqfds :
        (rel[e] = "hup" /\ file[i] = e) ~> (i \notin live \/ corrupt)

=============================================================================
