----------------------------- MODULE Lifecycle -----------------------------
(***************************************************************************)
(* The life of one /dev/pciem instance: CREATE_DEVICE, TRACE_BAR,          *)
(* REGISTER, START, the activation work, the two file descriptors that     *)
(* hold the state (the PCIem fd and the instance fd REGISTER returns) and  *)
(* its destruction, with ioctls running on several threads.                *)
(*                                                                         *)
(* The traced BAR is one of function 0 and has been added (TRACE_BAR       *)
(* refuses it otherwise). What tracing does is SmpTrace's; here it is one  *)
(* resource that must be acquired once and released.                       *)
(***************************************************************************)
EXTENDS Naturals, FiniteSets

CONSTANTS
    Threads,     \* threads that call ioctls
    Funcs,       \* function indices used, with 0 among them
    MaxObjs,     \* root complexes allocated in a behaviour
    InitMayFail, \* BOOLEAN: complete_init of function 0, getfd and
                 \* smptrace_init may fail
    Careless     \* what the emulator does although the calls do not expect
                 \* it, of "create": two CREATE_DEVICE calls for one function
                 \* overlap; "trace": two TRACE_BAR calls for the BAR overlap;
                 \* "early": TRACE_BAR comes before function 0 exists;
                 \* "guess": a thread closes the instance fd before REGISTER
                 \* has returned it

Slips == {"create", "trace", "early", "guess"}

ASSUME FuncsAssumption == Funcs \subseteq 0..7 /\ 0 \in Funcs
ASSUME ObjsAssumption == MaxObjs \in Nat /\ MaxObjs >= Cardinality(Funcs)
ASSUME FlagsAssumption ==
    InitMayFail \in BOOLEAN /\ Careless \subseteq Slips

VARIABLES
    slot,        \* us->slot.funcs: per function its root complex, 0 for NULL
    live,        \* root complexes allocated and not freed
    made,        \* history: root complexes allocated so far, named 1..made
    registered,  \* us->registered
    built,       \* root complexes whose configuration space is built
    onBus,       \* root complexes with a pci_dev on the bus
    strays,      \* history: root complexes of which an earlier initialisation
                 \* left a device (the pci_dev, or the platform device of the
                 \* bridge) that no field names any more
    refused,     \* history: a REGISTER failed to initialise its functions
    queued,      \* root complexes whose activation_work is queued
    running,     \* ... runs
    activated,   \* ... has run
    owned,       \* tracer->us is set
    probes,      \* the probes of tracer->ctx: "none", "armed", or "lost", when
                 \* the ctx they refer to was overwritten
    mainFd,      \* the PCIem fd is open
    instFd,      \* the instance fd: "none", "open", "closed"
    refs,        \* us->refcnt
    dpc,         \* pciem_userspace_destroy: "no", "begin", "untraced",
                 \* "cancelled", "freed"
    tpc, targ    \* per thread: where its ioctl is, its function

slotVars  == <<slot, live, made>>
workVars  == <<queued, running, activated>>
traceVars == <<owned, probes>>
fdVars    == <<mainFd, instFd, refs, dpc>>
busVars   == <<onBus, strays>>
vars == <<slotVars, registered, built, busVars, refused, workVars, traceVars,
          fdVars, tpc, targ>>

(* pciem_open -> pciem_userspace_create *)
Init ==
    /\ slot = [f \in Funcs |-> 0] /\ live = {} /\ made = 0
    /\ registered = "UNREGISTERED"
    /\ built = {} /\ onBus = {} /\ strays = {} /\ refused = FALSE
    /\ queued = {} /\ running = {} /\ activated = {}
    /\ owned = FALSE /\ probes = "none"
    /\ mainFd = TRUE /\ instFd = "none" /\ refs = 1 /\ dpc = "no"
    /\ tpc = [t \in Threads |-> "idle"]
    /\ targ = [t \in Threads |-> 0]

InSlot == {slot[f] : f \in Funcs} \ {0}

Goto(t, l) == tpc' = [tpc EXCEPT ![t] = l]

(* An ioctl is called on the open PCIem fd, which it keeps open. *)
Call(t) == mainFd /\ tpc[t] = "idle"

-----------------------------------------------------------------------------
(* PCIEM_IOCTL_CREATE_DEVICE: the checks, under slot_lock ... *)
CreateCheck(t, f) ==
    /\ Call(t)
    /\ slot[f] = 0
    /\ f = 0 \/ slot[0] # 0
    /\ \/ "create" \in Careless
       \/ \A u \in Threads : ~(tpc[u] = "create" /\ targ[u] = f)
    /\ Goto(t, "create")
    /\ targ' = [targ EXCEPT ![t] = f]
    /\ UNCHANGED <<slotVars, registered, built, busVars, refused, workVars,
                   traceVars, fdVars>>

(* ... the allocation, and the store, under slot_lock again: whatever is in *)
(* the slot by then is overwritten.                                         *)
CreateStore(t) ==
    /\ tpc[t] = "create" /\ made < MaxObjs
    /\ made' = made + 1
    /\ live' = live \cup {made + 1}
    /\ slot' = [slot EXCEPT ![targ[t]] = made + 1]
    /\ Goto(t, "idle")
    /\ UNCHANGED <<registered, built, busVars, refused, workVars, traceVars,
                   fdVars, targ>>

-----------------------------------------------------------------------------
(* PCIEM_IOCTL_TRACE_BAR *)

(* The checks and the reset of the tracer, under bars_lock. The lock is     *)
(* reached through funcs[0] before anything is checked.                     *)
TraceCheck(t) ==
    /\ Call(t)
    /\ slot[0] # 0 \/ "early" \in Careless
    /\ \/ "trace" \in Careless
       \/ \A u \in Threads : tpc[u] \notin {"init_trace", "own"}
    /\ IF slot[0] = 0 THEN Goto(t, "oops") /\ UNCHANGED probes
       ELSE /\ ~owned
            /\ Goto(t, "init_trace")
            /\ probes' = IF probes = "none" THEN "none" ELSE "lost"
    /\ UNCHANGED <<slotVars, registered, built, busVars, refused, workVars, owned,
                   fdVars, targ>>

(* smptrace_init, outside of the lock *)
TraceInit(t) ==
    /\ tpc[t] = "init_trace"
    /\ \/ /\ probes' = IF probes = "none" THEN "armed" ELSE "lost"
          /\ Goto(t, "own")
       \/ InitMayFail /\ Goto(t, "idle") /\ UNCHANGED probes
    /\ UNCHANGED <<slotVars, registered, built, busVars, refused, workVars, owned,
                   fdVars, targ>>

(* The owner is set: from here on events are queued, and a second TRACE_BAR *)
(* is refused.                                                              *)
TraceOwn(t) ==
    /\ tpc[t] = "own"
    /\ owned' = TRUE
    /\ Goto(t, "idle")
    /\ UNCHANGED <<slotVars, registered, built, busVars, refused, workVars, probes,
                   fdVars, targ>>

-----------------------------------------------------------------------------
(* PCIEM_IOCTL_REGISTER *)

(* Mutant: the state is read and stored without the cmpxchg. *)
StartRegistrationRacy(t) ==
    /\ Call(t)
    /\ slot[0] # 0
    /\ registered # "REGISTERED"
    /\ registered' = "REGISTERING"
    /\ Goto(t, "build")
    /\ UNCHANGED <<slotVars, built, busVars, refused, workVars,
                   traceVars, fdVars, targ>>

(* pciem_start_registration: the cmpxchg lets one thread in. *)
StartRegistration(t) ==
    /\ Call(t)
    /\ slot[0] # 0
    /\ registered = "UNREGISTERED"
    /\ registered' = "REGISTERING"
    /\ Goto(t, "build")
    /\ UNCHANGED <<slotVars, built, busVars, refused, workVars,
                   traceVars, fdVars, targ>>

(* pciem_build_config_space for every function, and the multi-function bit. *)
BuildConfig(t) ==
    /\ tpc[t] = "build"
    /\ built' = built \cup InSlot
    /\ Goto(t, "init")
    /\ UNCHANGED <<slotVars, registered, busVars, refused, workVars,
                   traceVars, fdVars, targ>>

(* pciem_cancel_registration and the error return. *)
Cancel(t) ==
    /\ registered' = "UNREGISTERED"
    /\ refused' = TRUE
    /\ Goto(t, "idle")

(* Mutant: the failure path leaves the device behind. *)
InitFunc0Dirty(t) ==
    /\ tpc[t] = "init"
    /\ onBus' = onBus \cup {slot[0]}
    /\ strays' = strays \cup (onBus \cap {slot[0]})
    /\ \/ Goto(t, "others") /\ UNCHANGED <<registered, refused>>
       \/ InitMayFail /\ Cancel(t)
    /\ UNCHANGED <<slotVars, built, workVars,
                   traceVars, fdVars, targ>>

(* pciem_complete_init(funcs[0]): the device is enumerated, or everything   *)
(* it did is undone. It does not ask whether function 0 is on the bus from  *)
(* an earlier REGISTER: the fields that name the bridge's platform device   *)
(* and, when the initialisation gets that far, the pci_dev are overwritten. *)
(* A failure before pciem_pdev is set leaves the earlier device as it is, a *)
(* later one removes what the fields name by then.                          *)
InitFunc0(t) ==
    /\ tpc[t] = "init"
    /\ strays' = strays \cup (onBus \cap {slot[0]})
    /\ \/ /\ onBus' = onBus \cup {slot[0]}
          /\ Goto(t, "others")
          /\ UNCHANGED <<registered, refused>>
       \/ /\ InitMayFail
          /\ onBus' \in {onBus, onBus \ {slot[0]}}
          /\ Cancel(t)
    /\ UNCHANGED <<slotVars, built, workVars,
                   traceVars, fdVars, targ>>

(* pciem_complete_init of a function other than 0 cannot succeed: in        *)
(* ATTACH_TO_HOST mode pciem_init_attach_to_host_mode refuses it ("use      *)
(* pciem_attach_function instead"); in VIRTUAL_ROOT mode it gets a bridge   *)
(* of its own whose slot has no function 0, which the PCI core does not     *)
(* enumerate. REGISTER gives up, with function 0 left on the bus.           *)
InitOthers(t) ==
    /\ tpc[t] = "others"
    /\ \/ /\ InSlot = {slot[0]}
          /\ registered' = "REGISTERED"
          /\ Goto(t, "getfd")
          /\ UNCHANGED refused
       \/ /\ InSlot # {slot[0]}
          /\ Cancel(t)
    /\ UNCHANGED <<slotVars, built, busVars, workVars,
                   traceVars, fdVars, targ>>

(* anon_inode_getfd installs the instance fd; from here on it can be closed.*)
GetInstanceFd(t) ==
    /\ tpc[t] = "getfd"
    /\ \/ instFd' = "open" /\ Goto(t, "kref")
       \/ InitMayFail /\ Goto(t, "idle") /\ UNCHANGED instFd
    /\ UNCHANGED <<slotVars, registered, built, busVars, refused, workVars,
                   traceVars, mainFd, refs, dpc, targ>>

(* Mutant: the instance fd holds no reference. *)
NoKrefGet(t) ==
    /\ tpc[t] = "kref"
    /\ Goto(t, "idle")
    /\ UNCHANGED <<slotVars, registered, built, busVars, refused, workVars,
                   traceVars, fdVars, targ>>

(* kref_get, after the fd was installed, and the return of the fd. *)
KrefGet(t) ==
    /\ tpc[t] = "kref"
    /\ refs' = refs + 1
    /\ Goto(t, "idle")
    /\ UNCHANGED <<slotVars, registered, built, busVars, refused, workVars,
                   traceVars, mainFd, instFd, dpc, targ>>

-----------------------------------------------------------------------------
(* PCIEM_IOCTL_START: schedule_work, unless the device was activated. *)
StartDevice(t) ==
    /\ Call(t)
    /\ slot[0] # 0 /\ registered = "REGISTERED"
    /\ slot[0] \notin activated
    /\ queued' = queued \cup {slot[0]}
    /\ UNCHANGED <<slotVars, registered, built, busVars, refused, running,
                   activated, traceVars, fdVars, tpc, targ>>

(* pciem_activation_work_func *)
WorkStart(v) ==
    /\ v \in queued \ running
    /\ queued' = queued \ {v} /\ running' = running \cup {v}
    /\ UNCHANGED <<slotVars, registered, built, busVars, refused, activated,
                   traceVars, fdVars, tpc, targ>>

(* Mutant: the device is added but not marked. *)
WorkEndForgets(v) ==
    /\ v \in running
    /\ running' = running \ {v}
    /\ UNCHANGED <<slotVars, registered, built, busVars, refused, queued,
                   activated, traceVars, fdVars, tpc, targ>>

WorkEnd(v) ==
    /\ v \in running
    /\ running' = running \ {v} /\ activated' = activated \cup {v}
    /\ UNCHANGED <<slotVars, registered, built, busVars, refused, queued,
                   traceVars, fdVars, tpc, targ>>

-----------------------------------------------------------------------------
(* kref_put; the last one runs pciem_userspace_destroy. *)
KrefPut ==
    /\ refs' = refs - 1
    /\ dpc' = IF refs = 1 THEN "begin" ELSE dpc

(* pciem_device_release, when no ioctl holds the file any more. *)
CloseMain ==
    /\ mainFd
    /\ \A t \in Threads : tpc[t] = "idle"
    /\ mainFd' = FALSE
    /\ KrefPut
    /\ UNCHANGED <<slotVars, registered, built, busVars, refused, workVars,
                   traceVars, instFd, tpc, targ>>

(* pciem_instance_release. The number of an fd that REGISTER has not yet    *)
(* returned is known only to a thread that guesses it.                      *)
CloseInstance ==
    /\ instFd = "open"
    /\ "guess" \in Careless \/ \A t \in Threads : tpc[t] # "kref"
    /\ instFd' = "closed"
    /\ KrefPut
    /\ UNCHANGED <<slotVars, registered, built, busVars, refused, workVars,
                   traceVars, mainFd, tpc, targ>>

(* smptrace_destroy reaches the probes of the ctx it is given.              *)
Unprobe == probes' = IF probes = "lost" THEN "lost" ELSE "none"

(* Mutant: a tracer is stopped only while its device is registered. *)
StopTracersForgets ==
    /\ dpc = "begin"
    /\ IF owned /\ registered = "REGISTERED"
         THEN owned' = FALSE /\ Unprobe
         ELSE UNCHANGED traceVars
    /\ dpc' = "untraced"
    /\ UNCHANGED <<slotVars, registered, built, busVars, refused, workVars, mainFd,
                   instFd, refs, tpc, targ>>

(* pciem_tracing_destroy: smptrace_destroy of the tracers with an owner *)
StopTracers ==
    /\ dpc = "begin"
    /\ IF owned THEN owned' = FALSE /\ Unprobe ELSE UNCHANGED traceVars
    /\ dpc' = "untraced"
    /\ UNCHANGED <<slotVars, registered, built, busVars, refused, workVars, mainFd,
                   instFd, refs, tpc, targ>>

(* Mutant: the work is only taken off the queue. *)
CancelWorkNoSync ==
    /\ dpc = "untraced"
    /\ queued' = queued \ InSlot
    /\ dpc' = "cancelled"
    /\ UNCHANGED <<slotVars, registered, built, busVars, refused, running,
                   activated, traceVars, mainFd, instFd, refs, tpc, targ>>

(* Mutant: the teardown waits for an activation nobody may have asked for. *)
CancelWorkAwaits ==
    /\ dpc = "untraced"
    /\ InSlot \subseteq activated
    /\ queued' = queued \ InSlot
    /\ dpc' = "cancelled"
    /\ UNCHANGED <<slotVars, registered, built, busVars, refused, running,
                   activated, traceVars, mainFd, instFd, refs, tpc, targ>>

(* pciem_teardown_device: cancel_work_sync takes the work off the queue and *)
(* waits for it.                                                            *)
CancelWork ==
    /\ dpc = "untraced"
    /\ running \cap InSlot = {}
    /\ queued' = queued \ InSlot
    /\ dpc' = "cancelled"
    /\ UNCHANGED <<slotVars, registered, built, busVars, refused, running,
                   activated, traceVars, mainFd, instFd, refs, tpc, targ>>

(* The devices of the slot are removed from the bus, their root complexes   *)
(* and the state freed.                                                     *)
RemoveAndFree ==
    /\ dpc = "cancelled"
    /\ onBus' = onBus \ InSlot /\ live' = live \ InSlot
    /\ slot' = [f \in Funcs |-> 0]
    /\ dpc' = "freed"
    /\ UNCHANGED <<made, registered, built, strays, refused, workVars, traceVars, mainFd,
                   instFd, refs, tpc, targ>>

-----------------------------------------------------------------------------
Ioctl(t) ==
    \/ CreateStore(t) \/ TraceInit(t) \/ TraceOwn(t)
    \/ BuildConfig(t) \/ InitFunc0(t) \/ InitOthers(t)
    \/ GetInstanceFd(t) \/ KrefGet(t)

Destroy == StopTracers \/ CancelWork \/ RemoveAndFree

Work(v) == WorkStart(v) \/ WorkEnd(v)

Next ==
    \/ \E t \in Threads :
          \/ \E f \in Funcs : CreateCheck(t, f)
          \/ TraceCheck(t)
          \/ StartRegistration(t) \/ StartDevice(t)
          \/ Ioctl(t)
    \/ \E v \in 1..MaxObjs : Work(v)
    \/ CloseMain \/ CloseInstance \/ Destroy

Spec == Init /\ [][Next]_vars

(* An ioctl that was called returns, the system workqueue runs what is      *)
(* queued, and a destruction that began goes on. Nobody has to call or      *)
(* close anything.                                                          *)
Fairness ==
    /\ \A t \in Threads : WF_vars(Ioctl(t))
    /\ \A v \in 1..MaxObjs : WF_vars(Work(v))
    /\ WF_vars(Destroy)

FairSpec == Spec /\ Fairness

-----------------------------------------------------------------------------
(* Properties *)

Registering == {"build", "init", "others"}

Objs == 1..MaxObjs

TypeOK ==
    /\ slot \in [Funcs -> 0..MaxObjs] /\ live \subseteq Objs /\ made \in 0..MaxObjs
    /\ built \subseteq Objs /\ onBus \subseteq Objs /\ strays \subseteq Objs
    /\ registered \in {"UNREGISTERED", "REGISTERING", "REGISTERED"}
    /\ refused \in BOOLEAN
    /\ queued \subseteq Objs /\ running \subseteq Objs /\ activated \subseteq Objs
    /\ owned \in BOOLEAN /\ probes \in {"none", "armed", "lost"}
    /\ mainFd \in BOOLEAN /\ instFd \in {"none", "open", "closed"}
    /\ refs \in 0..2
    /\ dpc \in {"no", "begin", "untraced", "cancelled", "freed"}
    /\ tpc \in [Threads -> Registering \cup {"idle", "create", "getfd", "kref",
                                              "init_trace", "own", "oops"}]
    /\ targ \in [Threads -> Funcs]

(* The state stays while a file descriptor or a running ioctl needs it      *)
(* ("Make sure @us stays alive while the device fd is alive").              *)
StateOutlivesFds ==
    (mainFd \/ instFd = "open" \/ \E t \in Threads : tpc[t] # "idle") =>
        dpc = "no"

(* One thread at a time initialises the functions of the slot, and exactly  *)
(* while the state says so.                                                 *)
OneRegistrar ==
    /\ Cardinality({t \in Threads : tpc[t] \in Registering}) <= 1
    /\ registered = "REGISTERING" <=> \E t \in Threads : tpc[t] \in Registering

(* Ioctls that ask for a registered device (interrupts, DMA, START) find    *)
(* function 0 enumerated, with a configuration space built before; and a    *)
(* REGISTER that failed leaves nothing on the bus for a retry to trip over, *)
(* as long as function 0 is the only one created (see RegisterSucceeds).    *)
OnBusIffRegistered ==
    dpc \in {"no", "begin"} =>
        /\ registered = "REGISTERED" => slot[0] \in onBus \cap built
        /\ registered = "UNREGISTERED" /\ InSlot \subseteq {slot[0]} => onBus = {}

(* The activation work runs only with a device to add, never during or      *)
(* after its removal.                                                       *)
ActivationHasDevice ==
    /\ queued \cup running \subseteq onBus
    /\ running # {} => dpc \in {"no", "begin", "untraced"}

(* A START that was accepted activates the device, unless it is destroyed   *)
(* first.                                                                   *)
StartActivates ==
    \A v \in Objs : v \in queued ~> (v \in activated \/ dpc # "no")

(* When the state is gone nothing refers to it or was forgotten: every root *)
(* complex that was allocated is freed, no device it names is left on the   *)
(* bus, no work is pending on freed memory, and the probes of a traced BAR, *)
(* which point into the state, are unregistered. A device is lost only by a *)
(* REGISTER repeated after one that failed with function 0 on the bus,      *)
(* which takes a second function.                                           *)
NothingLeft ==
    dpc = "freed" =>
        /\ live = {} /\ onBus = {}
        /\ queued = {} /\ running = {}
        /\ probes = "none"
        /\ strays # {} => made > 1

(* No initialisation loses the device of an earlier one: false of the code  *)
(* when a slot has several functions.                                       *)
NoStray == strays = {}

(* TRACE_BAR reads through no null pointer.                                 *)
NoNullLock == \A t \in Threads : tpc[t] # "oops"

(* The last close ends with everything freed: cancel_work_sync waits for an *)
(* activation that runs, never for ever.                                    *)
DestroyEnds == (dpc = "begin") ~> (dpc = "freed")

(* Functions 1-7 may be created after function 0, and a slot with several   *)
(* functions can be registered: with nothing failing REGISTER succeeds.     *)
RegisterSucceeds == ~refused

=============================================================================
