------------------------------ MODULE SmpTrace ------------------------------
(***************************************************************************)
(* BAR tracing (kernel/trace): while a BAR is traced, a kretprobe on       *)
(* ioremap clears the page-table entries of every mapping a driver makes   *)
(* of it ("poisons" them) and lists the mapping; an access then faults,    *)
(* and a kprobe on bad_area_nosemaphore emulates it on the shadow mapping  *)
(* and queues the event. A kprobe on iounmap undoes the poisoning.         *)
(*                                                                         *)
(* Modelled here: the start with its unwinding, the three hooks, the fault *)
(* handler on several CPUs with its RCU section, and the stop              *)
(* (smptrace_deactivate), which runs when the last PCIem fd is closed --   *)
(* before the emulated device is removed, so with its driver still bound.  *)
(* One address per mapping; the decoding of the instruction is left out.   *)
(***************************************************************************)
EXTENDS Naturals, FiniteSets

CONSTANTS
    CPUs,       \* CPUs that run the driver
    Maps,       \* the mappings it makes of the traced BAR
    LateDriver, \* for each of these BOOLEANs: the driver is still at work
                \* while tracing stops
    None

ASSUME LateDriverAssumption == LateDriver \subseteq BOOLEAN
ASSUME NoneAssumption == None \notin Maps

VARIABLES
    ctl,        \* where smptrace_init / smptrace_deactivate is
    hooks,      \* registered probes, of {"badarea", "iounmap", "ioremap"}
    shadow,     \* ctx->shadow_va is mapped
    cur,        \* the mapping smptrace_deactivate has taken off the list
    vm,         \* per mapping: "none", "mapped", "unmapped"
    pte,        \* per mapping: "none", "valid", "poisoned"
    maps,       \* ctx->maps, the listed mappings
    obj,        \* per mapping: struct smptrace_map "none", "live", "rcu", "freed"
    cpc, cmap,  \* per CPU: where it is, the mapping it accesses
    oops,       \* a fault reached the real bad_area_nosemaphore
    late        \* of LateDriver; it never changes

drvVars == <<vm, pte, maps, obj>>
cpuVars == <<cpc, cmap>>
vars == <<ctl, hooks, shadow, cur, vm, pte, maps, obj, cpc, cmap, oops, late>>

Init ==
    /\ ctl = "off" /\ hooks = {} /\ shadow = FALSE /\ cur = None
    /\ vm = [m \in Maps |-> "none"]
    /\ pte = [m \in Maps |-> "none"]
    /\ maps = {}
    /\ obj = [m \in Maps |-> "none"]
    /\ cpc = [c \in CPUs |-> "run"]
    /\ cmap = [c \in CPUs |-> None]
    /\ oops = FALSE
    /\ late \in LateDriver

-----------------------------------------------------------------------------
(* smptrace_init, smptrace_arch_activate, smptrace_register_probes *)

(* The shadow mapping; without it the call fails. *)
MapShadow ==
    /\ ctl = "off"
    /\ shadow' = TRUE
    /\ ctl' = "badarea"
    /\ UNCHANGED <<hooks, cur, drvVars, cpuVars, oops>>

(* The probes are registered in this order, the one that poisons last. *)
After == [badarea |-> "iounmap", iounmap |-> "ioremap", ioremap |-> "on"]

Register(h) ==
    /\ ctl = h
    /\ hooks' = hooks \cup {h}
    /\ ctl' = After[h]
    /\ UNCHANGED <<shadow, cur, drvVars, cpuVars, oops>>

(* Mutant: the probes registered so far stay when a later one fails. *)
RegisterFailsDirty(h) ==
    /\ ctl = h
    /\ shadow' = FALSE
    /\ ctl' = "off"
    /\ UNCHANGED <<hooks, cur, drvVars, cpuVars, oops>>

(* A registration fails: those before it are undone, the shadow unmapped.   *)
(* unregister_kprobe waits for handlers that run.                           *)
RegisterFails(h) ==
    /\ ctl = h
    /\ \A c \in CPUs : cpc[c] \notin {"lookup", "emulate"}
    /\ hooks' = {} /\ shadow' = FALSE
    /\ ctl' = "off"
    /\ UNCHANGED <<cur, drvVars, cpuVars, oops>>

-----------------------------------------------------------------------------
(* The driver *)

Stopping == ctl \in {"stop", "unhooked", "restoring", "unshadow"}

(* Some drivers do not run beside the stop. *)
DriverMayRun == Stopping => late

(* ioremap; on its return smptrace_exit_ioremap poisons and lists the       *)
(* mapping before the driver sees the address.                              *)
Ioremap(m) ==
    /\ DriverMayRun
    /\ vm[m] = "none"
    /\ vm' = [vm EXCEPT ![m] = "mapped"]
    /\ IF "ioremap" \in hooks
         THEN /\ pte' = [pte EXCEPT ![m] = "poisoned"]
              /\ maps' = maps \cup {m}
              /\ obj' = [obj EXCEPT ![m] = "live"]
         ELSE /\ pte' = [pte EXCEPT ![m] = "valid"]
              /\ UNCHANGED <<maps, obj>>
    /\ UNCHANGED <<ctl, hooks, shadow, cur, cpuVars, oops>>

(* kzalloc fails in smptrace_exit_ioremap: the driver gets its mapping,     *)
(* untraced.                                                                *)
IoremapUntraced(m) ==
    /\ DriverMayRun
    /\ vm[m] = "none"
    /\ "ioremap" \in hooks
    /\ vm' = [vm EXCEPT ![m] = "mapped"]
    /\ pte' = [pte EXCEPT ![m] = "valid"]
    /\ UNCHANGED <<ctl, hooks, shadow, cur, maps, obj, cpuVars, oops>>

(* smptrace_arch_poison_pte fails: the mapping is undone and ioremap        *)
(* returns NULL.                                                            *)
IoremapFails(m) ==
    /\ DriverMayRun
    /\ vm[m] = "none"
    /\ "ioremap" \in hooks
    /\ vm' = [vm EXCEPT ![m] = "unmapped"]
    /\ UNCHANGED <<ctl, hooks, shadow, cur, pte, maps, obj, cpuVars, oops>>

(* iounmap, with no access of the driver in flight. smptrace_enter_iounmap  *)
(* takes the mapping off the list and restores the entries before iounmap   *)
(* itself removes them.                                                     *)
Iounmap(m) ==
    /\ DriverMayRun
    /\ vm[m] = "mapped"
    /\ \A c \in CPUs : cmap[c] # m
    /\ vm' = [vm EXCEPT ![m] = "unmapped"]
    /\ pte' = [pte EXCEPT ![m] = "none"]
    /\ IF "iounmap" \in hooks /\ m \in maps
         THEN /\ maps' = maps \ {m}
              /\ obj' = [obj EXCEPT ![m] = "rcu"]
         ELSE UNCHANGED <<maps, obj>>
    /\ UNCHANGED <<ctl, hooks, shadow, cur, cpuVars, oops>>

(* An access: through a valid entry it just happens, a poisoned one faults. *)
Access(c, m) ==
    /\ DriverMayRun
    /\ cpc[c] = "run" /\ vm[m] = "mapped" /\ pte[m] = "poisoned"
    /\ cpc' = [cpc EXCEPT ![c] = "fault"]
    /\ cmap' = [cmap EXCEPT ![c] = m]
    /\ UNCHANGED <<ctl, hooks, shadow, cur, drvVars, oops>>

(* The fault is nobody's: bad_area_nosemaphore itself runs. *)
Oops(c) ==
    /\ oops' = TRUE
    /\ cpc' = [cpc EXCEPT ![c] = "dead"]
    /\ UNCHANGED <<ctl, hooks, shadow, cur, drvVars, cmap>>

(* bad_area_nosemaphore is entered: __enter_badarea, if it is hooked, looks *)
(* for the mapping in an RCU section.                                       *)
EnterBadarea(c) ==
    /\ cpc[c] = "fault"
    /\ IF "badarea" \in hooks /\ cmap[c] \in maps
         THEN /\ cpc' = [cpc EXCEPT ![c] = "lookup"]
              /\ UNCHANGED <<ctl, hooks, shadow, cur, drvVars, cmap, oops>>
         ELSE Oops(c)

(* It copies the struct and leaves the RCU section. *)
CopyMap(c) ==
    /\ cpc[c] = "lookup"
    /\ cpc' = [cpc EXCEPT ![c] = "emulate"]
    /\ UNCHANGED <<ctl, hooks, shadow, cur, drvVars, cmap, oops>>

(* The access is emulated on the shadow mapping, the event queued, and the  *)
(* instruction skipped.                                                     *)
Emulate(c) ==
    /\ cpc[c] = "emulate"
    /\ cpc' = [cpc EXCEPT ![c] = "run"]
    /\ cmap' = [cmap EXCEPT ![c] = None]
    /\ UNCHANGED <<ctl, hooks, shadow, cur, drvVars, oops>>

(* Mutant: kfree instead of kfree_rcu. *)
KfreeNow(m) ==
    /\ obj[m] = "rcu"
    /\ obj' = [obj EXCEPT ![m] = "freed"]
    /\ UNCHANGED <<ctl, hooks, shadow, cur, vm, pte, maps, cpuVars, oops>>

(* kfree_rcu: after the RCU sections that may have found the mapping. *)
KfreeRcu(m) ==
    /\ obj[m] = "rcu"
    /\ \A c \in CPUs : ~(cpc[c] = "lookup" /\ cmap[c] = m)
    /\ obj' = [obj EXCEPT ![m] = "freed"]
    /\ UNCHANGED <<ctl, hooks, shadow, cur, vm, pte, maps, cpuVars, oops>>

-----------------------------------------------------------------------------
(* smptrace_deactivate *)

(* Stop hooks on ioremap first ... *)
StopIoremap ==
    /\ ctl = "on"
    /\ late \/ \A c \in CPUs : cpc[c] = "run"
    /\ hooks' = hooks \ {"ioremap"}
    /\ ctl' = "stop"
    /\ UNCHANGED <<shadow, cur, drvVars, cpuVars, oops>>

(* ... and on iounmap. *)
StopIounmap ==
    /\ ctl = "stop"
    /\ hooks' = hooks \ {"iounmap"}
    /\ ctl' = "unhooked"
    /\ UNCHANGED <<shadow, cur, drvVars, cpuVars, oops>>

(* Under ctx->lock one mapping leaves the list ... *)
DelistMap(m) ==
    /\ ctl = "unhooked"
    /\ m \in maps
    /\ maps' = maps \ {m}
    /\ cur' = m
    /\ ctl' = "restoring"
    /\ UNCHANGED <<hooks, shadow, vm, pte, obj, cpuVars, oops>>

(* Mutant: the entries stay poisoned. *)
RestoreNothing ==
    /\ ctl = "restoring"
    /\ obj' = [obj EXCEPT ![cur] = "rcu"]
    /\ cur' = None
    /\ ctl' = "unhooked"
    /\ UNCHANGED <<hooks, shadow, vm, pte, maps, cpuVars, oops>>

(* Mutant: the mapping is not handed to kfree_rcu. *)
RestorePteLeaks ==
    /\ ctl = "restoring"
    /\ pte' = [pte EXCEPT ![cur] = "valid"]
    /\ cur' = None
    /\ ctl' = "unhooked"
    /\ UNCHANGED <<hooks, shadow, vm, maps, obj, cpuVars, oops>>

(* ... and, without the lock, gets the saved entries back, whatever is at   *)
(* its address now.                                                         *)
RestorePte ==
    /\ ctl = "restoring"
    /\ pte' = [pte EXCEPT ![cur] = "valid"]
    /\ obj' = [obj EXCEPT ![cur] = "rcu"]
    /\ cur' = None
    /\ ctl' = "unhooked"
    /\ UNCHANGED <<hooks, shadow, vm, maps, cpuVars, oops>>

(* Mutant: the fault hook goes while mappings are still poisoned. *)
StopBadareaEarly ==
    /\ ctl = "unhooked"
    /\ hooks' = hooks \ {"badarea"}
    /\ ctl' = "unshadow"
    /\ UNCHANGED <<shadow, cur, drvVars, cpuVars, oops>>

(* No mapping is left: the fault hook goes, after the handlers that run. *)
StopBadarea ==
    /\ ctl = "unhooked" /\ maps = {}
    /\ \A c \in CPUs : cpc[c] \notin {"lookup", "emulate"}
    /\ hooks' = hooks \ {"badarea"}
    /\ ctl' = "unshadow"
    /\ UNCHANGED <<shadow, cur, drvVars, cpuVars, oops>>

UnmapShadow ==
    /\ ctl = "unshadow"
    /\ shadow' = FALSE
    /\ ctl' = "done"
    /\ UNCHANGED <<hooks, cur, drvVars, cpuVars, oops>>

-----------------------------------------------------------------------------
Start ==
    \/ MapShadow
    \/ \E h \in DOMAIN After : Register(h) \/ RegisterFails(h)

Driver ==
    \/ \E m \in Maps : Ioremap(m) \/ IoremapUntraced(m) \/ IoremapFails(m)
                          \/ Iounmap(m)
    \/ \E c \in CPUs : \E m \in Maps : Access(c, m)

Handler(c) == EnterBadarea(c) \/ CopyMap(c) \/ Emulate(c)

Stop ==
    \/ StopIounmap \/ RestorePte \/ StopBadarea \/ UnmapShadow
    \/ \E m \in Maps : DelistMap(m)

Step ==
    \/ Start \/ Driver \/ StopIoremap \/ Stop
    \/ \E c \in CPUs : Handler(c)
    \/ \E m \in Maps : KfreeRcu(m)

Next == Step /\ UNCHANGED late

Spec == Init /\ [][Next]_vars

(* A fault handler and a stop that has begun run on, and grace periods end. *)
Fairness ==
    /\ \A c \in CPUs : WF_vars(Handler(c) /\ UNCHANGED late)
    /\ WF_vars(Stop /\ UNCHANGED late)
    /\ \A m \in Maps : WF_vars(KfreeRcu(m) /\ UNCHANGED late)

FairSpec == Spec /\ Fairness

-----------------------------------------------------------------------------
(* Properties *)

TypeOK ==
    /\ ctl \in {"off", "badarea", "iounmap", "ioremap", "on", "stop",
                "unhooked", "restoring", "unshadow", "done"}
    /\ hooks \subseteq {"badarea", "iounmap", "ioremap"}
    /\ shadow \in BOOLEAN
    /\ cur \in (IF ctl = "restoring" THEN Maps ELSE {None})
    /\ vm \in [Maps -> {"none", "mapped", "unmapped"}]
    /\ pte \in [Maps -> {"none", "valid", "poisoned"}]
    /\ maps \subseteq Maps
    /\ obj \in [Maps -> {"none", "live", "rcu", "freed"}]
    /\ cpc \in [CPUs -> {"run", "fault", "lookup", "emulate", "dead"}]
    /\ cmap \in [CPUs -> Maps \cup {None}]
    /\ oops \in BOOLEAN /\ late \in BOOLEAN

(* A handler that found a mapping finds it allocated until it has copied    *)
(* it, and finds the shadow mapping until it has emulated the access, also  *)
(* when tracing stops meanwhile: kfree_rcu waits for the RCU section, and   *)
(* unregister_kprobe for the handler.                                       *)
HandlerSafe ==
    \A c \in CPUs :
        /\ cpc[c] = "lookup" => obj[cmap[c]] \in {"live", "rcu"}
        /\ cpc[c] \in {"lookup", "emulate"} => shadow

(* While a mapping is poisoned the fault hook and the shadow mapping are    *)
(* there, and it is on the list or is the one the stop works on: the hook   *)
(* goes last, whatever fails and whatever the driver does meanwhile.        *)
PoisonedIsHandled ==
    \A m \in Maps : pte[m] = "poisoned" =>
        /\ "badarea" \in hooks /\ shadow
        /\ m \in maps \cup {cur}

(* When tracing is off -- a start that failed halfway, or a stop that is     *)
(* over -- no hook is left, every mapping the driver has works, and one it  *)
(* has given up is not brought back. (With a quiet driver: see NoStalePte.) *)
CleanWhenOff ==
    ctl \in {"off", "done"} /\ ~late =>
        /\ hooks = {} /\ maps = {} /\ ~shadow
        /\ \A m \in Maps : pte[m] = IF vm[m] = "mapped" THEN "valid" ELSE "none"

(* No access of the driver to the BAR ends in an unhandled fault: tracing   *)
(* is invisible to it.                                                      *)
NoUnhandledFault == ~oops

(* ... and it is, for a driver that makes no access while tracing stops.    *)
QuietDriverUndisturbed == ~late => NoUnhandledFault

(* After the iounmap hook is gone nobody removes poisoned entries, so the   *)
(* entries that are restored are those of a mapping that still exists.      *)
NoStalePte == \A m \in Maps : vm[m] = "unmapped" => pte[m] = "none"

(* The stop ends and the memory of every mapping it took down is freed,     *)
(* even if accesses keep faulting meanwhile.                                *)
StopEnds == (ctl = "stop") ~> (ctl = "done" /\ \A m \in Maps : obj[m] \in {"none", "freed"})

=============================================================================
