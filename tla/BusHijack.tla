----------------------------- MODULE BusHijack -----------------------------
(***************************************************************************)
(* Attach-to-host mode (pciem.c): an instance puts itself on a host bus by *)
(* replacing bus->ops with a copy whose accessors are proxies, and puts    *)
(* the previous pointer back when it leaves. A configuration access of the *)
(* PCI core calls through bus->ops; the proxy reads bus->ops again to find *)
(* its instance, and passes on what is not for the instance's slot.        *)
(*                                                                         *)
(* Pointers to pci_ops are "host" or the instance whose proxy_ops they     *)
(* point to. Instances have function 0 only.                               *)
(***************************************************************************)
EXTENDS Naturals, FiniteSets

CONSTANTS
    Insts,       \* instances in attach-to-host mode
    Cpus,        \* CPUs that access the configuration space of the bus
    Slots,       \* device numbers of the bus; slot 0 is never used
    HostSlots,   \* slots of real devices at first
    Quiet,       \* BOOLEAN: no access is under way when bus->ops changes
    Overlap,     \* BOOLEAN: an instance may attach while another one is on
    None

ASSUME SlotsAssumption == Slots \subseteq Nat \ {0} /\ HostSlots \subseteq Slots
ASSUME ModeAssumption == Quiet \in BOOLEAN /\ Overlap \in BOOLEAN
ASSUME InstsAssumption ==
    /\ Insts \cap {"host", "device", "nobody", "wild", "freed", "loop", None} = {}
    /\ None \notin {"host", "wild", "freed", "loop"}

VARIABLES
    host,   \* slots of real devices
    ops,    \* bus->ops
    orig,   \* per instance: hijack.original_ops (None: NULL)
    slot,   \* per instance: hijack.hijacked_slot
    st,     \* per instance: "off", "failing", "on", "gone" (freed)
    acc,    \* per CPU: the slot of its access, or None
    pc,     \* per CPU: "idle", "host" (in the host's accessor), "proxy"
    ans     \* per CPU: who answered its last access

hijackVars == <<host, ops, orig, slot, st, acc, pc, ans>>

Ptr == Insts \cup {"host"}
BusUnused == \A c \in Cpus : pc[c] = "idle"

HijackInit ==
    /\ host = HostSlots
    /\ ops = "host"
    /\ orig = [i \in Insts |-> None]
    /\ slot = [i \in Insts |-> 0]
    /\ st = [i \in Insts |-> "off"]
    /\ acc = [c \in Cpus |-> None]
    /\ pc = [c \in Cpus |-> "idle"]
    /\ ans = [c \in Cpus |-> None]

-----------------------------------------------------------------------------
(* Who answers for a slot when the accessor of p is called with bus->ops =  *)
(* q: the proxy looks only at q, whichever pointer it was reached through.  *)
(* "loop": passing on reaches a proxy again, which passes on again.         *)
Through(p, q, s) ==
    LET native == IF s \in host THEN "device" ELSE "nobody"
    IN  IF p = "host" THEN native
        ELSE IF q = "host" THEN "wild"
        ELSE IF st[q] = "gone" THEN "freed"
        ELSE IF slot[q] = s THEN q
        ELSE IF orig[q] = "host" THEN native
        ELSE "loop"

(* pciem_find_free_slot: the slots where nobody answers. *)
FreeSlot(s) == s \in Slots /\ Through(ops, ops, s) = "nobody"

MayChangeOps == Quiet => BusUnused

(* Mutant: the previous pointer is not kept. *)
AttachForgets(i) ==
    /\ st[i] = "off" /\ MayChangeOps
    /\ Overlap \/ \A j \in Insts : st[j] \notin {"failing", "on"}
    /\ \E s \in Slots :
          /\ FreeSlot(s) /\ \A u \in Slots : FreeSlot(u) => s <= u
          /\ slot' = [slot EXCEPT ![i] = s]
    /\ ops' = i
    /\ orig' = [orig EXCEPT ![i] = i]
    /\ \E ok \in BOOLEAN : st' = [st EXCEPT ![i] = IF ok THEN "on" ELSE "failing"]
    /\ UNCHANGED <<host, acc, pc, ans>>

(* pciem_init_attach_to_host_mode: the lowest free slot, the swap and the   *)
(* scan of the new slot, which finds the device or not.                     *)
Attach(i) ==
    /\ st[i] = "off" /\ MayChangeOps
    /\ Overlap \/ \A j \in Insts : st[j] \notin {"failing", "on"}
    /\ \E s \in Slots :
          /\ FreeSlot(s) /\ \A u \in Slots : FreeSlot(u) => s <= u
          /\ slot' = [slot EXCEPT ![i] = s]
    /\ orig' = [orig EXCEPT ![i] = ops]
    /\ ops' = i
    /\ \E ok \in BOOLEAN : st' = [st EXCEPT ![i] = IF ok THEN "on" ELSE "failing"]
    /\ UNCHANGED <<host, acc, pc, ans>>

(* The scan found no device: its own restoration, and the one of            *)
(* pciem_complete_init's error path. original_ops keeps its value.          *)
AttachFails(i) ==
    /\ st[i] = "failing" /\ MayChangeOps
    /\ ops' = orig[i]
    /\ st' = [st EXCEPT ![i] = "off"]
    /\ UNCHANGED <<host, orig, slot, acc, pc, ans>>

(* No slot is free: the error path "restores" what an earlier attempt left. *)
NoSlot(i) ==
    /\ st[i] = "off" /\ MayChangeOps
    /\ Overlap \/ \A j \in Insts : st[j] \notin {"failing", "on"}
    /\ \A s \in Slots : ~FreeSlot(s)
    /\ ops' = IF orig[i] = None THEN ops ELSE orig[i]
    /\ UNCHANGED <<host, orig, slot, st, acc, pc, ans>>

(* Mutant: the pointer is not put back. *)
TeardownKeeps(i) ==
    /\ st[i] \in {"off", "on"} /\ MayChangeOps
    /\ st' = [st EXCEPT ![i] = "gone"]
    /\ UNCHANGED <<host, ops, orig, slot, acc, pc, ans>>

(* pciem_teardown_device and the kfree of the instance: the pointer is put  *)
(* back when the instance is on the bus.                                    *)
Teardown(i) ==
    /\ st[i] \in {"off", "on"} /\ MayChangeOps
    /\ ops' = IF st[i] = "on" THEN orig[i] ELSE ops
    /\ st' = [st EXCEPT ![i] = "gone"]
    /\ UNCHANGED <<host, orig, slot, acc, pc, ans>>

-----------------------------------------------------------------------------
(* A real device appears in an empty slot. *)
Plug(s) ==
    /\ BusUnused
    /\ \A i \in Insts : st[i] \in {"failing", "on"} => slot[i] # s
    /\ host' = host \cup {s}
    /\ UNCHANGED <<ops, orig, slot, st, acc, pc, ans>>

(* The PCI core: bus->ops->read or ->write is fetched ... *)
Fetch(c, s) ==
    /\ pc[c] = "idle"
    /\ acc' = [acc EXCEPT ![c] = s]
    /\ pc' = [pc EXCEPT ![c] = IF ops = "host" THEN "host" ELSE "proxy"]
    /\ ans' = [ans EXCEPT ![c] = None]
    /\ UNCHANGED <<host, ops, orig, slot, st>>

(* Mutant: what is not for the instance is answered by nobody. *)
RouteSwallows(c) ==
    /\ pc[c] # "idle"
    /\ ans' = [ans EXCEPT ![c] =
          IF pc[c] = "proxy" /\ ops # "host" /\ slot[ops] # acc[c]
            THEN "nobody" ELSE Through(pc[c], ops, acc[c])]
    /\ pc' = [pc EXCEPT ![c] = "idle"]
    /\ UNCHANGED <<host, ops, orig, slot, st, acc>>

(* ... and runs: proxy_read_config, proxy_write_config. *)
Route(c) ==
    /\ pc[c] # "idle"
    /\ ans' = [ans EXCEPT ![c] = Through(pc[c], ops, acc[c])]
    /\ pc' = [pc EXCEPT ![c] = "idle"]
    /\ UNCHANGED <<host, ops, orig, slot, st, acc>>

-----------------------------------------------------------------------------
HijackNext ==
    \/ \E i \in Insts : Attach(i) \/ AttachFails(i) \/ NoSlot(i) \/ Teardown(i)
    \/ \E c \in Cpus : Route(c) \/ \E s \in Slots : Fetch(c, s)
    \/ \E s \in Slots : Plug(s)

HijackSpec == HijackInit /\ [][HijackNext]_hijackVars

-----------------------------------------------------------------------------
(* Properties *)

Answers == Insts \cup {"device", "nobody", "wild", "freed", "loop", None}

HijackTypeOK ==
    /\ host \subseteq Slots
    /\ ops \in Ptr
    /\ orig \in [Insts -> Ptr \cup {None}]
    /\ slot \in [Insts -> Slots \cup {0}]
    /\ st \in [Insts -> {"off", "failing", "on", "gone"}]
    /\ acc \in [Cpus -> Slots \cup {None}]
    /\ pc \in [Cpus -> {"idle", "host", "proxy"}]
    /\ ans \in [Cpus -> Answers]

(* bus->ops never points into an instance that is freed or off the bus, and *)
(* is the host's own when no instance is on.                                *)
OpsRestored == ops # "host" => st[ops] \in {"failing", "on"}

(* The proxy finds its instance: it never takes the host's pci_ops for part *)
(* of one, uses a freed one, or calls itself without end.                   *)
ProxySafe == \A c \in Cpus : ans[c] \notin {"wild", "freed", "loop"}

(* Where an access to a slot belongs. *)
Owner(s) ==
    LET here == {i \in Insts : st[i] \in {"failing", "on"} /\ slot[i] = s}
    IN  IF here # {} THEN here ELSE IF s \in host THEN {"device"} ELSE {"nobody"}

(* Every access ends where it belongs: at the instance on the bus that has  *)
(* the slot, else at the real device there, else nowhere.                   *)
Routed ==
    [][\A c \in Cpus : pc[c] # "idle" /\ pc'[c] = "idle" =>
          ans'[c] \in Owner(acc[c])]_hijackVars

=============================================================================
