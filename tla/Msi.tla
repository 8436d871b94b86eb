-------------------------------- MODULE Msi --------------------------------
(***************************************************************************)
(* Interrupt injection into one emulated function. pciem_trigger_msi is    *)
(* called by PCIEM_IOCTL_INJECT_IRQ and by the irqfd workers, on any CPU.  *)
(* It leaves the Linux IRQ in v->pending_msi_irq and queues an irq_work,   *)
(* whose handler delivers what it finds there.                             *)
(***************************************************************************)
EXTENDS Naturals, FiniteSets

CONSTANTS
    Callers,    \* threads that inject
    Cpus,       \* CPUs that run irq_work
    Vectors,    \* vectors they ask for: 0 .. the table size and beyond
    NumVectors, \* pci_msix_vec_count
    MaxCalls,   \* bound: calls in one behaviour
    NoIrq       \* nothing was ever injected

ASSUME NumVectorsAssumption == NumVectors \in Nat \ {0}
ASSUME MaxCallsAssumption == MaxCalls \in Nat
ASSUME VectorsAssumption == Vectors \subseteq Nat

VARIABLES
    mode,       \* what the driver enabled: "none", "irq" (MSI or INTx), "msix"
    pc,         \* per caller
    pending,    \* v->pending_msi_irq
    wPending,   \* the irq_work is queued
    hpc,        \* per CPU: Idle, Called when it has entered the handler, or
                \* the IRQ that the handler has read
    calls,      \* calls so far
    accepted,   \* history: IRQs of successful calls, until the handler reads them
    tpc         \* the teardown: "no", "sync", "removed"

msiVars == <<mode, pc, pending, wPending, hpc, calls, accepted, tpc>>

(* The IRQs of the function: one per MSI-X vector, or the single dev->irq. *)
Irq == {<<"msix", v>> : v \in 0..(NumVectors - 1)} \cup {<<"irq", 0>>}

(* A CPU outside the handler, and inside it before it has read the IRQ. *)
Idle == <<"idle">>
Called == <<"called">>

MsiInit ==
    /\ mode = "none"
    /\ pc = [c \in Callers |-> "idle"]
    /\ pending = NoIrq /\ wPending = FALSE /\ hpc = [u \in Cpus |-> Idle]
    /\ calls = 0 /\ accepted = {} /\ tpc = "no"

(* The driver enables MSI-X, or MSI / INTx, or gives its vectors back. *)
SetMode(m) ==
    /\ tpc # "removed"
    /\ mode' = m
    /\ UNCHANGED <<pc, pending, wPending, hpc, calls, accepted, tpc>>

(* An MSI-X vector out of range is taken as vector 0; without MSI-X the     *)
(* vector does not matter.                                                  *)
VectorIrq(v) ==
    IF mode = "msix" THEN <<"msix", IF v < NumVectors THEN v ELSE 0>>
                     ELSE <<"irq", 0>>

(* pciem_trigger_msi: the checks, and atomic_set(&v->pending_msi_irq). The  *)
(* call fails (-EINVAL) while the driver has enabled nothing.               *)
Trigger(c, v) ==
    /\ pc[c] = "idle" /\ tpc = "no"
    /\ calls < MaxCalls /\ calls' = calls + 1
    /\ \/ /\ mode = "none"
          /\ UNCHANGED <<pc, pending, accepted>>
       \/ /\ mode # "none"
          /\ pending' = VectorIrq(v)
          /\ pc' = [pc EXCEPT ![c] = "queue"]
          /\ accepted' = accepted \cup {VectorIrq(v)}
    /\ UNCHANGED <<mode, wPending, hpc, tpc>>

(* Mutant: the work is not queued again while its handler runs. *)
QueueWorkUnlessBusy(c) ==
    /\ pc[c] = "queue"
    /\ wPending' = (wPending \/ \A u \in Cpus : hpc[u] = Idle)
    /\ pc' = [pc EXCEPT ![c] = "idle"]
    /\ UNCHANGED <<mode, pending, hpc, calls, accepted, tpc>>

(* irq_work_queue: no effect when the work is already queued. *)
QueueWork(c) ==
    /\ pc[c] = "queue"
    /\ wPending' = TRUE
    /\ pc' = [pc EXCEPT ![c] = "idle"]
    /\ UNCHANGED <<mode, pending, hpc, calls, accepted, tpc>>

(* The irq_work leaves the queue before its handler runs, so it can be      *)
(* queued again, on another CPU too, while the handler has not read yet.    *)
WorkStart(u) ==
    /\ wPending /\ hpc[u] = Idle
    /\ wPending' = FALSE
    /\ hpc' = [hpc EXCEPT ![u] = Called]
    /\ UNCHANGED <<mode, pc, pending, calls, accepted, tpc>>

(* pciem_msi_irq_work_func: the IRQ is read ... *)
WorkRead(u) ==
    /\ hpc[u] = Called
    /\ hpc' = [hpc EXCEPT ![u] = pending]
    /\ accepted' = accepted \ {pending}
    /\ UNCHANGED <<mode, pc, pending, wPending, calls, tpc>>

(* ... and delivered by generic_handle_irq. *)
WorkDeliver(u) ==
    /\ hpc[u] \in Irq
    /\ hpc' = [hpc EXCEPT ![u] = Idle]
    /\ UNCHANGED <<mode, pc, pending, wPending, calls, accepted, tpc>>

-----------------------------------------------------------------------------
(* pciem_teardown_device: it runs after the last reference is dropped, so   *)
(* no call is in progress and the irqfd workers are flushed.                *)
Teardown ==
    /\ tpc = "no"
    /\ \A c \in Callers : pc[c] = "idle"
    /\ tpc' = "sync"
    /\ UNCHANGED <<mode, pc, pending, wPending, hpc, calls, accepted>>

(* Mutant: the teardown does not wait for the irq_work. *)
RemoveDeviceAtOnce ==
    /\ tpc = "sync"
    /\ tpc' = "removed"
    /\ mode' = "none"
    /\ UNCHANGED <<pc, pending, wPending, hpc, calls, accepted>>

(* irq_work_sync returns; the device and its driver's IRQs go away. *)
RemoveDevice ==
    /\ tpc = "sync"
    /\ ~wPending /\ \A u \in Cpus : hpc[u] = Idle
    /\ tpc' = "removed"
    /\ mode' = "none"
    /\ UNCHANGED <<pc, pending, wPending, hpc, calls, accepted>>

MsiNext ==
    \/ \E m \in {"none", "irq", "msix"} : SetMode(m)
    \/ \E c \in Callers : QueueWork(c) \/ \E v \in Vectors : Trigger(c, v)
    \/ \E u \in Cpus : WorkStart(u) \/ WorkRead(u) \/ WorkDeliver(u)
    \/ Teardown \/ RemoveDevice

MsiSpec == MsiInit /\ [][MsiNext]_msiVars

(* A call that has started returns, and queued irq_work runs. *)
MsiFairness ==
    /\ \A c \in Callers : WF_msiVars(QueueWork(c))
    /\ WF_msiVars(\E u \in Cpus : WorkStart(u))
    /\ \A u \in Cpus : WF_msiVars(WorkRead(u) \/ WorkDeliver(u))
    /\ WF_msiVars(RemoveDevice)

MsiFairSpec == MsiSpec /\ MsiFairness

-----------------------------------------------------------------------------
(* Properties *)

(* Types; an IRQ is always one the function has (a vector beyond the table  *)
(* is taken as vector 0 before pci_irq_vector).                             *)
MsiTypeOK ==
    /\ mode \in {"none", "irq", "msix"}
    /\ pc \in [Callers -> {"idle", "queue"}]
    /\ pending \in Irq \cup {NoIrq}
    /\ wPending \in BOOLEAN
    /\ hpc \in [Cpus -> Irq \cup {Idle, Called}]
    /\ calls \in 0..MaxCalls
    /\ accepted \subseteq Irq
    /\ tpc \in {"no", "sync", "removed"}

(* No interrupt is delivered to a device that is gone: teardown waits for   *)
(* the irq_work before it removes the device.                               *)
NoIrqAfterRemoval == 
    tpc = "removed" => ~wPending /\ \A u \in Cpus : hpc[u] = Idle

(* Injections do not stop: whatever was last asked for is read by a run of  *)
(* the work, and so delivered, unless a later call replaces it. A call that *)
(* comes while the handler runs counts too.                                 *)
LatestIsDelivered == \A q \in Irq : (pending = q /\ q \in accepted)
                                     ~> (pending # q \/ q \notin accepted)

(* A vector whose injection succeeded is injected into the guest. *)
EveryVectorDelivered == \A q \in Irq : (q \in accepted) ~> (q \notin accepted)

=============================================================================
