# PCIem: TLA+ models, checks and proofs

PCIem is a Linux kernel framework that puts an emulated PCIe device on a real
bus of the machine and lets a userspace program (the *emulator*) play the
device: the kernel traps the driver's accesses to the BARs, hands them to the
emulator as events, and turns the emulator's requests into interrupts and DMA.
This directory models the parts of the framework whose correctness depends on
the order in which CPUs, workqueues, file descriptors and drivers act, the
algorithms that walk page tables, decode instructions and follow PRP lists, and
one of the emulators, the NVMe controller.

Paths below are relative to `src/`. `PROJECT.json` maps every definition that
models code to the lines it stands for, lists the runs, the mutants that show
that each property can fail, the hazards and the theorems.

## 1. Inventory

| Component | State | Operations | Hard because |
|---|---|---|---|
| Event channel (`kernel/framework/userspace.c`) | shared ring (head, tail, slots), `shared_ring_lock`, `eventfd`, `event_pending` | `pciem_userspace_queue_event`, `pciem_shared_ring_push`, `SET_EVENTFD`, the emulator's loop | several CPUs push, the emulator drains without a lock, the eventfd is swapped meanwhile |
| irqfds (`userspace.c`) | list of irqfds, `irqfds->lock`, wait queues and references of the eventfds, two kinds of work items | `SET_IRQFD`, wake-up on write and on HUP, inject work, shutdown work, shutdown of all | an irqfd is reached from four sides, two lock orders exist |
| Interrupt injection (`pciem.c`) | `pending_msi_irq`, one `irq_work` | `pciem_trigger_msi`, `pciem_msi_irq_work_func`, synchronisation at teardown | one slot for all vectors, injection races removal |
| BAR tracing (`kernel/trace/smptrace.c`) | probes, poisoned page-table entries, list of mappings (RCU), shadow mapping | start with unwinding, ioremap/iounmap hooks, fault handler, stop | faults on any CPU during the stop, RCU and kprobe lifetimes |
| Instance lifecycle (`userspace.c`, `pciem.c`) | functions of the slot, `registered`, activation work, two file descriptors, reference count | `CREATE_DEVICE`, `TRACE_BAR`, `REGISTER`, `START`, close, destruction | ioctls on several threads, partial failure, work against removal |
| BAR memory (`pool.c`, `pciem.c`) | bitmap of the pool, per BAR: size, chunk, resource | `ADD_BAR`, `pciem_complete_init`, `pciem_cleanup_bars` | the check and the effect of `ADD_BAR` are apart; failed initialisations |
| P2P access (`p2p.c`) | list of regions, `enabled` | module parameter, register/unregister region, validated read/write | validated and used in two critical sections; sums wrap |
| Attach-to-host routing (`pciem.c`) | `bus->ops`, per instance: saved pointer, slot | attach, failed scan, teardown, the proxies | pointer changed under accesses that take no lock |
| Capabilities (`capabilities.c`) | capability list with offsets, typed registers and bytes | `ADD_CAPABILITY`, building of configuration space, reads and writes | 8-bit offsets, two copies of one register |
| Tracing per architecture (`kernel/trace/arch/`) | page-table entries and their saved copies, the CPU's registers | poison and restore walks, emulation of the faulting access | huge entries, unaligned ranges, widths and extensions, write-back |
| x86 decoder (`kernel/trace/arch/x86/lib/`) | `struct insn` | prefixes to immediate, effective address, MMIO class | one wrong byte count moves everything after it |
| DMA (`dma.c`, `userspace.c`) | bounce buffers and lists of a request | `DMA`, `DMA_INDIRECT`, `DMA_ATOMIC` | page arithmetic, PRP lists that go on in other lists, failures half way |
| NVMe emulator (`examples/nvme/nvme_card.c`) | registers, queues, phase bits | register writes, doorbells, admin and I/O commands, completions, interrupts | events are handled late, against state that a reset has changed |
| mmap and `GET_BAR_INFO` (`userspace.c`) | none of its own | single reads of BAR state | race with `ADD_BAR` |
| Virtual-root mode (`pciem.c`) | a host bridge | handed to the PCI core | – |
| other examples, ProtoPCIem, module load, build | – | – | – |

How they interact. A driver's access to a traced BAR faults; the tracing hook
emulates it on the shadow mapping and calls the event channel, which fills the
ring and signals the eventfd. The emulator reads the ring and answers with
`INJECT_IRQ` or by writing an irqfd; both end in `pciem_trigger_msi`. `REGISTER`
builds configuration space from the capabilities, takes the BARs' memory into
resources and puts the device on a bus; `START` lets a driver bind. Closing the
last descriptor undoes everything: activation work, irqfds, tracing, interrupt
work, bus, BARs.

What makes each correct: events are handled once, whole and in order, and a
sleeping emulator is woken; an irqfd is freed once, after its last user; the
last injected interrupt arrives and none arrives after removal; tracing is
invisible to the driver and leaves nothing behind; one registration at a time,
the state outlives its descriptors; no page is decoded by two devices; an access
stays in its whitelisted region; every configuration access reaches its owner;
capabilities do not overlap and their views agree; an emulated access is the access the CPU would have made;
a DMA request moves the bytes the driver means and no others; the driver of the
NVMe controller sees each of its commands answered once.

## 2. Modules

| Module | What it models |
|---|---|
| `EventQueue` | abstract: a bounded FIFO that drops only when full |
| `EventRing` | the shared ring, wake-up, `SET_EVENTFD` and the HDA example's loop; refines `EventQueue` |
| `MCEventRing` | `EventRing` for TLC |
| `EventRing_proofs` | theorems about `EventRing` |
| `BochsRing` | the kernel side of `EventRing` with the Bochs example's loop |
| `Irqfd`, `MCIrqfd` | irqfds |
| `Msi` | interrupt injection |
| `Irq_proofs` | theorems about `Irqfd` and `Msi` |
| `SmpTrace` | tracing of one BAR: start, hooks, faults, stop |
| `TraceArch`, `MCTraceArch` | what each architecture does in it: the walks and the emulation of an access |
| `X86Insn` | the x86 decoder, used by `TraceArch` |
| `Trace_proofs` | theorems about `SmpTrace`, `TraceArch` and `X86Insn` |
| `Lifecycle` | an instance from open to the last close |
| `Lifecycle_proofs` | theorems about `Lifecycle` |
| `BarPool`, `MCBarPool` | pool, `ADD_BAR`, resources, cleanup, for several instances |
| `BarPool_proofs` | theorems about `BarPool` |
| `P2P` | the region list and the P2P ioctl |
| `Dma` | the three DMA ioctls |
| `MCAccess` | `P2P` and `Dma`, for TLC |
| `Access_proofs` | theorems about `P2P` and `Dma` |
| `BusHijack` | replacement of `bus->ops` and the proxies |
| `CapList` | offsets, links and walks of the capability lists |
| `CapRegs` | control registers as typed state and as bytes |
| `BarRegs` | the BAR registers and the scans that size them |
| `MCCaps` | `CapList`, `CapRegs`, `BarRegs` and `BusHijack` side by side, for TLC |
| `ConfigSpace_proofs` | theorems about `BusHijack`, `CapList`, `CapRegs` and `BarRegs` |
| `Nvme`, `MCNvme` | the NVMe emulator and the driver it answers |
| `Nvme_proofs` | theorems about `Nvme` |

**EventRing.** `head`, `tail`, `events` are the fields of
`struct pciem_shared_ring`; an event is the number of its call to
`pciem_userspace_queue_event`, a slot that is being copied into holds `Torn`.
A producer goes through `QueueEvent` (the call), `PushFull` or `PushReserve` (lock,
room), `PushCopied`, `PushPublish` (the store of the tail), `Notify` (signal, or
set `event_pending`). `SwapEventfd`, `XchgPending` and `SignalPending` are the three
parts of `SET_EVENTFD` between which others run. `PollRead`, `CheckRing`,
`HandleEvent` and `StoreHead` are the emulator. `accepted`, `handled` and `dropped`
are history. (The nvme and e1000 emulators read the eventfd into four bytes,
which fails, so that they poll without sleeping; they cannot lose a wake-up.)

**Irqfd.** One `SET_IRQFD` call per irqfd, in the steps `GetCtx`, `GetFile`,
`QueueProcLock`, `QueueProcAdd`, `PollCount`, `FdPut`. `GetCtx` and `GetFile` look the fd number up
separately, and userspace may have closed it or pointed it at another eventfd in between, so that
`file` (the eventfd whose wait queue the irqfd joins) is not `trigger` (the one it holds and
whose lock it takes). `corrupt` says that a wait queue was then changed without its lock or
after its end; nothing is modelled behind that. A number that comes to name a file which is no
eventfd is left out. `HupLock`, `HupWakeup` and
`HupUnlock` are the wake-up with EPOLLHUP under the wait queue's lock, which takes
`irqfds->lock` inside. Eventfds, their references and the two workqueues are
external, modelled by how this code uses them.

**Msi.** `Trigger` is `pciem_trigger_msi` up to `atomic_set`, `QueueWork` the
`irq_work_queue`, which does nothing when the work is pending. `WorkStart` clears the
pending bit before `WorkRead` and `WorkDeliver` run the handler, so that a new
queueing during the handler makes another CPU run it again.

**SmpTrace.** `MapShadow`, `Register`, `RegisterFails`: the start. `Ioremap`,
`IoremapUntraced`, `IoremapFails`, `Iounmap` and `Access`: the driver with the hooks.
`EnterBadarea`, `CopyMap`, `Emulate`: the fault handler. `StopIoremap` to
`UnmapShadow`: `smptrace_deactivate`, which drops `ctx->lock` between taking a mapping
off the list (`DelistMap`) and restoring its entries (`RestorePte`). One address
per mapping; instruction decoding and the values read and written are left out.

**TraceArch, X86Insn.** A mapping is made of entries of 4 KiB (`pte`) and of
larger ones (`pmd`, `pud`), scaled to 2, 4 and 8 units. `PoisonX86`,
`PoisonArm64`, `PoisonRiscv` and the three `Restore` actions are one turn of the loops of
`smptrace_arch_poison_pte` and `smptrace_arch_restore_pte`, with what `lookup_address`,
the arm64 walk and the riscv walk find. `Run` is an access of the driver that faults
while all is poisoned: `EmulateX86`, `EmulateArm64` and `EmulateRiscv` decode the
instruction as the code does, carry it out and move the program counter on (`at`). For arm64 and riscv an instruction
is a record of the fields the decoder looks at, the numbers of registers as they lie in the
word (`Arm64Word`, `Bits`), which the decoders take out again; `ZeroReg` is theirs to find. For x86 `Encode` lays out the bytes of an
instruction and `X86Insn` takes them apart again with the stages of
`insn_get_length`, `insn_get_addr_ref` and `insn_decode_mmio`; the reference
(`NativeAddr`, `NativeLoad`, `NativeStore`) is what the manuals say of the instruction, not of
its bytes. The register of the BAR has eight bytes of which the sign is kept,
enough to tell zero from sign extension and one width from another.

**Lifecycle.** Root complexes are numbered as they are allocated; `slot` says which one
a function has, `live` which are allocated. Two descriptors and `refs`; `registered` moves by
`StartRegistration`, `Cancel` and `InitOthers`; `StartDevice`, `WorkStart` and `WorkEnd`
are `START` and its work; `TraceCheck`, `TraceInit` and `TraceOwn` the three parts of `TRACE_BAR`
between which others run; `KrefPut`, `StopTracers`, `CancelWork` and `RemoveAndFree` the destruction.
`strays` has the functions of which an earlier device is on the bus that nothing names any more.
`Careless` lets the emulator make calls in an order the code does not expect.

**BarPool.** Addresses and sizes are in pages. `AddBarCheck` is the part of
`ADD_BAR` before `bars_lock`; `ClearBar`, `CarveFails`, `Carve` and `Store` the part under it, with
the stores of a carved chunk one by one in any order, since no reader holds the lock. `pciem_complete_init`
(`SkipBar`, `TakeBar`, `ReadStart`, `ReadEnd`, `InsertRes`, `InitFails`, `InitDone`) and
`pciem_cleanup_bars` (`DropRes`, `ReadEnd`, `FreeChunk`, `ClearStart`, `ClearEnd`, `CleanDone`) take
each BAR in the steps in which they read and write it. `Chunk` is what a BAR has taken from the pool, while its
fields are being stored or cleared too; `bug` is the `BUG_ON` of `gen_pool_free`, after which nothing is
modelled. `phys_addr`, which is read from `carved_start` once more, is left out.

**P2P.** Addresses are integers modulo `Space`, so sums wrap as
`phys_addr_t` does. `Validate` and `Access` are the two critical sections. `RegisterRegion`
compares its region with none of the list, as the code does; `use.only` records whether the region that an
access took was the only one with its address.

**BusHijack.** A `pci_ops` pointer is `"host"` or the instance whose `proxy_ops` it
points to. `Fetch` is the PCI core's read of `bus->ops`, `Route` the rest of the
access with the proxy's own read.

**Dma.** A request is one record; `DmaCopy`, `Prp1`, `Prp2`, `ReadList` and
`Entry` are the steps that each move one chunk or read one list. `Pages` and
`Copied` are `translate_iova` and the copy of `dma.c`. `MemoryOf` is the list the driver has
laid out and `Meant` the addresses it means by it, from the NVMe rules for
PRPs. Any step may fail: for want of a buffer (`NoMemory`), before a page is touched (`Refused`), after some
pages were written (`WriteCut`), or before the whole chunk has reached the emulator (`ReadCut`), each with
the error that the code returns.

**CapList, CapRegs.** Real offsets and sizes; of a capability's contents
`CapList` keeps type and link, where no capability written later lies over them
(`Whole`), and whether the list pointer was overwritten. In `CapRegs` a register is the set of its bits that
are 1, and bits that behave alike are one.

**BarRegs.** `lay` is what `ADD_BAR` and the pool decided (`size`, the 64-bit flag,
`phys_addr`), `base` is `base_addr_val`. `Prepare` and `BusInitResources` store the
addresses, `SizeRegister` is the PCI core's four accesses to one register (read,
all ones, read, restore), made of `ReadBar` and `WriteBar`; `told` is what the core saw
and `FoundSize` what it concludes (`pci_size`). A virtual root gets its addresses again
after the first scan, a device on a host bus does not, and no device does after a rescan.

**Nvme.** The driver's part (`Disable` to `IsrExit`) is external: what the Linux
driver does to the registers, the queue memory and the doorbells. A write lands in
`bar` at once, which is the shadow mapping, and in `events`, which the emulator
takes in order. `CcWrite`, `AdminRegWrite` and `Doorbell` are the cases of the register
handler; `Execute`, `PostCompletion`, `InjectIrq`, `EndSubmission` the loop over a
submission queue, whose doorbell event stays at the head of the ring until
it ends. Queue memory is known by the number of its allocation, so that an address
kept too long is seen.

## 3. Runs

| Run | Configuration | Shows |
|---|---|---|
| `ring` | `EventRing.cfg` | `HandledSlotIntact`, `NoLostWakeup`, the refinement `ImplementsQueue`, and `AcceptedIsHandled` |
| `set_eventfd_null` | `EventRing_null.cfg` | `NoNullSignal` is violated (section 4) |
| `irqfd` | `Irqfd.cfg` | `NoUseAfterFree`, `NothingLeaked`, `NoLockInversion` |
| `irqfd_live` | `Irqfd_live.cfg` | `WriteIsInjected`, `DestroyEnds` |
| `msi` | `Msi.cfg` | `LatestIsDelivered`, `NoIrqAfterRemoval` |
| `trace` | `SmpTrace.cfg` | `HandlerSafe`, `PoisonedIsHandled` for every driver; `CleanWhenOff` for one that is quiet during the stop |
| `arch` | `TraceArch.cfg` | for each architecture: `EveryAccessFaults`, `EntriesRestored`, and for 498 instructions `AsNative` and `EventsTellAccess` |
| `life` | `Lifecycle.cfg` | `StateOutlivesFds`, `OnBusIffRegistered`, `ActivationHasDevice`, `NothingLeft` |
| `bar` | `BarPool.cfg` | `ChunksDisjoint` and `DecodedStaysReserved` where no `ADD_BAR` runs beside `REGISTER`; for emulators that add each BAR once also `NoLeak` and `RegisteredBarsBacked` |
| `access` | `Access.cfg` | `TransferExact`, `CleanEnd`, `MappedIsTranslated` (DMA); `AccessInside` when none is replaced and one alone has the address, `ValidatedSucceeds` when none is removed (P2P) |
| `caps` | `Caps.cfg` | `ListsSound` (`CapsApart` and `WalkInOrder`) of capabilities that fit, `OrderlyViewsAgree`; `BarsFound` where the registers keep every bit of the address; `OpsRestored`, `ProxySafe`, `Routed` with one instance on the host bus at a time and no access under way while the pointer changes |
| `nvme` | `Nvme.cfg` | `NewEntriesAnswer`, `LoopOnDriversQueue`, and `EverythingEnds` (save for a queue whose last interrupt was lost) |

Beside the runs, these configurations pass and hold what would make a run
longer without another question: `Irqfd_hup.cfg` (`TypeOK`, `HupFrees`: a closed
eventfd frees its irqfd, and the two liveness properties with two eventfds, whose numbers may be re-pointed), `SmpTrace_quiet.cfg` (`TypeOK`, `QuietDriverUndisturbed`, and `StopEnds`),
`Lifecycle_live.cfg` (`OneRegistrar`, `StartActivates`, `DestroyEnds`), `BarPool_wide.cfg` (the run's properties and
`TypeOK` in a larger pool). `EventRing.cfg` also passes with `RingInv`, `Access.cfg` with `RegionsDisjoint`, and
`Caps.cfg` with `EndpointMsi64`, `TableSizeFixed` and the type invariants of its four modules.

Most of the safety properties of these runs are also proved for every value of the
constants; section 5 says which.

Some runs cover two environments at once: a variable that never changes
(`late`, `usage`, `others`) says in which one the behaviour is, and a property that
needs the orderly one says so.

### Bounds

- *Ring*: three slots hold two events, so four events fill the ring, wrap both
  indices and get dropped; two producers and two `SET_EVENTFD` threads are the
  fewest that can meet in the middle of each other's calls.
- *irqfds*: two irqfds on two eventfds, so both on one, one on each, and an irqfd between two
  eventfds occur; the counter of an eventfd is zero or not. For liveness one eventfd, which
  both share, is enough to finish in seconds; `Irqfd_hup.cfg` takes ten minutes with two.
- *Msi*: two callers, two CPUs, three calls, vectors below and beyond the table: the third
  call can come in every phase of the work of the first two.
- *SmpTrace*: two CPUs and two mappings: one faults on a mapping that the other one's
  step concerns, and the stop's loop goes round twice.
- *TraceArch*: mappings of four pages, or of two pages and a `pmd`, or of one `pud`, of full
  length and one unit short; every instruction class with every width, one
  instruction at a time, since an emulation leaves nothing behind but its effect.
  Effective addresses are 10 bits wide, and 6 with the address-size prefix, so that they wrap.
- *Lifecycle*: three threads, functions 0 and 1, one traced BAR.
- *BarPool*: two pages, BARs of one and of two, two instances with two BARs: the pool fills, and pages
  that one instance gives back are taken by the other as a smaller or a larger BAR. `Usages` has
  emulators that add each BAR once, and ones that add it again; both switch BARs off. Those that call `ADD_BAR` while
  `REGISTER` runs are in section 4, since no property holds for them.
  `BarPool_wide.cfg` has four pages from page 3, so that the base is not aligned to
  the larger BAR. The theorems of section 5 hold for every pool.
- *P2P*: six addresses, regions of up to four and transfers of up to three, so
  that regions and accesses reach and pass the end of the address space.
- *Dma*: pages of two list entries, device pages of one or two of them, transfers of up to
  twelve entries from either offset: so transfers of one page, of two, and with a list
  that goes on in three others, ending before, at and after each border.
- *Nvme*: an admin queue of two entries and an I/O queue of three, three
  commands, three allocations of queue memory and two resets: both queues wrap, the I/O queue is
  deleted and created again, and a reset may come between any two steps. Nine
  events in flight are more than the driver ever has. The driver waits for the
  controller to report that it is disabled before it goes on (`Hasty = FALSE`; section 4
  shows the one that does not).
- *BusHijack*: two instances, two CPUs, two slots, one with a real device.
- *CapList*: four capabilities; three PCIe capabilities of 60 bytes fit
  above 0x40 and a fourth does not, so the end of the 256 bytes is reached; three with long vendor data pass
  it, and a fourth is written over the header.
- *CapRegs*: two CPUs, MSI-X and PM; PASID's register behaves like PM's.
- *BarRegs*: three BARs, a pair and the first of another; registers of three bits, so
  that sizes below, at and above "4 GiB" (`Half`) occur with every aligned address.

Symmetry is used for the irqfds and eventfds of `Irqfd.cfg` and the instances of `BarPool`, and nowhere with
liveness. `CHECK_DEADLOCK FALSE` stands where an instance, a device or a stop
really ends.

### Fairness

Weak fairness, and only of what the kernel schedules by itself: a call that has
begun (none of the modelled steps sleeps for ever), workqueues and `irq_work`,
RCU grace periods, a destruction that has begun; for the ring also the emulator's
event thread, which sleeps in `poll` and does nothing else, and for `Nvme` the
emulator's loop. Nothing says that an interrupt of `Nvme` is not lost: `lost` has the queues whose last one was. The driver of `Nvme` owes what it has begun: the doorbell
for what it queued, its interrupt handler, the end of a reset or a shutdown. No
driver, emulator or user owes another call, write or close.

## 4. What the code does otherwise than it says

One disagreement is a run of the project: `pciem_ioctl_set_eventfd` with `fd < 0` and an event
pending signals NULL (`kernel/framework/userspace.c:1031`); the comment there has only
events from before an eventfd was registered in mind.

For each of the following configurations TLC reports a violation of the named
property. They are kept beside the runs, or are a run's with another value of a
constant and the property as its only one, and mark the limits of the passing runs.

| Configuration (module) | Property | What happens |
|---|---|---|
| `BochsRing.cfg` (`BochsRing`) | `HandledInOrder` | `examples/bochs_bga/bochs_card.c:241` stores a head that it does not reduce; after the first wrap it handles old slots |
| `Irqfd_bug.cfg` (`MCIrqfd`) | `NoBug` | an irqfd written before the driver has an interrupt reaches `BUG()` (`userspace.c:1051`); `INJECT_IRQ` returns an error there |
| `Irqfd.cfg` (`MCIrqfd`) | `WaitQueuesSound` | a `dup2` between the two lookups of `SET_IRQFD` (`userspace.c:1116`, `:1122`): the irqfd is linked into the wait queue of an eventfd that it holds no reference to, and its shutdown work unlinks it under the other eventfd's lock (`:198`), after the queue may have been freed |
| `Msi.cfg` (`Msi`) | `EveryVectorDelivered` | two vectors injected before the `irq_work` runs: the first is lost (`pciem.c:218`) |
| `SmpTrace.cfg` with `LateDriver = {TRUE}` | `NoUnhandledFault` | `smptrace_deactivate` takes a mapping off the list before it restores its entries (`smptrace.c:259`), with the driver still bound: an access in between is a kernel fault that nobody handles, although the comment above says that entries are unpoisoned "so that we stop hitting #PF" |
| `SmpTrace.cfg` with `LateDriver = {TRUE}` | `NoStalePte` | an `iounmap` after its hook is gone: the stop writes entries into a range that was given back (`smptrace.c:254`) |
| `Lifecycle_kref.cfg` (`Lifecycle`) | `StateOutlivesFds` | `REGISTER` installs the descriptor before it takes its reference (`userspace.c:768`); a close in between frees the state |
| `Lifecycle_multi.cfg` (`Lifecycle`) | `RegisterSucceeds` | a slot with several functions cannot be registered (`pciem.c:892`), although `include/pciem_api.h:35` describes it |
| `Lifecycle_multi.cfg` (`Lifecycle`) | `NoStray` | such a `REGISTER` repeated builds function 0 a second time over the first (`pciem.c:842`, `:945`, `:966`): `shared_bridge_pdev` and `pciem_pdev` are overwritten, and what they named is never removed; in `ATTACH_TO_HOST` mode its own proxy becomes `original_ops` (`:884`) |
| `Lifecycle_create.cfg` (`Lifecycle`) | `NothingLeft` | two `CREATE_DEVICE` calls for one function both find it free (`userspace.c:507`): the first root complex is never freed |
| `Lifecycle_trace.cfg` (`Lifecycle`) | `NothingLeft` | two `TRACE_BAR` calls for one BAR: the second resets a tracer whose probes are registered (`userspace.c:1393`) |
| `Lifecycle_trace.cfg` with `Careless = {"early"}` | `NoNullLock` | `TRACE_BAR` before function 0 exists takes a lock through NULL (`userspace.c:1370`) |
| `BarPool_wide.cfg` (`MCBarPool`) with `Usages = {{"again", "late"}}` | `DecodedReserved` | `ADD_BAR` past its check while `REGISTER` runs and fails: `pciem_cleanup_bar` reads `carved_start` and `carved_end` without `bars_lock` (`pciem.c:317`), finds what the call is storing, and frees the chunk that the call believes it has |
| `BarPool.cfg` (`MCBarPool`) with `Usages = {{"late"}}` | `NeverBug` | ... or finds a `carved_start` whose `carved_end` is not stored yet: the length of the pair is negative, and `gen_pool_free` clears bits that are not its own or stops at `BUG_ON` |
| `TraceArch.cfg` with `Layouts <- MCHugeLayouts` | `EntriesRestored` | arm64: a huge entry that was cleared is not found again (`arm64/smptrace_arch.c:168`, "Restore the PTEs corresponding to the given VA range"); riscv is alike |
| `TraceArch.cfg` with `Mappings <- Unaligned` | `EveryAccessFaults` | a range that begins inside a page: its last page is not poisoned (`x86/smptrace_arch.c:53` and the others) |
| `TraceArch.cfg` with `Insns <- MCLeftOut` | `AsNative` | a 32-bit `MOVZX` or `MOVSX` leaves the upper half of its register; a 64-bit store of an immediate reaches `BUG_ON`; `C.LW` and `C.LWSP` are not sign-extended; a write-back to the stack pointer is left out (`arm64/smptrace_arch.c:375`); a byte store from AH..BH takes SP..DI; three prefixes with the segment last count the override twice, the address becomes -1 and reaches `BUG_ON` |
| `TraceArch.cfg` with `Insns <- MCSignExtend`, `Volatile = {TRUE}` | `AsNative` | a sign-extending load reads the register twice (`x86/smptrace_arch.c:245`): half of its result may be of another value |
| `Access.cfg` with `Funcs = {"ours", "none"}` | `CleanEnd` | `-ENODEV` returns with the buffers allocated (`userspace.c:833`, `:1205`) |
| `Access.cfg` with `Iommus <- MCIdentity` | `MappedIsTranslated` | a page at physical address 0 counts as not mapped (`dma.c:76`) |
| `Access.cfg` | `AtomicReturnsOld` | a refused atomic operation is reported as done, with 0 as the old value (`dma.c:194`) |
| `P2P_swap.cfg` (`P2P`) | `SoleAccessInside` | a region replaced by a shorter one between validation and access (`p2p.c:341`) |
| `P2P_swap.cfg` with `Others = {{"add"}}` | `EveryAccessInside` | `pciem_p2p_register_region` accepts a region that overlaps others (`p2p.c:204`): an access validated against the longer one (`:302`) is carried out in the shorter one before it (`:259`), past the end of its mapping |
| `Caps.cfg` (`MCCaps`) with `Quiet = FALSE` | `ProxySafe` | `bus->ops` changes between the PCI core's read and the proxy's (`pciem.c:619`) |
| `Caps.cfg` with `Overlap = TRUE`, `Slots = {1, 2, 3}` | `OpsRestored` | two instances leave first in, first out (`pciem.c:1134`) |
| `Caps.cfg` | `ListsAsAdded` | nothing asks whether the capabilities fit (`capabilities.c:200`, `:290`): `next_offset` wraps, and `REGISTER` builds the list over the header and over itself, or past `cfg` into `ext_cfg` (`:398`) |
| `CapRegs_smp.cfg` with `CfgCpus = {c1}`, `Kinds = {"MSI"}`, `Usages = {{}}` | `FormatShown` | the first 16-bit read of MSI control shows no 64-bit format (`capabilities.c:198`) |
| `CapRegs_smp.cfg` with `CfgCpus = {c1}`, `Kinds = {"MSIX", "PM"}`, `Usages = {{"sizes"}}` | `ViewsAgree` | a write of one or four bytes misses the typed register (`capabilities.c:720`) |
| `CapRegs_smp.cfg` (`CapRegs`) | `ViewsAgree` | two CPUs leave different values in the two copies (`capabilities.c:836`) |
| `Nvme.cfg` | `AllAnswered` | the argument of `INJECT_IRQ` has no function number (`nvme_card.c:1007`, `:1036`); a call that fails is only logged, and without another interrupt of the queue its completion is never taken |
| `Nvme.cfg` with `Hasty = TRUE` | `LoopOnDriversQueue` | a driver that gives up the wait for RDY and resets again: the emulator has still to take the earlier "enable", sets RDY to 0 and 1 behind the driver's back (`examples/nvme/nvme_card.c`, `nvme_handle_register_write`), and works on queues that the driver has given up |
| `BarRegs_high.cfg` (`BarRegs`) | `BarsFound` | the upper half of a 64-bit BAR below 4 GiB in size keeps no bit: a scan clears the upper half of its address (`pciem.c:482`); on a virtual root a rescan does |
| `BarRegs_high.cfg` with `Layouts = {{"top"}}` | `BarsFound` | a 64-bit BAR that ends at 4 GiB: its upper half reads 0 under all ones, and `pci_size` takes it for a register that ignores writes |
| `BarRegs_high.cfg` with `Layouts = {{"odd"}}` | `BarsFound` | a 64-bit BAR of odd index has no upper half (`pciem.c:337`) |
| `BarRegs_high.cfg` with `Layouts = {{"narrow"}}` | `BarsFound` | a 32-bit BAR in a pool above 4 GiB loses the upper half of its address (`pciem.c:1029`); takes TLC some minutes |

## 5. Proofs

`EventRing_proofs`, for every ring size of at least 2, every number of events, producers, setters and
eventfds:

- `TypeCorrect`: the type invariant; both indices stay below `RingSize`.
- `RingInvariant`: `RingInv` is an invariant. It is what makes the rest inductive: the lock's holder
  is the only one between room and publication, the room it found stays, and
  the slots from head to tail hold exactly the events accepted and not
  handled, in order. `HandledSlotIntact` alone is not inductive, for it says
  nothing of the slots behind the first.
- `SlotIntact`: a handler's slot is never torn or replaced.
- `Refinement`: `Spec => ImplementsQueue`, with `RingInv` in both states of a step:
  `PushPublish` is the queue's `Accept`, `PushFull` its `Drop`, `StoreHead` its `Take`, and every
  other step a stutter.
- `WakeupSafe`: `NoLostWakeup` and `NoNullSignal` when `SET_EVENTFD` is called with
  eventfds only, by `SetterInv`. Section 4 shows why the hypothesis is needed.

`BarPool_proofs`, for every pool above page 0, every set of sizes, instances,
BARs, threads and usages. `PoolTypeCorrect` holds for all of them. Where `ADD_BAR` and `REGISTER` of one
instance do not overlap: `PoolDisjoint` (chunks are aligned, inside the pool and disjoint) and `PoolReserved` (what a
registered device decodes stays reserved and its own, and only taken pages are given back). The
condition is what the unlocked accesses need: `QuietInv` says that no call stores into a BAR of an
instance that has left `UNREGISTERED`, so `carved_start` and `carved_end` are a pair (`PairInv`) and what a loop has read of
them is still so when it uses it (`LoopInv`). The properties need each other: a
chunk comes from free pages, which are clear of all chunks and resources only because those are marked, and giving
one back leaves the others marked only because they are clear of it. `PoolNoLeak` and `PoolBacked` prove the run's
other two properties, whose conditions they carry in `usage`: `LeakParts` adds that no page is marked but by a chunk, which needs
that no two `ADD_BAR` calls are about one BAR, and `BackParts` that registration has given a resource to each BAR it is
done with.

`Lifecycle_proofs`, for every number of threads and functions and every run of failures, for an emulator
that makes its calls in order (`Careless = {}`; section 4 shows what becomes of the
others): `StateSafe`, `BusSafe`, `WorkSafe` and `DestroySafe`, the four properties of the run
`life`. The inductive invariant `IInv` has a part for each resource. `FdInv` counts the
references, with the instance fd's taken one step after the fd is open; `RegInv` says that the thread in
`REGISTER` agrees with `registered`; `SlotInv` that what is allocated is what is in the
slot, which needs that a function being created is still free; `BusInv` that function 0
is built, on the bus and active in this order, and that a device without a name takes a second function; `TraceInv` that armed probes have an
owner or a thread about to be set as one. `StateOutlivesFds` is what the others need
most: no ioctl runs once the destruction has begun.

`Irq_proofs` has two parts. Irqfd, for every finite set of irqfds and every set of eventfds: `TypeCorrect`,
`ReachedIsAllocated` (`NoUseAfterFree`), `FreedIsEmpty` (`NothingLeaked`) and
`LockOrdersNeverMeet` (`NoLockInversion`). `CtxInv` and `FileInv` count references: a context has one
for its eventfd and one per allocated irqfd, a file one for its descriptor and one per `SET_IRQFD`
call that has it. `LifeInv` follows an irqfd, which is on the list from `QueueProcAdd` until its
shutdown work is queued. `ReachInv` says who can reach it: the wait queue until
`RemoveWait`, the inject work until `FlushInject`, both before `FreeIrqfd`. All of it holds for
numbers that name two eventfds as well, up to the step that corrupts a wait queue, and `CorruptInv`
says that only an irqfd whose two lookups differ takes that step. The two lock orders are
harmless because a HUP comes from the last put of the file, and a call that holds
`irqfds->lock` holds the file too: `FileInv` is what that takes. That the
set is finite is a hypothesis of the proof alone, since `Cardinality` means nothing without it.

Msi, for every number of callers, CPUs, calls and vectors: `NoWorkOnRemoved`
(`NoIrqAfterRemoval`) and `LatestIsAwaited`, the safety half of `LatestIsDelivered`: as
long as an accepted interrupt is in `pending_msi_irq`, a caller is about to queue the work, or
the work is pending, or a handler has yet to read. It stays so because the work clears its pending bit before it
reads. That the awaited step comes is a matter of fairness, and TLC's.

`Trace_proofs` has two parts. SmpTrace, for every number of CPUs and mappings: `HandlerFindsAll` (`HandlerSafe`),
`PoisonHasItsHook` (`PoisonedIsHandled`), `OffIsClean` (`CleanWhenOff`) and `QuietDriverSafe`. `CtlInv` ties
the hooks and the shadow mapping to the place where the start or the stop is; `MapInv` says that only the
listed mappings, and the one the stop works on, are poisoned; `CpuInv` that a handler runs only while
mappings may be listed, which holds because unhooking `badarea` waits for the handlers; `DriverInv` and `QuietInv`
hold for a driver that is quiet during the stop, and section 4 shows the other.

TraceArch and X86Insn, for all page tables, mappings and instructions that the constants may name:

- The walks: `EveryAccessFaultsHolds` (`EveryAccessFaults`) where a mapping starts at an entry
  (`StartsEntry`), and `EntriesAreRestored` (`EntriesRestored`) where huge entries are used on x86 only
  (`LargeOnX86`); section 4 shows both exceptions. `WalkInv` says that the walk stands at the start of an entry or at the end
  (`AtEntry`), and that what is saved, and poisoned, is exactly the entries of the mapping the walk has passed (`Table`).
  The restoring walk has to look up an entry that its predecessor has made unreadable, and its step is as
  long as what it finds: it meets the same entries only because a poisoned entry is found again, which is what fails for
  huge entries on arm64 and riscv.
- The decoder: `RegularDecodes`. `Encode` lays out the bytes of an instruction and `Decode` takes them apart;
  of every `Regular` instruction it recovers the kind of access, its size, the data register, the address and the length,
  whatever the registers hold. One lemma for each stage (`AfterPrefixes` to `AfterDisplacement`)
  says where in the bytes it is and what it knows by then; `Lies` places the parts of the encoding, and
  `EffectiveRight` and `SegmentRight` show that the registers, the scale and the segment are those of the operands.
  An instruction is regular with at most one segment override, not with three prefixes, and with a data register that is
  not AH to BH; section 4 has what becomes of the others.
- The emulation: `EventsTell` (`EventsTellAccess`) where the x86 instructions are regular, and
  `EmulatedAsNative` (`AsNative`) without the deviations that `NoDeviation` names and section 4 shows: the
  register changed under a sign-extending load, `MOV` of a 64-bit immediate, 32-bit `MOVZX` and `MOVSX`, write-back to the
  stack pointer, `C.LW` and `C.LWSP`. Their invariant is the properties' own, since one emulation starts from
  a known state; the work is in the widths and the registers, one lemma for each architecture
  (`X86Fault`, `Arm64Fault`, `RiscvFault`); `RiscvRegs` finds the data register in each form of instruction.

TLC checks that the constants of the run meet these conditions (`ConditionsMet` in `MCTraceArch`).

`Access_proofs` has two parts. P2P, for every address space, list of regions and access:
`NoAddressTwice` (`RegionsDisjoint`) when other kernel code adds no region, `SecondLookupSucceeds`
(`ValidatedSucceeds`) when none is removed, and `AccessStaysInside` (`AccessInside`): when regions are only added, overlapping
ones included, or only removed, an access carried out in the only region with its address stays inside it
(section 4 shows the two conditions are needed). `ReqInv` carries the validation over to the access. While none is
removed, one region that holds the whole access stays on the list; so if only one holds its first
address, it is that one. While none is added, every region with the first address holds the whole access,
because there is only one.

DMA, for all pages, lists and lengths: `RequestsEndClean` (`CleanEnd`) where the functions named exist
(`FuncsExist`), from `BufsInv`, since buffers are freed on every way out of each stage, and from `MoveInv` below, which says how much
has been moved; `OnlyUnmappedRefused` (`MappedIsTranslated`) where no page has the physical address 0 (`ZeroIsUnmapped`), by the lemmas on page
arithmetic: each page of a range holds one of its addresses, and each address lies in one of its
pages. Section 4 has both exceptions.

`TransfersAreExact` (`TransferExact`) holds without either condition, for page sizes that are multiples of the kernel's page
and lists in pages of their own (`DmaAssumption`, `ListsAssumption`). What is moved is a fold over chunks,
what is meant a sequence over bytes, and what the driver lays out a fold over the data pages.
Each of the three is described by a closed formula (`ChunkIs`, `SlotIs`, `Ahead`) and the formula is shown to go on from each turn
to the next, from which it holds for every number of turns because a set of numbers has a least element
(`LeastNumber`). `MoveInv` then says of each stage that what has been moved is what is meant up to the page the stage is at, and that the
place in the list being read (`Cursor`) is the one where the driver has put that page's address, through any number of
lists that name the next in their last entry.

`ConfigSpace_proofs` has four parts.

- Routing, for every number of instances, CPUs and slots. `PointerPutBack` (`OpsRestored`) for one
  instance at a time on a host bus (`~Overlap`), and with no access under way while the pointer changes
  (`Quiet`) also `ProxyFindsInstance` (`ProxySafe`) and `AccessesRouted` (the action property `Routed`). An
  access that was fetched from a pointer finds it still there (`AccInv`).
- Capability lists, for any additions in any order whose sizes fit above the header (`Fits`; those that do not are
  in section 4), with the real sizes and an 8-bit `next_offset`:
  `EachItsRegisters` (`CapsApart`), `EndpointsUseMsi64`, and `ListsAreSound` (`ListsSound`) when vendor
  capabilities have lengths of multiples of four, as PCI wants them and `ADD_CAPABILITY` does not ask. While
  the sum of the sizes fits, `next_offset` has not wrapped (`StdInv`), and no capability is written over (`FitsWhole`); the links lead
  from each capability to the next of its kind (`LinkInv`), so that a walk is always at the end of the capabilities it
  has met (`WalkInv`).
- Control registers, for any CPUs and capabilities: `TableSizeStays`, and `RegistersReadAlike`
  (`OrderlyViewsAgree`) for 16-bit accesses one at a time on a device without MSI, whose two views differ
  from the start (section 4). A write that waits for its write-back holds the typed state (`OrderlyInv`).
- BAR registers: `ScansFindTheBars` (`BarsFound`), for every number of BARs, sizes that are
  powers of two, addresses that the pool may give and writes of the host, when the registers keep every bit of the
  address (`Layouts \subseteq {{}}`; section 4 lists the others). At any time the core holds of each register what it
  read before and after all ones; what `pci_size` concludes from that is arithmetic about masks, done
  in `OneRegister` and `TwoRegisters` for both halves of a 64-bit BAR.

`Nvme_proofs`, for every depth of the queues, every number of sectors, commands and resets, and every room in
the ring, for a driver that does not clear `CC.EN` between setting it and seeing RDY (`~Hasty`; section 4 shows
what becomes of the others): `LoopOnDriversQueueHolds` (`LoopOnDriversQueue`) and `NewEntriesAnswerHolds`
(`NewEntriesAnswer`), both from `InStepAlways`. Its invariant has two halves.

- One queue. `InStep` counts: the commands outstanding are those answered and not taken yet, between the driver's
  head and the emulator's tail of the completion queue; the one being completed; and those between the emulator's
  head and the driver's tail of the submission queue. `Posted` says that the first ones have their answers in the queue with
  the phase that makes them new, and that no other entry has it, which survives a wrap because fewer commands are
  outstanding than the queue has entries. `Chain` says that the doorbells under way are further and further on, so that
  each finds its loop's end inside what the driver has queued. That a free tag always exists (`FreeTagIsFree`) is a
  count of fewer commands than tags.
- The controller. Enabled, it is at one of the driver's stages (`Stage`): the admin queue in step; the I/O queue not
  made, half made, in step or deleted, by the last admin command and whether the emulator has executed it. A
  driver that has begun a reset or a shutdown leaves the stage as it was until the event is taken (`Where`), and the
  answers it still takes lead on to the next. Disabled (`OffInv`), the events under way are what remains of
  the driver's script (disable, AQA, ASQ, ACQ, enable): what the emulator has taken has reset
  it, and the BAR holds what "enable" will read. This is the part a hasty driver breaks: its second "disable" and "enable"
  are taken with the queue memory given up.

The assumptions on the constants are those named in the modules (`RingSizeAssumption`,
`BaseAssumption`, `LayoutsAssumption`, ...); TLC evaluates them in every run.

Only model-checked:

- All liveness and everything under fairness, which the prover does not handle: `AcceptedIsHandled`,
  `WriteIsInjected`, `DestroyEnds`, `LatestIsDelivered`, `EverythingEnds`, and those of the other configurations.
- The x86 instructions that are not `Regular`, and everything under the conditions named above and not met: there
  the properties fail, and section 4 has the counterexamples.
- `Nvme` with a hasty driver, whose property fails, and `EverythingEnds`.

## 6. Not modelled

- The P2P manager of a failed initialisation, which the next one replaces (`pciem.c:974`): planned.
- mmap and `GET_BAR_INFO`: single reads of state that `BarPool` describes.
- Virtual-root mode: a scan handed to the PCI core.
- Of the decoder: the generated opcode tables (their attributes are given for the opcodes
  tracing sees), VEX, EVEX and XOP prefixes, 16-bit addressing, descriptor tables.
- The HDA, Bochs and e1000 devices behind their event loops, and ProtoPCIem,
  which relays to QEMU over a socket.
- Module load, build files, the smoke test.
- Memory ordering below sequential consistency: head and tail are accessed with
  acquire and release, and the models interleave whole accesses.
- The order of two CPUs' accesses to one traced register against that of their
  events: `SmpTrace` has no contents, `TraceArch` one access at a time.

## 7. Plan

Done: `EventQueue`/`EventRing`, `Irqfd`, `Msi`, `SmpTrace`, `Lifecycle` with `TRACE_BAR`, `BarPool`, `P2P`, `Dma`,
`BusHijack`, `CapList`, `CapRegs`, `BarRegs`, `Nvme`, `TraceArch`, `X86Insn`, all with proofs of every
invariant the runs check.

Next, in this order:

1. ProtoPCIem: the relay's requests and answers over its socket.
2. `BarPool` with mmap and `GET_BAR_INFO`.
3. Proofs: `RegularDecodes` for instructions with several prefixes, and the invariants of the
   configurations without a run.
