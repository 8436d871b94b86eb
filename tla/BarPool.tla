------------------------------ MODULE BarPool ------------------------------
(***************************************************************************)
(* The physical memory behind the BARs: the pool reserved at module load   *)
(* (pool.c), the chunks ADD_BAR takes from it (pciem_register_bar), the    *)
(* resources REGISTER inserts for them (pciem_complete_init) and their     *)
(* return (pciem_cleanup_bars), for several instances that share the pool. *)
(*                                                                         *)
(* Addresses and sizes are counted in pages, the granule of the pool. An   *)
(* instance has one function, and no BAR is the upper half of a 64-bit     *)
(* one. ADD_BAR checks the registration state before it takes bars_lock,   *)
(* so REGISTER may begin between its check and its effect; REGISTER and    *)
(* the cleanup take no lock, so each of their reads and writes of a BAR is *)
(* a step, and so is each store of ADD_BAR, in any order.                  *)
(***************************************************************************)
EXTENDS Naturals

CONSTANTS
    Base,        \* first page of the pool
    PoolPages,   \* its size, a power of two
    Sizes,       \* BAR sizes used, in pages, all powers of two; may hold 0
    Insts,       \* open instances
    Bars,        \* BAR indices
    Threads,     \* threads that call ADD_BAR
    Usages,      \* ways in which emulators use ADD_BAR, each a set of
                 \* "again": also for a BAR that was added before
                 \* "late": also while REGISTER is called
                 \* "off": also with size 0
    None

ASSUME BaseAssumption == Base \in Nat \ {0} /\ PoolPages \in Nat
ASSUME SizesAssumption == Sizes \subseteq Nat
ASSUME BarsAssumption == Bars \subseteq Nat
ASSUME UsageAssumption == Usages \subseteq SUBSET {"again", "late", "off"}

VARIABLES
    used,         \* pages marked in the bitmap of the pool
    size,         \* bars[b].size, per <<instance, BAR>>
    start, end,   \* bars[b].carved_start (0: none) and .carved_end
    res,          \* bars[b].allocated_res: the pages claimed, {} when NULL
    reg,          \* per instance: us->registered; "UNDOING" in the cleanup
                  \* of a failed REGISTER, "CLOSING" in that of the last
                  \* close, "gone" when destroyed
    done,         \* per instance: BARs that the running loop is through with
    pc,           \* per instance: where the loop is in the next BAR
    first, last,  \* per instance: carved_start and carved_end as read there
    call, want,   \* per thread: the BAR and the size of its ADD_BAR call
                  \* when it is past its check, or None
    got, left,    \* per thread: the chunk just carved, and which fields of
                  \* the BAR are still to be stored, bars_lock held
    bug,          \* gen_pool_free met a page that is not taken: BUG_ON
    usage         \* of Usages; it never changes

bars == <<used, size, start, end, res>>
loops == <<reg, done, pc, first, last>>
calls == <<call, want, got, left>>
vars == <<bars, loops, calls, bug, usage>>

Slots == Insts \X Bars
Span(a, n) == a .. (a + n - 1)
PoolSpan == Span(Base, PoolPages)

ASSUME NoneAssumption == None \notin Slots

(* The ADD_BAR call that is storing into a BAR: it holds bars_lock. *)
Storers(s) == {t \in Threads : call[t] = s /\ left[t] # {}}

(* The chunk of a BAR has been given back; its fields are being cleared. *)
GivenBack(s) ==
    /\ pc[s[1]] \in {"freed", "zeroed"}
    /\ s[2] \notin done[s[1]] /\ \A b \in Bars : b < s[2] => b \in done[s[1]]

(* The pages a BAR has taken from the pool. *)
Chunk(s) ==
    IF Storers(s) # {} THEN UNION {Span(got[t], want[t]) : t \in Storers(s)}
    ELSE IF GivenBack(s) \/ start[s] = 0 THEN {}
    ELSE start[s] .. end[s]

Init ==
    /\ used = {}
    /\ size = [s \in Slots |-> 0]
    /\ start = [s \in Slots |-> 0]
    /\ end = [s \in Slots |-> 0]
    /\ res = [s \in Slots |-> {}]
    /\ reg = [i \in Insts |-> "UNREGISTERED"]
    /\ done = [i \in Insts |-> {}]
    /\ pc = [i \in Insts |-> "bar"]
    /\ first = [i \in Insts |-> 0]
    /\ last = [i \in Insts |-> 0]
    /\ call = [t \in Threads |-> None]
    /\ want = [t \in Threads |-> 0]
    /\ got = [t \in Threads |-> 0]
    /\ left = [t \in Threads |-> {}]
    /\ bug = FALSE
    /\ usage \in Usages

-----------------------------------------------------------------------------
(* Mutant: the free run is not checked to its end. *)
FitsFirstPage(n) ==
    {a \in PoolSpan :
        a % n = 0 /\ Span(a, n) \subseteq PoolSpan /\ a \notin used}

(* pciem_first_fit_align: the aligned runs of n free pages ... *)
Fits(n) ==
    {a \in PoolSpan :
        a % n = 0 /\ Span(a, n) \subseteq PoolSpan /\ Span(a, n) \cap used = {}}

(* ... and the first of them. *)
FirstFit(n) == {a \in Fits(n) : \A b \in Fits(n) : a <= b}

(* pciem_ioctl_add_bar up to its check. *)
AddBarCheck(t, s, n) ==
    /\ call[t] = None
    /\ reg[s[1]] = "UNREGISTERED"
    /\ n = 0 => "off" \in usage
    /\ "again" \in usage \/ (start[s] = 0 /\ \A u \in Threads : call[u] # s)
    /\ call' = [call EXCEPT ![t] = s]
    /\ want' = [want EXCEPT ![t] = n]
    /\ UNCHANGED <<bars, loops, got, left>>

(* An ADD_BAR call is past its check; it returns. *)
Adding(t) == call[t] # None
Return(t) ==
    /\ call' = [call EXCEPT ![t] = None]
    /\ want' = [want EXCEPT ![t] = 0]
    /\ got' = [got EXCEPT ![t] = 0]
    /\ left' = [left EXCEPT ![t] = {}]

(* No ADD_BAR call of the instance is running. *)
Idle(i) == \A t \in Threads : Adding(t) => call[t][1] # i

(* pciem_register_bar begins: it takes bars_lock. *)
Locks(t) ==
    /\ Adding(t) /\ left[t] = {}
    /\ \A u \in Threads : call[u] # None /\ left[u] # {} => call[u][1] # call[t][1]

(* ... with size 0: the BAR is off, its chunk stays. *)
ClearBar(t) ==
    /\ Locks(t) /\ want[t] = 0
    /\ size' = [size EXCEPT ![call[t]] = 0]
    /\ Return(t)
    /\ UNCHANGED <<used, start, end, res, loops>>

(* ... with a size: a chunk is carved; a chunk the BAR had is forgotten. *)
Carve(t) ==
    /\ Locks(t) /\ want[t] # 0
    /\ \E a \in FirstFit(want[t]) :
          /\ used' = used \cup Span(a, want[t])
          /\ got' = [got EXCEPT ![t] = a]
    /\ left' = [left EXCEPT ![t] = {"size", "start", "end"}]
    /\ UNCHANGED <<size, start, end, res, loops, call, want>>

(* ... and no room: -ENOMEM. *)
CarveFails(t) ==
    /\ Locks(t) /\ want[t] # 0
    /\ Fits(want[t]) = {}
    /\ Return(t)
    /\ UNCHANGED <<bars, loops>>

(* The stores of size, carved_start and carved_end: nothing orders them for *)
(* a reader without the lock. *)
Store(t, f) ==
    /\ f \in left[t]
    /\ size' = IF f = "size" THEN [size EXCEPT ![call[t]] = want[t]] ELSE size
    /\ start' = IF f = "start" THEN [start EXCEPT ![call[t]] = got[t]] ELSE start
    /\ end' = IF f = "end" THEN [end EXCEPT ![call[t]] = got[t] + want[t] - 1] ELSE end
    /\ IF left[t] = {f} THEN Return(t)
       ELSE left' = [left EXCEPT ![t] = @ \ {f}] /\ UNCHANGED <<call, want, got>>
    /\ UNCHANGED <<used, res, loops>>

-----------------------------------------------------------------------------
(* The loops over the BARs: of pciem_complete_init while "REGISTERING", of  *)
(* pciem_cleanup_bars while "UNDOING" or "CLOSING".                         *)
Turn(i, b) == b \notin done[i] /\ \A c \in Bars : c < b => c \in done[i]

(* To the next point of the same BAR; to the next BAR; into a new loop. *)
Goto(i, l) == pc' = [pc EXCEPT ![i] = l] /\ UNCHANGED <<reg, done>>
NextBar(i, b) ==
    /\ done' = [done EXCEPT ![i] = @ \cup {b}]
    /\ pc' = [pc EXCEPT ![i] = "bar"]
    /\ first' = [first EXCEPT ![i] = 0]
    /\ last' = [last EXCEPT ![i] = 0]
    /\ UNCHANGED reg
Enter(i, r) ==
    /\ reg' = [reg EXCEPT ![i] = r]
    /\ done' = [done EXCEPT ![i] = {}]
    /\ pc' = [pc EXCEPT ![i] = "bar"]
    /\ first' = [first EXCEPT ![i] = 0]
    /\ last' = [last EXCEPT ![i] = 0]

(* REGISTER: pciem_start_registration. *)
Register(i) ==
    /\ reg[i] = "UNREGISTERED"
    /\ "late" \in usage \/ Idle(i)
    /\ Enter(i, "REGISTERING")
    /\ UNCHANGED <<bars, calls, bug>>

(* pciem_complete_init: a BAR without size is passed over ... *)
SkipBar(i, b) ==
    /\ reg[i] = "REGISTERING" /\ pc[i] = "bar" /\ Turn(i, b)
    /\ size[<<i, b>>] = 0
    /\ NextBar(i, b)
    /\ UNCHANGED <<bars, calls, bug>>

(* ... one with a size gets a resource, ... *)
TakeBar(i, b) ==
    /\ reg[i] = "REGISTERING" /\ pc[i] = "bar" /\ Turn(i, b)
    /\ size[<<i, b>>] # 0
    /\ Goto(i, "taken")
    /\ UNCHANGED <<bars, first, last, calls, bug>>

(* ... which starts at carved_start. (It is tested a little before; ADD_BAR *)
(* changes it to other addresses only, so one step does for both.) ...      *)
ReadStart(i, b) ==
    /\ pc[i] = "taken" /\ Turn(i, b)
    /\ start[<<i, b>>] # 0
    /\ first' = [first EXCEPT ![i] = start[<<i, b>>]]
    /\ Goto(i, "start")
    /\ UNCHANGED <<bars, last, calls, bug>>

(* ... and ends at carved_end, here and in pciem_cleanup_bar. *)
ReadEnd(i, b) ==
    /\ pc[i] = "start" /\ Turn(i, b)
    /\ last' = [last EXCEPT ![i] = end[<<i, b>>]]
    /\ Goto(i, "end")
    /\ UNCHANGED <<bars, first, calls, bug>>

(* insert_resource takes pages of the pool that cut across no resource. *)
Insertable(p) ==
    /\ p # {} /\ p \subseteq PoolSpan
    /\ \A s \in Slots :
          p \cap res[s] = {} \/ p \subseteq res[s] \/ res[s] \subseteq p

(* pciem_pool_insert. (phys_addr is then read from carved_start again.) *)
InsertRes(i, b) ==
    /\ reg[i] = "REGISTERING" /\ pc[i] = "end" /\ Turn(i, b)
    /\ Insertable(first[i] .. last[i])
    /\ res' = [res EXCEPT ![<<i, b>>] = first[i] .. last[i]]
    /\ NextBar(i, b)
    /\ UNCHANGED <<used, size, start, end, calls, bug>>

(* Initialisation fails: a BAR has no memory, an allocation, the pool or    *)
(* the bus refuses; pciem_cleanup_bars begins.                              *)
InitFails(i) ==
    /\ reg[i] = "REGISTERING"
    /\ Enter(i, "UNDOING")
    /\ UNCHANGED <<bars, calls, bug>>

(* Mutant: the bus is set up although a BAR is left. *)
InitDoneEarly(i) ==
    /\ reg[i] = "REGISTERING"
    /\ Enter(i, "REGISTERED")
    /\ UNCHANGED <<bars, calls, bug>>

(* All BARs are prepared and the device is on the bus. *)
InitDone(i) ==
    /\ reg[i] = "REGISTERING" /\ done[i] = Bars
    /\ Enter(i, "REGISTERED")
    /\ UNCHANGED <<bars, calls, bug>>

(* The last fd is closed (no ioctl runs): pciem_teardown_device comes to    *)
(* pciem_cleanup_bars.                                                      *)
Teardown(i) ==
    /\ reg[i] \in {"UNREGISTERED", "REGISTERED"}
    /\ Idle(i)
    /\ Enter(i, "CLOSING")
    /\ UNCHANGED <<bars, calls, bug>>

-----------------------------------------------------------------------------
Cleaning(i) == reg[i] \in {"UNDOING", "CLOSING"}

(* Mutant: the resource stays. *)
DropResNot(i, b) ==
    /\ Cleaning(i) /\ pc[i] = "bar" /\ Turn(i, b)
    /\ IF start[<<i, b>>] = 0 THEN NextBar(i, b)
       ELSE /\ first' = [first EXCEPT ![i] = start[<<i, b>>]]
            /\ Goto(i, "start")
            /\ UNCHANGED last
    /\ UNCHANGED <<bars, calls, bug>>

(* pciem_cleanup_bar: the resource is released; carved_start is looked at. *)
DropRes(i, b) ==
    /\ Cleaning(i) /\ pc[i] = "bar" /\ Turn(i, b)
    /\ res' = [res EXCEPT ![<<i, b>>] = {}]
    /\ IF start[<<i, b>>] = 0 THEN NextBar(i, b)
       ELSE /\ first' = [first EXCEPT ![i] = start[<<i, b>>]]
            /\ Goto(i, "start")
            /\ UNCHANGED last
    /\ UNCHANGED <<used, size, start, end, calls, bug>>

(* Mutant: the chunk is not given back. *)
FreeChunkNot(i, b) ==
    /\ Cleaning(i) /\ pc[i] = "end" /\ Turn(i, b)
    /\ Goto(i, "freed")
    /\ UNCHANGED <<bars, first, last, calls, bug>>

(* pciem_pool_free. (Every address a BAR ever had is inside the pool.) *)
FreeChunk(i, b) ==
    /\ Cleaning(i) /\ pc[i] = "end" /\ Turn(i, b)
    /\ used' = used \ (first[i] .. last[i])
    /\ bug' = (first[i] > last[i] \/ ~ (first[i] .. last[i]) \subseteq used)
    /\ Goto(i, "freed")
    /\ UNCHANGED <<size, start, end, res, first, last, calls>>

(* carved_start and carved_end are cleared; the size stays. *)
ClearStart(i, b) ==
    /\ pc[i] = "freed" /\ Turn(i, b)
    /\ start' = [start EXCEPT ![<<i, b>>] = 0]
    /\ Goto(i, "zeroed")
    /\ UNCHANGED <<used, size, end, res, first, last, calls, bug>>
ClearEnd(i, b) ==
    /\ pc[i] = "zeroed" /\ Turn(i, b)
    /\ end' = [end EXCEPT ![<<i, b>>] = 0]
    /\ NextBar(i, b)
    /\ UNCHANGED <<used, size, start, res, calls, bug>>

(* The loop ends: REGISTER returns its error, or the instance is freed. *)
CleanDone(i) ==
    /\ Cleaning(i) /\ done[i] = Bars
    /\ Enter(i, IF reg[i] = "UNDOING" THEN "UNREGISTERED" ELSE "gone")
    /\ UNCHANGED <<bars, calls, bug>>

-----------------------------------------------------------------------------
AddBar(t) ==
    \/ ClearBar(t) \/ Carve(t) \/ CarveFails(t)
    \/ \E f \in left[t] : Store(t, f)

InitBar(i, b) ==
    SkipBar(i, b) \/ TakeBar(i, b) \/ ReadStart(i, b) \/ InsertRes(i, b)
CleanBar(i, b) ==
    DropRes(i, b) \/ FreeChunk(i, b) \/ ClearStart(i, b) \/ ClearEnd(i, b)

Instance(i) ==
    \/ Register(i) \/ InitFails(i) \/ InitDone(i) \/ Teardown(i) \/ CleanDone(i)
    \/ \E b \in Bars : InitBar(i, b) \/ ReadEnd(i, b) \/ CleanBar(i, b)

Step ==
    \/ /\ \E t \in Threads :
             AddBar(t) \/ \E s \in Slots : \E n \in Sizes : AddBarCheck(t, s, n)
       /\ UNCHANGED bug
    \/ \E i \in Insts : Instance(i)

(* Nothing is modelled after a BUG_ON. *)
Next == ~bug /\ Step /\ UNCHANGED usage

Spec == Init /\ [][Next]_vars

-----------------------------------------------------------------------------
(* Properties *)

RegStates ==
    {"UNREGISTERED", "REGISTERING", "UNDOING", "REGISTERED", "CLOSING", "gone"}

TypeOK ==
    /\ used \subseteq PoolSpan
    /\ size \in [Slots -> Sizes \cup {0}]
    /\ start \in [Slots -> PoolSpan \cup {0}]
    /\ end \in [Slots -> PoolSpan \cup {0}]
    /\ res \in [Slots -> SUBSET PoolSpan]
    /\ reg \in [Insts -> RegStates]
    /\ done \in [Insts -> SUBSET Bars]
    /\ pc \in [Insts -> {"bar", "taken", "start", "end", "freed", "zeroed"}]
    /\ first \in [Insts -> PoolSpan \cup {0}]
    /\ last \in [Insts -> PoolSpan \cup {0}]
    /\ call \in [Threads -> Slots \cup {None}]
    /\ want \in [Threads -> Sizes \cup {0}]
    /\ got \in [Threads -> PoolSpan \cup {0}]
    /\ left \in [Threads -> SUBSET {"size", "start", "end"}]
    /\ bug \in BOOLEAN
    /\ usage \in Usages

(* A chunk is a naturally aligned run of pages of the pool, as a BAR        *)
(* address must be, and no page belongs to two BARs, of whichever instance. *)
IsRun(p) ==
    \E a \in PoolSpan, n \in Sizes :
        n # 0 /\ a % n = 0 /\ p = Span(a, n) /\ p \subseteq PoolSpan
ChunksApart ==
    /\ \A s \in Slots : Chunk(s) = {} \/ IsRun(Chunk(s))
    /\ \A s, u \in Slots : s # u => Chunk(s) \cap Chunk(u) = {}

(* The pages a device on the bus decodes (and its driver and emulator map)  *)
(* stay reserved and are nobody else's.                                     *)
DecodedReserved ==
    \A s \in Slots :
        /\ Chunk(s) \cup res[s] \subseteq used
        /\ \A u \in Slots : s # u => res[s] \cap (Chunk(u) \cup res[u]) = {}

(* Both hold, and pciem_cleanup_bar gives back only pages that are taken    *)
(* (gen_pool_free is otherwise a BUG), whatever fails, is repeated or       *)
(* interleaves, when ADD_BAR and REGISTER of one instance do not overlap.   *)
(* When they do ("late") neither holds: an unlocked reader meets half of    *)
(* what ADD_BAR stores.                                                     *)
ChunksDisjoint == "late" \notin usage => ChunksApart
DecodedStaysReserved == "late" \notin usage => DecodedReserved /\ ~bug
NeverBug == ~bug

(* The chunks of the BARs are all that is taken: what instances give back   *)
(* can be used again. (When moreover no BAR is added twice.)                *)
NoLeak == usage \subseteq {"off"} => used = UNION {Chunk(s) : s \in Slots}

(* Every BAR a registered device shows has its memory claimed, so that mmap *)
(* and GET_BAR_INFO find an address. (Under the same condition.)            *)
RegisteredBarsBacked ==
    usage \subseteq {"off"} => \A i \in Insts : reg[i] = "REGISTERED" =>
        \A b \in Bars : size[<<i, b>>] # 0 => res[<<i, b>>] # {}

=============================================================================
