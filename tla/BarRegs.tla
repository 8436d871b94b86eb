------------------------------ MODULE BarRegs ------------------------------
(***************************************************************************)
(* The base address registers of a function (pciem.c): the framework puts  *)
(* the address of each BAR in its register, or in two when it is 64 bits   *)
(* wide, and emulates what the PCI core finds there when it sizes the BARs *)
(* in a bus scan: all bits are written, read back, and the old value       *)
(* restored.                                                               *)
(*                                                                         *)
(* Addresses and sizes are counted in pages. A register is a number below  *)
(* Half; its attribute bits are those of the BAR and not kept in it.       *)
(***************************************************************************)
EXTENDS Naturals, FiniteSets

CONSTANTS
    Bars,         \* BAR indices 0 .. n
    Half,         \* 4 GiB: a power of two
    BarSizes,     \* sizes of BARs, powers of two, with 0: no BAR
    Layouts       \* kinds of placement, each a set of
                  \* "high": also a small 64-bit BAR above Half
                  \* "narrow": also a 32-bit BAR above Half
                  \* "top": also a 64-bit BAR in the last place below Half
                  \* "odd": also 64-bit BARs of odd index

ASSUME HalfAssumption == Half \in Nat \ {0}
ASSUME BarsAssumption == Bars \subseteq Nat /\ \E n \in Bars : Bars = 0 .. n
ASSUME BarSizesAssumption ==
    /\ BarSizes \subseteq Nat /\ 0 \in BarSizes
    /\ LET powers == (BarSizes \ {0}) \cup {Half, Half * Half} IN
       \A m, n \in powers : m < n => n % (2 * m) = 0
ASSUME LayoutsAssumption == Layouts \subseteq SUBSET {"high", "narrow", "top", "odd"}

VARIABLES
    lay,     \* bars[]: size, 64-bit flag and phys_addr; it never changes
    base,    \* bars[].base_addr_val
    bus,     \* bus mode, "root" or "host"; it never changes
    at,      \* register that the scan sizes next
    phase,   \* "init", "scan", "scanned", "up", "rescan"
    told     \* per register: its value and its size mask, for the PCI core

barVars == <<lay, base, bus, at, phase, told>>

Full == Half * Half
Count == Cardinality(Bars)
Off == [size |-> 0, wide |-> FALSE, place |-> 0]

(* The BARs that an emulator may add, and where the pool may carve them. *)
Placed(how) ==
    {o \in [size : BarSizes \ {0}, wide : BOOLEAN, place : 1 .. Full - 1] :
        /\ o.place % o.size = 0 /\ o.place + o.size <= Full
        /\ \/ o.place + o.size <= Half
           \/ o.wide /\ (o.size >= Half \/ "high" \in how)
           \/ ~o.wide /\ "narrow" \in how
        /\ ~o.wide \/ o.place + o.size # Half \/ "top" \in how}

(* The upper half of a 64-bit BAR is not a BAR itself. *)
LaidOut(how) ==
    {l \in [Bars -> Placed(how) \cup {Off}] :
        \A b \in Bars : l[b].wide =>
            /\ b + 1 \in Bars /\ l[b + 1] = Off
            /\ b % 2 = 0 \/ "odd" \in how}

BarsInit ==
    /\ \E how \in Layouts : lay \in LaidOut(how)
    /\ base = [b \in Bars |-> 0]
    /\ bus \in {"root", "host"}
    /\ at = 0 /\ phase = "init"
    /\ told = [b \in Bars |-> <<0, 0>>]

-----------------------------------------------------------------------------
(* pciem_complete_init, the address of each BAR: the lower half in its      *)
(* register, the upper half in the next.                                    *)
Placement ==
    [b \in Bars |->
        IF lay[b].size # 0 THEN lay[b].place % Half
        ELSE IF b > 0 /\ lay[b - 1].wide THEN lay[b - 1].place \div Half
        ELSE base[b]]

Prepare ==
    /\ phase = "init"
    /\ base' = Placement
    /\ phase' = "scan" /\ at' = 0
    /\ UNCHANGED told

(* The register is taken for the upper half of the BAR before it. *)
IsUpper(b) == lay[b].size = 0 /\ b % 2 = 1 /\ lay[b - 1].wide

(* pciem_read_bar_address; both of its cases return what is stored. *)
ReadBar(bs, b) == IF lay[b].size # 0 \/ IsUpper(b) THEN bs[b] ELSE 0

(* The bits of a value above those of a size. *)
Above(v, n) == v - (v % n)

(* Mutant: every bit of an upper half is kept. *)
KeptAll(b, v) == IF lay[b].size # 0 THEN Above(v, lay[b].size) ELSE v

(* The bits that the register keeps of a value: those above the size. *)
Kept(b, v) ==
    IF lay[b].size # 0 THEN Above(v, lay[b].size)
    ELSE IF lay[b - 1].size < Half THEN 0
    ELSE Above(v, lay[b - 1].size \div Half)

(* pciem_write_bar_address *)
WriteBar(bs, b, v) ==
    IF lay[b].size # 0 \/ IsUpper(b) THEN [bs EXCEPT ![b] = Kept(b, v)] ELSE bs

(* The PCI core sizes a register. Each access is made on its own, but       *)
(* nothing else writes the register meanwhile.                              *)
SizeRegister ==
    /\ phase \in {"scan", "rescan"}
    /\ LET old == ReadBar(base, at)
           ones == WriteBar(base, at, Half - 1)
       IN  /\ told' = [told EXCEPT ![at] = <<old, ReadBar(ones, at)>>]
           /\ base' = WriteBar(ones, at, old)
    /\ at' = (at + 1) % Count
    /\ phase' = IF at' # 0 THEN phase
                ELSE IF phase = "scan" THEN "scanned" ELSE "up"

(* pciem_bus_init_resources: a virtual root gets the addresses once more. *)
BusInitResources ==
    /\ phase = "scanned" /\ bus = "root"
    /\ base' = Placement
    /\ phase' = "up"
    /\ UNCHANGED <<at, told>>

(* pciem_init_attach_to_host_mode: the registers stay as the scan left them. *)
Attached ==
    /\ phase = "scanned" /\ bus = "host"
    /\ phase' = "up"
    /\ UNCHANGED <<base, at, told>>

(* The device is removed through sysfs and its bus is scanned again. *)
Rescan ==
    /\ phase = "up"
    /\ phase' = "rescan"
    /\ UNCHANGED <<base, at, told>>

-----------------------------------------------------------------------------
BarsStep == Prepare \/ SizeRegister \/ BusInitResources \/ Attached \/ Rescan

BarsNext == BarsStep /\ UNCHANGED <<lay, bus>>

BarsSpec == BarsInit /\ [][BarsNext]_barVars

-----------------------------------------------------------------------------
(* What the PCI core makes of the two values of a register, or of two. *)
Value(b, k) == told[b][k] + (IF lay[b].wide THEN Half * told[b + 1][k] ELSE 0)
Mask(b) == IF lay[b].wide THEN Full - 1 ELSE Half - 1

(* pci_size: the lowest bit that can be set, unless the BAR seems to have   *)
(* ignored the write.                                                       *)
FoundSize(b) ==
    LET was == Value(b, 1)
        ones == Value(b, 2)
        low == CHOOSE n \in BarSizes \ {0} : ones % n = 0 /\ ones % (2 * n) # 0
    IN  IF ones = 0 \/ (was = ones /\ was + low - 1 # Mask(b)) THEN 0 ELSE low

-----------------------------------------------------------------------------
(* Properties *)

BarsTypeOK ==
    /\ \E how \in Layouts : lay \in LaidOut(how)
    /\ base \in [Bars -> 0 .. Half - 1]
    /\ told \in [Bars -> (0 .. Half - 1) \X (0 .. Half - 1)]
    /\ at \in Bars /\ bus \in {"root", "host"}
    /\ phase \in {"init", "scan", "scanned", "up", "rescan"}

(* Whenever a scan has ended, the PCI core has found each BAR at the        *)
(* address of its memory, with its size, and the registers again hold that  *)
(* address: a scan is not noticed, however often it is made.                *)
BarsFound ==
    phase \in {"scanned", "up"} =>
        \A b \in Bars : lay[b].size # 0 =>
            /\ FoundSize(b) = lay[b].size
            /\ Value(b, 1) = lay[b].place
            /\ lay[b].place = ReadBar(base, b) +
                  (IF lay[b].wide THEN Half * ReadBar(base, b + 1) ELSE 0)

=============================================================================
