------------------------------ MODULE CapList ------------------------------
(***************************************************************************)
(* The capability lists of a function (capabilities.c): ADD_CAPABILITY     *)
(* gives each capability the next offset, REGISTER links them in           *)
(* configuration space, and the PCI core walks the two lists.              *)
(*                                                                         *)
(* Offsets are real: the standard list starts at 0x40 and next_offset is   *)
(* eight bits wide; the extended list starts at 0x100, in ext_cfg, which   *)
(* follows cfg in memory. Of the contents of a capability only its type    *)
(* and its link are kept, at its offset, and only where no capability      *)
(* that was written later lies over them.                                  *)
(***************************************************************************)
EXTENDS Naturals, Sequences, FiniteSets, FiniteSetsExt, Functions

CONSTANTS
    MaxCaps,    \* MAX_PCI_CAPS
    VsecLens,   \* lengths of vendor specific capabilities
    DevTypes    \* PCIe device types used; 0 is a PCIe endpoint

ASSUME CapsAssumption == MaxCaps \in Nat /\ VsecLens \subseteq Nat /\ DevTypes \subseteq Nat

VARIABLES
    caps,             \* mgr->caps, num_caps of them
    next, extNext,    \* mgr->next_offset, mgr->ext_next_offset
    sum,              \* bytes of standard capabilities, not truncated (history)
    listed,           \* PCI_STATUS_CAP_LIST is set in the status register
    first, cfg,       \* cfg[PCI_CAPABILITY_LIST]; type and link by offset
    mode,             \* "config" or "built" (on the bus)
    pos, seen,        \* the walk of the standard list, and what it has met
    epos, eseen       \* the walk of the extended list

vars == <<caps, next, extNext, sum, listed, first, cfg, mode, pos, seen, epos, eseen>>
walk == <<pos, seen, epos, eseen>>

U8 == 256
Header == 64        \* PCI_STD_HEADER_SIZEOF, the first next_offset
CfgSize == 256      \* PCI_CFG_SPACE_SIZE, the first ext_next_offset
Pointer == 52       \* PCI_CAPABILITY_LIST
Room == CfgSize - Header

Init ==
    /\ caps = <<>> /\ next = Header /\ extNext = CfgSize /\ sum = 0
    /\ listed = FALSE /\ first = 0 /\ cfg = <<>>
    /\ mode = "config"
    /\ pos = 0 /\ seen = <<>> /\ epos = 0 /\ eseen = <<>>

-----------------------------------------------------------------------------
(* msi_cap_size *)
MsiSize(b64, mask) ==
    10 + (IF b64 THEN 4 ELSE 0) + 2 + (IF mask THEN 8 ELSE 0)

(* pciem_cap_manager_find *)
HasCap(t) == \E c \in Range(caps) : c.type = t
Find(t) == caps[Min({k \in DOMAIN caps : caps[k].type = t})]

(* pciem_check_msi_address_width *)
WidthOK(dev, b64) == dev = 0 => b64

(* What the pciem_add_cap functions share: the entry at the next offset. *)
AddStd(t, n, info) ==
    /\ mode = "config" /\ Len(caps) < MaxCaps
    /\ caps' = Append(caps, [type |-> t, ext |-> FALSE, off |-> next,
                             size |-> n % U8, info |-> info])
    /\ next' = (next + (n % U8)) % U8
    /\ sum' = sum + n
    /\ UNCHANGED <<extNext, listed, first, cfg, mode, walk>>

(* Mutant: MSI does not ask for the PCIe capability. *)
AddMsiUnchecked(b64, mask) == AddStd("MSI", MsiSize(b64, mask), b64)

AddMsi(b64, mask) ==
    /\ HasCap("PCIE") /\ WidthOK(Find("PCIE").info, b64)
    /\ AddStd("MSI", MsiSize(b64, mask), b64)

AddMsix == AddStd("MSIX", 12, 0)
AddPm == AddStd("PM", 8, 0)

AddPcie(dev) ==
    /\ HasCap("MSI") => WidthOK(dev, Find("MSI").info)
    /\ AddStd("PCIE", 60, dev)

AddVsec(n) == AddStd("VSEC", 8 + n, n)

(* pciem_add_cap_pasid: an extended capability. *)
AddPasid ==
    /\ mode = "config" /\ Len(caps) < MaxCaps
    /\ caps' = Append(caps, [type |-> "PASID", ext |-> TRUE, off |-> extNext,
                             size |-> 8, info |-> 0])
    /\ extNext' = extNext + 8
    /\ UNCHANGED <<next, sum, listed, first, cfg, mode, walk>>

(* SET_CONFIG writes the status register. *)
SetConfig ==
    /\ mode = "config"
    /\ listed' = TRUE
    /\ UNCHANGED <<caps, next, extNext, sum, first, cfg, mode, walk>>

-----------------------------------------------------------------------------
(* Mutant: the next entry of the array, of either kind. *)
LinkAny(k) == IF k < Len(caps) THEN caps[k + 1].off ELSE 0

(* The capabilities of one list, and those that come after one of them. *)
KindOf(ext) == {k \in DOMAIN caps : caps[k].ext = ext}
After(k) == {j \in k + 1 .. Len(caps) : caps[j].ext = caps[k].ext}

(* The offset of the next capability of the same kind, or 0. *)
Link(k) == IF After(k) = {} THEN 0 ELSE caps[Min(After(k))].off

(* The bytes that a capability is written with: eight bits hold its size,   *)
(* not the length of its vendor data; an MSI one has two bytes to spare.    *)
Written(c) ==
    IF c.type = "VSEC" THEN 8 + c.info
    ELSE IF c.type = "MSI" THEN c.size - 2 ELSE c.size

(* The standard capabilities are written first, then the extended ones.     *)
WrittenLater(j, k) ==
    \/ caps[j].ext = caps[k].ext /\ k < j
    \/ caps[j].ext /\ ~caps[k].ext

(* Type and link of capability k are left as they were written.             *)
Whole(k) ==
    \A j \in DOMAIN caps : WrittenLater(j, k) =>
        \/ caps[j].off + Written(caps[j]) <= caps[k].off
        \/ caps[k].off + (IF caps[k].ext THEN 4 ELSE 2) <= caps[j].off

(* A byte that a capability has been written over.                          *)
Overwritten(o) ==
    \E k \in DOMAIN caps : caps[k].off <= o /\ o < caps[k].off + Written(caps[k])

(* What the list pointer may read as once it is overwritten: no list, the   *)
(* start of a capability or anything else.                                  *)
Garbage == {0, U8 - 1} \cup {c.off : c \in {d \in Range(caps) : ~d.ext}}

(* pciem_build_config_space, when REGISTER is called after SET_CONFIG: the  *)
(* status bit is left as it is. Nothing asks whether the capabilities fit:  *)
(* offsets that have wrapped lie over the header, its list pointer too, and *)
(* over each other, and what runs past cfg goes to ext_cfg.                 *)
Build ==
    /\ mode = "config" /\ listed
    /\ mode' = "built"
    /\ LET std == KindOf(FALSE)
       IN  IF std # {} /\ Overwritten(Pointer)
             THEN first' \in Garbage
             ELSE first' = IF std = {} THEN 0 ELSE caps[Min(std)].off
    /\ LET left == {k \in DOMAIN caps : Whole(k)}
       IN  cfg' = [o \in {caps[k].off : k \in left} |->
                     LET k == CHOOSE j \in left : caps[j].off = o
                     IN  [type |-> caps[k].type, link |-> Link(k)]]
    /\ pos' = first'
    /\ epos' = CfgSize
    /\ UNCHANGED <<caps, next, extNext, sum, listed, seen, eseen>>

(* REGISTER fails after it has built the lists: more may be added. *)
Cancel ==
    /\ mode = "built"
    /\ mode' = "config"
    /\ pos' = 0 /\ seen' = <<>> /\ epos' = 0 /\ eseen' = <<>>
    /\ UNCHANGED <<caps, next, extNext, sum, listed, first, cfg>>

-----------------------------------------------------------------------------
(* The PCI core walks: it drops the two low bits of a link, and stops at    *)
(* one that points into the header. What is not a capability's start reads  *)
(* as something else, and the walk is not followed from there.              *)
At(o) == IF o \in DOMAIN cfg THEN cfg[o] ELSE [type |-> "junk", link |-> 0]

WalkStd ==
    /\ mode = "built" /\ pos >= Header
    /\ LET o == pos - (pos % 4)
       IN  seen' = Append(seen, At(o).type) /\ pos' = At(o).link
    /\ UNCHANGED <<caps, next, extNext, sum, listed, first, cfg, mode, epos, eseen>>

(* The extended list begins at 0x100; no header there ends it. *)
WalkExt ==
    /\ mode = "built" /\ epos >= CfgSize
    /\ IF epos \in DOMAIN cfg \/ Overwritten(epos)
         THEN eseen' = Append(eseen, At(epos).type) /\ epos' = At(epos).link
         ELSE epos' = 0 /\ UNCHANGED eseen
    /\ UNCHANGED <<caps, next, extNext, sum, listed, first, cfg, mode, pos, seen>>

-----------------------------------------------------------------------------
Add ==
    \/ \E b64, mask \in BOOLEAN : AddMsi(b64, mask)
    \/ AddMsix \/ AddPm \/ AddPasid
    \/ \E dev \in DevTypes : AddPcie(dev)
    \/ \E n \in VsecLens : AddVsec(n)

Next == Add \/ SetConfig \/ Build \/ Cancel \/ WalkStd \/ WalkExt

Spec == Init /\ [][Next]_vars

-----------------------------------------------------------------------------
(* Properties *)

Types == {"MSI", "MSIX", "PM", "PCIE", "VSEC", "PASID"}

TypeOK ==
    /\ \A k \in DOMAIN caps :
          /\ caps[k].type \in Types /\ caps[k].size \in 0 .. U8 - 1
          /\ caps[k].off \in Nat /\ caps[k].off < (IF caps[k].ext THEN 4096 ELSE U8)
    /\ Len(caps) <= MaxCaps
    /\ next \in 0 .. U8 - 1 /\ extNext \in CfgSize .. CfgSize + 8 * MaxCaps
    /\ mode \in {"config", "built"}
    /\ listed \in BOOLEAN
    /\ pos \in 0 .. U8 - 1 /\ epos \in Nat

(* The standard capabilities leave room for one another. ADD_CAPABILITY and *)
(* REGISTER do not see to it: the emulator has to.                          *)
Fits == sum <= Room

(* Capabilities lie between the header and the end of their space, and no   *)
(* two of them overlap: each register has one owner.                        *)
Apart ==
    /\ \A c \in Range(caps) : ~c.ext => c.off >= Header /\ c.off + c.size <= CfgSize
    /\ \A j, k \in DOMAIN caps : j < k /\ caps[j].ext = caps[k].ext =>
          caps[j].off + caps[j].size <= caps[k].off

(* Capabilities that fit and are on the bus are apart.                      *)
CapsApart == Fits /\ mode = "built" => Apart

(* The place of a capability in the list of its kind. *)
Before(k) == {j \in 1 .. k : caps[j].ext = caps[k].ext}
Place(k) == Cardinality(Before(k))

(* The PCI core meets the capabilities in the order in which they were      *)
(* added, each once and nothing else, on either list: the n-th type that it *)
(* has met is that of the n-th capability, and at the end it has met all.   *)
MetInOrder(met, at, ext) ==
    /\ \A k \in KindOf(ext) : Place(k) <= Len(met) => met[Place(k)] = caps[k].type
    /\ Len(met) <= Cardinality(KindOf(ext))
    /\ at = 0 => Len(met) = Cardinality(KindOf(ext))

InOrder == MetInOrder(seen, pos, FALSE) /\ MetInOrder(eseen, epos, TRUE)

WalkInOrder == Fits /\ mode = "built" => InOrder

(* Both: a driver that walks the lists finds every capability that was      *)
(* added, in registers of its own, if they fit.                             *)
ListsSound == CapsApart /\ WalkInOrder

(* The same of every function on the bus. It is false: a list that does not *)
(* fit is built over the header, and over itself.                           *)
ListsAsAdded == mode = "built" => Apart /\ InOrder

(* A PCIe endpoint (by the capability the PCI core finds) has no MSI        *)
(* capability of the 32-bit format, in whichever order they were added.     *)
EndpointMsi64 ==
    HasCap("PCIE") /\ Find("PCIE").info = 0 =>
        \A c \in Range(caps) : c.type = "MSI" => c.info = TRUE

=============================================================================
