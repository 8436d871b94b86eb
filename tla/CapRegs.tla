------------------------------ MODULE CapRegs ------------------------------
(***************************************************************************)
(* The control registers of the capabilities (capabilities.c): a register  *)
(* is kept twice, as the typed state that 16-bit accesses use and as bytes *)
(* of configuration space, which all other accesses use.                   *)
(*                                                                         *)
(* A register is the set of its bits that are 1; the bits of a kind that   *)
(* behave alike are one. The handlers run under the read side of cap_lock  *)
(* only, so those of two CPUs interleave where the architecture does not   *)
(* serialise configuration accesses.                                       *)
(***************************************************************************)
EXTENDS Naturals, FiniteSets

CONSTANTS
    CfgCpus,     \* CPUs that access configuration space
    Kinds,       \* capabilities of the device
    Usages,      \* how configuration space is accessed, each a set of
                 \* "sizes": also with other sizes than 16 bits
                 \* "smp": by several CPUs at a time
    NoReg        \* no register

AllKinds == {"MSI", "MSIX", "PM", "PASID"}

ASSUME KindsAssumption == Kinds \subseteq AllKinds /\ NoReg \notin AllKinds
ASSUME UsageAssumption == Usages \subseteq SUBSET {"sizes", "smp"}

VARIABLES
    built,   \* REGISTER has written configuration space
    typed,   \* state.*.control
    bytes,   \* its two bytes in v->cfg or v->ext_cfg
    busy,    \* per CPU: the register whose write-back is left, or NoReg
    val,     \* per CPU: the value it stored
    last,    \* per register: the last value written, as a reader expects it
    usage    \* of Usages; it never changes

regsVars == <<built, typed, bytes, busy, val, last, usage>>

(* The bits of the registers, and the byte that holds them. *)
Bits == [MSI   |-> {"enable", "64bit", "maskbit"},
         MSIX  |-> {"enable", "size", "rsvd"},
         PM    |-> {"state", "pme", "rsvd"},
         PASID |-> {"enable", "rsvd"}]
InLow(k, b) == b \in {"64bit", "size", "state"} \/ (b = "enable" /\ k # "MSIX")

(* What the device shows before anyone writes: pciem_build_config_space. *)
Built == [MSI |-> {"64bit"}, MSIX |-> {"size"}, PM |-> {}, PASID |-> {}]

(* ... and the typed state that the pciem_add_cap functions begin with. *)
Typed0 == [MSI |-> {}, MSIX |-> {"size"}, PM |-> {}, PASID |-> {}]

RegsInit ==
    /\ typed = [k \in Kinds |-> Typed0[k]]
    /\ built = FALSE
    /\ bytes = [k \in Kinds |-> {}]
    /\ busy = [c \in CfgCpus |-> NoReg]
    /\ val = [c \in CfgCpus |-> {}]
    /\ last = [k \in Kinds |-> Built[k]]
    /\ usage \in Usages

-----------------------------------------------------------------------------
(* pciem_build_config_space *)
BuildRegs ==
    /\ ~built
    /\ built' = TRUE
    /\ bytes' = [k \in Kinds |-> Built[k]]
    /\ UNCHANGED <<typed, busy, val, last>>

(* Mutant: the handler stores what is written. *)
MergeAll(k, old, v) == v

(* The value handle_*_write keeps of a 16-bit write. *)
Merge(k, old, v) ==
    CASE k = "MSI"   -> v
      [] k = "MSIX"  -> (old \cap {"size"}) \cup (v \cap {"enable"})
      [] k = "PM"    -> v \ {"rsvd"}
      [] k = "PASID" -> v \ {"rsvd"}

(* The access may begin. *)
MayAccess(c) ==
    /\ built /\ busy[c] = NoReg
    /\ "smp" \in usage \/ \A d \in CfgCpus : busy[d] = NoReg

(* pciem_handle_cap_write, 16 bits: the typed state is stored ... *)
StoreTyped(c, k, v) ==
    /\ MayAccess(c)
    /\ LET new == Merge(k, typed[k], v)
       IN  /\ typed' = [typed EXCEPT ![k] = new]
           /\ val' = [val EXCEPT ![c] = new]
           /\ last' = [last EXCEPT ![k] = new]
    /\ busy' = [busy EXCEPT ![c] = k]
    /\ UNCHANGED <<built, bytes>>

(* Mutant: the bytes are left alone. *)
NoWriteBack(c) ==
    /\ busy[c] # NoReg
    /\ busy' = [busy EXCEPT ![c] = NoReg]
    /\ UNCHANGED <<built, typed, bytes, val, last>>

(* ... and then the bytes, from the stored value or from the state again,   *)
(* as the compiler chooses.                                                 *)
WriteBack(c) ==
    /\ busy[c] # NoReg
    /\ \E v \in {val[c], typed[busy[c]]} : bytes' = [bytes EXCEPT ![busy[c]] = v]
    /\ busy' = [busy EXCEPT ![c] = NoReg]
    /\ UNCHANGED <<built, typed, val, last>>

(* A write of another size misses the handler and goes to the bytes: one    *)
(* byte of the register, or both with a 32-bit write.                       *)
WriteRaw(c, k, v) ==
    /\ MayAccess(c) /\ "sizes" \in usage
    /\ \E lo, hi \in BOOLEAN :
          /\ lo \/ hi
          /\ LET hit == {b \in Bits[k] : IF InLow(k, b) THEN lo ELSE hi}
             IN  bytes' = [bytes EXCEPT ![k] = (@ \ hit) \cup (v \cap hit)]
    /\ UNCHANGED <<built, typed, busy, val, last>>

(* What a 16-bit read returns, and what a read of another size sees. *)
ReadWord(k) == typed[k]
ReadBlock(k) == bytes[k]

-----------------------------------------------------------------------------
RegsStep ==
    \/ BuildRegs
    \/ \E c \in CfgCpus :
          \/ WriteBack(c)
          \/ \E k \in Kinds : \E v \in SUBSET Bits[k] :
                StoreTyped(c, k, v) \/ WriteRaw(c, k, v)

RegsNext == RegsStep /\ UNCHANGED usage

RegsSpec == RegsInit /\ [][RegsNext]_regsVars

-----------------------------------------------------------------------------
(* Properties *)

(* Reserved bits are never stored in the typed state. *)
RegsTypeOK ==
    /\ built \in BOOLEAN
    /\ DOMAIN typed = Kinds /\ DOMAIN bytes = Kinds
    /\ \A k \in Kinds : typed[k] \subseteq Bits[k] \ {"rsvd"} /\ bytes[k] \subseteq Bits[k]
    /\ busy \in [CfgCpus -> Kinds \cup {NoReg}]
    /\ usage \in Usages

(* On the bus, and when no write is under way, a 16-bit read and a block    *)
(* read of a register (lspci, pread of the sysfs file) return the same.     *)
ViewsAgree ==
    (built /\ \A c \in CfgCpus : busy[c] = NoReg) =>
        \A k \in Kinds : ReadWord(k) = ReadBlock(k)

(* ... as they do while all accesses are 16 bits wide and one at a time:    *)
(* the write-back in the handlers keeps the bytes up to date.               *)
OrderlyViewsAgree == usage = {} => ViewsAgree

(* The 16-bit read of MSI control, by which a driver chooses the layout of  *)
(* the registers that follow, shows the 64-bit format that the capability   *)
(* has, as long as nobody has written the register.                         *)
FormatShown ==
    (built /\ "MSI" \in Kinds /\ last["MSI"] = Built["MSI"]) =>
        "64bit" \in ReadWord("MSI")

(* The MSI-X table size cannot be changed by accesses, of whatever size and *)
(* from however many CPUs: a driver reads it with a 16-bit access.          *)
TableSizeFixed == "MSIX" \in Kinds => "size" \in ReadWord("MSIX")

=============================================================================
