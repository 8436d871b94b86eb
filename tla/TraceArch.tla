------------------------------ MODULE TraceArch ------------------------------
(***************************************************************************)
(* The part of BAR tracing that each architecture has of its own           *)
(* (kernel/trace/arch): the walk over a mapping that saves and invalidates *)
(* its page-table entries, the emulation of the access that faults, and    *)
(* the walk that puts the entries back.  SmpTrace takes all three as       *)
(* single steps; here is what they do.                                     *)
(*                                                                         *)
(* An address counts half pages.  A page table is a function from the      *)
(* start of each entry to its contents.  The traced register and the       *)
(* CPU's register have eight bytes; of a byte only its sign is kept.       *)
(***************************************************************************)
EXTENDS X86Insn

CONSTANTS
    Layouts,     \* [arch, level]: an architecture and the levels of the
                 \* entries the mapping is made of, by their start
    Mappings,    \* [va, len, pa]: mappings of the BAR, pa counted from its start
    Insns,       \* instructions the driver accesses the register with
    Cpu,         \* x86: the registers that addresses are made of
    Volatile     \* for each of these BOOLEANs: the emulator changes the
                 \* register while an access is emulated

Arch == {"x86", "arm64", "riscv"}
Page == 2
Size(level) == CASE level = "pte" -> Page [] level = "pmd" -> 4 [] level = "pud" -> 8

(* Entries do not overlap, and each starts at a multiple of its size; those *)
(* of any layout cover every mapping, as ioremap() has made it.             *)
ASSUME LayoutsAssumption ==
    \A y \in Layouts :
        /\ y.arch \in Arch
        /\ \A s \in DOMAIN y.level :
              /\ s \in Nat /\ y.level[s] \in {"pte", "pmd", "pud"}
              /\ s % Size(y.level[s]) = 0
              /\ \A t \in DOMAIN y.level \ {s} :
                    s + Size(y.level[s]) <= t \/ t + Size(y.level[t]) <= s
ASSUME MappingsAssumption ==
    \A m \in Mappings :
        /\ m.va \in Nat /\ m.len \in Nat
        /\ \A y \in Layouts, a \in m.va .. m.va + m.len - 1 :
              \E s \in DOMAIN y.level : s <= a /\ a < s + Size(y.level[s])
ASSUME InsnsAssumption ==
    \A i \in Insns :
        /\ i.arch \in Arch
        /\ i.arch = "x86" => i.op \in Ops /\ i.opnd \in {2, 4, 8}
        /\ i.arch = "arm64" =>
              /\ i.data \in 0 .. 31 /\ i.rn \in 0 .. 31
              /\ i.isv \in BOOLEAN
              /\ i.size \in {1, 2, 4, 8} /\ i.opc \in 0 .. 3
              /\ i.isv => i.form \notin {"pre", "post"}
        /\ i.arch = "riscv" =>
              /\ i.data \in 0 .. 31 /\ i.rest \in 0 .. 31 /\ i.f3 \in 0 .. 7
              /\ i.form \in {"load", "store", "other", "rvc", "rvcsp", "rvcother"}
              /\ i.form = "rvc" => i.data \in 8 .. 15
ASSUME CpuAssumption ==
    Cpu.reg \in [0 .. 15 -> Int] /\ Cpu.ip \in Int /\ Cpu.fs \in Int /\ Cpu.gs \in Int
ASSUME VolatileAssumption == Volatile \subseteq BOOLEAN

VARIABLES
    arch, levels, map, racy,    \* chosen at the start; they never change
    phase,     \* "poison", "traced", "restore", "done", "failed"
    pt,        \* the contents of each entry
    saved,     \* map->ptes: entries saved, [va, level, start]
    va, remain,\* where the loop is
    insn,      \* the last instruction
    mem,       \* the register of the BAR, in the shadow mapping
    reg, was,  \* the CPU's data register, and before the instruction
    base,      \* the base registers that have been written back
    at,        \* the data register and the length by which the program counter
               \* moved on; on x86 after the address that was decoded
    fate,      \* how the last instruction ended
    events,    \* what it notified
    seen       \* contents of the BAR's register that it may have met

static == <<arch, levels, map, racy>>
loop == <<pt, saved, va, remain>>
access == <<insn, mem, reg, was, base, at, fate, events, seen>>
archVars == <<static, phase, loop, access>>

Byte == 0 .. 7
Fill(b) == [i \in Byte |-> b]
Put(dst, src, n) == [i \in Byte |-> IF i < n THEN src[i] ELSE dst[i]]
Sign(v, n) == IF v[n - 1] \in {"neg", "ones"} THEN "ones" ELSE "zero"

Present(s) == [at |-> s, state |-> "present"]

NoInsn == [arch |-> "none"]

ArchInit ==
    /\ \E y \in Layouts : arch = y.arch /\ levels = y.level
    /\ map \in Mappings
    /\ racy \in Volatile
    /\ phase = "poison"
    /\ pt = [s \in DOMAIN levels |-> Present(s)]
    /\ saved = {}
    /\ va = map.va /\ remain = map.len
    /\ insn = NoInsn
    /\ mem \in {Fill("pos"), Fill("neg")}
    /\ reg = Fill("old") /\ was = Fill("old")
    /\ base = {}
    /\ at = <<>>
    /\ fate = "none"
    /\ events = <<>>
    /\ seen = {}

-----------------------------------------------------------------------------
(* Page tables.  An entry is "present", "invalid" (not present, but not     *)
(* empty) or "none"; originally it maps its own start.                      *)

EntryAt(a) == CHOOSE s \in DOMAIN levels : s <= a /\ a < s + Size(levels[s])

(* lookup_address(), arm64_walk_pte() and riscv_walk_pte() find an empty    *)
(* entry only at the last level.                                            *)
(* Mutant: only present entries. *)
LookupX86Present(a) == levels[EntryAt(a)] = "pte" \/ pt[EntryAt(a)].state = "present"
LookupX86(a) == levels[EntryAt(a)] = "pte" \/ pt[EntryAt(a)].state # "none"
WalkArm64(a) == levels[EntryAt(a)] = "pte" \/ pt[EntryAt(a)].state # "none"
WalkRiscv(a) == levels[EntryAt(a)] = "pte" \/ pt[EntryAt(a)].state = "present"

SaveEntry(s) == [va |-> va, level |-> levels[s], value |-> pt[s]]

Looping(p) == phase = p /\ remain > 0

(* One turn of the loop of smptrace_arch_poison_pte(): a present entry is   *)
(* saved and replaced by poison.                                            *)
PoisonOne(poison) ==
    LET s == EntryAt(va) IN
    /\ saved' = saved \cup {SaveEntry(s)}
    /\ pt' = [pt EXCEPT ![s].state = poison]
    /\ remain' = remain - Size(levels[s])
    /\ va' = va + Size(levels[s])
    /\ UNCHANGED <<static, phase, access>>

(* x86 clears a page's entry and marks a larger one not present. *)
(* Mutant: only pages are invalidated. *)
PoisonX86Pages ==
    /\ arch = "x86" /\ Looping("poison") /\ LookupX86(va)
    /\ PoisonOne(IF levels[EntryAt(va)] = "pte" THEN "none" ELSE "present")
PoisonX86 ==
    /\ arch = "x86" /\ Looping("poison") /\ LookupX86(va)
    /\ PoisonOne(IF levels[EntryAt(va)] = "pte" THEN "none" ELSE "invalid")
PoisonArm64 ==
    arch = "arm64" /\ Looping("poison") /\ WalkArm64(va) /\ PoisonOne("none")
PoisonRiscv ==
    arch = "riscv" /\ Looping("poison") /\ WalkRiscv(va) /\ PoisonOne("none")

PoisonDone ==
    /\ phase = "poison" /\ remain <= 0
    /\ phase' = "traced"
    /\ UNCHANGED <<static, loop, access>>

(* No memory for an entry: what was saved is freed, the entries stay as     *)
(* they are, and the mapping is undone.                                     *)
PoisonFails ==
    /\ Looping("poison")
    /\ saved' = {}
    /\ pt' = [s \in DOMAIN levels |-> [pt[s] EXCEPT !.state = "none"]]
    /\ phase' = "failed"
    /\ UNCHANGED <<static, va, remain, access>>

Unmap ==
    /\ phase = "traced"
    /\ phase' = "restore"
    /\ va' = map.va /\ remain' = map.len
    /\ UNCHANGED <<static, pt, saved, access>>

StepOn(n) == va' = va + n /\ remain' = remain - n

(* One turn of the loop of smptrace_arch_restore_pte(): an entry the walk   *)
(* misses is skipped a page at a time, one that was not saved at a time.    *)
RestoreOne(found) ==
    /\ IF ~found
       THEN StepOn(Page) /\ UNCHANGED <<pt, saved>>
       ELSE LET s == EntryAt(va)
                orig == {o \in saved : o.va = va}
            IN  /\ saved' = saved \ orig
                /\ pt' = [pt EXCEPT ![s] =
                            IF orig = {} THEN @ ELSE (CHOOSE o \in orig : TRUE).value]
                /\ StepOn(Size(levels[s]))
    /\ UNCHANGED <<static, phase, access>>

RestoreX86 == arch = "x86" /\ Looping("restore") /\ RestoreOne(LookupX86(va))
RestoreArm64 == arch = "arm64" /\ Looping("restore") /\ RestoreOne(WalkArm64(va))
RestoreRiscv == arch = "riscv" /\ Looping("restore") /\ RestoreOne(WalkRiscv(va))

RestoreDone ==
    /\ phase = "restore" /\ remain <= 0
    /\ phase' = "done"
    /\ UNCHANGED <<static, loop, access>>

-----------------------------------------------------------------------------
(* Decoding.  Each decoder yields the access as the emulation takes it: the *)
(* number of bytes, whether it is a store, how a load is extended.          *)

AccessOf(store, size, ext, wide, r) ==
    [store |-> store, size |-> size, ext |-> ext, wide |-> wide, reg |-> r]
Undecoded == AccessOf(FALSE, 0, "fail", FALSE, 0)

(* The syndrome of the fault (ISV): the CPU has decoded it. *)
DecodeIsv(i) ==
    AccessOf(i.opc = 0, i.size, IF i.opc \in {2, 3} THEN "sign" ELSE "zero",
             i.opc = 2 \/ i.size = 8, i.data)

(* The low ten bits of a load or store: the registers. *)
Arm64Word(i) == 32 * i.rn + i.data

(* arm64_decode_ls_insn(): [form, size, opc]. *)
DecodeArm64(i) ==
    IF \/ i.form \notin {"offset", "unscaled", "pre", "post"}
       \/ i.size = 4 /\ i.opc = 3
       \/ i.size = 8 /\ i.opc \in {2, 3}
    THEN Undecoded
    ELSE AccessOf(i.opc = 0, i.size, IF i.opc \in {2, 3} THEN "sign" ELSE "zero",
                  i.opc # 3 /\ ~(i.size = 4 /\ i.opc = 1), Arm64Word(i) % 32)

(* Where an instruction of riscv has the number of its data register, and   *)
(* the five bits from bit p: "rvc" (C.LW, C.SW ...) has three for the        *)
(* registers 8 to 15, "rvcsp" (C.LWSP, C.SWSP ...) five.  The bits around    *)
(* them belong to other fields.                                              *)
DataBit(i) ==
    CASE i.form = "load" \/ (i.form = "rvcsp" /\ i.f3 < 4) -> 7
      [] i.form = "store" -> 20
      [] OTHER -> 2
Bits(i, p) ==
    IF p # DataBit(i) THEN i.rest
    ELSE IF i.form = "rvc" THEN 8 * (i.rest \div 8) + (i.data - 8) ELSE i.data

(* riscv_decode_ls_insn(): [form, f3]. *)
DecodeRiscv32(i) ==
    CASE i.form = "load" /\ i.f3 \in 0 .. 6 ->
            AccessOf(FALSE, 2 ^ (i.f3 % 4), IF i.f3 \in 0 .. 2 THEN "sign" ELSE "zero",
                     TRUE, Bits(i, 7))
      [] i.form = "store" /\ i.f3 \in 0 .. 3 ->
            AccessOf(TRUE, 2 ^ i.f3, "zero", TRUE, Bits(i, 20))
      [] OTHER -> Undecoded

(* riscv_decode_rvc_ls_insn(): no load is sign-extended. *)
RvcReg(i, p) == IF i.form = "rvc" THEN 8 + (Bits(i, 2) % 8) ELSE Bits(i, p)
DecodeRvc(i) ==
    CASE i.form # "rvcother" /\ i.f3 \in {2, 3} ->
            AccessOf(FALSE, 2 ^ i.f3, "zero", TRUE, RvcReg(i, 7))
      [] i.form # "rvcother" /\ i.f3 \in {6, 7} ->
            AccessOf(TRUE, 2 ^ (i.f3 - 4), "zero", TRUE, RvcReg(i, 2))
      [] OTHER -> Undecoded

IsRvc(i) == i.form \notin {"load", "store", "other"}
DecodeRiscv(i) == IF IsRvc(i) THEN DecodeRvc(i) ELSE DecodeRiscv32(i)

-----------------------------------------------------------------------------
(* Emulation on the shadow mapping *)

Notify(kind, n, data) == [kind |-> kind, size |-> n, data |-> Put(Fill("zero"), data, n)]

(* Mutant: the event tells what was there. *)
EmulateWriteOld(n, src) ==
    /\ mem' = Put(mem, src, n)
    /\ events' = <<Notify("write", n, mem)>>
    /\ seen' = {mem}
EmulateWrite(n, src) ==
    /\ mem' = Put(mem, src, n)
    /\ events' = <<Notify("write", n, src)>>
    /\ seen' = {mem}

(* The register as the emulation leaves it is r; v is what it has read. *)
EmulateRead(n, r) ==
    /\ reg' = r
    /\ events' = <<Notify("read", n, mem)>>
    /\ seen' = {mem}
    /\ UNCHANGED mem

Opposite(v) == IF v = Fill("pos") THEN Fill("neg") ELSE Fill("pos")
(* what a later read of the register may find *)
Later == {mem} \cup IF racy THEN {Opposite(mem)} ELSE {}

(* emulate_pf_instruction(): a sign-extending load takes the sign from one  *)
(* read and the value from another.  An address that cannot be computed     *)
(* lies in no mapping, which is a BUG() in the emulation of the access.     *)
EmulateX86 ==
    LET i == Decode(Encode(insn))
        d == DecodeMmio(i)
        addr == AddrRef(i, Cpu)
        cleared == Put(reg, Fill("zero"), i.opnd_bytes)
    IN  /\ arch = "x86"
        /\ fate' = CASE d.type = "fail" -> "oops"
                     [] d.type = "write_imm" /\ d.len > 4 -> "bug"
                     [] d.type # "fail" /\ addr = -1 -> "bug"
                     [] OTHER -> "emulated"
        /\ IF fate' # "emulated" THEN UNCHANGED <<mem, reg, at, events, seen>>
           ELSE /\ at' = <<addr, DataReg(i), i.length>>
                /\ CASE d.type \in {"write", "write_imm"} ->
                          EmulateWrite(d.len, reg) /\ UNCHANGED reg
                     [] d.type = "read" ->
                          EmulateRead(d.len, Put(IF d.len = 4 THEN Fill("zero") ELSE reg,
                                                 mem, d.len))
                     [] d.type = "read_zx" -> EmulateRead(d.len, Put(cleared, mem, d.len))
                     [] d.type = "read_sx" ->
                          \E v \in Later :
                            /\ mem' = v
                            /\ seen' = {mem, v}
                            /\ events' = <<Notify("read", d.len, mem),
                                          Notify("read", d.len, v)>>
                            /\ reg' = Put(Put(reg, Fill(Sign(mem, d.len)), i.opnd_bytes),
                                          v, d.len)

(* The value of a load, extended from n bytes to eight or to four. *)
Extended(d) ==
    LET v == Put(Fill(IF d.ext = "sign" THEN Sign(mem, d.size) ELSE "zero"), mem, d.size)
    IN  IF d.wide THEN v ELSE Put(Fill("zero"), v, 4)

(* The register that reads as zero and keeps nothing. *)
ZeroReg(a, r) == (a = "arm64" /\ r = 31) \/ (a = "riscv" /\ r = 0)

(* emulate_arm64_fault() and emulate_riscv_fault() once the access is known; *)
(* a load into the zero register is carried out and dropped; an instruction  *)
(* that was emulated is skipped.                                             *)
EmulateAccess(d, length) ==
    /\ fate' = IF d.ext = "fail" THEN "oops" ELSE "emulated"
    /\ CASE d.ext = "fail" -> UNCHANGED <<mem, reg, events, seen>>
         [] d.ext # "fail" /\ d.store ->
                /\ EmulateWrite(d.size, IF ZeroReg(arch, d.reg) THEN Fill("zero") ELSE reg)
                /\ UNCHANGED reg
         [] d.ext # "fail" /\ ~d.store ->
                EmulateRead(d.size, IF ZeroReg(arch, d.reg) THEN reg ELSE Extended(d))
    /\ at' = IF d.ext = "fail" THEN at ELSE <<d.reg, length>>

(* The base register of an access with write-back moves on, but the stack    *)
(* pointer does not; the syndrome is never valid for one.                    *)
EmulateArm64 ==
    LET rn == (Arm64Word(insn) \div 32) % 32 IN
    /\ arch = "arm64"
    /\ EmulateAccess(IF insn.isv THEN DecodeIsv(insn) ELSE DecodeArm64(insn), 4)
    /\ base' = IF /\ fate' = "emulated" /\ ~insn.isv
                  /\ insn.form \in {"pre", "post"} /\ rn # 31
               THEN {rn} ELSE base

EmulateRiscv ==
    arch = "riscv" /\ EmulateAccess(DecodeRiscv(insn), IF IsRvc(insn) THEN 2 ELSE 4)

(* The driver runs an instruction on the mapping.  The address faults if    *)
(* its entry is poisoned, and lies in a listed mapping.                     *)
Run(i) ==
    /\ phase = "traced" /\ i.arch = arch /\ fate = "none"
    /\ insn' = i
    /\ was' = reg
    /\ fate' = "fault"
    /\ UNCHANGED <<static, phase, loop, mem, reg, base, at, events, seen>>

(* __enter_badarea() and its counterparts: what cannot be emulated goes on  *)
(* to the kernel's own handler.                                             *)
EmulateFault ==
    /\ fate = "fault"
    /\ \/ EmulateX86 /\ UNCHANGED base
       \/ EmulateArm64
       \/ EmulateRiscv /\ UNCHANGED base
    /\ UNCHANGED <<static, phase, loop, insn, was>>

ArchNext ==
    \/ PoisonX86 \/ PoisonArm64 \/ PoisonRiscv \/ PoisonDone \/ PoisonFails
    \/ \E i \in Insns : Run(i)
    \/ EmulateFault
    \/ fate # "fault" /\ Unmap
    \/ RestoreX86 \/ RestoreArm64 \/ RestoreRiscv \/ RestoreDone

ArchSpec == ArchInit /\ [][ArchNext]_archVars

(* Conditions on the constants under which the properties below hold.       *)

(* Every mapping starts where an entry starts. *)
StartsEntry == \A y \in Layouts, m \in Mappings : m.va \in DOMAIN y.level

(* Only x86 finds a larger entry again once it is poisoned. *)
LargeOnX86 ==
    \A y \in Layouts : y.arch = "x86" \/ \A s \in DOMAIN y.level : y.level[s] = "pte"

RegularInsns == \A i \in Insns : i.arch = "x86" => Regular(i)

(* No instruction that is emulated differently from the CPU: the register   *)
(* of the BAR changes while a sign-extending load reads it twice; a 64-bit  *)
(* store of an immediate; a 32-bit MOVZX or MOVSX; write-back to the stack  *)
(* pointer; C.LW and C.LWSP.                                                *)
NoDeviation ==
    /\ TRUE \notin Volatile
    /\ \A i \in Insns :
         /\ i.arch = "x86" =>
              /\ i.op = "imm" => i.opnd # 8
              /\ i.op \in {"movzx8", "movzx16", "movsx8", "movsx16"} => i.opnd # 4
         /\ i.arch = "arm64" => i.rn # 31
         /\ i.arch = "riscv" => ~(i.form \in {"rvc", "rvcsp"} /\ i.f3 = 2)

-----------------------------------------------------------------------------
(* What the CPU would have done (external: the architectures' manuals).     *)

(* a load of n bytes extended to w bytes; above them, a destination of four *)
(* bytes or more is zero and a smaller one keeps the register's bytes       *)
Loaded(v, n, ext, w) ==
    LET low == Put(Fill(IF ext = "sign" THEN Sign(v, n) ELSE "zero"), v, n)
    IN  Put(IF w >= 4 THEN Fill("zero") ELSE was, low, w)

NativeStore(i) ==
    CASE i.arch = "x86" -> X86Store(i)
      [] i.arch = "arm64" -> i.opc = 0
      [] i.arch = "riscv" -> \/ i.form = "store"
                             \/ i.form \in {"rvc", "rvcsp"} /\ i.f3 > 3

NativeSize(i) ==
    CASE i.arch = "x86" -> X86Size(i)
      [] i.arch = "arm64" -> i.size
      [] i.arch = "riscv" -> 2 ^ (i.f3 % 4)

NativeLoad(i, v) ==
    LET n == NativeSize(i)
        ext(signed) == IF signed THEN "sign" ELSE "zero"
    IN  CASE i.arch = "x86" ->
               Loaded(v, n, ext(i.op \in {"movsx8", "movsx16"}),
                      IF i.op = "load8" THEN 1 ELSE i.opnd)
          [] i.arch = "arm64" /\ ~ZeroReg(i.arch, i.data) ->
               Loaded(v, n, ext(i.opc \in {2, 3}), IF i.opc = 2 \/ n = 8 THEN 8 ELSE 4)
          [] i.arch = "riscv" /\ ~ZeroReg(i.arch, i.data) ->
               Loaded(v, n, ext(i.form # "load" \/ i.f3 < 4), 8)
          [] OTHER -> was

NativeLength(i) == IF i.arch = "riscv" /\ i.form \in {"rvc", "rvcsp"} THEN 2 ELSE 4

-----------------------------------------------------------------------------
(* Properties *)

(* smptrace_arch_poison_pte(): while a mapping is traced every page it      *)
(* touches faults, so no access of the driver goes unseen.                  *)
EveryAccessFaults ==
    phase = "traced" =>
        \A a \in map.va .. map.va + map.len - 1 : pt[EntryAt(a)].state # "present"

(* smptrace_arch_restore_pte(): every entry is what it was before tracing,  *)
(* and nothing saved is left over.                                          *)
EntriesRestored ==
    phase = "done" => saved = {} /\ \A s \in DOMAIN levels : pt[s] = Present(s)

(* emulate_*(): an emulated instruction accesses the address (x86, where    *)
(* it is decoded) and the data register it names, leaves them and the base  *)
(* register as the CPU would have, a load from one value the BAR's register *)
(* had, and the program counter moves on by the length of the instruction.  *)
AsNative ==
    /\ fate # "bug"
    /\ fate = "emulated" =>
         /\ IF NativeStore(insn)
            THEN reg = was /\ \A k \in 0 .. NativeSize(insn) - 1 :
                                 mem[k] = IF ZeroReg(insn.arch, insn.data)
                                          THEN "zero" ELSE was[k]
            ELSE \E v \in seen : reg = NativeLoad(insn, v)
         /\ base = IF insn.arch = "arm64" /\ insn.form \in {"pre", "post"}
                   THEN {insn.rn} ELSE {}
         /\ insn.arch = "x86" =>
              at = <<NativeAddr(insn, Cpu), insn.data, Len(Encode(insn))>>
         /\ insn.arch # "x86" => at = <<insn.data, NativeLength(insn)>>

(* The events tell of the access what went over the bus; and an access that *)
(* is not emulated leaves no trace, so that the kernel's own handler finds  *)
(* everything as it was.                                                    *)
EventsTellAccess ==
    IF fate = "emulated"
    THEN /\ events # <<>>
         /\ NativeStore(insn) => Len(events) = 1
         /\ \A k \in DOMAIN events :
                \E v \in IF NativeStore(insn) THEN {mem} ELSE seen :
                    events[k] = Notify(IF NativeStore(insn) THEN "write" ELSE "read",
                                       NativeSize(insn), v)
    ELSE events = <<>> /\ reg = was /\ base = {} /\ at = <<>>

=============================================================================
