------------------------------ MODULE X86Insn ------------------------------
(***************************************************************************)
(* The x86 instruction decoder of BAR tracing (trace/arch/x86/lib), for    *)
(* kernel code in 64-bit mode and for the encodings without VEX or REX2:   *)
(* from the bytes of an instruction to its opcode, sizes, data register,   *)
(* memory address and length.  The stages of insn_get_length() each take   *)
(* the instruction as far as it is known and add to it.                    *)
(*                                                                         *)
(* Addresses are narrower than they are: see Width.  Of a displacement or  *)
(* an immediate the first byte holds the value, a signed one.              *)
(***************************************************************************)
EXTENDS Integers, Sequences, SequencesExt, FiniteSets

Rip == 16      \* as the base of an address, the next instruction
NoReg == 17    \* a register that takes no part (-EDOM)

Width(bytes) == CASE bytes = 4 -> 2 ^ 6 [] bytes = 8 -> 2 ^ 10

Mod(modrm) == modrm \div 64
Reg(modrm) == (modrm \div 8) % 8
Rm(modrm) == modrm % 8
Bit(rex, n) == (rex \div 2 ^ n) % 2    \* REX: bit 3 W, 2 R, 1 X, 0 B

Segment == [b \in {\h26, \h2e, \h36, \h3e, \h64, \h65} |->
              CASE b = \h26 -> "es" [] b = \h2e -> "cs" [] b = \h36 -> "ss"
                [] b = \h3e -> "ds" [] b = \h64 -> "fs" [] b = \h65 -> "gs"]
OperandSize == \h66
AddressSize == \h67
LegacyPrefix == DOMAIN Segment \cup {OperandSize, AddressSize, \hf0, \hf2, \hf3}

(* inat-tables.c, for the moves between memory and a register or immediate *)
HasModrm == {<<\h88>>, <<\h89>>, <<\h8a>>, <<\h8b>>, <<\hc6>>, <<\hc7>>,
             <<\h01>>, <<\h0f, \hb6>>, <<\h0f, \hb7>>, <<\h0f, \hbe>>, <<\h0f, \hbf>>}
HasMoffset == {<<\ha1>>}

-----------------------------------------------------------------------------
(* insn.c *)

InsnInit(code) ==
    [code |-> code, next |-> 1, prefixes |-> <<0, 0, 0, 0>>, rex |-> 0,
     opnd_bytes |-> 4, addr_bytes |-> 8, opcode |-> <<>>,
     modrm |-> <<>>, sib |-> <<>>, displacement |-> 0, length |-> 0]

(* The distinct bytes, each where it comes first. *)
Distinct(s) ==
    LET first == {k \in DOMAIN s : \A m \in 1 .. k - 1 : s[m] # s[k]}
        nth(n) == CHOOSE k \in first : Cardinality({m \in first : m <= k}) = n
    IN  [n \in 1 .. Cardinality(first) |-> s[nth(n)]]

(* The four bytes kept of the prefixes: the distinct ones in their order,   *)
(* with the last one moved or copied to the fourth place.                   *)
KeptPrefixes(s) ==
    LET d == [k \in 1 .. 4 |-> IF k <= Len(Distinct(s)) THEN Distinct(s)[k] ELSE 0]
        last == s[Len(s)]
    IN  IF s = <<>> THEN d
        ELSE [k \in 1 .. 4 |-> IF k = 4 THEN last
                               ELSE IF d[k] = last /\ d[4] # 0 THEN d[4] ELSE d[k]]

GetPrefixes(i) ==
    LET ok(n) == /\ n < Len(i.code)
                 /\ \A k \in 1 .. n : i.code[k] \in LegacyPrefix
                 /\ Len(Distinct(SubSeq(i.code, 1, n))) <= 4
        n == CHOOSE m \in 0 .. Len(i.code) - 1 : ok(m) /\ ~ok(m + 1)
        found == SubSeq(i.code, 1, n)
        hasRex == i.code[n + 1] \in \h40 .. \h4f
        rex == IF hasRex THEN i.code[n + 1] ELSE 0
    IN  [i EXCEPT !.next = IF hasRex THEN n + 2 ELSE n + 1,
                  !.prefixes = KeptPrefixes(found),
                  !.rex = rex,
                  !.addr_bytes = IF AddressSize \in ToSet(found) THEN 4 ELSE 8,
                  !.opnd_bytes = CASE Bit(rex, 3) = 1 -> 8
                                   [] Bit(rex, 3) = 0 /\ OperandSize \in ToSet(found) -> 2
                                   [] OTHER -> 4]

Take(i, n) == SubSeq(i.code, i.next, i.next + n - 1)
Advance(i, n) == [i EXCEPT !.next = @ + n]

GetOpcode(i) ==
    LET n == IF i.code[i.next] = \h0f THEN 2 ELSE 1
    IN  [Advance(i, n) EXCEPT !.opcode = Take(i, n)]

GetModrm(i) ==
    IF i.opcode \notin HasModrm THEN i
    ELSE [Advance(i, 1) EXCEPT !.modrm = Take(i, 1)]

GetSib(i) ==
    IF i.modrm = <<>> \/ Mod(Head(i.modrm)) = 3 \/ Rm(Head(i.modrm)) # 4 THEN i
    ELSE [Advance(i, 1) EXCEPT !.sib = Take(i, 1)]

(* A missing SIB byte counts as 0. *)
SibBase(i) == IF i.sib = <<>> THEN 0 ELSE Rm(Head(i.sib))

(* Mutant: the form without a base register has no displacement. *)
DisplacementSizeNoBase(i) ==
    IF i.modrm = <<>> THEN 0
    ELSE LET mod == Mod(Head(i.modrm)) IN
         CASE mod = 3 -> 0
           [] mod = 1 -> 1
           [] mod = 2 -> 4
           [] mod = 0 -> IF Rm(Head(i.modrm)) = 5 THEN 4 ELSE 0
DisplacementSize(i) ==
    IF i.modrm = <<>> THEN 0
    ELSE LET mod == Mod(Head(i.modrm)) IN
         CASE mod = 3 -> 0
           [] mod = 1 -> 1
           [] mod = 2 -> 4
           [] mod = 0 -> IF Rm(Head(i.modrm)) = 5 \/ SibBase(i) = 5 THEN 4 ELSE 0

GetDisplacement(i) ==
    LET n == DisplacementSize(i)
    IN  IF n = 0 THEN i
        ELSE [Advance(i, n) EXCEPT !.displacement = i.code[i.next]]

MoffsetSize(i) == i.addr_bytes
(* An immediate of eight bytes is encoded in four. *)
Immv32Size(i) == IF i.opnd_bytes = 2 THEN 2 ELSE 4

GetImmediate(i) ==
    Advance(i, CASE i.opcode \in HasMoffset -> MoffsetSize(i)
                 [] i.opcode = <<\hc6>> -> 1
                 [] i.opcode = <<\hc7>> -> Immv32Size(i)
                 [] OTHER -> 0)

GetLength(i) == [i EXCEPT !.length = i.next - 1]

(* insn_decode() *)
Decode(code) ==
    GetLength(GetImmediate(GetDisplacement(GetSib(GetModrm(GetOpcode(
        GetPrefixes(InsnInit(code))))))))

-----------------------------------------------------------------------------
(* insn-eval.c.  The CPU is [reg, ip, fs, gs]: registers 0 to 15, the        *)
(* address of the instruction and the bases of the two segments.            *)

RmReg(i) == LET b == Head(i.modrm) IN
    IF Mod(b) = 0 /\ Rm(b) = 5 THEN NoReg ELSE Rm(b) + 8 * Bit(i.rex, 0)
DataReg(i) == Reg(Head(i.modrm)) + 8 * Bit(i.rex, 2)
IndexReg(i) == LET r == Reg(Head(i.sib)) + 8 * Bit(i.rex, 1) IN
    IF r = 4 THEN NoReg ELSE r
BaseReg(i) ==
    IF Mod(Head(i.modrm)) = 0 /\ SibBase(i) = 5 THEN NoReg
    ELSE SibBase(i) + 8 * Bit(i.rex, 0)

RegsGet(cpu, r) == IF r = NoReg THEN 0 ELSE cpu.reg[r]

EffAddrModrm(i, cpu) ==
    LET tmp == IF RmReg(i) = NoReg THEN cpu.ip + i.length ELSE cpu.reg[RmReg(i)]
    IN  (tmp + i.displacement) % Width(i.addr_bytes)

EffAddrSib(i, cpu) ==
    (RegsGet(cpu, BaseReg(i)) + RegsGet(cpu, IndexReg(i)) * 2 ^ Mod(Head(i.sib))
        + i.displacement) % Width(i.addr_bytes)

(* for_each_insn_prefix() stops at the first empty place. *)
Iterated(i) ==
    LET empty == {k \in 1 .. 4 : i.prefixes[k] = 0}
    IN  IF empty = {} THEN i.prefixes
        ELSE SubSeq(i.prefixes, 1, (CHOOSE k \in empty : \A m \in empty : k <= m) - 1)
(* get_seg_reg_override_idx(): more than one is an error. *)
SegRegOverride(i) ==
    LET found == {k \in DOMAIN Iterated(i) : Iterated(i)[k] \in DOMAIN Segment}
    IN  CASE found = {} -> "default"
          [] \E k \in found : found = {k} -> Segment[Iterated(i)[CHOOSE k \in found : TRUE]]
          [] OTHER -> "invalid"

(* In 64-bit mode no register has a default segment, and only fs and gs    *)
(* count as overrides.                                                      *)
ResolveSegReg(i) ==
    LET idx == SegRegOverride(i)
    IN  IF idx \in {"fs", "gs", "invalid"} THEN idx ELSE "ignore"

SegBase(seg, cpu) ==
    CASE seg = "fs" -> cpu.fs
      [] seg = "gs" -> cpu.gs
      [] OTHER -> 0

(* The linear address of an effective one: -1 on failure. *)
SegLinear(i, eff, cpu) ==
    LET seg == ResolveSegReg(i)
    IN  IF seg = "invalid" THEN -1 ELSE (eff + SegBase(seg, cpu)) % Width(8)

EffAddr(i, cpu) == IF i.sib # <<>> THEN EffAddrSib(i, cpu) ELSE EffAddrModrm(i, cpu)
AddrRef32(i, cpu) == SegLinear(i, EffAddr(i, cpu) % Width(4), cpu)
AddrRef64(i, cpu) == SegLinear(i, EffAddr(i, cpu), cpu)

(* insn_get_addr_ref() *)
AddrRef(i, cpu) == IF i.addr_bytes = 4 THEN AddrRef32(i, cpu) ELSE AddrRef64(i, cpu)

(* insn_decode_mmio(): the kind of access and its size. *)
DecodeMmio(i) ==
    LET type == CASE i.opcode \in {<<\h88>>, <<\h89>>} -> "write"
                  [] i.opcode \in {<<\hc6>>, <<\hc7>>} -> "write_imm"
                  [] i.opcode \in {<<\h8a>>, <<\h8b>>} -> "read"
                  [] i.opcode \in {<<\h0f, \hb6>>, <<\h0f, \hb7>>} -> "read_zx"
                  [] i.opcode \in {<<\h0f, \hbe>>, <<\h0f, \hbf>>} -> "read_sx"
                  [] OTHER -> "fail"
        byte == {<<\h88>>, <<\hc6>>, <<\h8a>>, <<\h0f, \hb6>>, <<\h0f, \hbe>>}
        word == {<<\h0f, \hb7>>, <<\h0f, \hbf>>}
    IN  [type |-> type, len |-> CASE type = "fail" -> 0
                                  [] i.opcode \in byte -> 1
                                  [] i.opcode \in word -> 2
                                  [] OTHER -> i.opnd_bytes]

-----------------------------------------------------------------------------
(* What an instruction means, and how it is encoded (external: the manual    *)
(* of the architecture).  An instruction is                                  *)
(*   [op, opnd, data, base, index, scale, disp, mod, prefixes, addr]:        *)
(* its mnemonic, the size of its operand, the data register (16 to 19 are    *)
(* the second bytes of registers 0 to 3), the operands of the address, the   *)
(* form of the displacement, the other prefixes, and the size of the         *)
(* address.  base is a register, Rip or NoReg; index a register other than 4 *)
(* or NoReg.                                                                 *)

Opcode ==
    [store8 |-> <<\h88>>, store |-> <<\h89>>, imm8 |-> <<\hc6>>, imm |-> <<\hc7>>,
     load8 |-> <<\h8a>>, load |-> <<\h8b>>, movzx8 |-> <<\h0f, \hb6>>,
     movzx16 |-> <<\h0f, \hb7>>, movsx8 |-> <<\h0f, \hbe>>, movsx16 |-> <<\h0f, \hbf>>,
     add |-> <<\h01>>, moffs |-> <<\ha1>>]

Ops == DOMAIN Opcode

X86Store(i) == i.op \in {"store8", "store", "imm8", "imm"}
X86Size(i) == CASE i.op \in {"store8", "imm8", "load8", "movzx8", "movsx8"} -> 1
                [] i.op \in {"movzx16", "movsx16"} -> 2
                [] OTHER -> i.opnd

NeedsSib(i) == i.index # NoReg \/ i.base = NoReg \/ (i.base # Rip /\ i.base % 8 = 4)
Encodable(i) ==
    /\ i.index # 4
    /\ i.base = Rip => i.index = NoReg
    /\ i.base \in {Rip, NoReg} => i.mod = 0
    /\ i.index = NoReg => i.scale = 0
    /\ i.base \notin {Rip, NoReg} /\ i.mod = 0 => i.disp = 0 /\ i.base % 8 # 5

(* An instruction with at most one prefix besides those of its sizes, the   *)
(* override of a segment, and not three prefixes in all; its data register  *)
(* is not the second byte of another.                                       *)
Regular(i) ==
    /\ i.op \in Ops /\ i.opnd \in {2, 4, 8} /\ i.addr \in {4, 8}
    /\ i.data \in 0 .. 15
    /\ i.base \in 0 .. NoReg /\ i.index \in 0 .. 15 \cup {NoReg}
    /\ i.scale \in 0 .. 3 /\ i.mod \in 0 .. 2 /\ i.disp \in Int
    /\ Encodable(i)
    /\ \/ i.prefixes = <<>>
       \/ /\ \E b \in DOMAIN Segment : i.prefixes = <<b>>
          /\ ~(i.opnd = 2 /\ i.addr = 4)

(* A register in its fields: the low bits, and the high one in REX.  *)
Low(r) == IF r \in {Rip, NoReg} THEN 5 ELSE r % 8
High(r) == IF r \in 8 .. 15 THEN 1 ELSE 0

LegacyPrefixes(i) ==
    (IF i.opnd = 2 THEN <<OperandSize>> ELSE <<>>)
      \o (IF i.addr = 4 THEN <<AddressSize>> ELSE <<>>)
      \o i.prefixes

RexBits(i) ==
    (IF i.opnd = 8 THEN 8 ELSE 0) + 4 * High(i.data) + 2 * High(i.index) + High(i.base)
Rex(i) ==
    IF RexBits(i) # 0 \/ (i.op \in {"store8", "load8"} /\ i.data \in 4 .. 7)
    THEN <<\h40 + RexBits(i)>> ELSE <<>>

ModrmByte(i) ==
    64 * i.mod + 8 * (IF i.data >= 16 THEN i.data - 12 ELSE i.data % 8)
      + (IF NeedsSib(i) THEN 4 ELSE Low(i.base))
SibByte(i) ==
    64 * i.scale + 8 * (IF i.index = NoReg THEN 4 ELSE i.index % 8) + Low(i.base)

Field(v, n) == [k \in 1 .. n |-> IF k = 1 THEN v ELSE 0]
DispLen(i) == CASE i.mod = 1 -> 1
                [] i.mod = 2 \/ i.base \in {Rip, NoReg} -> 4
                [] OTHER -> 0
ImmLen(i) == CASE i.op = "imm8" -> 1
               [] i.op = "imm" -> IF i.opnd = 2 THEN 2 ELSE 4
               [] OTHER -> 0
Operands(i) ==
    IF i.op = "moffs" THEN Field(i.disp, i.addr)
    ELSE <<ModrmByte(i)>>
           \o (IF NeedsSib(i) THEN <<SibByte(i)>> ELSE <<>>)
           \o (Field(i.disp, DispLen(i)) \o Field(0, ImmLen(i)))

Encode(i) == LegacyPrefixes(i) \o Rex(i) \o Opcode[i.op] \o Operands(i)

(* The last segment prefix is the one that counts. *)
SegmentOf(i) ==
    LET s == {k \in DOMAIN i.prefixes : i.prefixes[k] \in DOMAIN Segment}
    IN  IF s = {} THEN "ds" ELSE Segment[i.prefixes[CHOOSE k \in s : \A m \in s : m <= k]]

NativeAddr(i, cpu) ==
    LET base == CASE i.base = Rip -> cpu.ip + Len(Encode(i))
                  [] i.base = NoReg -> 0
                  [] OTHER -> cpu.reg[i.base]
        index == IF i.index = NoReg THEN 0 ELSE cpu.reg[i.index] * 2 ^ i.scale
        segment == CASE SegmentOf(i) = "fs" -> cpu.fs
                     [] SegmentOf(i) = "gs" -> cpu.gs
                     [] OTHER -> 0
    IN  (((base + index + i.disp) % Width(i.addr)) + segment) % Width(8)

=============================================================================
