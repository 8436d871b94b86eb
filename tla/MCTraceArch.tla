---------------------------- MODULE MCTraceArch ----------------------------
(* Mappings of two to four pages, and the instructions that compilers and  *)
(* the kernel's MMIO accessors use.                                        *)
EXTENDS TraceArch

Pages(n) == [s \in {Page * k : k \in 0 .. n - 1} |-> "pte"]
Mixed == (0 :> "pte") @@ (2 :> "pte") @@ (4 :> "pmd")
Large == 0 :> "pud"

MCLayouts ==
    {[arch |-> a, level |-> Pages(4)] : a \in Arch}
      \cup {[arch |-> "x86", level |-> y] : y \in {Mixed, Large}}
MCHugeLayouts == {[arch |-> "arm64", level |-> Mixed]}

MCMappings == {[va |-> 0, len |-> n, pa |-> 0] : n \in {7, 8}}
Unaligned == {[va |-> 1, len |-> 6, pa |-> 1]}

X86Form == [base |-> 3, index |-> NoReg, scale |-> 0, disp |-> 0, mod |-> 0,
            prefixes |-> <<>>, addr |-> 8]
Mov(op, opnd, data, f) ==
    [arch |-> "x86", op |-> op, opnd |-> opnd, data |-> data, base |-> f.base,
     index |-> f.index, scale |-> f.scale, disp |-> f.disp, mod |-> f.mod,
     prefixes |-> f.prefixes, addr |-> f.addr]
X86(op, opnd) == Mov(op, opnd, 0, X86Form)

(* Forms of address: registers with a special encoding (4, 5, 12, 13) and   *)
(* without (3), no base, and the next instruction.                          *)
Addressing ==
    {f \in [base : {3, 4, 5, 12, 13, Rip, NoReg}, index : {NoReg, 12},
            scale : {0, 2}, disp : {0, -3}, mod : 0 .. 2,
            prefixes : {<<>>, <<\h65>>}, addr : {4, 8}] :
        /\ Encodable(f)
        /\ f.prefixes # <<>> => f.mod = 0}

MCCpu == [reg |-> [r \in 0 .. 15 |-> 61 * r + 3], ip |-> 900, fs |-> 200, gs |-> 310]

Arm(form, size, opc, rt) ==
    [arch |-> "arm64", isv |-> FALSE, form |-> form, size |-> size, opc |-> opc,
     data |-> rt, rn |-> 21]
Riscv(form, f3, data, rest) ==
    [arch |-> "riscv", form |-> form, f3 |-> f3, data |-> data, rest |-> rest]

(* A 32-bit MOVZX or MOVSX, a 64-bit store of an immediate, the second byte *)
(* of a register, three prefixes of which the last names a segment, C.LW,    *)
(* C.LWSP and write-back to the stack pointer are left to the configurations *)
(* that show what becomes of them.                                           *)
X86Insns ==
    {X86(op, n) : op \in {"store8", "store", "imm8", "load8", "load", "add", "moffs"},
                  n \in {2, 4, 8}}
      \cup {X86("imm", n) : n \in {2, 4}}
      \cup {X86(op, n) : op \in {"movzx8", "movsx8"}, n \in {2, 8}}
      \cup {X86(op, 8) : op \in {"movzx16", "movsx16"}}
      \cup {Mov("store", 4, 9, f) : f \in Addressing}
      \cup {Mov("imm", 2, 0, f) : f \in {g \in Addressing : g.base = Rip /\ g.addr = 8}}
      \cup {Mov("load8", 4, r, X86Form) : r \in {1, 6, 14}}
(* Register 31 of arm64 and register 0 of riscv are the zero registers. *)
ArmInsns ==
    {Arm(f, n, o, t) : f \in {"offset", "post", "register"}, n \in {1, 2, 4, 8},
                       o \in 0 .. 3, t \in {0, 12, 31}}
IsvInsns == {[i EXCEPT !.isv = TRUE] : i \in {j \in ArmInsns : j.form = "offset" /\
                (j.size = 4 => j.opc # 3) /\ (j.size = 8 => j.opc < 2)}}
RiscvInsns ==
    {Riscv("load", f, d, 31) : f \in 0 .. 7, d \in {0, 8, 31}}
      \cup {Riscv("store", f, d, 31) : f \in 0 .. 4, d \in {0, 8, 31}}
      \cup {Riscv("other", 2, 9, 31)}
      \cup {Riscv("rvc", f, d, r) : f \in {1, 3, 6, 7}, d \in {8, 13, 15}, r \in {0, 31}}
      \cup {Riscv("rvcsp", f, d, r) : f \in {1, 3, 6, 7}, d \in {1, 13, 31}, r \in {0, 31}}
      \cup {Riscv("rvcother", f, 9, 31) : f \in {2, 3, 6}}

MCInsns == X86Insns \cup ArmInsns \cup IsvInsns \cup RiscvInsns

(* The constants of the configuration meet the conditions of TraceArch. *)
ASSUME ConditionsMet ==
    /\ Layouts = MCLayouts /\ Mappings = MCMappings => StartsEntry /\ LargeOnX86
    /\ Insns = MCInsns => RegularInsns /\ (Volatile = {FALSE} => NoDeviation)

MCSignExtend == {X86("movsx8", 8)}
MCLeftOut ==
    {X86("movzx8", 4), X86("imm", 8), Riscv("rvc", 2, 9, 0), Riscv("rvcsp", 2, 9, 0), Mov("store8", 4, 17, X86Form),
     Mov("store", 2, 0, [X86Form EXCEPT !.prefixes = <<\h65>>, !.addr = 4]),
     [Arm("post", 8, 0, 12) EXCEPT !.rn = 31]}

=============================================================================
