-------------------------------- MODULE Dma --------------------------------
(***************************************************************************)
(* The emulator's accesses to the memory of the driver (dma.c and the      *)
(* ioctls DMA, DMA_INDIRECT and DMA_ATOMIC of userspace.c): the pages of a *)
(* transfer are translated one by one and copied chunk by chunk, and an    *)
(* indirect transfer follows a list of pages (PRPs) that the driver has    *)
(* laid out in its memory.                                                 *)
(*                                                                         *)
(* Addresses and lengths count the eight bytes of an entry of such a list. *)
(* The data moved are not kept, only the addresses they are moved from or  *)
(* to, in order.                                                           *)
(***************************************************************************)
EXTENDS Integers, Sequences, SequencesExt, Folds, FiniteSets

CONSTANTS
    KPage,       \* PAGE_SIZE
    Iommus,      \* functions from pages of bus addresses to physical pages:
                 \* the domain of the device, with no entry for a page that
                 \* is not mapped
    PageSizes,   \* req.page_size: multiples of KPage
    Offsets,     \* offsets of the first page and of the list in a page
    Lengths,     \* req.length
    DataPages,   \* sequences of pages that the driver uses for data ...
    ListPages,   \* ... and for lists, in requests of any of PageSizes
    Funcs,       \* of "ours", "none": the function a request names
    Words        \* values of a word in memory: 0 to Words - 1

(* A page is larger than an entry, and an offset lies in the first page; the *)
(* driver has list pages enough for all its data pages but the first.        *)
ASSUME DmaAssumption ==
    /\ KPage \in Nat \ {0, 1} /\ Words \in Nat \ {0}
    /\ \A p \in PageSizes : p \in Nat \ {0} /\ p % KPage = 0
    /\ Offsets \subseteq Nat /\ \A o \in Offsets, p \in PageSizes : o < p
    /\ Lengths \subseteq Nat \ {0} /\ Funcs \subseteq {"ours", "none"}
    /\ DataPages \in Seq(Nat) \ {<<>>}
    /\ ListPages \in Seq(Nat) /\ Len(ListPages) >= Len(DataPages) - 1
    /\ \A m \in Iommus : m \in [DOMAIN m -> Nat] /\ DOMAIN m \subseteq Nat

(* The pages that the driver uses for lists are different ones, also in      *)
(* memory.                                                                   *)
ASSUME ListsAssumption ==
    /\ \A i, k \in DOMAIN ListPages : ListPages[i] = ListPages[k] => i = k
    /\ \A m \in Iommus, p \in PageSizes : \A q, s \in DOMAIN m :
          /\ (q * KPage) \div p \in Range(ListPages)
          /\ (s * KPage) \div p \in Range(ListPages)
          /\ m[q] = m[s] /\ m[q] # 0
          => q = s

VARIABLES
    iommu,     \* of Iommus; it never changes
    mem,       \* the lists in memory, by physical address
    dma,       \* req or op, the request of the ioctl; or NoRequest
    stage,     \* "idle", "prp1", "prp2", "list", "entries", "done"
    remaining, \* what is left of it
    list,      \* the list being read: [buf, idx]
    moved,     \* physical addresses of the data moved
    bufs,      \* buffers allocated
    ret,       \* what the last call returned
    word, atom \* a word in memory, and the last operation on it

dmaVars == <<iommu, mem, dma, stage, remaining, list, moved, bufs, ret, word, atom>>
dmaStatic == <<iommu, mem, dma>>

NoRequest == [kind |-> "none"]
NoAtom == [op |-> "none"]

DmaInit ==
    /\ iommu \in Iommus
    /\ mem = <<>>
    /\ dma = NoRequest
    /\ stage = "idle"
    /\ remaining = 0
    /\ list = [buf |-> <<>>, idx |-> 0]
    /\ moved = <<>>
    /\ bufs = 0
    /\ ret = "0"
    /\ word = 0
    /\ atom = NoAtom

-----------------------------------------------------------------------------
(* dma.c *)

Least(a, b) == IF a < b THEN a ELSE b

(* translate_iova(): the pages of a range.  A physical address of 0 stands  *)
(* for a page that is not mapped.                                           *)
TranslateOnce(p) == IF p \in DOMAIN iommu THEN iommu[p] ELSE 0
(* Mutant: the page after the range is translated too. *)
PagesAndOne(iova, len) == [k \in 1 .. (iova + len) \div KPage - iova \div KPage + 1 |->
                             TranslateOnce(iova \div KPage + k - 1)]
Pages(iova, len) == [k \in 1 .. (iova + len - 1) \div KPage - iova \div KPage + 1 |->
                       TranslateOnce(iova \div KPage + k - 1)]
Translated(iova, len) == \A k \in DOMAIN Pages(iova, len) : Pages(iova, len)[k] # 0

(* pciem_dma_read_from_guest(), pciem_dma_write_to_guest(): the addresses   *)
(* copied of the first n pages.  Only the first has an offset.              *)
(* Mutant: every page has it. *)
CopiedOffset(iova, len, n) ==
    LET chunk(done, k) ==
            LET off == iova % KPage
                size == Least(KPage - off, len - Len(done))
            IN  done \o [u \in 1 .. size |-> Pages(iova, len)[k] * KPage + off + u - 1]
    IN  FoldLeft(chunk, <<>>, [k \in 1 .. n |-> k])
Copied(iova, len, n) ==
    LET chunk(done, k) ==
            LET off == IF k = 1 THEN iova % KPage ELSE 0
                size == Least(KPage - off, len - Len(done))
            IN  done \o [u \in 1 .. size |-> Pages(iova, len)[k] * KPage + off + u - 1]
    IN  FoldLeft(chunk, <<>>, [k \in 1 .. n |-> k])

-----------------------------------------------------------------------------
(* The driver lays out a request (external).  An indirect one lists its     *)
(* data pages in list pages; a list page that is not the last ends with     *)
(* the address of the next.                                                 *)

IovaToPhys(u) == TranslateOnce(u \div KPage) * KPage + (u % KPage)
DataAddr(r, k) == DataPages[k] * r.page + IF k = 1 THEN r.off ELSE 0
ListAddr(r, k) == ListPages[k] * r.page + IF k = 1 THEN r.listOff ELSE 0

(* pages of data, and the list that names all but the first *)
PageCount(r) == ((r.off + r.length - 1) \div r.page) + 1
ListOf(r) ==
    LET last == PageCount(r)
        place(b, k) ==
            LET full == b.at % r.page = r.page - 1 /\ k < last
                at == IF full THEN ListAddr(r, b.page + 1) ELSE b.at
                next == IF full THEN {<<b.at, ListAddr(r, b.page + 1)>>} ELSE {}
            IN  [at |-> at + 1, page |-> IF full THEN b.page + 1 ELSE b.page,
                 put |-> b.put \cup next \cup {<<at, DataAddr(r, k)>>}]
    IN  FoldLeft(place, [at |-> ListAddr(r, 1), page |-> 1, put |-> {}],
                 [k \in 1 .. last - 1 |-> k + 1]).put
(* the memory that holds it *)
MemoryOf(r) ==
    LET l == ListOf(r)
    IN  [p \in {IovaToPhys(e[1]) : e \in l} |->
            (CHOOSE e \in l : IovaToPhys(e[1]) = p)[2]]

(* The bus addresses that a request is about, in order. *)
Meant(r) ==
    IF r.kind = "dma" THEN [u \in 1 .. r.length |-> r.iova + u - 1]
    ELSE [u \in 1 .. r.length |->
            LET w == r.off + u - 1 IN DataPages[(w \div r.page) + 1] * r.page + (w % r.page)]

-----------------------------------------------------------------------------
(* userspace.c *)

(* pciem_ioctl_dma() and the start of pciem_ioctl_dma_indirect(): buffers   *)
(* are allocated first, and are not freed when there is no such function.   *)
Begin(r, buffers, next) ==
    /\ stage = "idle" /\ atom = NoAtom
    /\ dma' = r
    /\ bufs' = buffers
    /\ IF r.func = "none" THEN stage' = "done" /\ ret' = "ENODEV" /\ UNCHANGED remaining
       ELSE stage' = next /\ remaining' = r.length /\ UNCHANGED ret
    /\ UNCHANGED <<iommu, list, moved, word, atom>>

DmaStart(r) == Begin(r, 1, "copy") /\ UNCHANGED mem
IndirectStart(r) == Begin(r, 2, "prp1") /\ mem' = MemoryOf(r)

(* kmalloc() fails for one of the buffers; the other is freed. *)
NoMemory(r) ==
    /\ stage = "idle" /\ atom = NoAtom
    /\ dma' = r
    /\ stage' = "done" /\ ret' = "ENOMEM"
    /\ UNCHANGED <<iommu, mem, remaining, list, moved, bufs, word, atom>>

Out(r) ==
    /\ stage' = "done" /\ bufs' = 0 /\ ret' = r

(* A chunk of a request fails once some data of it are moved. *)
Fails(r, data) == Out(r) /\ moved' = moved \o data /\ UNCHANGED remaining

(* No page can be touched: copy_from_user() has failed, there is no memory  *)
(* for the list of pages, or one of them is not mapped.                     *)
Refused(iova, len) ==
    \/ dma.write /\ Fails("EFAULT", <<>>)
    \/ Fails("ENOMEM", <<>>)
    \/ ~Translated(iova, len) /\ Fails("EFAULT", <<>>)

(* Mutant: a page that a write cannot map is reported as one of a read. *)
WriteCutEfault(iova, len) ==
    /\ dma.write /\ Translated(iova, len)
    /\ \E n \in 0 .. Len(Pages(iova, len)) - 1 : Fails("EFAULT", Copied(iova, len, n))
(* pciem_map_phys() fails for a page after n were written. *)
WriteCut(iova, len) ==
    /\ dma.write /\ Translated(iova, len)
    /\ \E n \in 0 .. Len(Pages(iova, len)) - 1 : Fails("ENOMEM", Copied(iova, len, n))

(* pciem_map_phys() fails, and nothing reaches the emulator, or             *)
(* copy_to_user() fails after a part.                                       *)
ReadCut(iova, len) ==
    /\ ~dma.write /\ Translated(iova, len)
    /\ \E n \in 0 .. len - 1 :
          Fails("EFAULT", SubSeq(Copied(iova, len, Len(Pages(iova, len))), 1, n))

(* A chunk is moved: out, or on to the next stage if there is more. *)
Move(iova, len, next) ==
    \/ Refused(iova, len) \/ WriteCut(iova, len) \/ ReadCut(iova, len)
    \/ /\ Translated(iova, len)
       /\ moved' = moved \o Copied(iova, len, Len(Pages(iova, len)))
       /\ remaining' = remaining - len
       /\ IF remaining = len THEN Out("0") ELSE stage' = next /\ UNCHANGED <<bufs, ret>>

DmaCopy ==
    /\ stage = "copy"
    /\ Move(dma.iova, dma.length, "done")
    /\ UNCHANGED <<dmaStatic, list, word, atom>>

Prp1 ==
    /\ stage = "prp1"
    /\ LET iova == DataAddr(dma, 1)
       IN  Move(iova, Least(dma.page - (iova % dma.page), remaining), "prp2")
    /\ UNCHANGED <<dmaStatic, list, word, atom>>

(* prp2 is the second page of data, or the list of the others. *)
Prp2Of(r) == IF PageCount(r) = 2 THEN DataAddr(r, 2) ELSE ListAddr(r, 1)
Prp2 ==
    /\ stage = "prp2"
    /\ IF remaining <= dma.page
       THEN Move(Prp2Of(dma), remaining, "done") /\ UNCHANGED list
       ELSE /\ stage' = "list"
            /\ list' = [buf |-> <<Prp2Of(dma)>>, idx |-> 0]
            /\ UNCHANGED <<remaining, moved, bufs, ret>>
    /\ UNCHANGED <<dmaStatic, word, atom>>

(* The list is read from where the entry at idx points to up to the end of  *)
(* the page.  What the driver has not written there is 0.                   *)
ReadList ==
    /\ stage = "list"
    /\ LET at == list.buf[list.idx + 1]
           len == dma.page - (at % dma.page)
           got == Copied(at, len, Len(Pages(at, len)))
       IN  \/ /\ Translated(at, len)
              /\ list' = [buf |-> [k \in 1 .. len |->
                                    LET p == got[k]
                                    IN  IF p \in DOMAIN mem THEN mem[p] ELSE 0],
                          idx |-> 0]
              /\ stage' = "entries"
              /\ UNCHANGED <<bufs, ret>>
           \/ /\ Out("EFAULT") \/ Out("ENOMEM")
              /\ UNCHANGED list
    /\ UNCHANGED <<dmaStatic, remaining, moved, word, atom>>

(* Mutant: the last entry always names another list. *)
IsPointerAlways == list.idx = Len(list.buf) - 1
(* The last entry of a list names another one if more than a page is left. *)
IsPointer == list.idx = Len(list.buf) - 1 /\ remaining > dma.page

Entry ==
    /\ stage = "entries"
    /\ IF IsPointer
       THEN stage' = "list" /\ UNCHANGED <<list, remaining, moved, bufs, ret>>
       ELSE /\ list' = [list EXCEPT !.idx = @ + 1]
            /\ Move(list.buf[list.idx + 1], Least(remaining, dma.page), "entries")
    /\ UNCHANGED <<dmaStatic, word, atom>>

NextRequest ==
    /\ stage = "done"
    /\ stage' = "idle"
    /\ dma' = NoRequest /\ mem' = <<>>
    /\ remaining' = 0 /\ list' = [buf |-> <<>>, idx |-> 0]
    /\ moved' = <<>> /\ ret' = "0"
    /\ UNCHANGED <<iommu, bufs, word, atom>>

-----------------------------------------------------------------------------
(* DMA_ATOMIC.  Words are wide enough for their bits to be single ones.     *)

Bits(v) == {b \in 0 .. 1 : (v \div 2 ^ b) % 2 = 1}
Value(bits) == FoldSet(LAMBDA b, v : v + 2 ^ b, 0, bits)

(* do_atomic_op() *)
AtomicResult(op, v, operand, compare) ==
    CASE op = "add" -> (v + operand) % Words
      [] op = "sub" -> (v - operand) % Words
      [] op = "swap" -> operand
      [] op = "cas" -> IF v = compare THEN operand ELSE v
      [] op = "and" -> Value(Bits(v) \cap Bits(operand))
      [] op = "or" -> Value(Bits(v) \cup Bits(operand))
      [] op = "xor" -> Value((Bits(v) \ Bits(operand)) \cup (Bits(operand) \ Bits(v)))
      [] OTHER -> v

(* An address that is not aligned or mapped: nothing is done, the value     *)
(* returned is 0, and the ioctl succeeds.  It shares nothing with a         *)
(* transfer: bound, no transfer follows one.                                *)
Atomic(op, operand, compare, valid) ==
    /\ stage = "idle"
    /\ word' = IF valid THEN AtomicResult(op, word, operand, compare) ELSE word
    /\ atom' = [op |-> op, operand |-> operand, compare |-> compare, before |-> word,
                result |-> IF valid THEN word ELSE 0]
    /\ UNCHANGED <<iommu, mem, dma, stage, remaining, list, moved, bufs, ret>>

-----------------------------------------------------------------------------
(* Requests of the emulator, as in its API. *)
DmaRequests ==
    [kind : {"dma"}, iova : {DataPages[1] * KPage + o : o \in Offsets},
     length : Lengths, write : BOOLEAN, func : Funcs]
IndirectRequests ==
    {r \in [kind : {"indirect"}, page : PageSizes, off : Offsets, listOff : Offsets,
            length : Lengths, write : BOOLEAN, func : Funcs] :
        PageCount(r) <= Len(DataPages)}

DmaNext ==
    \/ \E r \in DmaRequests : DmaStart(r) \/ (NoMemory(r) /\ UNCHANGED mem)
    \/ \E r \in IndirectRequests : IndirectStart(r) \/ (NoMemory(r) /\ mem' = MemoryOf(r))
    \/ DmaCopy \/ Prp1 \/ Prp2 \/ ReadList \/ Entry
    \/ NextRequest
    \/ \E op \in {"add", "sub", "swap", "cas", "and", "or", "xor"},
          a, b \in 0 .. Words - 1, valid \in BOOLEAN : Atomic(op, a, b, valid)

DmaSpec == DmaInit /\ [][DmaNext]_dmaVars

-----------------------------------------------------------------------------
(* Properties *)

Expected == [u \in 1 .. dma.length |-> IovaToPhys(Meant(dma)[u])]

(* pciem_ioctl_dma(), pciem_ioctl_dma_indirect(): the emulator's buffer is  *)
(* exchanged with the memory the driver means, in its order and with        *)
(* nothing besides, whichever way its pages and lists are cut; a request    *)
(* that fails has done a beginning of that, and one that succeeds all.      *)
TransferExact ==
    dma # NoRequest =>
        /\ IsPrefix(moved, Expected)
        /\ stage = "done" /\ ret = "0" => moved = Expected

(* A request that is over holds no buffer.  A write that is refused as a    *)
(* bad address (-EFAULT) has changed nothing of the chunk it was refused    *)
(* for: only a failure for want of memory leaves a chunk half written.      *)
CleanEnd ==
    stage = "done" =>
        /\ bufs = 0
        /\ dma.write /\ ret = "EFAULT" => Len(moved) = dma.length - remaining

(* translate_iova(): a transfer is not refused for its pages unless the     *)
(* driver has not mapped one of those that it touches.                      *)
MappedIsTranslated ==
    stage = "copy" =>
        (Translated(dma.iova, dma.length) <=>
            \A u \in 1 .. dma.length : Meant(dma)[u] \div KPage \in DOMAIN iommu)

(* do_atomic_op(): an atomic operation that the ioctl reports as done       *)
(* returns what was in memory before it.                                    *)
AtomicReturnsOld == atom # NoAtom => atom.result = atom.before

=============================================================================
