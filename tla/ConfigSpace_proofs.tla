------------------------- MODULE ConfigSpace_proofs -------------------------
(***************************************************************************)
(* Theorems about configuration space, each for its own specification: who *)
(* answers an access (BusHijack), where the capabilities lie (CapList),    *)
(* what their registers read (CapRegs) and what a scan finds in the base   *)
(* address registers (BarRegs), for any number of instances, CPUs, slots,  *)
(* capabilities and BARs.                                                  *)
(***************************************************************************)
EXTENDS BusHijack, CapList, CapRegs, BarRegs, FiniteSetTheorems,
        WellFoundedInduction, SequenceTheorems, TLAPS

-----------------------------------------------------------------------------
(* Attach-to-host mode: where one instance at a time is on the bus, its     *)
(* pointer is put back whatever fails; where also no access is under way    *)
(* when the pointer changes, every access ends where it belongs.            *)

OnBus(i) == st[i] \in {"failing", "on"}

(* One instance at a time is on the bus; it keeps the host's pointer. *)
OpsInv ==
    /\ ops # "host" => OnBus(ops) /\ orig[ops] = "host"
    /\ \A i \in Insts :
          /\ OnBus(i) => ops = i
          /\ orig[i] \in {None, "host"}

(* An access was fetched through the pointer that is still there, and the   *)
(* earlier ones were answered.                                              *)
AccInv ==
    \A c \in Cpus :
        /\ pc[c] = "host" => ops = "host"
        /\ pc[c] = "proxy" => ops # "host"
        /\ pc[c] # "idle" => acc[c] \in Slots
        /\ ans[c] \notin {"wild", "freed", "loop"}

HijackInv == HijackTypeOK /\ OpsInv

-----------------------------------------------------------------------------
(* What answers an access while the invariant holds. *)

LEMMA ThroughHost ==
  ASSUME NEW s \in Slots
  PROVE  Through("host", "host", s) = IF s \in host THEN "device" ELSE "nobody"
  BY DEF Through

LEMMA ThroughProxy ==
  ASSUME HijackInv, ops # "host", NEW s \in Slots
  PROVE  Through(ops, ops, s) = IF slot[ops] = s THEN ops
                                ELSE IF s \in host THEN "device" ELSE "nobody"
  BY DEF Through, HijackInv, OpsInv, OnBus

-----------------------------------------------------------------------------
(* The pointer *)

LEMMA OpsInvInit == HijackInit => HijackInv
  BY SlotsAssumption, InstsAssumption
     DEF HijackInit, HijackInv, HijackTypeOK, OpsInv, OnBus, Ptr, Answers

LEMMA OpsInvNext ==
  ASSUME ~Overlap, HijackInv, [HijackNext]_hijackVars
  PROVE  HijackInv'
  <1> USE InstsAssumption DEF HijackInv
  <1>1. ASSUME NEW i \in Insts, Attach(i) PROVE HijackInv'
    <2>1. ops = "host"
      BY <1>1 DEF Attach, HijackTypeOK, Ptr, OpsInv, OnBus
    <2>2. HijackTypeOK'
      BY <1>1, <2>1 DEF Attach, FreeSlot, HijackTypeOK, Ptr
    <2>3. OpsInv'
      BY <1>1, <2>1 DEF Attach, HijackTypeOK, OpsInv, OnBus
    <2> QED
      BY <2>2, <2>3
  <1>2. ASSUME NEW i \in Insts, AttachFails(i) PROVE HijackInv'
    <2>1. ops = i /\ orig[i] = "host"
      BY <1>2 DEF AttachFails, HijackTypeOK, Ptr, OpsInv, OnBus
    <2>2. HijackTypeOK'
      BY <1>2, <2>1 DEF AttachFails, HijackTypeOK, Ptr
    <2>3. OpsInv'
      BY <1>2, <2>1 DEF AttachFails, HijackTypeOK, OpsInv, OnBus
    <2> QED
      BY <2>2, <2>3
  <1>3. ASSUME NEW i \in Insts, NoSlot(i) PROVE HijackInv'
    <2>1. ops = "host" /\ ops' = "host"
      BY <1>3 DEF NoSlot, HijackTypeOK, Ptr, OpsInv, OnBus
    <2> QED
      BY <1>3, <2>1 DEF NoSlot, HijackTypeOK, Ptr, OpsInv, OnBus
  <1>4. ASSUME NEW i \in Insts, Teardown(i) PROVE HijackInv'
    <2>1. CASE st[i] = "on"
      <3>1. ops = i /\ orig[i] = "host"
        BY <2>1 DEF HijackTypeOK, Ptr, OpsInv, OnBus
      <3> QED
        BY <1>4, <2>1, <3>1 DEF Teardown, HijackTypeOK, Ptr, OpsInv, OnBus
    <2>2. CASE st[i] = "off"
      <3>1. ops # i
        BY <2>2 DEF OpsInv, OnBus
      <3> QED
        BY <1>4, <2>2, <3>1 DEF Teardown, HijackTypeOK, Ptr, OpsInv, OnBus
    <2> QED
      BY <1>4, <2>1, <2>2 DEF Teardown
  <1>5. ASSUME NEW s \in Slots, Plug(s) PROVE HijackInv'
    BY <1>5 DEF Plug, HijackTypeOK, OpsInv, OnBus
  <1>6. ASSUME NEW c \in Cpus, NEW s \in Slots, Fetch(c, s) PROVE HijackInv'
    BY <1>6 DEF Fetch, HijackTypeOK, Answers, OpsInv, OnBus
  <1>7. ASSUME NEW c \in Cpus, Route(c) PROVE HijackInv'
    <2>1. ans' \in [Cpus -> Answers]
      <3>1. pc[c] \in {"host", "proxy"}
        BY <1>7 DEF Route, HijackTypeOK
      <3>2. Through(pc[c], ops, acc[c]) \in Answers
        BY <3>1 DEF Through, HijackTypeOK, Ptr, Answers
      <3> QED
        BY <1>7, <3>2 DEF Route, HijackTypeOK
    <2> QED
      BY <1>7, <2>1 DEF Route, HijackTypeOK, OpsInv, OnBus
  <1>8. CASE UNCHANGED hijackVars
    BY <1>8 DEF hijackVars, HijackTypeOK, OpsInv, OnBus
  <1> QED
    BY <1>1, <1>2, <1>3, <1>4, <1>5, <1>6, <1>7, <1>8 DEF HijackNext

(* OpsRestored: with one instance at a time on the bus, bus->ops is the     *)
(* host's own or points into that instance, whether its attach succeeds,    *)
(* fails at the scan or finds no slot, and whatever accesses are under way. *)
THEOREM PointerPutBack == ASSUME ~Overlap PROVE HijackSpec => []OpsRestored
  <1>1. HijackInv /\ [HijackNext]_hijackVars => HijackInv'
    BY OpsInvNext
  <1>2. HijackInv => OpsRestored
    BY DEF HijackInv, OpsInv, OnBus, OpsRestored
  <1> QED
    BY <1>1, <1>2, OpsInvInit, PTL DEF HijackSpec

-----------------------------------------------------------------------------
(* The accesses *)

(* Who answers the access that Route ends. *)
LEMMA RouteAnswers ==
  ASSUME HijackInv, AccInv, NEW c \in Cpus, Route(c)
  PROVE  ans'[c] \in Owner(acc[c])
  <1> DEFINE s == acc[c]
             here == {i \in Insts : st[i] \in {"failing", "on"} /\ slot[i] = s}
  <1>0. s \in Slots /\ ans'[c] = Through(pc[c], ops, s)
    BY DEF Route, AccInv, HijackInv, HijackTypeOK
  <1>1. CASE pc[c] = "host"
    <2>1. ops = "host" /\ here = {}
      BY <1>1, InstsAssumption DEF AccInv, HijackInv, OpsInv, OnBus
    <2>2. ans'[c] = IF s \in host THEN "device" ELSE "nobody"
      BY <1>0, <1>1, <2>1, ThroughHost
    <2> QED
      BY <2>1, <2>2 DEF Owner
  <1>2. CASE pc[c] = "proxy"
    <2>1. ops # "host" /\ ops \in Insts
      BY <1>2 DEF AccInv, HijackInv, HijackTypeOK, Ptr
    <2>2. here = IF slot[ops] = s THEN {ops} ELSE {}
      BY <2>1 DEF HijackInv, OpsInv, OnBus
    <2>3. Through(pc[c], ops, s) = Through(ops, ops, s)
      BY <1>2, <2>1, InstsAssumption DEF Through, HijackInv, HijackTypeOK, Ptr
    <2>4. ans'[c] = IF slot[ops] = s THEN ops
                    ELSE IF s \in host THEN "device" ELSE "nobody"
      BY <1>0, <2>1, <2>3, ThroughProxy
    <2> QED
      BY <2>2, <2>4 DEF Owner
  <1> QED
    BY <1>1, <1>2 DEF Route, HijackInv, HijackTypeOK

LEMMA AccInvNext ==
  ASSUME Quiet, HijackInv, AccInv, [HijackNext]_hijackVars
  PROVE  AccInv'
  <1>1. CASE ops' # ops
    <2>1. \A c \in Cpus : pc[c] = "idle" /\ pc'[c] = "idle" /\ ans'[c] = ans[c]
      BY <1>1 DEF HijackNext, hijackVars, Attach, AttachFails, NoSlot, Teardown, Plug,
                  Fetch, Route, MayChangeOps, BusUnused
    <2> QED
      BY <2>1 DEF AccInv
  <1>2. ASSUME NEW c \in Cpus, NEW s \in Slots, Fetch(c, s) PROVE AccInv'
    BY <1>2, InstsAssumption DEF Fetch, AccInv, HijackInv, HijackTypeOK
  <1>3. ASSUME NEW c \in Cpus, Route(c) PROVE AccInv'
    <2>1. ans'[c] \notin {"wild", "freed", "loop"}
      BY <1>3, RouteAnswers, InstsAssumption DEF Owner
    <2> QED
      BY <1>3, <2>1 DEF Route, AccInv, HijackInv, HijackTypeOK
  <1>4. CASE UNCHANGED <<ops, acc, pc, ans>>
    BY <1>4 DEF AccInv
  <1> QED
    BY <1>1, <1>2, <1>3, <1>4
       DEF HijackNext, hijackVars, Attach, AttachFails, NoSlot, Teardown, Plug

LEMMA AccInvInit == HijackInit => AccInv
  BY InstsAssumption DEF HijackInit, AccInv

(* ProxySafe: where in addition no access is under way when the pointer     *)
(* changes, the proxy never takes the host's pci_ops for part of an         *)
(* instance, never uses a freed one and never calls itself.                 *)
THEOREM ProxyFindsInstance ==
  ASSUME ~Overlap, Quiet PROVE HijackSpec => []ProxySafe
  <1>1. HijackInv /\ AccInv /\ [HijackNext]_hijackVars => HijackInv' /\ AccInv'
    BY OpsInvNext, AccInvNext
  <1>2. AccInv => ProxySafe
    BY DEF AccInv, ProxySafe
  <1> QED
    BY <1>1, <1>2, OpsInvInit, AccInvInit, PTL DEF HijackSpec

(* Routed: under the same conditions every access ends at the instance that *)
(* has the slot, else at the device there, else nowhere; an instance on the *)
(* bus changes nothing for its neighbours.                                  *)
THEOREM AccessesRouted == ASSUME ~Overlap, Quiet PROVE HijackSpec => Routed
  <1> DEFINE Ends == \A c \in Cpus : pc[c] # "idle" /\ pc'[c] = "idle" =>
                        ans'[c] \in Owner(acc[c])
  <1>1. HijackInv /\ AccInv /\ [HijackNext]_hijackVars => HijackInv' /\ AccInv'
    BY OpsInvNext, AccInvNext
  <1>2. HijackInv /\ AccInv /\ [HijackNext]_hijackVars => [Ends]_hijackVars
    <2> SUFFICES ASSUME HijackInv, AccInv, HijackNext, NEW c \in Cpus,
                        pc[c] # "idle", pc'[c] = "idle"
                 PROVE  ans'[c] \in Owner(acc[c])
      BY DEF hijackVars
    <2>1. Route(c)
      BY DEF HijackNext, Attach, AttachFails, NoSlot, Teardown, Plug, Fetch, Route,
             HijackInv, HijackTypeOK
    <2> QED
      BY <2>1, RouteAnswers
  <1> QED
    BY <1>1, <1>2, OpsInvInit, AccInvInit, PTL DEF HijackSpec, Routed

-----------------------------------------------------------------------------
(* The control registers                                                    *)

(* Types; whatever is written, the MSI-X table size stays.                  *)
RegsInv ==
    /\ RegsTypeOK
    /\ typed \in [Kinds -> SUBSET UNION {Bits[k] : k \in AllKinds}]
    /\ bytes \in [Kinds -> SUBSET UNION {Bits[k] : k \in AllKinds}]
    /\ val \in [CfgCpus -> SUBSET UNION {Bits[k] : k \in AllKinds}]
    /\ \A c \in CfgCpus : busy[c] # NoReg => val[c] \subseteq Bits[busy[c]]
    /\ TableSizeFixed

(* While accesses are orderly, one write at most waits for its write-back,  *)
(* the value it holds is the typed state still, and every other register    *)
(* reads the same either way. MSI begins with its two views apart.          *)
OrderlyInv ==
    usage = {} =>
        /\ \A c, d \in CfgCpus : busy[c] # NoReg /\ busy[d] # NoReg => c = d
        /\ \A c \in CfgCpus : busy[c] # NoReg => built /\ val[c] = typed[busy[c]]
        /\ built =>
              \A k \in Kinds \ {"MSI"} :
                  (\A c \in CfgCpus : busy[c] # k) => typed[k] = bytes[k]
        /\ ~built => typed = [k \in Kinds |-> Typed0[k]]

LEMMA RegisterBits ==
  ASSUME NEW k \in AllKinds
  PROVE  /\ Bits[k] \subseteq UNION {Bits[j] : j \in AllKinds}
         /\ Built[k] \subseteq Bits[k] \ {"rsvd"} /\ Typed0[k] \subseteq Bits[k] \ {"rsvd"}
         /\ k # "MSI" => Built[k] = Typed0[k]
  BY DEF Bits, Built, Typed0, AllKinds

(* What a handler keeps: no reserved bit, and the table size as it was.     *)
LEMMA MergeKeeps ==
  ASSUME NEW k \in AllKinds, NEW old \in SUBSET (Bits[k] \ {"rsvd"}), NEW v \in SUBSET Bits[k]
  PROVE  /\ Merge(k, old, v) \subseteq Bits[k] \ {"rsvd"}
         /\ k = "MSIX" /\ "size" \in old => "size" \in Merge(k, old, v)
  BY DEF Merge, Bits, AllKinds

LEMMA RegsInvInit == RegsInit => RegsInv /\ OrderlyInv
  <1> SUFFICES ASSUME RegsInit PROVE RegsInv /\ OrderlyInv
    OBVIOUS
  <1>1. \A k \in Kinds : typed[k] = Typed0[k] /\ k \in AllKinds
    BY KindsAssumption DEF RegsInit
  <1>2. RegsInv
    BY <1>1, RegisterBits
       DEF RegsInit, RegsInv, RegsTypeOK, TableSizeFixed, ReadWord, Typed0
  <1>3. OrderlyInv
    BY DEF RegsInit, OrderlyInv
  <1> QED
    BY <1>2, <1>3

LEMMA RegsInvNext ==
  ASSUME RegsInv, OrderlyInv, [RegsNext]_regsVars
  PROVE  RegsInv' /\ OrderlyInv'
  <1> USE KindsAssumption
  <1>1. CASE BuildRegs /\ UNCHANGED usage
    <2>1. \A k \in Kinds : /\ bytes'[k] = Built[k] /\ k \in AllKinds
                          /\ Built[k] \subseteq Bits[k]
                          /\ Built[k] \in SUBSET UNION {Bits[j] : j \in AllKinds}
      BY <1>1, RegisterBits DEF BuildRegs
    <2>2. RegsInv'
      BY <1>1, <2>1 DEF BuildRegs, RegsInv, RegsTypeOK, TableSizeFixed, ReadWord
    <2>3. OrderlyInv'
      BY <1>1, <2>1, RegisterBits DEF BuildRegs, OrderlyInv
    <2> QED
      BY <2>2, <2>3
  <1>2. ASSUME NEW c \in CfgCpus, WriteBack(c), UNCHANGED usage
        PROVE  RegsInv' /\ OrderlyInv'
    <2>1. PICK v \in {val[c], typed[busy[c]]} : bytes' = [bytes EXCEPT ![busy[c]] = v]
      BY <1>2 DEF WriteBack
    <2>2. busy[c] \in Kinds /\ busy[c] \in AllKinds /\ v \subseteq Bits[busy[c]]
      BY <1>2, <2>1 DEF WriteBack, RegsInv, RegsTypeOK
    <2>3. v \in SUBSET UNION {Bits[k] : k \in AllKinds}
      BY <2>2, RegisterBits
    <2>4. RegsInv'
      BY <1>2, <2>1, <2>2, <2>3
         DEF WriteBack, RegsInv, RegsTypeOK, TableSizeFixed, ReadWord
    <2>5. OrderlyInv'
      BY <1>2, <2>1, <2>2 DEF WriteBack, RegsInv, RegsTypeOK, OrderlyInv
    <2> QED
      BY <2>4, <2>5
  <1>3. ASSUME NEW c \in CfgCpus, NEW k \in Kinds, NEW v \in SUBSET Bits[k],
               StoreTyped(c, k, v), UNCHANGED usage
        PROVE  RegsInv' /\ OrderlyInv'
    <2> DEFINE new == Merge(k, typed[k], v)
    <2>1. /\ typed' = [typed EXCEPT ![k] = new] /\ val' = [val EXCEPT ![c] = new]
          /\ busy' = [busy EXCEPT ![c] = k] /\ bytes' = bytes /\ built' = built
          /\ MayAccess(c)
      BY <1>3 DEF StoreTyped
    <2>2. /\ new \subseteq Bits[k] \ {"rsvd"}
          /\ k = "MSIX" => "size" \in new
      BY MergeKeeps DEF RegsInv, RegsTypeOK, TableSizeFixed, ReadWord
    <2>3. new \in SUBSET UNION {Bits[j] : j \in AllKinds}
      BY <2>2, RegisterBits
    <2> HIDE DEF new
    <2>4. RegsInv'
      BY <1>3, <2>1, <2>2, <2>3 DEF RegsInv, RegsTypeOK, TableSizeFixed, ReadWord
    <2>5. OrderlyInv'
      BY <1>3, <2>1 DEF MayAccess, OrderlyInv, RegsInv, RegsTypeOK
    <2> QED
      BY <2>4, <2>5
  <1>4. ASSUME NEW c \in CfgCpus, NEW k \in Kinds, NEW v \in SUBSET Bits[k],
               WriteRaw(c, k, v), UNCHANGED usage
        PROVE  RegsInv' /\ OrderlyInv'
    <2>1. PICK hit \in SUBSET Bits[k] :
             bytes' = [bytes EXCEPT ![k] = (bytes[k] \ hit) \cup (v \cap hit)]
      BY <1>4 DEF WriteRaw, RegsInv, RegsTypeOK
    <2> DEFINE new == (bytes[k] \ hit) \cup (v \cap hit)
    <2>2. new \subseteq Bits[k] /\ new \in SUBSET UNION {Bits[j] : j \in AllKinds}
      BY RegisterBits DEF RegsInv, RegsTypeOK
    <2>3. bytes' = [bytes EXCEPT ![k] = new]
      BY <2>1
    <2> HIDE DEF new
    <2>4. RegsInv'
      BY <1>4, <2>2, <2>3 DEF WriteRaw, RegsInv, RegsTypeOK, TableSizeFixed, ReadWord
    <2>5. OrderlyInv'
      BY <1>4 DEF WriteRaw, OrderlyInv
    <2> QED
      BY <2>4, <2>5
  <1>5. CASE UNCHANGED regsVars
    BY <1>5 DEF regsVars, RegsInv, RegsTypeOK, TableSizeFixed, ReadWord, OrderlyInv
  <1> QED
    BY <1>1, <1>2, <1>3, <1>4, <1>5 DEF RegsNext, RegsStep

(* TableSizeFixed: no sequence of accesses, of whatever sizes and from      *)
(* however many CPUs at once, changes the MSI-X table size that a driver    *)
(* reads; and no reserved bit is ever kept.                                 *)
THEOREM TableSizeStays == RegsSpec => [](TableSizeFixed /\ RegsTypeOK)
  <1>1. RegsInv => TableSizeFixed /\ RegsTypeOK
    BY DEF RegsInv
  <1> QED
    BY <1>1, RegsInvInit, RegsInvNext, PTL DEF RegsSpec

(* OrderlyViewsAgree: on a device without an MSI capability (whose two      *)
(* views differ until it is first written), a register reads the same at    *)
(* every access size as long as all writes are 16 bits wide and one at a    *)
(* time, whichever value the compiler stores.                               *)
THEOREM RegistersReadAlike ==
  ASSUME "MSI" \notin Kinds PROVE RegsSpec => []OrderlyViewsAgree
  <1>1. RegsInv /\ OrderlyInv => OrderlyViewsAgree
    BY KindsAssumption
       DEF RegsInv, RegsTypeOK, OrderlyInv, OrderlyViewsAgree, ViewsAgree, ReadWord, ReadBlock
  <1> QED
    BY <1>1, RegsInvInit, RegsInvNext, PTL DEF RegsSpec

-----------------------------------------------------------------------------
(* The capability lists                                                     *)

Entry == [type : Types, ext : BOOLEAN, off : Nat, size : Nat, info : Nat \cup BOOLEAN]

CapTypes ==
    /\ caps \in Seq(Entry)
    /\ next \in Nat /\ extNext \in Nat /\ sum \in Nat
    /\ mode \in {"config", "built"}

(* While everything fits, next_offset has not wrapped, and the standard     *)
(* capabilities fill the space up to it one after the other.                *)
StdInv ==
    sum <= Room =>
        /\ next = (Header + sum) % U8
        /\ \A k \in DOMAIN caps : ~caps[k].ext =>
              /\ caps[k].size >= 8 /\ caps[k].off >= Header
              /\ caps[k].off + caps[k].size <= Header + sum
        /\ \A j, k \in DOMAIN caps : j < k /\ ~caps[j].ext /\ ~caps[k].ext =>
              caps[j].off + caps[j].size <= caps[k].off

(* So do the extended ones, from 0x100 on.                                  *)
ExtInv ==
    /\ extNext >= CfgSize
    /\ \A k \in DOMAIN caps : caps[k].ext =>
          /\ caps[k].size >= 8 /\ caps[k].off >= CfgSize
          /\ caps[k].off + caps[k].size <= extNext
          /\ (\A j \in 1 .. k - 1 : ~caps[j].ext) => caps[k].off = CfgSize
    /\ \A j, k \in DOMAIN caps : j < k /\ caps[j].ext /\ caps[k].ext =>
          caps[j].off + caps[j].size <= caps[k].off
    /\ (\A k \in DOMAIN caps : ~caps[k].ext) => extNext = CfgSize

(* Each is written with no more bytes than its size.                        *)
SizeInv ==
    sum <= Room =>
        \A k \in DOMAIN caps :
            ~caps[k].ext => Written(caps[k]) \in 0 .. caps[k].size

CapInv == CapTypes /\ StdInv /\ ExtInv /\ SizeInv

LEMMA EntryFields ==
  ASSUME caps \in Seq(Entry), NEW k \in DOMAIN caps
  PROVE  /\ caps[k] \in Entry /\ caps[k].type \in Types
         /\ caps[k].ext \in BOOLEAN /\ caps[k].off \in Nat /\ caps[k].size \in Nat
  <1>1. caps[k] \in Entry
    BY LenProperties, ElementOfSeq
  <1> QED
    BY <1>1 DEF Entry

LEMMA CapInvInit == Init => CapInv
  <1> SUFFICES ASSUME Init PROVE CapInv
    OBVIOUS
  <1>1. caps = <<>> /\ DOMAIN caps = {} /\ caps \in Seq(Entry)
    BY EmptySeq DEF Init
  <1> QED
    BY <1>1 DEF Init, CapInv, CapTypes, StdInv, ExtInv, SizeInv, Header, U8, Room, CfgSize

(* A standard capability of at least eight bytes keeps the invariant.       *)
LEMMA AddStdKeeps ==
  ASSUME CapInv, NEW t \in Types, NEW n \in Nat, n >= 8, NEW info \in Nat \cup BOOLEAN,
         t = "VSEC" => info = n - 8, AddStd(t, n, info)
  PROVE  CapInv'
  <1> DEFINE e == [type |-> t, ext |-> FALSE, off |-> next, size |-> n % U8, info |-> info]
             m == Len(caps) + 1
  <1> USE DEF CapInv
  <1>1. e \in Entry /\ e.ext = FALSE /\ e.off = next /\ e.size = n % U8
    BY DEF Entry, CapTypes, U8
  <1>2. /\ caps' = Append(caps, e) /\ next' = (next + (n % U8)) % U8 /\ sum' = sum + n
        /\ extNext' = extNext /\ mode' = mode /\ mode = "config"
    BY DEF AddStd
  <1> HIDE DEF e
  <1>3. /\ caps' \in Seq(Entry) /\ DOMAIN caps' = 1 .. m /\ DOMAIN caps = 1 .. m - 1
        /\ caps'[m] = e /\ \A k \in DOMAIN caps : caps'[k] = caps[k]
        /\ m \in Nat \ {0}
    BY <1>1, <1>2, AppendProperties DEF CapTypes
  <1> HIDE DEF m
  <1>4. CapTypes'
    BY <1>2, <1>3 DEF CapTypes, U8
  <1>5. StdInv'
    <2> SUFFICES ASSUME sum' <= Room
                 PROVE  StdInv!2'
      BY DEF StdInv
    <2>1. sum <= Room /\ n % U8 = n /\ next = Header + sum /\ sum + n <= Room
      <3>1. sum \in Nat /\ sum + n <= 192
        BY <1>2 DEF CapTypes, Room, Header, CfgSize
      <3>2. sum <= 192 /\ n <= 192 /\ Header + sum < 256
        BY <3>1 DEF Header
      <3>3. n % U8 = n /\ (Header + sum) % U8 = Header + sum
        BY <3>1, <3>2 DEF U8, Header
      <3> QED
        BY <3>1, <3>2, <3>3 DEF StdInv, Room, Header, CfgSize
    <2>2. next' = (Header + sum') % U8
      BY <1>2, <2>1 DEF CapTypes, U8, Header
    <2>3. \A k \in DOMAIN caps' : ~caps'[k].ext =>
             /\ caps'[k].size >= 8 /\ caps'[k].off >= Header
             /\ caps'[k].off + caps'[k].size <= Header + sum'
      <3> SUFFICES ASSUME NEW k \in DOMAIN caps', ~caps'[k].ext
                   PROVE  /\ caps'[k].size >= 8 /\ caps'[k].off >= Header
                          /\ caps'[k].off + caps'[k].size <= Header + sum'
        OBVIOUS
      <3>1. CASE k = m
        BY <1>1, <1>2, <1>3, <2>1, <3>1 DEF CapTypes, Header
      <3>2. CASE k \in DOMAIN caps
        <4>1. caps[k].off \in Nat /\ caps[k].size \in Nat /\ sum \in Nat
          BY <3>2, EntryFields DEF CapTypes
        <4>2. /\ caps[k].size >= 8 /\ caps[k].off >= Header
              /\ caps[k].off + caps[k].size <= Header + sum
          BY <1>3, <2>1, <3>2 DEF StdInv
        <4>3. caps'[k] = caps[k] /\ sum' = sum + n
          BY <1>2, <1>3, <3>2
        <4> QED
          BY <4>1, <4>2, <4>3 DEF Header
      <3> QED
        BY <1>3, <3>1, <3>2
    <2>4. \A j, k \in DOMAIN caps' : j < k /\ ~caps'[j].ext /\ ~caps'[k].ext =>
             caps'[j].off + caps'[j].size <= caps'[k].off
      <3> SUFFICES ASSUME NEW j \in DOMAIN caps', NEW k \in DOMAIN caps', j < k,
                          ~caps'[j].ext, ~caps'[k].ext
                   PROVE  caps'[j].off + caps'[j].size <= caps'[k].off
        OBVIOUS
      <3>1. j \in DOMAIN caps /\ caps'[j] = caps[j]
        BY <1>3
      <3>2. CASE k = m
        BY <1>1, <1>3, <2>1, <3>1, <3>2 DEF StdInv
      <3>3. CASE k \in DOMAIN caps
        BY <1>3, <2>1, <3>1, <3>3 DEF StdInv
      <3> QED
        BY <1>3, <3>2, <3>3
    <2> QED
      BY <2>2, <2>3, <2>4
  <1>6. ExtInv'
    <2>1. \A k \in DOMAIN caps' : caps'[k].ext => k \in DOMAIN caps /\ k < m
      BY <1>1, <1>3
    <2> QED
      BY <1>2, <1>3, <2>1 DEF ExtInv
  <1>7. SizeInv'
    <2> SUFFICES ASSUME sum' <= Room
                 PROVE  \A k \in DOMAIN caps' :
                           ~caps'[k].ext => Written(caps'[k]) \in 0 .. caps'[k].size
      BY DEF SizeInv
    <2>1. sum <= Room /\ e.size = n
      BY <1>1, <1>2 DEF CapTypes, Room, Header, CfgSize, U8
    <2>2. e.type = t /\ e.info = info
      BY DEF e
    <2>3. Written(e) \in 0 .. e.size
      BY <2>1, <2>2 DEF Written
    <2>4. \A k \in DOMAIN caps : ~caps[k].ext => Written(caps[k]) \in 0 .. caps[k].size
      BY <2>1 DEF SizeInv
    <2> QED
      BY <1>3, <2>3, <2>4
  <1> QED
    BY <1>4, <1>5, <1>6, <1>7

LEMMA AddPasidKeeps == ASSUME CapInv, AddPasid PROVE CapInv'
  <1> DEFINE e == [type |-> "PASID", ext |-> TRUE, off |-> extNext, size |-> 8, info |-> 0]
             m == Len(caps) + 1
  <1> USE DEF CapInv
  <1>1. e \in Entry /\ e.ext = TRUE /\ e.off = extNext /\ e.size = 8
    BY DEF Entry, CapTypes, Types
  <1>2. /\ caps' = Append(caps, e) /\ extNext' = extNext + 8 /\ sum' = sum
        /\ next' = next /\ mode' = mode
    BY DEF AddPasid
  <1> HIDE DEF e
  <1>3. /\ caps' \in Seq(Entry) /\ DOMAIN caps' = 1 .. m /\ DOMAIN caps = 1 .. m - 1
        /\ caps'[m] = e /\ \A k \in DOMAIN caps : caps'[k] = caps[k]
        /\ m \in Nat \ {0}
    BY <1>1, <1>2, AppendProperties DEF CapTypes
  <1> HIDE DEF m
  <1>4. CapTypes'
    BY <1>2, <1>3 DEF CapTypes
  <1>5. StdInv'
    <2>1. \A k \in DOMAIN caps' : ~caps'[k].ext => k \in DOMAIN caps
      BY <1>1, <1>3
    <2> QED
      BY <1>2, <1>3, <2>1 DEF StdInv
  <1>6. ExtInv'
    <2>1. \A k \in DOMAIN caps' : caps'[k].ext =>
             /\ caps'[k].size >= 8 /\ caps'[k].off >= CfgSize
             /\ caps'[k].off + caps'[k].size <= extNext'
             /\ (\A j \in 1 .. k - 1 : ~caps'[j].ext) => caps'[k].off = CfgSize
      <3> SUFFICES ASSUME NEW k \in DOMAIN caps', caps'[k].ext
                   PROVE  <2>1!(k)!2
        OBVIOUS
      <3>1. CASE k = m
        BY <1>1, <1>2, <1>3, <3>1 DEF ExtInv, CapTypes
      <3>2. CASE k \in DOMAIN caps
        <4>1. \A j \in 1 .. k - 1 : caps'[j] = caps[j]
          BY <1>3, <3>2
        <4> QED
          BY <1>2, <1>3, <3>2, <4>1, EntryFields DEF ExtInv, CapTypes
      <3> QED
        BY <1>3, <3>1, <3>2
    <2>2. \A j, k \in DOMAIN caps' : j < k /\ caps'[j].ext /\ caps'[k].ext =>
             caps'[j].off + caps'[j].size <= caps'[k].off
      BY <1>1, <1>2, <1>3, EntryFields DEF ExtInv, CapTypes
    <2>3. caps'[m].ext /\ extNext' >= CfgSize
      BY <1>1, <1>2, <1>3 DEF ExtInv, CapTypes, CfgSize
    <2> QED
      BY <1>3, <2>1, <2>2, <2>3 DEF ExtInv
  <1>7. SizeInv'
    <2>1. \A k \in DOMAIN caps' : ~caps'[k].ext => k \in DOMAIN caps
      BY <1>1, <1>3
    <2> QED
      BY <1>2, <1>3, <2>1 DEF SizeInv
  <1> QED
    BY <1>4, <1>5, <1>6, <1>7

(* The sizes of the standard capabilities.                                  *)
LEMMA MsiSizes ==
  ASSUME NEW b64 \in BOOLEAN, NEW mask \in BOOLEAN
  PROVE  MsiSize(b64, mask) \in {12, 16, 20, 24}
  BY DEF MsiSize

LEMMA CapInvNext == ASSUME CapInv, [Next]_vars PROVE CapInv'
  <1>1. ASSUME NEW b64 \in BOOLEAN, NEW mask \in BOOLEAN, AddMsi(b64, mask) PROVE CapInv'
    <2>1. MsiSize(b64, mask) \in Nat /\ MsiSize(b64, mask) >= 8
      BY MsiSizes
    <2> QED
      BY <1>1, <2>1, AddStdKeeps DEF AddMsi, Types
  <1>2. CASE AddMsix
    BY <1>2, AddStdKeeps DEF AddMsix, Types
  <1>3. CASE AddPm
    BY <1>3, AddStdKeeps DEF AddPm, Types
  <1>4. ASSUME NEW dev \in DevTypes, AddPcie(dev) PROVE CapInv'
    BY <1>4, AddStdKeeps, CapsAssumption DEF AddPcie, Types
  <1>5. ASSUME NEW n \in VsecLens, AddVsec(n) PROVE CapInv'
    <2>1. n \in Nat /\ 8 + n \in Nat /\ 8 + n >= 8 /\ n = (8 + n) - 8
      BY CapsAssumption
    <2> QED
      BY <1>5, <2>1, AddStdKeeps DEF AddVsec, Types
  <1>6. CASE SetConfig \/ Cancel \/ WalkStd \/ WalkExt \/ UNCHANGED vars
    BY <1>6 DEF SetConfig, Cancel, WalkStd, WalkExt, vars, walk, CapInv, CapTypes,
                StdInv, ExtInv, SizeInv
  <1>7. CASE Build
    BY <1>7 DEF Build, CapInv, CapTypes, StdInv, ExtInv, SizeInv
  <1> QED
    BY <1>1, <1>2, <1>3, <1>4, <1>5, <1>6, <1>7, AddPasidKeeps DEF Next, Add

LEMMA CapInvApart == CapInv /\ Fits => Apart
  <1> SUFFICES ASSUME CapInv, Fits PROVE Apart
    OBVIOUS
  <1>1. sum <= Room
    BY DEF Fits
  <1>2. \A c \in Range(caps) : ~c.ext => c.off >= Header /\ c.off + c.size <= CfgSize
    <2> SUFFICES ASSUME NEW k \in DOMAIN caps, ~caps[k].ext
                 PROVE  caps[k].off >= Header /\ caps[k].off + caps[k].size <= CfgSize
      BY DEF Range
    <2> QED
      BY <1>1, EntryFields DEF CapInv, CapTypes, StdInv, Header, Room, CfgSize
  <1>3. ASSUME NEW j \in DOMAIN caps, NEW k \in DOMAIN caps, j < k,
               caps[j].ext = caps[k].ext
        PROVE  caps[j].off + caps[j].size <= caps[k].off
    <2>1. caps[j].ext \in BOOLEAN
      BY EntryFields DEF CapInv, CapTypes
    <2>2. CASE caps[j].ext = TRUE
      BY <1>3, <2>2 DEF CapInv, ExtInv
    <2>3. CASE caps[j].ext = FALSE
      BY <1>1, <1>3, <2>3 DEF CapInv, StdInv
    <2> QED
      BY <2>1, <2>2, <2>3
  <1> QED
    BY <1>2, <1>3 DEF Apart

(* CapsApart: whatever was added, in whatever order, however often REGISTER *)
(* failed before: capabilities whose lengths add up to no more than the     *)
(* room behind the header lie within their space, each in registers of its  *)
(* own, though next_offset is eight bits wide and may have wrapped to 0.    *)
THEOREM EachItsRegisters == Spec => []CapsApart
  <1>1. CapInv => CapsApart
    BY CapInvApart DEF CapsApart
  <1> QED
    BY <1>1, CapInvInit, CapInvNext, PTL DEF Spec

-----------------------------------------------------------------------------
(* The places of the capabilities in their lists, and the links.            *)

(* A set of naturals has its smallest member. *)
LEMMA LeastIsMin ==
  ASSUME NEW S \in SUBSET Nat, S # {}
  PROVE  Min(S) \in S /\ \A y \in S : Min(S) <= y
  <1> DEFINE UpTo(x) == S \cap (0 .. x)
             T == {UpTo(x) : x \in S}
  <1>1. T \subseteq FiniteSubsetsOf(S) /\ T # {}
    <2>1. ASSUME NEW x \in S PROVE IsFiniteSet(UpTo(x))
      <3>1. IsFiniteSet(0 .. x)
        BY FS_Interval
      <3>2. UpTo(x) \subseteq 0 .. x
        OBVIOUS
      <3> QED
        BY <3>1, <3>2, FS_Subset
    <2> QED
      BY <2>1 DEF FiniteSubsetsOf
  <1>2. PICK U \in T : \A V \in T : ~ (<<V, U>> \in StrictSubsetOrdering(S))
    BY <1>1, FS_StrictSubsetOrderingWellFounded, WFMin
  <1>3. PICK x \in S : U = UpTo(x)
    BY <1>2
  <1>4. ASSUME NEW y \in S, ~(x <= y) PROVE FALSE
    <2>1. UpTo(y) \in T /\ UpTo(y) \subseteq UpTo(x) /\ x \in UpTo(x) /\ x \notin UpTo(y)
      BY <1>4
    <2>2. <<UpTo(y), U>> \in StrictSubsetOrdering(S)
      BY <1>3, <2>1 DEF StrictSubsetOrdering
    <2> QED
      BY <1>2, <2>1, <2>2
  <1> QED
    BY <1>4 DEF Min

(* j comes next after k in the list of both.                                *)
Follows(j, k) ==
    /\ j \in DOMAIN caps /\ k < j /\ caps[j].ext = caps[k].ext
    /\ \A i \in k + 1 .. j - 1 : caps[i].ext # caps[k].ext

LEMMA PlaceBounds ==
  ASSUME caps \in Seq(Entry), NEW k \in DOMAIN caps
  PROVE  /\ IsFiniteSet(Before(k)) /\ IsFiniteSet(KindOf(caps[k].ext))
         /\ Place(k) \in Nat /\ Place(k) >= 1
         /\ Cardinality(KindOf(caps[k].ext)) \in Nat
         /\ Place(k) <= Cardinality(KindOf(caps[k].ext))
  <1>1. DOMAIN caps = 1 .. Len(caps) /\ Len(caps) \in Nat
    BY LenProperties
  <1>2. IsFiniteSet(1 .. Len(caps))
    BY <1>1, FS_Interval
  <1>3. /\ KindOf(caps[k].ext) \subseteq 1 .. Len(caps)
        /\ Before(k) \subseteq KindOf(caps[k].ext) /\ k \in Before(k)
    BY <1>1 DEF KindOf, Before
  <1>4. IsFiniteSet(KindOf(caps[k].ext))
    BY <1>2, <1>3, FS_Subset
  <1>5. /\ IsFiniteSet(Before(k))
        /\ Cardinality(Before(k)) <= Cardinality(KindOf(caps[k].ext))
    BY <1>3, <1>4, FS_Subset
  <1>6. Cardinality(Before(k)) \in Nat /\ Cardinality(Before(k)) # 0
    BY <1>3, <1>5, FS_CardinalityType, FS_EmptySet
  <1>7. Place(k) = Cardinality(Before(k))
    BY DEF Place
  <1> QED
    BY <1>4, <1>5, <1>6, <1>7, FS_CardinalityType

LEMMA PlaceGrows ==
  ASSUME caps \in Seq(Entry), NEW j \in DOMAIN caps, NEW k \in DOMAIN caps,
         j < k, caps[j].ext = caps[k].ext
  PROVE  Place(j) < Place(k)
  <1>1. DOMAIN caps = 1 .. Len(caps) /\ Len(caps) \in Nat
    BY LenProperties
  <1>2. Before(j) \subseteq Before(k) /\ k \in Before(k) /\ k \notin Before(j)
    BY <1>1 DEF Before
  <1>3. /\ Cardinality(Before(j)) <= Cardinality(Before(k))
        /\ Cardinality(Before(j)) # Cardinality(Before(k))
    BY <1>2, PlaceBounds, FS_Subset
  <1>4. Cardinality(Before(j)) \in Nat /\ Cardinality(Before(k)) \in Nat
    BY PlaceBounds, FS_CardinalityType
  <1> QED
    BY <1>3, <1>4 DEF Place

LEMMA PlaceFollows ==
  ASSUME caps \in Seq(Entry), NEW k \in DOMAIN caps, NEW j, Follows(j, k)
  PROVE  Place(j) = Place(k) + 1
  <1>1. DOMAIN caps = 1 .. Len(caps) /\ Len(caps) \in Nat
    BY LenProperties
  <1>2. Before(j) = Before(k) \cup {j} /\ j \notin Before(k)
    BY <1>1 DEF Before, Follows
  <1> QED
    BY <1>2, PlaceBounds, FS_AddElement DEF Place

LEMMA PlaceLast ==
  ASSUME caps \in Seq(Entry), NEW k \in DOMAIN caps,
         \A j \in k + 1 .. Len(caps) : caps[j].ext # caps[k].ext
  PROVE  Place(k) = Cardinality(KindOf(caps[k].ext))
  <1>1. DOMAIN caps = 1 .. Len(caps) /\ Len(caps) \in Nat
    BY LenProperties
  <1>2. Before(k) = KindOf(caps[k].ext)
    BY <1>1 DEF Before, KindOf
  <1> QED
    BY <1>2 DEF Place

LEMMA PlaceFirst ==
  ASSUME caps \in Seq(Entry), NEW k \in DOMAIN caps,
         \A j \in 1 .. k - 1 : caps[j].ext # caps[k].ext
  PROVE  Place(k) = 1
  <1>1. DOMAIN caps = 1 .. Len(caps) /\ Len(caps) \in Nat
    BY LenProperties
  <1>2. Before(k) = {k}
    BY <1>1 DEF Before
  <1>3. Cardinality(Before(k)) = 1
    BY <1>2, FS_Singleton
  <1> QED
    BY <1>3 DEF Place

(* A link is 0 at the end of a list, else it leads to the next entry.       *)
LEMMA LinkLeads ==
  ASSUME caps \in Seq(Entry), NEW k \in DOMAIN caps
  PROVE  \/ /\ Link(k) = 0
            /\ \A j \in k + 1 .. Len(caps) : caps[j].ext # caps[k].ext
         \/ \E j \in DOMAIN caps : Follows(j, k) /\ Link(k) = caps[j].off
    <1>1. DOMAIN caps = 1 .. Len(caps) /\ Len(caps) \in Nat
    BY LenProperties
  <1>2. CASE After(k) = {}
    BY <1>2 DEF Link, After
  <1>3. CASE After(k) # {}
    <2> DEFINE j == Min(After(k))
    <2>1. After(k) \in SUBSET Nat
      BY <1>1 DEF After
    <2>2. j \in After(k) /\ \A i \in After(k) : j <= i
      BY <1>3, <2>1, LeastIsMin
    <2>3. Link(k) = caps[j].off
      BY <1>3 DEF Link
    <2> HIDE DEF j
    <2>4. Follows(j, k)
      BY <1>1, <2>2 DEF Follows, After, After
    <2> QED
      BY <1>1, <2>2, <2>3, <2>4 DEF Follows
  <1> QED
    BY <1>2, <1>3

-----------------------------------------------------------------------------
(* The walks of the PCI core.                                               *)

(* All offsets of standard capabilities are multiples of four.              *)
AlignInv ==
    sum <= Room =>
        sum % 4 = 0 /\ \A k \in DOMAIN caps : ~caps[k].ext => caps[k].off % 4 = 0

(* On the bus, each offset holds its capability's type and link, if all of  *)
(* them fit.                                                                *)
LinkInv ==
    mode = "built" /\ Fits =>
        /\ \A o \in DOMAIN cfg : \E k \in DOMAIN caps : caps[k].off = o
        /\ \A k \in DOMAIN caps :
              /\ caps[k].off \in DOMAIN cfg
              /\ cfg[caps[k].off] = [type |-> caps[k].type, link |-> Link(k)]

(* A walk has met the first capabilities of its list, and is at the next    *)
(* one or at the end; the extended walk begins at 0x100 in any case.        *)
OnList(met, here, e) ==
    /\ met \in Seq(Types)
    /\ \A k \in KindOf(e) : Place(k) <= Len(met) => met[Place(k)] = caps[k].type
    /\ \/ here = 0 /\ Len(met) = Cardinality(KindOf(e))
       \/ \E k \in KindOf(e) : here = caps[k].off /\ Place(k) = Len(met) + 1
       \/ e = TRUE /\ here = CfgSize /\ KindOf(e) = {} /\ met = <<>>

WalkInv ==
    /\ mode = "built" /\ Fits => OnList(seen, pos, FALSE) /\ OnList(eseen, epos, TRUE)
    /\ mode = "config" => seen = <<>> /\ eseen = <<>>

LEMMA OffsetsDiffer ==
  ASSUME CapInv, Fits, NEW j \in DOMAIN caps, NEW k \in DOMAIN caps,
         caps[j].off = caps[k].off
  PROVE  j = k
  <1> USE DEF Fits
  <1>1. /\ j \in Nat /\ k \in Nat /\ caps[j].ext \in BOOLEAN /\ caps[k].ext \in BOOLEAN
        /\ caps[j].off \in Nat /\ caps[j].size \in Nat /\ caps[k].size \in Nat
        /\ sum \in Nat
    BY EntryFields, LenProperties DEF CapInv, CapTypes
  <1>2. CASE caps[j].ext # caps[k].ext
    BY <1>1, <1>2 DEF CapInv, StdInv, ExtInv, Room, Header, CfgSize
  <1>3. CASE caps[j].ext = TRUE /\ caps[k].ext = TRUE
    BY <1>1, <1>3 DEF CapInv, ExtInv
  <1>4. CASE caps[j].ext = FALSE /\ caps[k].ext = FALSE
    BY <1>1, <1>4 DEF CapInv, StdInv
  <1> QED
    BY <1>1, <1>2, <1>3, <1>4

(* The walk meets a capability and follows its link.                        *)
LEMMA WalkOn ==
  ASSUME CapInv, NEW e \in BOOLEAN, NEW met, NEW k \in KindOf(e),
         OnList(met, caps[k].off, e), Place(k) = Len(met) + 1
  PROVE  OnList(Append(met, caps[k].type), Link(k), e)
  <1> DEFINE m2 == Append(met, caps[k].type)
  <1>1. /\ caps \in Seq(Entry) /\ k \in DOMAIN caps /\ caps[k].ext = e
        /\ caps[k].type \in Types /\ met \in Seq(Types)
        /\ DOMAIN caps = 1 .. Len(caps) /\ Len(caps) \in Nat
    BY EntryFields, LenProperties DEF CapInv, CapTypes, KindOf, OnList
  <1>2. /\ m2 \in Seq(Types) /\ Len(m2) = Len(met) + 1 /\ Len(met) \in Nat
        /\ m2[Len(m2)] = caps[k].type
        /\ \A n \in 1 .. Len(met) : m2[n] = met[n]
    BY <1>1, AppendProperties, LenProperties
  <1> HIDE DEF m2
  <1>3. ASSUME NEW j \in KindOf(e), Place(j) <= Len(m2)
        PROVE  m2[Place(j)] = caps[j].type
    <2>1. j \in DOMAIN caps /\ caps[j].ext = caps[k].ext
      BY <1>1 DEF KindOf
    <2>2. Place(j) \in Nat /\ Place(j) >= 1
      BY <1>1, <2>1, PlaceBounds
    <2>3. CASE Place(j) <= Len(met)
      BY <1>2, <2>2, <2>3 DEF OnList
    <2>4. CASE Place(j) = Len(m2)
      <3>1. Place(j) = Place(k)
        BY <1>2, <2>4
      <3>2. j = k
        BY <1>1, <2>1, <2>2, <3>1, PlaceGrows
      <3> QED
        BY <1>2, <2>4, <3>2
    <2> QED
      BY <1>2, <1>3, <2>2, <2>3, <2>4
  <1>4. \/ Link(k) = 0 /\ Len(m2) = Cardinality(KindOf(e))
        \/ \E j \in KindOf(e) : Link(k) = caps[j].off /\ Place(j) = Len(m2) + 1
    <2>1. CASE \A j \in k + 1 .. Len(caps) : caps[j].ext # caps[k].ext
      <3>1. Link(k) = 0
        BY <1>1, <2>1, LinkLeads DEF Follows
      <3> QED
        BY <1>1, <1>2, <2>1, <3>1, PlaceLast
    <2>2. ASSUME NEW j \in DOMAIN caps, Follows(j, k), Link(k) = caps[j].off
          PROVE  \E i \in KindOf(e) : Link(k) = caps[i].off /\ Place(i) = Len(m2) + 1
      <3>1. j \in KindOf(e) /\ Place(j) = Place(k) + 1
        BY <1>1, <2>2, PlaceFollows DEF KindOf, Follows
      <3> QED
        BY <1>2, <2>2, <3>1
    <2> QED
      BY <1>1, <2>1, <2>2, LinkLeads
  <1>5. OnList(m2, Link(k), e)
    BY <1>2, <1>3, <1>4 DEF OnList
  <1> QED
    BY <1>5 DEF m2

LEMMA AlignStd ==
  ASSUME CapInv, AlignInv, NEW t \in Types, NEW n \in Nat, n >= 8, n % 4 = 0,
         NEW info \in Nat \cup BOOLEAN, AddStd(t, n, info)
  PROVE  AlignInv'
  <1> DEFINE e == [type |-> t, ext |-> FALSE, off |-> next, size |-> n % U8, info |-> info]
             m == Len(caps) + 1
  <1>1. /\ caps' = Append(caps, e) /\ sum' = sum + n /\ sum \in Nat
        /\ e.ext = FALSE /\ e.off = next /\ e \in Entry
    BY DEF AddStd, CapInv, CapTypes, Entry, U8
  <1> HIDE DEF e
  <1>2. /\ DOMAIN caps' = 1 .. m /\ DOMAIN caps = 1 .. m - 1
        /\ caps'[m] = e /\ \A k \in DOMAIN caps : caps'[k] = caps[k]
        /\ m \in Nat \ {0}
    BY <1>1, AppendProperties DEF CapInv, CapTypes
  <1> HIDE DEF m
  <1>3. ASSUME sum' <= Room PROVE AlignInv!2'
    <2>1. sum <= Room /\ sum + n <= 192
      BY <1>1, <1>3 DEF Room, Header, CfgSize
    <2>2. next = Header + sum
      BY <1>1, <2>1 DEF CapInv, StdInv, Room, Header, CfgSize, U8
    <2>3. sum % 4 = 0 /\ \A k \in DOMAIN caps : ~caps[k].ext => caps[k].off % 4 = 0
      BY <2>1 DEF AlignInv
    <2>4. sum' % 4 = 0 /\ next % 4 = 0
      <3>1. \A i, j \in Nat : i % 4 = 0 /\ j % 4 = 0 => (i + j) % 4 = 0
        OBVIOUS
      <3>2. sum \in Nat /\ n \in Nat /\ sum % 4 = 0 /\ n % 4 = 0 /\ 64 % 4 = 0
        BY <1>1, <2>3
      <3>3. sum' = sum + n /\ next = 64 + sum
        BY <1>1, <2>2 DEF Header
      <3> QED
        BY <3>1, <3>2, <3>3
    <2> QED
      BY <1>1, <1>2, <2>3, <2>4
  <1> QED
    BY <1>3 DEF AlignInv

LEMMA AlignNext ==
  ASSUME \A n \in VsecLens : n % 4 = 0, CapInv, AlignInv, [Next]_vars
  PROVE  AlignInv'
  <1>1. ASSUME NEW b64 \in BOOLEAN, NEW mask \in BOOLEAN, AddMsi(b64, mask) PROVE AlignInv'
    <2>1. /\ MsiSize(b64, mask) \in Nat /\ MsiSize(b64, mask) >= 8
          /\ MsiSize(b64, mask) % 4 = 0
      BY MsiSizes
    <2> QED
      BY <1>1, <2>1, AlignStd DEF AddMsi, Types
  <1>2. CASE AddMsix
    BY <1>2, AlignStd DEF AddMsix, Types
  <1>3. CASE AddPm
    BY <1>3, AlignStd DEF AddPm, Types
  <1>4. ASSUME NEW dev \in DevTypes, AddPcie(dev) PROVE AlignInv'
    <2>1. dev \in Nat /\ 60 % 4 = 0 /\ "PCIE" \in Types
      BY CapsAssumption DEF Types
    <2> QED
      BY <1>4, <2>1, AlignStd DEF AddPcie
  <1>5. ASSUME NEW n \in VsecLens, AddVsec(n) PROVE AlignInv'
    <2>1. n \in Nat /\ 8 + n \in Nat /\ 8 + n >= 8 /\ (8 + n) % 4 = 0
      BY CapsAssumption
    <2> QED
      BY <1>5, <2>1, AlignStd DEF AddVsec, Types
  <1>6. CASE AddPasid
    <2> DEFINE e == [type |-> "PASID", ext |-> TRUE, off |-> extNext, size |-> 8, info |-> 0]
    <2>1. caps' = Append(caps, e) /\ sum' = sum /\ e.ext = TRUE /\ e \in Entry
      BY <1>6 DEF AddPasid, CapInv, CapTypes, Entry, Types
    <2> HIDE DEF e
    <2>2. /\ DOMAIN caps' = 1 .. Len(caps) + 1 /\ DOMAIN caps = 1 .. Len(caps)
          /\ caps'[Len(caps) + 1] = e /\ \A k \in DOMAIN caps : caps'[k] = caps[k]
          /\ Len(caps) \in Nat
      BY <2>1, AppendProperties DEF CapInv, CapTypes
    <2>3. \A k \in DOMAIN caps' : ~caps'[k].ext => k \in DOMAIN caps
      BY <2>1, <2>2
    <2> QED
      BY <2>1, <2>2, <2>3 DEF AlignInv
  <1>7. CASE UNCHANGED <<caps, sum>>
    BY <1>7 DEF AlignInv
  <1> QED
    BY <1>1, <1>2, <1>3, <1>4, <1>5, <1>6, <1>7
       DEF Next, Add, SetConfig, Build, Cancel, WalkStd, WalkExt, vars

(* While no capability is added, places and links stay.                     *)
LEMMA ListStays ==
  ASSUME caps' = caps
  PROVE  /\ \A e : KindOf(e)' = KindOf(e)
         /\ \A k : Place(k)' = Place(k) /\ Link(k)' = Link(k)
  <1>1. \A e : KindOf(e)' = KindOf(e)
    BY DEF KindOf
  <1>2. \A k : Before(k)' = Before(k) /\ After(k)' = After(k)
    BY DEF Before, After
  <1> QED
    BY <1>1, <1>2 DEF Place, Link

LEMMA WalkInvStays ==
  ASSUME caps' = caps, sum' = sum, mode' # "config",
         Fits => OnList(seen', pos', FALSE) /\ OnList(eseen', epos', TRUE)
  PROVE  WalkInv'
  <1> SUFFICES ASSUME Fits PROVE OnList(seen, pos, FALSE)' /\ OnList(eseen, epos, TRUE)'
    BY DEF WalkInv, Fits
  <1>1. OnList(seen, pos, FALSE)'
    BY ListStays DEF OnList
  <1>2. OnList(eseen, epos, TRUE)'
    BY ListStays DEF OnList
  <1> QED
    BY <1>1, <1>2

LEMMA LinkInvStays ==
  ASSUME LinkInv, caps' = caps, cfg' = cfg, mode' = mode, sum' = sum PROVE LinkInv'
  BY ListStays DEF LinkInv, Fits

(* Capabilities that fit are not written over.                              *)
LEMMA FitsWhole ==
  ASSUME CapInv, Fits
  PROVE  /\ \A k \in DOMAIN caps : Whole(k)
         /\ ~Overwritten(Pointer)
         /\ (\A k \in DOMAIN caps : ~caps[k].ext) => ~Overwritten(CfgSize)
  <1>1. /\ DOMAIN caps \subseteq Nat /\ sum <= 192 /\ sum \in Nat
        /\ \A k \in DOMAIN caps : /\ caps[k].ext \in BOOLEAN
                                  /\ caps[k].off \in Nat /\ caps[k].size \in Nat
    BY EntryFields, LenProperties DEF CapInv, CapTypes, Fits, Room, Header, CfgSize
  <1>2. \A k \in DOMAIN caps : ~caps[k].ext =>
           /\ caps[k].size >= 8 /\ caps[k].off >= 64 /\ caps[k].off + caps[k].size <= 256
           /\ Written(caps[k]) \in 0 .. caps[k].size
    BY <1>1 DEF CapInv, StdInv, SizeInv, Fits, Header
  <1>3. \A k \in DOMAIN caps : caps[k].ext => caps[k].size >= 8 /\ caps[k].off >= 256
    BY <1>1 DEF CapInv, ExtInv, CfgSize
  <1>4. \A j, k \in DOMAIN caps : k < j /\ caps[j].ext = caps[k].ext =>
           caps[k].off + caps[k].size <= caps[j].off
    BY CapInvApart DEF Apart
  <1>5. ASSUME NEW k \in DOMAIN caps, NEW j \in DOMAIN caps, WrittenLater(j, k)
        PROVE  caps[k].off + (IF caps[k].ext THEN 4 ELSE 2) <= caps[j].off
    <2>1. caps[k].off + caps[k].size <= caps[j].off
      BY <1>1, <1>2, <1>3, <1>4, <1>5 DEF WrittenLater
    <2> QED
      BY <1>1, <1>2, <1>3, <2>1
  <1>6. \A k \in DOMAIN caps : caps[k].off > 52
    BY <1>1, <1>2, <1>3
  <1>7. ASSUME NEW k \in DOMAIN caps, ~caps[k].ext,
               256 < caps[k].off + Written(caps[k])
        PROVE  FALSE
    <2>1. Written(caps[k]) \in 0 .. caps[k].size /\ caps[k].off + caps[k].size <= 256
      BY <1>2, <1>7
    <2> QED
      BY <1>1, <1>7, <2>1
  <1> QED
    BY <1>1, <1>5, <1>6, <1>7 DEF Whole, Overwritten, Pointer, CfgSize

(* What REGISTER writes to configuration space.                             *)
LEMMA LinkInvBuilt ==
  ASSUME CapInv, Build
  PROVE  LinkInv'
  <1> SUFFICES ASSUME Fits PROVE LinkInv'
    BY DEF LinkInv, Build, Fits
  <1> DEFINE At0(o) == LET k == CHOOSE j \in DOMAIN caps : caps[j].off = o
                       IN  [type |-> caps[k].type, link |-> Link(k)]
  <1>0. {k \in DOMAIN caps : Whole(k)} = DOMAIN caps
    BY FitsWhole
  <1>1. /\ caps' = caps
        /\ cfg' = [o \in {caps[k].off : k \in DOMAIN caps} |-> At0(o)]
    BY <1>0 DEF Build
  <1>2. ASSUME NEW k \in DOMAIN caps
        PROVE  /\ caps[k].off \in DOMAIN cfg'
               /\ cfg'[caps[k].off] = [type |-> caps[k].type, link |-> Link(k)]
    <2>1. caps[k].off \in {caps[j].off : j \in DOMAIN caps}
      OBVIOUS
    <2>2. (CHOOSE j \in DOMAIN caps : caps[j].off = caps[k].off) = k
      BY <1>1, OffsetsDiffer
    <2> QED
      BY <1>1, <2>1, <2>2
  <1>3. \A o \in DOMAIN cfg' : \E k \in DOMAIN caps : caps[k].off = o
    BY <1>1
  <1>4. caps' = caps /\ \A k : Link(k)' = Link(k)
    BY <1>1, ListStays
  <1> QED
    BY <1>2, <1>3, <1>4 DEF LinkInv

(* Where a walk begins: at the first capability of the list, if any.        *)
LEMMA WalkBegins ==
  ASSUME CapInv, NEW e \in BOOLEAN,
         NEW here, here = IF KindOf(e) = {} THEN 0 ELSE caps[Min(KindOf(e))].off
  PROVE  OnList(<<>>, here, e)
  <1>1. caps \in Seq(Entry) /\ DOMAIN caps = 1 .. Len(caps) /\ Len(caps) \in Nat
    BY LenProperties DEF CapInv, CapTypes
  <1>2. <<>> \in Seq(Types) /\ Len(<<>>) = 0
    BY EmptySeq
  <1>3. \A k \in KindOf(e) : Place(k) \in Nat /\ Place(k) >= 1
    BY <1>1, PlaceBounds DEF KindOf
  <1>4. CASE KindOf(e) = {}
    BY <1>2, <1>4, FS_EmptySet DEF OnList
  <1>5. CASE KindOf(e) # {}
    <2> DEFINE k == Min(KindOf(e))
    <2>1. KindOf(e) \in SUBSET Nat
      BY <1>1 DEF KindOf
    <2>2. k \in KindOf(e) /\ \A j \in KindOf(e) : k <= j
      BY <1>5, <2>1, LeastIsMin
    <2>3. here = caps[k].off
      BY <1>5
    <2> HIDE DEF k
    <2>4. Place(k) = 1
      BY <1>1, <2>2, PlaceFirst DEF KindOf
    <2> QED
      BY <1>2, <1>3, <2>2, <2>3, <2>4 DEF OnList
  <1> QED
    BY <1>4, <1>5

LEMMA WalkInvBuilt ==
  ASSUME CapInv, WalkInv, Build
  PROVE  WalkInv'
  <1> SUFFICES ASSUME Fits PROVE WalkInv'
    BY DEF WalkInv, Build, Fits
  <1>1. /\ caps' = caps /\ seen' = <<>> /\ eseen' = <<>> /\ epos' = CfgSize
        /\ caps \in Seq(Entry) /\ sum' = sum /\ mode' = "built"
    BY DEF Build, WalkInv, CapInv, CapTypes
  <1>2. OnList(<<>>, pos', FALSE)
    <2>1. KindOf(FALSE) = {k \in DOMAIN caps : ~caps[k].ext}
      BY <1>1, EntryFields DEF KindOf
    <2>2. pos' = IF KindOf(FALSE) = {} THEN 0 ELSE caps[Min(KindOf(FALSE))].off
      BY <2>1, FitsWhole DEF Build
    <2> QED
      BY <2>2, WalkBegins
  <1>3. OnList(<<>>, CfgSize, TRUE)
    <2>1. CASE KindOf(TRUE) = {}
      BY <2>1, EmptySeq DEF OnList
    <2>2. CASE KindOf(TRUE) # {}
      <3> DEFINE k == Min(KindOf(TRUE))
      <3>1. KindOf(TRUE) \in SUBSET Nat /\ DOMAIN caps = 1 .. Len(caps) /\ Len(caps) \in Nat
        BY <1>1, LenProperties DEF KindOf
      <3>2. k \in KindOf(TRUE) /\ \A j \in KindOf(TRUE) : k <= j
        BY <2>2, <3>1, LeastIsMin
      <3> HIDE DEF k
      <3>3. caps[k].ext /\ \A j \in 1 .. k - 1 : ~caps[j].ext
        BY <1>1, <3>1, <3>2, EntryFields DEF KindOf
      <3>4. caps[k].off = CfgSize
        BY <3>1, <3>2, <3>3 DEF CapInv, ExtInv, KindOf
      <3> QED
        BY <2>2, <3>4, WalkBegins DEF k
    <2> QED
      BY <2>1, <2>2
  <1>4. OnList(seen', pos', FALSE) /\ OnList(eseen', epos', TRUE)
    BY <1>1, <1>2, <1>3
  <1> QED
    BY <1>1, <1>4, WalkInvStays

LEMMA WalkInvNext ==
  ASSUME CapInv, AlignInv, LinkInv, WalkInv, [Next]_vars
  PROVE  LinkInv' /\ WalkInv'
  <1>0. caps \in Seq(Entry) /\ \A k \in DOMAIN caps : caps[k].off \in Nat
    BY EntryFields DEF CapInv, CapTypes
  <1>1. CASE Build
    BY <1>1, LinkInvBuilt, WalkInvBuilt
  <1>2. CASE WalkStd /\ Fits
    <2>1. PICK k \in KindOf(FALSE) : pos = caps[k].off /\ Place(k) = Len(seen) + 1
      <3>1. pos >= 64 /\ OnList(seen, pos, FALSE)
        BY <1>2 DEF WalkStd, WalkInv, Header
      <3>2. pos # 0
        BY <3>1
      <3> QED
        BY <3>1, <3>2 DEF OnList
    <2>2. k \in DOMAIN caps /\ ~caps[k].ext
      BY <2>1 DEF KindOf
    <2>3. pos - (pos % 4) = caps[k].off
      BY <1>0, <1>2, <2>1, <2>2 DEF WalkStd, Fits, AlignInv
    <2>4. At(caps[k].off) = [type |-> caps[k].type, link |-> Link(k)]
      BY <1>2, <2>2 DEF WalkStd, LinkInv, At, Range
    <2>5. seen' = Append(seen, caps[k].type) /\ pos' = Link(k)
      BY <1>2, <2>3, <2>4 DEF WalkStd
    <2>6. OnList(seen', pos', FALSE)
      BY <1>2, <2>1, <2>5, WalkOn DEF WalkStd, WalkInv
    <2> QED
      <3>1. caps' = caps /\ cfg' = cfg /\ mode' = mode /\ mode = "built" /\ sum' = sum
        BY <1>2 DEF WalkStd
      <3>2. OnList(eseen', epos', TRUE)
        BY <1>2 DEF WalkStd, WalkInv
      <3> QED
        BY <2>6, <3>1, <3>2, LinkInvStays, WalkInvStays
  <1>3. CASE WalkExt /\ Fits
    <2>0. /\ caps' = caps /\ cfg' = cfg /\ mode' = mode /\ mode = "built" /\ sum' = sum
          /\ epos >= 256 /\ OnList(eseen, epos, TRUE) /\ OnList(seen', pos', FALSE)
      BY <1>3 DEF WalkExt, WalkInv, CfgSize
    <2>1. CASE epos \in DOMAIN cfg
      <3>1. KindOf(TRUE) # {}
        <4>1. PICK k \in DOMAIN caps : epos = caps[k].off
          BY <1>3, <2>1 DEF WalkExt, LinkInv, Range
        <4>2. caps[k].ext
          BY <1>0, <1>3, <4>1, EntryFields
             DEF WalkExt, CapInv, CapTypes, Fits, StdInv, Room, Header, CfgSize
        <4> QED
          BY <1>0, <4>1, <4>2, EntryFields DEF KindOf
      <3>2. PICK k \in KindOf(TRUE) : epos = caps[k].off /\ Place(k) = Len(eseen) + 1
        <4>1. epos # 0
          BY <2>0
        <4> QED
          BY <2>0, <3>1, <4>1 DEF OnList
      <3>3. cfg[epos] = [type |-> caps[k].type, link |-> Link(k)]
        BY <1>3, <3>2 DEF WalkExt, LinkInv, KindOf
      <3>4. eseen' = Append(eseen, caps[k].type) /\ epos' = Link(k)
        BY <1>3, <2>1, <3>3 DEF WalkExt, At
      <3>5. OnList(eseen', epos', TRUE)
        BY <1>3, <3>2, <3>4, WalkOn DEF WalkExt, WalkInv
      <3> QED
        BY <2>0, <3>5, LinkInvStays, WalkInvStays
    <2>2. CASE epos \notin DOMAIN cfg
      <3>1. \A k \in DOMAIN caps : caps[k].off \in DOMAIN cfg
        BY <1>3 DEF WalkExt, LinkInv, Range
      <3>2. KindOf(TRUE) = {} /\ eseen = <<>>
        BY <1>3, <2>2, <3>1 DEF WalkExt, WalkInv, OnList, KindOf, CfgSize
      <3>3. eseen' = <<>> /\ epos' = 0
        <4>1. epos = CfgSize /\ \A k \in DOMAIN caps : ~caps[k].ext
          BY <1>0, <2>0, <3>2, EntryFields DEF OnList, KindOf
        <4>2. ~Overwritten(epos)
          BY <1>3, <4>1, FitsWhole
        <4> QED
          BY <1>3, <2>2, <3>2, <4>2 DEF WalkExt
      <3>4. OnList(eseen', epos', TRUE)
        BY <3>2, <3>3, EmptySeq, FS_EmptySet DEF OnList
      <3> QED
        BY <2>0, <3>4, LinkInvStays, WalkInvStays
    <2> QED
      BY <2>1, <2>2
  <1>4. CASE UNCHANGED vars
    <2>1. /\ caps' = caps /\ cfg' = cfg /\ mode' = mode /\ sum' = sum
          /\ seen' = seen /\ pos' = pos /\ eseen' = eseen /\ epos' = epos
      BY <1>4 DEF vars
    <2>2. CASE mode = "built"
      BY <2>1, <2>2, LinkInvStays, WalkInvStays DEF WalkInv
    <2>3. CASE mode # "built"
      BY <2>1, <2>3 DEF WalkInv, LinkInv
    <2> QED
      BY <2>2, <2>3
  <1>5. CASE Add \/ SetConfig \/ Cancel
    <2>1. mode' = "config" /\ seen' = <<>> /\ eseen' = <<>>
      BY <1>5 DEF Add, AddMsi, AddMsix, AddPm, AddPcie, AddVsec, AddStd, AddPasid,
                  SetConfig, Cancel, WalkInv, walk
    <2> QED
      BY <2>1 DEF LinkInv, WalkInv
  <1>6. CASE (WalkStd \/ WalkExt) /\ ~Fits
    BY <1>6 DEF WalkStd, WalkExt, WalkInv, LinkInv, Fits
  <1> QED
    BY <1>1, <1>2, <1>3, <1>4, <1>5, <1>6 DEF Next

LEMMA WalkInvInit == Init => AlignInv /\ LinkInv /\ WalkInv
  BY DEF Init, AlignInv, LinkInv, WalkInv

LEMMA WalkInvOrder == CapInv /\ WalkInv => WalkInOrder
  <1> SUFFICES ASSUME CapInv, WalkInv, Fits, mode = "built"
               PROVE  MetInOrder(seen, pos, FALSE) /\ MetInOrder(eseen, epos, TRUE)
    BY DEF WalkInOrder, InOrder
  <1>1. caps \in Seq(Entry) /\ sum <= Room
    BY DEF CapInv, CapTypes, Fits
  <1>2. ASSUME NEW e \in BOOLEAN, NEW met, NEW here, OnList(met, here, e)
        PROVE  MetInOrder(met, here, e)
    <2>1. \A k \in KindOf(e) : /\ k \in DOMAIN caps /\ caps[k].ext = e
                              /\ caps[k].off \in Nat /\ caps[k].ext \in BOOLEAN
      BY <1>1, EntryFields DEF KindOf
    <2>2. \A k \in KindOf(e) : /\ Place(k) \in Nat /\ caps[k].off # 0
                              /\ Cardinality(KindOf(e)) \in Nat
                              /\ Place(k) <= Cardinality(KindOf(e))
      BY <1>1, <2>1, PlaceBounds DEF CapInv, StdInv, ExtInv, Header, CfgSize
    <2>3. Len(met) \in Nat /\ (met = <<>> => Len(met) = 0)
      BY <1>2, LenProperties, EmptySeq DEF OnList
    <2>4. KindOf(e) = {} => Cardinality(KindOf(e)) = 0
      BY FS_EmptySet
    <2>5. Len(met) <= Cardinality(KindOf(e))
      BY <1>2, <2>2, <2>3, <2>4 DEF OnList
    <2>6. here = 0 => Len(met) = Cardinality(KindOf(e))
      BY <1>2, <2>2 DEF OnList, CfgSize
    <2> QED
      BY <1>2, <2>5, <2>6 DEF OnList, MetInOrder, KindOf
  <1> QED
    BY <1>2 DEF WalkInv

(* ListsSound: the PCI core meets capabilities that fit in the order in     *)
(* which they were added, each once and nothing else, and each in registers *)
(* of its own; the lengths of vendor capabilities must be multiples of      *)
(* four, which ADD_CAPABILITY does not ask for, nor that they fit.          *)
THEOREM ListsAreSound ==
  ASSUME \A n \in VsecLens : n % 4 = 0 PROVE Spec => []ListsSound
  <1>1. CapInv /\ AlignInv /\ LinkInv /\ WalkInv /\ [Next]_vars
           => CapInv' /\ AlignInv' /\ LinkInv' /\ WalkInv'
    BY CapInvNext, AlignNext, WalkInvNext
  <1>2. CapInv /\ WalkInv => ListsSound
    BY CapInvApart, WalkInvOrder DEF ListsSound, CapsApart
  <1> QED
    BY <1>1, <1>2, CapInvInit, WalkInvInit, PTL DEF Spec

-----------------------------------------------------------------------------
(* The MSI format of an endpoint.                                           *)

MsiInv == EndpointMsi64 /\ (HasCap("MSI") => HasCap("PCIE"))

(* The first capability of a type stays the first.                          *)
LEMMA FindStays ==
  ASSUME caps \in Seq(Entry), NEW e \in Entry, caps' = Append(caps, e),
         NEW t, HasCap(t)
  PROVE  Find(t)' = Find(t)
  <1> DEFINE S == {k \in DOMAIN caps : caps[k].type = t}
             T == {k \in DOMAIN caps' : caps'[k].type = t}
  <1>1. /\ DOMAIN caps = 1 .. Len(caps) /\ DOMAIN caps' = 1 .. Len(caps) + 1
        /\ Len(caps) \in Nat /\ \A k \in DOMAIN caps : caps'[k] = caps[k]
    BY AppendProperties, LenProperties
  <1>2. S \in SUBSET Nat /\ S # {} /\ T \in SUBSET Nat /\ T # {}
    BY <1>1 DEF HasCap, Range
  <1>3. S \subseteq T /\ \A k \in T : k \in S \/ k = Len(caps) + 1
    BY <1>1
  <1>4. /\ Min(S) \in S /\ \A k \in S : Min(S) <= k
        /\ Min(T) \in T /\ \A k \in T : Min(T) <= k
    BY <1>2, LeastIsMin
  <1>5. Min(T) = Min(S)
    <2> HIDE DEF S, T
    <2>1. Min(S) \in T /\ Min(S) \in 1 .. Len(caps) /\ Min(S) \in Nat /\ Min(T) \in Nat
      BY <1>1, <1>2, <1>3, <1>4 DEF S
    <2>2. Min(T) <= Min(S)
      BY <1>4, <2>1
    <2>3. Min(T) \in S
      BY <1>1, <1>3, <1>4, <2>1, <2>2
    <2> QED
      BY <1>4, <2>1, <2>2, <2>3
  <1>6. Find(t) = caps[Min(S)] /\ Find(t)' = caps'[Min(T)]
    BY DEF Find
  <1> QED
    BY <1>1, <1>4, <1>5, <1>6

LEMMA MsiInvAppend ==
  ASSUME caps \in Seq(Entry), MsiInv, NEW e \in Entry, caps' = Append(caps, e),
         e.type = "MSI" => HasCap("PCIE") /\ (Find("PCIE").info = 0 => e.info = TRUE)
  PROVE  MsiInv'
  <1>1. Range(caps') = Range(caps) \cup {e}
    BY AppendProperties, LenProperties DEF Range
  <1>2. \A t : HasCap(t)' <=> HasCap(t) \/ e.type = t
    BY <1>1 DEF HasCap
  <1>3. (HasCap("MSI") => HasCap("PCIE"))'
    BY <1>2 DEF MsiInv
  <1>4. CASE HasCap("PCIE")
    <2>1. Find("PCIE")' = Find("PCIE")
      BY <1>4, FindStays
    <2> QED
      BY <1>1, <1>3, <1>4, <2>1 DEF MsiInv, EndpointMsi64
  <1>5. CASE ~HasCap("PCIE")
    <2>1. \A c \in Range(caps') : c.type # "MSI"
      BY <1>1, <1>5 DEF MsiInv, HasCap
    <2> QED
      BY <1>3, <2>1 DEF MsiInv, EndpointMsi64
  <1> QED
    BY <1>4, <1>5

LEMMA MsiInvNext == ASSUME CapInv, MsiInv, [Next]_vars PROVE MsiInv'
  <1>1. caps \in Seq(Entry) /\ next \in Nat /\ extNext \in Nat
    BY DEF CapInv, CapTypes
  <1>2. ASSUME NEW t \in Types, NEW n \in Nat, NEW info \in Nat \cup BOOLEAN,
               AddStd(t, n, info),
               t = "MSI" => HasCap("PCIE") /\ (Find("PCIE").info = 0 => info = TRUE)
        PROVE  MsiInv'
    <2> DEFINE e == [type |-> t, ext |-> FALSE, off |-> next, size |-> n % U8, info |-> info]
    <2>1. e \in Entry /\ e.type = t /\ e.info = info /\ caps' = Append(caps, e)
      BY <1>1, <1>2 DEF AddStd, Entry, U8
    <2> QED
      BY <1>1, <1>2, <2>1, MsiInvAppend
  <1>3. ASSUME NEW b64 \in BOOLEAN, NEW mask \in BOOLEAN, AddMsi(b64, mask) PROVE MsiInv'
    <2>1. "MSI" \in Types /\ MsiSize(b64, mask) \in Nat /\ b64 \in Nat \cup BOOLEAN
      BY MsiSizes DEF Types
    <2>2. HasCap("PCIE") /\ (Find("PCIE").info = 0 => b64 = TRUE)
      BY <1>3 DEF AddMsi, WidthOK
    <2>3. AddStd("MSI", MsiSize(b64, mask), b64)
      BY <1>3 DEF AddMsi
    <2> QED
      BY <1>2, <2>1, <2>2, <2>3
  <1>4. CASE AddPasid
    <2> DEFINE e == [type |-> "PASID", ext |-> TRUE, off |-> extNext, size |-> 8, info |-> 0]
    <2>1. e \in Entry /\ e.type # "MSI" /\ caps' = Append(caps, e)
      BY <1>1, <1>4 DEF AddPasid, Entry, Types
    <2> QED
      BY <1>1, <2>1, MsiInvAppend
  <1>5. ASSUME NEW dev \in DevTypes, AddPcie(dev) PROVE MsiInv'
    BY <1>2, <1>5, CapsAssumption DEF AddPcie, Types
  <1>6. ASSUME NEW n \in VsecLens, AddVsec(n) PROVE MsiInv'
    <2>1. n \in Nat /\ 8 + n \in Nat
      BY CapsAssumption
    <2> QED
      BY <1>2, <1>6, <2>1 DEF AddVsec, Types
  <1>7. CASE AddMsix \/ AddPm
    BY <1>2, <1>7 DEF AddMsix, AddPm, Types
  <1>8. CASE UNCHANGED caps
    BY <1>8 DEF MsiInv, EndpointMsi64, HasCap, Find
  <1> QED
    BY <1>3, <1>4, <1>5, <1>6, <1>7, <1>8
       DEF Next, Add, SetConfig, Build, Cancel, WalkStd, WalkExt, vars

(* EndpointMsi64: the checks of ADD_CAPABILITY for MSI and for PCIe leave   *)
(* no order of additions in which a PCIe endpoint has an MSI capability of  *)
(* the 32-bit format.                                                       *)
THEOREM EndpointsUseMsi64 == Spec => []EndpointMsi64
  <1>1. Init => MsiInv
    BY DEF Init, MsiInv, EndpointMsi64, HasCap, Range
  <1>2. CapInv /\ MsiInv /\ [Next]_vars => CapInv' /\ MsiInv'
    BY CapInvNext, MsiInvNext
  <1> QED
    BY <1>1, <1>2, CapInvInit, PTL DEF Spec, MsiInv

-----------------------------------------------------------------------------
(* The base address registers                                               *)

(* What each register holds once the addresses are stored.                  *)
Home ==
    [b \in Bars |->
        IF lay[b].size # 0 THEN lay[b].place % Half
        ELSE IF b > 0 /\ lay[b - 1].wide THEN lay[b - 1].place \div Half
        ELSE 0]

(* A register that the framework emulates, and what it answers all ones.    *)
Kind(b) == lay[b].size # 0 \/ IsUpper(b)
Ones(b) == IF Kind(b) THEN Kept(b, Half - 1) ELSE 0

(* A scan leaves every register as it was, and has told the PCI core what   *)
(* the register holds and which bits it keeps.                              *)
BarInv ==
    /\ lay \in LaidOut({})
    /\ at \in Bars
    /\ phase \in {"init", "scan", "scanned", "up", "rescan"}
    /\ base = IF phase = "init" THEN [b \in Bars |-> 0] ELSE Home
    /\ told \in [Bars -> Nat \X Nat]
    /\ \A b \in Bars :
          phase \in {"scanned", "up", "rescan"} \/ (phase = "scan" /\ b < at) =>
              told[b] = <<ReadBar(Home, b), Ones(b)>>

LEMMA Division ==
  ASSUME NEW a \in Nat, NEW n \in Nat \ {0}
  PROVE  /\ a \div n \in Nat /\ a % n \in 0 .. n - 1
         /\ a = n * (a \div n) + (a % n)
  OBVIOUS

LEMMA DivisionIs ==
  ASSUME NEW n \in Nat \ {0}, NEW q \in Nat, NEW r \in 0 .. n - 1
  PROVE  (n * q + r) \div n = q /\ (n * q + r) % n = r
  OBVIOUS

(* Powers of two divide each other.                                         *)
LEMMA PowerDivides ==
  ASSUME NEW m \in (BarSizes \ {0}) \cup {Half, Full},
         NEW n \in (BarSizes \ {0}) \cup {Half, Full}, m <= n
  PROVE  /\ m \in Nat \ {0} /\ n \in Nat \ {0}
         /\ m < n => \E k \in Nat \ {0} : n = (2 * m) * k
         /\ \E k \in Nat \ {0} : n = m * k
  <1>1. Full \in Nat \ {0}
    BY HalfAssumption DEF Full
  <1>2. m \in Nat \ {0} /\ n \in Nat \ {0}
    BY <1>1, HalfAssumption, BarSizesAssumption
  <1>3. CASE m = n
    BY <1>2, <1>3
  <1>4. CASE m < n
    <2>1. n % (2 * m) = 0
      BY <1>4, BarSizesAssumption DEF Full
    <2> DEFINE k == n \div (2 * m)
    <2>2. 2 * m \in Nat \ {0}
      BY <1>2
    <2>3. k \in Nat /\ n = (2 * m) * k + (n % (2 * m))
      BY <1>2, <2>2, Division
    <2>4. n = (2 * m) * k
      BY <1>2, <2>1, <2>3
    <2>5. k \in Nat \ {0} /\ 2 * k \in Nat \ {0}
      BY <1>2, <2>3, <2>4
    <2>6. n = m * (2 * k)
      BY <1>2, <2>3, <2>4
    <2> HIDE DEF k
    <2> QED
      BY <1>2, <2>4, <2>5, <2>6
  <1> QED
    BY <1>2, <1>3, <1>4

LEMMA RemainderIs ==
  ASSUME NEW a \in Nat, NEW n \in Nat \ {0}, NEW r \in 0 .. n - 1,
         \E q \in Nat : a = n * q + r
  PROVE  a % n = r
  BY DivisionIs

(* All ones, of a range that the size divides; an aligned address.          *)
LEMMA AboveOnes ==
  ASSUME NEW n \in Nat \ {0}, NEW k \in Nat \ {0}
  PROVE  Above(n * k - 1, n) = n * k - n
  <1>1. n * k - 1 = n * (k - 1) + (n - 1)
    OBVIOUS
  <1>2. (n * (k - 1) + (n - 1)) % n = n - 1
    BY DivisionIs
  <1> QED
    BY <1>1, <1>2 DEF Above

LEMMA AboveAligned ==
  ASSUME NEW n \in Nat \ {0}, NEW k \in Nat
  PROVE  Above(n * k, n) = n * k
  <1>1. (n * k + 0) % n = 0
    BY DivisionIs
  <1> QED
    BY <1>1 DEF Above

(* pci_size: the lowest bit of the answer to all ones is the size.          *)
LEMMA LowestBit ==
  ASSUME NEW s \in BarSizes \ {0}, NEW t \in {Half, Full}, s < t
  PROVE  s = CHOOSE n \in BarSizes \ {0} : (t - s) % n = 0 /\ (t - s) % (2 * n) # 0
  <1> DEFINE P(n) == (t - s) % n = 0 /\ (t - s) % (2 * n) # 0
  <1>0. /\ s \in Nat \ {0} /\ t \in Nat \ {0} /\ s <= t
        /\ 2 * s \in Nat \ {0} /\ s \in 0 .. 2 * s - 1
        /\ {s, t} \subseteq (BarSizes \ {0}) \cup {Half, Full}
    BY HalfAssumption, BarSizesAssumption DEF Full
  <1>1. PICK k \in Nat \ {0} : t = (2 * s) * k
    BY <1>0, PowerDivides
  <1>2. P(s)
    <2>1. t - s = s * (2 * k - 1) + 0 /\ 2 * k - 1 \in Nat
      BY <1>0, <1>1
    <2>2. t - s = (2 * s) * (k - 1) + s /\ k - 1 \in Nat /\ t - s \in Nat
      BY <1>0, <1>1
    <2>3. \E q \in Nat : t - s = (2 * s) * q + s
      BY <2>2
    <2>4. (t - s) % s = 0
      BY <1>0, <2>1, DivisionIs
    <2>5. (t - s) % (2 * s) = s
      BY <1>0, <2>2, <2>3, RemainderIs
    <2> QED
      BY <1>0, <2>4, <2>5
  <1>3. ASSUME NEW n \in BarSizes \ {0}, P(n) PROVE n = s
    <2>0. n \in Nat \ {0} /\ 2 * n \in Nat \ {0}
      BY BarSizesAssumption
    <2>1. ~(n < s)
      <3> SUFFICES ASSUME n < s PROVE FALSE
        OBVIOUS
      <3>1. PICK j \in Nat \ {0} : s = (2 * n) * j
        BY <1>0, <2>0, PowerDivides
      <3>2. t - s = ((2 * n) * j) * (2 * k - 1)
        BY <1>0, <1>1, <3>1
      <3> DEFINE q == j * (2 * k - 1)
      <3>3. t - s = (2 * n) * q + 0 /\ q \in Nat
        BY <2>0, <3>2
      <3> HIDE DEF q
      <3>4. (\E i \in Nat : t - s = (2 * n) * i + 0) /\ t - s \in Nat /\ 0 \in 0 .. 2 * n - 1
        BY <1>0, <2>0, <3>3
      <3>5. (t - s) % (2 * n) = 0
        BY <2>0, <3>4, RemainderIs
      <3> QED
        BY <1>3, <3>5
    <2>2. ~(s < n)
      <3> SUFFICES ASSUME s < n PROVE FALSE
        OBVIOUS
      <3>1. PICK j \in Nat \ {0} : n = (2 * s) * j
        BY <1>0, <2>0, PowerDivides
      <3> DEFINE q == (t - s) \div n
      <3>2. t - s \in Nat
        BY <1>0
      <3>3. q \in Nat /\ t - s = n * q + ((t - s) % n) /\ (t - s) % n = 0
        BY <1>3, <2>0, <3>2, Division
      <3> HIDE DEF q
      <3>4. t - s = (2 * s) * (j * q) + 0 /\ j * q \in Nat
        BY <1>0, <2>0, <3>1, <3>3
      <3>5. (t - s) % (2 * s) = 0
        BY <1>0, <3>4, DivisionIs
      <3> QED
        BY <1>2, <3>5
    <2> QED
      BY <1>0, <2>0, <2>1, <2>2
  <1> HIDE DEF P
  <1>4. s = CHOOSE n \in BarSizes \ {0} : P(n)
    BY <1>2, <1>3
  <1> QED
    BY <1>4 DEF P

(* A size below 4 GiB, in one register.                                     *)
LEMMA OneRegister ==
  ASSUME NEW s \in BarSizes \ {0}, s < Half, NEW j \in Nat, s * j + s <= Half
  PROVE  /\ (s * j) % Half = s * j /\ (s * j) \div Half = 0
         /\ Above(Half - 1, s) = Half - s /\ Above(s * j, s) = s * j
  <1>1. s \in Nat \ {0} /\ Half \in Nat \ {0} /\ s <= Half
    BY HalfAssumption, BarSizesAssumption
  <1>2. s \in (BarSizes \ {0}) \cup {Half, Full} /\ Half \in (BarSizes \ {0}) \cup {Half, Full}
    OBVIOUS
  <1>3. PICK k \in Nat \ {0} : Half = s * k
    BY <1>1, <1>2, PowerDivides
  <1>4. Above(Half - 1, s) = Half - s
    BY <1>1, <1>3, AboveOnes
  <1>5. s * j \in 0 .. Half - 1
    BY <1>1
  <1>6. \A a \in 0 .. Half - 1 : a % Half = a /\ a \div Half = 0
    <2> TAKE a \in 0 .. Half - 1
    <2>1. (Half * 0 + a) % Half = a /\ (Half * 0 + a) \div Half = 0
      BY <1>1, DivisionIs
    <2> QED
      BY <1>1, <2>1
  <1> QED
    BY <1>1, <1>4, <1>5, <1>6, AboveAligned

(* A size from 4 GiB on, in two registers.                                  *)
LEMMA TwoRegisters ==
  ASSUME NEW s \in BarSizes \ {0}, Half <= s, NEW j \in Nat, s * j + s <= Full
  PROVE  \E t \in Nat \ {0} :
            /\ s = Half * t /\ s \div Half = t /\ t <= Half
            /\ (s * j) % Half = 0 /\ (s * j) \div Half = t * j /\ t * j \in 0 .. Half - 1
            /\ Above(Half - 1, s) = 0 /\ Above(0, s) = 0
            /\ Above(Half - 1, t) = Half - t /\ Above(t * j, t) = t * j
  <1>1. /\ s \in Nat \ {0} /\ Half \in Nat \ {0} /\ Full \in Nat \ {0} /\ s <= Full
    BY HalfAssumption, BarSizesAssumption DEF Full
  <1>2. /\ s \in (BarSizes \ {0}) \cup {Half, Full} /\ Half \in (BarSizes \ {0}) \cup {Half, Full}
        /\ Full \in (BarSizes \ {0}) \cup {Half, Full}
    OBVIOUS
  <1>3. PICK t \in Nat \ {0} : s = Half * t
    BY <1>1, <1>2, PowerDivides
  <1>4. PICK k \in Nat \ {0} : Full = s * k
    BY <1>1, <1>2, PowerDivides
  <1>5. Half = t * k
    <2>1. Half * Half = (Half * t) * k
      BY <1>3, <1>4 DEF Full
    <2>2. Half * Half = Half * (t * k)
      BY <1>1, <2>1
    <2> QED
      BY <1>1, <2>2
  <1>6. t <= Half
    BY <1>1, <1>5
  <1>7. s \div Half = t
    <2>1. (Half * t + 0) \div Half = t
      BY <1>1, DivisionIs
    <2> QED
      BY <1>1, <1>3, <2>1
  <1>8. Above(Half - 1, t) = Half - t /\ Above(t * j, t) = t * j
    BY <1>1, <1>5, AboveOnes, AboveAligned
  <1>9. Above(Half - 1, s) = 0 /\ Above(0, s) = 0
    <2>1. \A a \in 0 .. Half - 1 : a % s = a
      <3> TAKE a \in 0 .. Half - 1
      <3>1. (s * 0 + a) % s = a
        BY <1>1, DivisionIs
      <3> QED
        BY <1>1, <3>1
    <2> QED
      BY <1>1, <2>1 DEF Above
  <1>10. t * j \in 0 .. Half - 1
    <2>1. Half * (t * j + t) <= Half * Half /\ t * j \in Nat
      BY <1>1, <1>3 DEF Full
    <2>2. t * j + t <= Half
      BY <1>1, <2>1
    <2> QED
      BY <1>1, <2>1, <2>2
  <1>11. (s * j) % Half = 0 /\ (s * j) \div Half = t * j
    <2> DEFINE q == t * j
    <2>1. s * j = Half * q + 0 /\ q \in Nat /\ 0 \in 0 .. Half - 1
      BY <1>1, <1>3
    <2> HIDE DEF q
    <2>2. (Half * q + 0) % Half = 0 /\ (Half * q + 0) \div Half = q
      BY <1>1, <2>1, DivisionIs
    <2> QED
      BY <2>1, <2>2 DEF q
  <1> QED
    BY <1>3, <1>6, <1>7, <1>8, <1>9, <1>10, <1>11

-----------------------------------------------------------------------------
(* Registers of a layout as the pool gives it *)

LEMMA BarsRange == \E n \in Nat : Bars = 0 .. n /\ Count = n + 1
  <1>1. PICK n \in Nat : Bars = 0 .. n
    BY BarsAssumption
  <1> QED
    BY <1>1, FS_Interval DEF Count

LEMMA Laid ==
  ASSUME lay \in LaidOut({}), NEW b \in Bars
  PROVE  /\ b \in Nat
         /\ lay[b].size = 0 => ~lay[b].wide
         /\ lay[b].size # 0 =>
               /\ lay[b].size \in BarSizes \ {0}
               /\ \E j \in Nat \ {0} : lay[b].place = lay[b].size * j
               /\ lay[b].place + lay[b].size <= Full
               /\ ~lay[b].wide => lay[b].place + lay[b].size <= Half
               /\ lay[b].wide =>
                     /\ lay[b].place + lay[b].size # Half
                     /\ lay[b].place + lay[b].size <= Half \/ lay[b].size >= Half
                     /\ b + 1 \in Bars /\ lay[b + 1].size = 0 /\ ~lay[b + 1].wide
                     /\ b % 2 = 0 /\ (b + 1) % 2 = 1
  <1>1. b \in Nat
    BY BarsAssumption
  <1>2. lay[b] \in Placed({}) \cup {Off}
    BY DEF LaidOut
  <1>3. CASE lay[b] = Off
    BY <1>1, <1>3 DEF Off
  <1>4. CASE lay[b] \in Placed({})
    <2> DEFINE s == lay[b].size
               p == lay[b].place
    <2>1. /\ s \in BarSizes \ {0} /\ lay[b].wide \in BOOLEAN /\ p \in 1 .. Full - 1
          /\ p % s = 0 /\ p + s <= Full
          /\ p + s <= Half \/ (lay[b].wide /\ s >= Half)
          /\ ~lay[b].wide \/ p + s # Half
      BY <1>4 DEF Placed
    <2>0. Full \in Nat
      BY HalfAssumption DEF Full
    <2>2. s \in Nat \ {0} /\ p \in Nat \ {0}
      <3>1. s \in Nat \ {0}
        BY <2>1, BarSizesAssumption
      <3>2. p \in Nat \ {0}
        BY <2>1, <2>0
      <3> QED
        BY <3>1, <3>2
    <2>3. \E j \in Nat \ {0} : p = s * j
      <3> DEFINE j == p \div s
      <3>1. j \in Nat /\ p = s * j + (p % s)
        BY <2>2, Division
      <3> HIDE DEF j
      <3>2. j # 0
        BY <2>1, <2>2, <3>1
      <3> QED
        BY <2>1, <2>2, <3>1, <3>2
    <2>4. lay[b].wide =>
             /\ b + 1 \in Bars /\ lay[b + 1] = Off
             /\ b % 2 = 0 /\ (b + 1) % 2 = 1
      BY <1>1 DEF LaidOut
    <2> HIDE DEF s, p
    <2>5. s # 0 /\ (~lay[b].wide => p + s <= Half)
      BY <2>1, <2>2
    <2> QED
      BY <1>1, <2>1, <2>3, <2>4, <2>5 DEF s, p, Off
  <1> QED
    BY <1>2, <1>3, <1>4

(* The register after a 64-bit BAR, and only it, is an upper half.          *)
LEMMA Upper ==
  ASSUME lay \in LaidOut({}), NEW b \in Bars, lay[b].size = 0
  PROVE  IsUpper(b) <=> b > 0 /\ lay[b - 1].wide
  <1>1. CASE b > 0
    <2>1. b - 1 \in Bars /\ (b - 1) + 1 = b
      BY <1>1, BarsRange
    <2> QED
      BY <1>1, <2>1, Laid DEF IsUpper
  <1>2. CASE ~(b > 0)
    <2>1. b = 0
      BY <1>2, BarsRange
    <2> QED
      BY <2>1 DEF IsUpper
  <1> QED
    BY <1>1, <1>2

(* What the registers of a BAR hold, answer to all ones and keep of what    *)
(* they hold.                                                               *)
LEMMA LowerRegister ==
  ASSUME lay \in LaidOut({}), NEW b \in Bars, lay[b].size # 0
  PROVE  /\ Home[b] \in Nat /\ Ones(b) \in Nat /\ Kept(b, Home[b]) = Home[b]
         /\ IF lay[b].size < Half
            THEN Home[b] = lay[b].place /\ Ones(b) = Half - lay[b].size
            ELSE Home[b] = 0 /\ Ones(b) = 0
  <1> DEFINE s == lay[b].size
  <1>1. s \in BarSizes \ {0} /\ s \in Nat
    BY Laid, BarSizesAssumption
  <1>2. PICK j \in Nat \ {0} : lay[b].place = s * j
    BY Laid
  <1>3. Home[b] = (s * j) % Half /\ Ones(b) = Above(Half - 1, s) /\ Kept(b, Home[b]) = Above(Home[b], s)
    BY <1>2 DEF Home, Ones, Kind, Kept
  <1>4. s * j \in Nat /\ Half \in Nat
    BY <1>1, HalfAssumption
  <1>5. CASE s < Half
    <2>1. s * j + s <= Half
      BY <1>1, <1>2, <1>4, <1>5, Laid
    <2>2. /\ (s * j) % Half = s * j
          /\ Above(Half - 1, s) = Half - s /\ Above(s * j, s) = s * j
      BY <1>1, <1>5, <2>1, OneRegister
    <2> QED
      BY <1>1, <1>2, <1>3, <1>4, <1>5, <2>2
  <1>6. CASE ~(s < Half)
    <2>1. s * j + s <= Full /\ Half <= s
      BY <1>1, <1>2, <1>4, <1>6, Laid
    <2>2. (s * j) % Half = 0 /\ Above(Half - 1, s) = 0 /\ Above(0, s) = 0
      BY <1>1, <2>1, TwoRegisters
    <2> QED
      BY <1>3, <1>6, <2>2
  <1> QED
    BY <1>5, <1>6

LEMMA UpperRegister ==
  ASSUME lay \in LaidOut({}), NEW b \in Bars, lay[b].wide, lay[b].size # 0
  PROVE  /\ Home[b + 1] \in Nat /\ Ones(b + 1) \in Nat
         /\ Kept(b + 1, Home[b + 1]) = Home[b + 1]
         /\ IF lay[b].size < Half
            THEN Home[b + 1] = 0 /\ Ones(b + 1) = 0
            ELSE /\ Half * Home[b + 1] = lay[b].place
                 /\ Half * Ones(b + 1) = Full - lay[b].size
  <1> DEFINE s == lay[b].size
             c == b + 1
  <1>1. /\ s \in BarSizes \ {0} /\ s \in Nat /\ Half \in Nat \ {0}
        /\ c \in Bars /\ lay[c].size = 0 /\ b \in Nat
    BY Laid, BarSizesAssumption, HalfAssumption
  <1>2. PICK j \in Nat \ {0} : lay[b].place = s * j
    BY Laid
  <1>3. c - 1 = b /\ c > 0 /\ IsUpper(c)
    BY <1>1, Upper
  <1>4. Home[c] = (s * j) \div Half
    BY <1>1, <1>2, <1>3 DEF Home
  <1>5. \A v : Kept(c, v) = IF s < Half THEN 0 ELSE Above(v, s \div Half)
    BY <1>1, <1>3 DEF Kept
  <1>6. Ones(c) = Kept(c, Half - 1)
    BY <1>3 DEF Ones, Kind
  <1>7. s * j \in Nat
    BY <1>1
  <1>8. CASE s < Half
    <2>1. s * j + s <= Half
      BY <1>1, <1>2, <1>7, <1>8, Laid
    <2>2. (s * j) \div Half = 0
      BY <1>1, <1>8, <2>1, OneRegister
    <2> QED
      BY <1>4, <1>5, <1>6, <1>8, <2>2
  <1>9. CASE ~(s < Half)
    <2>1. s * j + s <= Full /\ Half <= s
      BY <1>1, <1>2, <1>7, <1>9, Laid
    <2>2. PICK t \in Nat \ {0} :
            /\ s = Half * t /\ s \div Half = t /\ t <= Half
            /\ (s * j) \div Half = t * j /\ t * j \in 0 .. Half - 1
            /\ Above(Half - 1, t) = Half - t /\ Above(t * j, t) = t * j
      BY <1>1, <2>1, TwoRegisters
    <2>3. Home[c] = t * j /\ Ones(c) = Half - t /\ Kept(c, Home[c]) = Home[c]
      BY <1>4, <1>5, <1>6, <1>9, <2>2
    <2>4. Half * (t * j) = s * j /\ Half * (Half - t) = Full - s /\ Half - t \in Nat
      BY <1>1, <2>2 DEF Full
    <2> QED
      BY <1>2, <1>9, <2>2, <2>3, <2>4
  <1> QED
    BY <1>8, <1>9

(* A scan of one register leaves it as it was.                              *)
LEMMA RegisterKept ==
  ASSUME lay \in LaidOut({}), NEW b \in Bars
  PROVE  /\ Home[b] \in Nat /\ Ones(b) \in Nat
         /\ Kind(b) => Kept(b, Home[b]) = Home[b]
         /\ ~Kind(b) => Home[b] = 0
  <1>1. CASE lay[b].size # 0
    BY <1>1, LowerRegister DEF Kind
  <1>2. CASE lay[b].size = 0 /\ IsUpper(b)
    <2>1. b > 0 /\ lay[b - 1].wide
      BY <1>2, Upper
    <2>2. PICK c \in Bars : c = b - 1 /\ c + 1 = b
      BY <2>1, BarsRange
    <2>3. lay[c].size # 0 /\ lay[c].wide
      BY <2>1, <2>2, Laid
    <2>4. Home[c + 1] \in Nat /\ Ones(c + 1) \in Nat /\ Kept(c + 1, Home[c + 1]) = Home[c + 1]
      BY <2>3, UpperRegister
    <2> QED
      BY <1>2, <2>2, <2>4 DEF Kind
  <1>3. CASE lay[b].size = 0 /\ ~IsUpper(b)
    BY <1>3, Upper DEF Kind, Home, Ones
  <1> QED
    BY <1>1, <1>2, <1>3

LEMMA BarInvInit == Layouts \subseteq {{}} /\ BarsInit => BarInv
  <1> SUFFICES ASSUME Layouts \subseteq {{}}, BarsInit PROVE BarInv
    OBVIOUS
  <1>1. lay \in LaidOut({}) /\ told \in [Bars -> Nat \X Nat]
    BY DEF BarsInit
  <1> QED
    BY <1>1, BarsRange DEF BarsInit, BarInv

LEMMA PlacementHome ==
  ASSUME BarInv, NEW b \in Bars
  PROVE  Placement[b] = Home[b]
  <1>1. base[b] = 0 \/ base[b] = Home[b]
    BY DEF BarInv
  <1> QED
    BY <1>1, HalfAssumption DEF Placement, Home

LEMMA BarInvNext ==
  ASSUME BarInv, [BarsNext]_barVars
  PROVE  BarInv'
  <1>0. PICK n \in Nat : Bars = 0 .. n /\ Count = n + 1
    BY BarsRange
  <1>1. CASE UNCHANGED lay /\ Prepare
    <2>1. base' = Home
      BY <1>1, PlacementHome DEF Prepare, Placement, Home
    <2>2. Home' = Home
      BY <1>1 DEF Home
    <2> QED
      BY <1>0, <1>1, <2>1, <2>2 DEF Prepare, BarInv
  <1>2. CASE UNCHANGED lay /\ SizeRegister
    <2>1. base = Home /\ at \in Bars /\ lay \in LaidOut({}) /\ at \in Nat
      BY <1>0, <1>2 DEF SizeRegister, BarInv
    <2>2. Home' = Home
      BY <1>2 DEF Home
    <2>3. /\ told' = [told EXCEPT ![at] = <<ReadBar(Home, at), Ones(at)>>]
          /\ base' = Home
      <3> DEFINE old == ReadBar(Home, at)
                 ones == WriteBar(Home, at, Half - 1)
      <3>1. old = Home[at]
        BY <2>1, RegisterKept DEF ReadBar, Kind
      <3>2. ReadBar(ones, at) = Ones(at)
        BY <2>1 DEF ReadBar, WriteBar, Ones, Kind, Home
      <3>3. WriteBar(ones, at, old) = Home
        <4>1. CASE Kind(at)
          <5>1. WriteBar(ones, at, old) = [Home EXCEPT ![at] = Kept(at, Home[at])]
            BY <3>1, <4>1 DEF WriteBar, Kind, Home
          <5> QED
            BY <2>1, <4>1, <5>1, RegisterKept DEF Home
        <4>2. CASE ~Kind(at)
          BY <4>2 DEF WriteBar, Kind
        <4> QED
          BY <4>1, <4>2
      <3> QED
        BY <1>2, <2>1, <3>2, <3>3 DEF SizeRegister
    <2>4. ReadBar(Home, at) \in Nat /\ Ones(at) \in Nat
      BY <2>1, RegisterKept DEF ReadBar
    <2>5. /\ at' = (at + 1) % (n + 1)
          /\ phase' = IF at' # 0 THEN phase
                      ELSE IF phase = "scan" THEN "scanned" ELSE "up"
          /\ phase \in {"scan", "rescan"}
      BY <1>0, <1>2 DEF SizeRegister
    <2>6. at' = IF at = n THEN 0 ELSE at + 1
      BY <1>0, <2>1, <2>5
    <2>7. \A b \in Bars : (ReadBar(Home, b))' = ReadBar(Home, b) /\ Ones(b)' = Ones(b)
      BY <1>2, <2>2 DEF ReadBar, Home, Ones, Kind, IsUpper, Kept, Above
    <2>8. \A b \in Bars :
            phase' \in {"scanned", "up", "rescan"} \/ (phase' = "scan" /\ b < at') =>
              told'[b] = <<ReadBar(Home, b), Ones(b)>>
      <3> SUFFICES ASSUME NEW b \in Bars,
                          phase' \in {"scanned", "up", "rescan"} \/ (phase' = "scan" /\ b < at')
                   PROVE  told'[b] = <<ReadBar(Home, b), Ones(b)>>
        OBVIOUS
      <3>1. told \in [Bars -> Nat \X Nat]
        BY DEF BarInv
      <3>2. CASE b = at
        BY <2>1, <2>3, <3>1, <3>2
      <3>3. CASE b # at
        <4>1. told'[b] = told[b]
          BY <2>1, <2>3, <3>1, <3>3
        <4>2. phase \in {"scanned", "up", "rescan"} \/ (phase = "scan" /\ b < at)
          BY <1>0, <2>1, <2>5, <2>6, <3>3
        <4> QED
          BY <4>1, <4>2 DEF BarInv
      <3> QED
        BY <3>2, <3>3
    <2>9. told' \in [Bars -> Nat \X Nat] /\ at' \in Bars
      BY <1>0, <2>1, <2>3, <2>4, <2>6 DEF BarInv
    <2> QED
      BY <1>2, <2>1, <2>2, <2>3, <2>5, <2>7, <2>8, <2>9 DEF BarInv
  <1>3. CASE UNCHANGED lay /\ BusInitResources
    <2>1. base' = Home
      BY <1>3, PlacementHome DEF BusInitResources, Placement, Home
    <2>2. Home' = Home /\ \A b \in Bars : Ones(b)' = Ones(b) /\ (ReadBar(Home, b))' = ReadBar(Home, b)
      BY <1>3 DEF Home, ReadBar, Ones, Kind, IsUpper, Kept, Above
    <2> QED
      BY <1>3, <2>1, <2>2 DEF BusInitResources, BarInv
  <1>4. CASE UNCHANGED lay /\ (Attached \/ Rescan)
    <2>1. Home' = Home /\ \A b \in Bars : Ones(b)' = Ones(b) /\ (ReadBar(Home, b))' = ReadBar(Home, b)
      BY <1>4 DEF Home, ReadBar, Ones, Kind, IsUpper, Kept, Above
    <2> QED
      BY <1>4, <2>1 DEF Attached, Rescan, BarInv
  <1>5. CASE UNCHANGED barVars
    <2>1. Home' = Home /\ \A b \in Bars : Ones(b)' = Ones(b) /\ (ReadBar(Home, b))' = ReadBar(Home, b)
      BY <1>5 DEF barVars, Home, ReadBar, Ones, Kind, IsUpper, Kept, Above
    <2> QED
      BY <1>5, <2>1 DEF barVars, BarInv
  <1> QED
    BY <1>1, <1>2, <1>3, <1>4, <1>5 DEF BarsNext, BarsStep

LEMMA BarInvFound ==
  ASSUME BarInv, phase \in {"scanned", "up"}, NEW b \in Bars, lay[b].size # 0
  PROVE  /\ FoundSize(b) = lay[b].size
         /\ Value(b, 1) = lay[b].place
         /\ lay[b].place = ReadBar(base, b) +
               (IF lay[b].wide THEN Half * ReadBar(base, b + 1) ELSE 0)
  <1> DEFINE s == lay[b].size
             p == lay[b].place
             c == b + 1
  <1>1. lay \in LaidOut({}) /\ base = Home
    BY DEF BarInv
  <1>2. \A d \in Bars : told[d] = <<Home[d], Ones(d)>> /\ ReadBar(base, d) = Home[d]
    <2> TAKE d \in Bars
    <2>1. ReadBar(Home, d) = Home[d]
      BY <1>1, RegisterKept DEF ReadBar, Kind
    <2>2. ReadBar(base, d) = Home[d]
      BY <1>1, <2>1
    <2>3. told[d] = <<ReadBar(Home, d), Ones(d)>>
      BY DEF BarInv
    <2> QED
      BY <2>1, <2>2, <2>3
  <1>3. /\ s \in BarSizes \ {0} /\ s \in Nat \ {0} /\ Half \in Nat \ {0} /\ Full \in Nat
        /\ p \in Nat \ {0} /\ p + s <= Full
    <2>1. s \in BarSizes \ {0} /\ s \in Nat \ {0} /\ p + s <= Full
      BY <1>1, Laid, BarSizesAssumption
    <2>2. PICK j \in Nat \ {0} : p = s * j
      BY <1>1, Laid
    <2>3. \A i, k \in Nat \ {0} : i * k \in Nat \ {0}
      OBVIOUS
    <2>4. p \in Nat \ {0}
      BY <2>1, <2>2, <2>3
    <2> QED
      BY <2>1, <2>4, HalfAssumption DEF Full
  <1>4. CASE ~lay[b].wide
    <2>1. p + s <= Half /\ s < Half
      BY <1>1, <1>3, <1>4, Laid
    <2>2. Home[b] = p /\ Ones(b) = Half - s
      BY <1>1, <2>1, LowerRegister
    <2>3. Value(b, 1) = p /\ Value(b, 2) = Half - s /\ Mask(b) = Half - 1
      BY <1>2, <1>3, <1>4, <2>2 DEF Value, Mask
    <2>4. s = CHOOSE n \in BarSizes \ {0} : (Half - s) % n = 0 /\ (Half - s) % (2 * n) # 0
      BY <1>3, <2>1, LowestBit
    <2>5. FoundSize(b) = s
      <3>1. Half - s # 0 /\ ~(p = Half - s /\ p + s - 1 # Half - 1)
        BY <1>3, <2>1
      <3> QED
        BY <2>3, <2>4, <3>1 DEF FoundSize
    <2> QED
      BY <1>2, <1>3, <1>4, <2>2, <2>3, <2>5
  <1>5. CASE lay[b].wide
    <2>0. c \in Bars
      BY <1>1, <1>5, Laid
    <2>1. Value(b, 1) = Home[b] + Half * Home[c] /\ Value(b, 2) = Ones(b) + Half * Ones(c)
          /\ Mask(b) = Full - 1
      BY <1>2, <1>5, <2>0 DEF Value, Mask
    <2>2. CASE s < Half
      <3>1. p + s <= Half /\ p + s # Half
        BY <1>1, <1>3, <1>5, <2>2, Laid
      <3>2. /\ Home[b] = p /\ Ones(b) = Half - s /\ Home[c] = 0 /\ Ones(c) = 0
        BY <1>1, <1>5, <2>2, LowerRegister, UpperRegister
      <3>3. Value(b, 1) = p /\ Value(b, 2) = Half - s
        BY <1>3, <2>1, <3>2
      <3>4. s = CHOOSE n \in BarSizes \ {0} : (Half - s) % n = 0 /\ (Half - s) % (2 * n) # 0
        BY <1>3, <2>2, LowestBit
      <3>5. Half - s # 0 /\ p # Half - s
        BY <1>3, <2>2, <3>1
      <3>6. FoundSize(b) = s
        BY <3>3, <3>4, <3>5 DEF FoundSize
      <3> QED
        BY <1>2, <1>3, <1>5, <2>0, <3>2, <3>3, <3>6
    <2>3. CASE ~(s < Half)
      <3>1. s < Full
        BY <1>3
      <3>2. /\ Home[b] = 0 /\ Ones(b) = 0 /\ Half * Home[c] = p /\ Half * Ones(c) = Full - s
        BY <1>1, <1>5, <2>3, LowerRegister, UpperRegister
      <3>3. Value(b, 1) = p /\ Value(b, 2) = Full - s
        BY <1>3, <2>1, <3>2
      <3>4. s = CHOOSE n \in BarSizes \ {0} : (Full - s) % n = 0 /\ (Full - s) % (2 * n) # 0
        BY <1>3, <3>1, LowestBit
      <3>5. Full - s # 0 /\ ~(p = Full - s /\ p + s - 1 # Full - 1)
        BY <1>3, <3>1
      <3>6. FoundSize(b) = s
        BY <2>1, <3>3, <3>4, <3>5 DEF FoundSize
      <3> QED
        BY <1>2, <1>3, <1>5, <2>0, <3>2, <3>3, <3>6
    <2> QED
      BY <2>2, <2>3
  <1> QED
    BY <1>4, <1>5

(* BarsFound: for any number of BARs and any power of two as 4 GiB: where   *)
(* the layout keeps clear of the four placements of section 4, every scan   *)
(* finds each BAR with its address and size and leaves the registers alone. *)
THEOREM ScansFindTheBars ==
  ASSUME Layouts \subseteq {{}} PROVE BarsSpec => []BarsFound
  <1>1. BarsInit => BarInv
    BY BarInvInit
  <1>2. BarInv => BarsFound
    BY BarInvFound DEF BarsFound
  <1> QED
    BY <1>1, <1>2, BarInvNext, PTL DEF BarsSpec

=============================================================================
