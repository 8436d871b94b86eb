---------------------------- MODULE Trace_proofs ----------------------------
(***************************************************************************)
(* Theorems about SmpTrace, for any number of CPUs and mappings: a fault   *)
(* handler finds what it uses, a poisoned mapping has its handler, nothing *)
(* is left when tracing is off, and a driver that is quiet while tracing   *)
(* stops never notices it.                                                 *)
(*                                                                         *)
(* Theorems about TraceArch and X86Insn, for any page tables, mappings and *)
(* instructions: the walks poison and restore every entry, the x86 decoder *)
(* finds what was encoded, and an emulated access is what the CPU would    *)
(* have done.                                                              *)
(***************************************************************************)
EXTENDS SmpTrace, TraceArch, SequenceTheorems, FiniteSetTheorems, TLAPS

(* What is registered where the start and the stop are. *)
HooksAt(p) ==
    CASE p \in {"off", "badarea", "unshadow", "done"} -> {}
      [] p \in {"iounmap", "unhooked", "restoring"}   -> {"badarea"}
      [] p \in {"ioremap", "stop"}                    -> {"badarea", "iounmap"}
      [] p = "on" -> {"badarea", "iounmap", "ioremap"}

(* Where mappings can be listed: once ioremap is hooked, until all are      *)
(* restored.                                                                *)
Listing == {"on", "stop", "unhooked", "restoring"}

(* The start and the stop keep hooks, shadow mapping and list in step. *)
CtlInv ==
    /\ hooks = HooksAt(ctl)
    /\ shadow <=> ctl \notin {"off", "done"}
    /\ ctl \notin Listing => maps = {}

(* A listed mapping, and the one the stop works on, are allocated; only     *)
(* these are poisoned.                                                      *)
MapInv ==
    /\ cur \notin maps
    /\ \A m \in Maps :
          /\ m \in maps \/ m = cur => obj[m] = "live"
          /\ pte[m] = "poisoned" => m \in maps \/ m = cur
          /\ vm[m] = "none" => m \notin maps /\ m # cur

(* Where no driver runs beside the stop, every mapping but the listed ones  *)
(* has the entries it would have without tracing.                           *)
AsIf(m) == IF m \in maps \/ m = cur THEN "poisoned"
           ELSE IF vm[m] = "mapped" THEN "valid" ELSE "none"

DriverInv ==
    ~late \/ ~(Stopping \/ ctl = "done") =>
        \A m \in Maps :
            /\ pte[m] = AsIf(m)
            /\ m \in maps \/ m = cur => vm[m] = "mapped"

(* A handler runs while mappings may be listed, on one that is not freed.   *)
CpuInv ==
    \A c \in CPUs :
        /\ cpc[c] # "run" => cmap[c] \in Maps
        /\ cpc[c] \in {"lookup", "emulate"} => ctl \in Listing
        /\ cpc[c] = "lookup" => obj[cmap[c]] \in {"live", "rcu"}

(* A driver that is quiet meanwhile faults only while tracing is on, and    *)
(* only on listed mappings.                                                 *)
QuietInv ==
    ~late =>
        /\ ~oops
        /\ \A c \in CPUs :
              /\ cpc[c] # "dead"
              /\ cpc[c] # "run" => ctl = "on" /\ cmap[c] \in maps

IInv == TypeOK /\ CtlInv /\ MapInv /\ DriverInv /\ CpuInv /\ QuietInv

LEMMA IInvInit == Init => IInv
  <1> SUFFICES ASSUME Init PROVE IInv
    OBVIOUS
  <1>1. TypeOK /\ CtlInv
    BY LateDriverAssumption DEF Init, TypeOK, CtlInv, HooksAt, Listing
  <1>2. MapInv /\ DriverInv
    BY NoneAssumption DEF Init, MapInv, DriverInv, AsIf
  <1>3. CpuInv /\ QuietInv
    BY DEF Init, CpuInv, QuietInv
  <1> QED
    BY <1>1, <1>2, <1>3 DEF IInv

-----------------------------------------------------------------------------
(* Each action keeps the invariant. *)

LEMMA MapShadowKeeps ==
  ASSUME IInv, MapShadow, UNCHANGED late
  PROVE  IInv'
  <1> USE NoneAssumption DEF IInv, drvVars, cpuVars
  <1>1. TypeOK'
    BY DEF MapShadow, TypeOK
  <1>2. CtlInv'
    BY DEF MapShadow, TypeOK, CtlInv, HooksAt, Listing
  <1>3. MapInv'
    BY DEF MapShadow, TypeOK, MapInv, CtlInv, HooksAt, Listing
  <1>4. DriverInv'
    BY DEF MapShadow, TypeOK, DriverInv, AsIf, Stopping, CtlInv, HooksAt,
           Listing, MapInv
  <1>5. CpuInv'
    BY DEF MapShadow, TypeOK, CpuInv, CtlInv, HooksAt, Listing, MapInv
  <1>6. QuietInv'
    BY DEF MapShadow, TypeOK, QuietInv, CtlInv, HooksAt, Listing, CpuInv,
           DriverInv, AsIf, Stopping
  <1> QED
    BY <1>1, <1>2, <1>3, <1>4, <1>5, <1>6

LEMMA RegisterKeeps ==
  ASSUME IInv, NEW h \in DOMAIN After, Register(h), UNCHANGED late
  PROVE  IInv'
  <1> USE NoneAssumption DEF IInv, drvVars, cpuVars
  <1>0. h \in {"badarea", "iounmap", "ioremap"}
    BY DEF After
  <1>1. TypeOK'
    <2>1. ctl' \in {"iounmap", "ioremap", "on"}
      BY <1>0 DEF Register, After
    <2> QED
      BY <1>0, <2>1 DEF Register, TypeOK
  <1>2. CtlInv'
    <2>2. ctl = h /\ hooks' = hooks \cup {h} /\ ctl' = After[h]
      BY DEF Register
    <2>3. CASE h = "badarea"
      BY <2>2, <2>3 DEF Register, CtlInv, HooksAt, Listing, After
    <2>4. CASE h = "iounmap"
      BY <2>2, <2>4 DEF Register, CtlInv, HooksAt, Listing, After
    <2>5. CASE h = "ioremap"
      BY <2>2, <2>5 DEF Register, CtlInv, HooksAt, Listing, After
    <2> QED
      BY <1>0, <2>3, <2>4, <2>5
  <1>3. MapInv'
    BY DEF Register, After, TypeOK, MapInv, CtlInv, HooksAt, Listing
  <1>4. DriverInv'
    BY DEF Register, After, TypeOK, DriverInv, AsIf, Stopping, CtlInv,
           HooksAt, Listing, MapInv
  <1>5. CpuInv'
    BY DEF Register, After, TypeOK, CpuInv, CtlInv, HooksAt, Listing, MapInv
  <1>6. QuietInv'
    BY DEF Register, After, TypeOK, QuietInv, CtlInv, HooksAt, Listing,
           CpuInv, DriverInv, AsIf, Stopping
  <1> QED
    BY <1>1, <1>2, <1>3, <1>4, <1>5, <1>6

LEMMA RegisterFailsKeeps ==
  ASSUME IInv, NEW h \in DOMAIN After, RegisterFails(h), UNCHANGED late
  PROVE  IInv'
  <1> USE NoneAssumption DEF IInv, drvVars, cpuVars
  <1>1. TypeOK'
    BY DEF RegisterFails, After, TypeOK
  <1>2. CtlInv'
    BY DEF RegisterFails, After, TypeOK, CtlInv, HooksAt, Listing
  <1>3. MapInv'
    BY DEF RegisterFails, After, TypeOK, MapInv, CtlInv, HooksAt, Listing
  <1>4. DriverInv'
    BY DEF RegisterFails, After, TypeOK, DriverInv, AsIf, Stopping, CtlInv,
           HooksAt, Listing, MapInv
  <1>5. CpuInv'
    BY DEF RegisterFails, After, TypeOK, CpuInv, CtlInv, HooksAt, Listing,
           MapInv
  <1>6. QuietInv'
    BY DEF RegisterFails, After, TypeOK, QuietInv, CtlInv, HooksAt, Listing,
           CpuInv, DriverInv, AsIf, Stopping
  <1> QED
    BY <1>1, <1>2, <1>3, <1>4, <1>5, <1>6

LEMMA IoremapKeeps ==
  ASSUME IInv, NEW m \in Maps, Ioremap(m), UNCHANGED late
  PROVE  IInv'
  <1> USE NoneAssumption DEF IInv, drvVars, cpuVars
  <1>1. TypeOK'
    BY DEF Ioremap, DriverMayRun, Stopping, TypeOK
  <1>2. CtlInv'
    BY DEF Ioremap, DriverMayRun, Stopping, TypeOK, CtlInv, HooksAt, Listing
  <1>3. MapInv'
    BY DEF Ioremap, DriverMayRun, Stopping, TypeOK, MapInv, CtlInv, HooksAt,
           Listing
  <1>4. DriverInv'
    BY DEF Ioremap, DriverMayRun, Stopping, TypeOK, DriverInv, AsIf, CtlInv,
           HooksAt, Listing, MapInv
  <1>5. CpuInv'
    BY DEF Ioremap, DriverMayRun, Stopping, TypeOK, CpuInv, CtlInv, HooksAt,
           Listing, MapInv
  <1>6. QuietInv'
    BY DEF Ioremap, DriverMayRun, Stopping, TypeOK, QuietInv, CtlInv,
           HooksAt, Listing, CpuInv, DriverInv, AsIf
  <1> QED
    BY <1>1, <1>2, <1>3, <1>4, <1>5, <1>6

LEMMA IoremapUntracedKeeps ==
  ASSUME IInv, NEW m \in Maps, IoremapUntraced(m), UNCHANGED late
  PROVE  IInv'
  <1> USE NoneAssumption DEF IInv, drvVars, cpuVars
  <1>1. TypeOK'
    BY DEF IoremapUntraced, DriverMayRun, Stopping, TypeOK
  <1>2. CtlInv'
    BY DEF IoremapUntraced, DriverMayRun, Stopping, TypeOK, CtlInv, HooksAt,
           Listing
  <1>3. MapInv'
    BY DEF IoremapUntraced, DriverMayRun, Stopping, TypeOK, MapInv, CtlInv,
           HooksAt, Listing
  <1>4. DriverInv'
    BY DEF IoremapUntraced, DriverMayRun, Stopping, TypeOK, DriverInv, AsIf,
           CtlInv, HooksAt, Listing, MapInv
  <1>5. CpuInv'
    BY DEF IoremapUntraced, DriverMayRun, Stopping, TypeOK, CpuInv, CtlInv,
           HooksAt, Listing, MapInv
  <1>6. QuietInv'
    BY DEF IoremapUntraced, DriverMayRun, Stopping, TypeOK, QuietInv, CtlInv,
           HooksAt, Listing, CpuInv, DriverInv, AsIf
  <1> QED
    BY <1>1, <1>2, <1>3, <1>4, <1>5, <1>6

LEMMA IoremapFailsKeeps ==
  ASSUME IInv, NEW m \in Maps, IoremapFails(m), UNCHANGED late
  PROVE  IInv'
  <1> USE NoneAssumption DEF IInv, drvVars, cpuVars
  <1>1. TypeOK'
    BY DEF IoremapFails, DriverMayRun, Stopping, TypeOK
  <1>2. CtlInv'
    BY DEF IoremapFails, DriverMayRun, Stopping, TypeOK, CtlInv, HooksAt,
           Listing
  <1>3. MapInv'
    BY DEF IoremapFails, DriverMayRun, Stopping, TypeOK, MapInv, CtlInv,
           HooksAt, Listing
  <1>4. DriverInv'
    BY DEF IoremapFails, DriverMayRun, Stopping, TypeOK, DriverInv, AsIf,
           CtlInv, HooksAt, Listing, MapInv
  <1>5. CpuInv'
    BY DEF IoremapFails, DriverMayRun, Stopping, TypeOK, CpuInv, CtlInv,
           HooksAt, Listing, MapInv
  <1>6. QuietInv'
    BY DEF IoremapFails, DriverMayRun, Stopping, TypeOK, QuietInv, CtlInv,
           HooksAt, Listing, CpuInv, DriverInv, AsIf
  <1> QED
    BY <1>1, <1>2, <1>3, <1>4, <1>5, <1>6

LEMMA IounmapKeeps ==
  ASSUME IInv, NEW m \in Maps, Iounmap(m), UNCHANGED late
  PROVE  IInv'
  <1> USE NoneAssumption DEF IInv, drvVars, cpuVars
  <1>1. TypeOK'
    BY DEF Iounmap, DriverMayRun, Stopping, TypeOK
  <1>2. CtlInv'
    BY DEF Iounmap, DriverMayRun, Stopping, TypeOK, CtlInv, HooksAt, Listing
  <1>3. MapInv'
    BY DEF Iounmap, DriverMayRun, Stopping, TypeOK, MapInv, CtlInv, HooksAt,
           Listing
  <1>4. DriverInv'
    BY DEF Iounmap, DriverMayRun, Stopping, TypeOK, DriverInv, AsIf, CtlInv,
           HooksAt, Listing, MapInv
  <1>5. CpuInv'
    BY DEF Iounmap, DriverMayRun, Stopping, TypeOK, CpuInv, CtlInv, HooksAt,
           Listing, MapInv
  <1>6. QuietInv'
    BY DEF Iounmap, DriverMayRun, Stopping, TypeOK, QuietInv, CtlInv,
           HooksAt, Listing, CpuInv, DriverInv, AsIf
  <1> QED
    BY <1>1, <1>2, <1>3, <1>4, <1>5, <1>6

LEMMA AccessKeeps ==
  ASSUME IInv, NEW c \in CPUs, NEW m \in Maps, Access(c, m), UNCHANGED late
  PROVE  IInv'
  <1> USE NoneAssumption DEF IInv, drvVars, cpuVars
  <1>1. CtlInv' /\ MapInv' /\ DriverInv'
    BY DEF Access, DriverMayRun, Stopping, CtlInv, MapInv, DriverInv, AsIf, Stopping
  <1>2. TypeOK'
    BY DEF Access, DriverMayRun, Stopping, TypeOK
  <1>3. CpuInv'
    BY DEF Access, DriverMayRun, Stopping, TypeOK, CpuInv, CtlInv, HooksAt,
           Listing, MapInv
  <1>4. QuietInv'
    BY DEF Access, DriverMayRun, Stopping, TypeOK, QuietInv, CtlInv, HooksAt,
           Listing, CpuInv, DriverInv, AsIf
  <1> QED
    BY <1>1, <1>2, <1>3, <1>4

LEMMA EnterBadareaKeeps ==
  ASSUME IInv, NEW c \in CPUs, EnterBadarea(c), UNCHANGED late
  PROVE  IInv'
  <1> USE NoneAssumption DEF IInv, drvVars, cpuVars
  <1>1. CtlInv' /\ MapInv' /\ DriverInv'
    BY DEF EnterBadarea, Oops, CtlInv, MapInv, DriverInv, AsIf, Stopping
  <1>2. TypeOK'
    BY DEF EnterBadarea, Oops, TypeOK
  <1>3. CpuInv'
    BY DEF EnterBadarea, Oops, TypeOK, CpuInv, CtlInv, HooksAt, Listing,
           MapInv
  <1>4. QuietInv'
    BY DEF EnterBadarea, Oops, TypeOK, QuietInv, CtlInv, HooksAt, Listing,
           CpuInv, DriverInv, AsIf, Stopping
  <1> QED
    BY <1>1, <1>2, <1>3, <1>4

LEMMA CopyMapKeeps ==
  ASSUME IInv, NEW c \in CPUs, CopyMap(c), UNCHANGED late
  PROVE  IInv'
  <1> USE NoneAssumption DEF IInv, drvVars, cpuVars
  <1>1. CtlInv' /\ MapInv' /\ DriverInv'
    BY DEF CopyMap, CtlInv, MapInv, DriverInv, AsIf, Stopping
  <1>2. TypeOK'
    BY DEF CopyMap, TypeOK
  <1>3. CpuInv'
    BY DEF CopyMap, TypeOK, CpuInv, CtlInv, HooksAt, Listing, MapInv
  <1>4. QuietInv'
    BY DEF CopyMap, TypeOK, QuietInv, CtlInv, HooksAt, Listing, CpuInv,
           DriverInv, AsIf, Stopping
  <1> QED
    BY <1>1, <1>2, <1>3, <1>4

LEMMA EmulateKeeps ==
  ASSUME IInv, NEW c \in CPUs, Emulate(c), UNCHANGED late
  PROVE  IInv'
  <1> USE NoneAssumption DEF IInv, drvVars, cpuVars
  <1>1. CtlInv' /\ MapInv' /\ DriverInv'
    BY DEF Emulate, CtlInv, MapInv, DriverInv, AsIf, Stopping
  <1>2. TypeOK'
    BY DEF Emulate, TypeOK
  <1>3. CpuInv'
    BY DEF Emulate, TypeOK, CpuInv, CtlInv, HooksAt, Listing, MapInv
  <1>4. QuietInv'
    BY DEF Emulate, TypeOK, QuietInv, CtlInv, HooksAt, Listing, CpuInv,
           DriverInv, AsIf, Stopping
  <1> QED
    BY <1>1, <1>2, <1>3, <1>4

LEMMA KfreeRcuKeeps ==
  ASSUME IInv, NEW m \in Maps, KfreeRcu(m), UNCHANGED late
  PROVE  IInv'
  <1> USE NoneAssumption DEF IInv, drvVars, cpuVars
  <1>1. TypeOK'
    BY DEF KfreeRcu, TypeOK
  <1>2. CtlInv'
    BY DEF KfreeRcu, TypeOK, CtlInv, HooksAt, Listing
  <1>3. MapInv'
    BY DEF KfreeRcu, TypeOK, MapInv, CtlInv, HooksAt, Listing
  <1>4. DriverInv'
    BY DEF KfreeRcu, TypeOK, DriverInv, AsIf, Stopping, CtlInv, HooksAt,
           Listing, MapInv
  <1>5. CpuInv'
    BY DEF KfreeRcu, TypeOK, CpuInv, CtlInv, HooksAt, Listing, MapInv
  <1>6. QuietInv'
    BY DEF KfreeRcu, TypeOK, QuietInv, CtlInv, HooksAt, Listing, CpuInv,
           DriverInv, AsIf, Stopping
  <1> QED
    BY <1>1, <1>2, <1>3, <1>4, <1>5, <1>6

LEMMA StopIoremapKeeps ==
  ASSUME IInv, StopIoremap, UNCHANGED late
  PROVE  IInv'
  <1> USE NoneAssumption DEF IInv, drvVars, cpuVars
  <1>1. TypeOK'
    BY DEF StopIoremap, TypeOK
  <1>2. CtlInv'
    BY DEF StopIoremap, TypeOK, CtlInv, HooksAt, Listing
  <1>3. MapInv'
    BY DEF StopIoremap, TypeOK, MapInv, CtlInv, HooksAt, Listing
  <1>4. DriverInv'
    BY DEF StopIoremap, TypeOK, DriverInv, AsIf, Stopping, CtlInv, HooksAt,
           Listing, MapInv
  <1>5. CpuInv'
    BY DEF StopIoremap, TypeOK, CpuInv, CtlInv, HooksAt, Listing, MapInv
  <1>6. QuietInv'
    BY DEF StopIoremap, TypeOK, QuietInv, CtlInv, HooksAt, Listing, CpuInv,
           DriverInv, AsIf, Stopping
  <1> QED
    BY <1>1, <1>2, <1>3, <1>4, <1>5, <1>6

LEMMA StopIounmapKeeps ==
  ASSUME IInv, StopIounmap, UNCHANGED late
  PROVE  IInv'
  <1> USE NoneAssumption DEF IInv, drvVars, cpuVars
  <1>1. TypeOK'
    BY DEF StopIounmap, TypeOK
  <1>2. CtlInv'
    BY DEF StopIounmap, TypeOK, CtlInv, HooksAt, Listing
  <1>3. MapInv'
    BY DEF StopIounmap, TypeOK, MapInv, CtlInv, HooksAt, Listing
  <1>4. DriverInv'
    BY DEF StopIounmap, TypeOK, DriverInv, AsIf, Stopping, CtlInv, HooksAt,
           Listing, MapInv
  <1>5. CpuInv'
    BY DEF StopIounmap, TypeOK, CpuInv, CtlInv, HooksAt, Listing, MapInv
  <1>6. QuietInv'
    BY DEF StopIounmap, TypeOK, QuietInv, CtlInv, HooksAt, Listing, CpuInv,
           DriverInv, AsIf, Stopping
  <1> QED
    BY <1>1, <1>2, <1>3, <1>4, <1>5, <1>6

LEMMA DelistMapKeeps ==
  ASSUME IInv, NEW m \in Maps, DelistMap(m), UNCHANGED late
  PROVE  IInv'
  <1> USE NoneAssumption DEF IInv, drvVars, cpuVars
  <1>1. TypeOK'
    BY DEF DelistMap, TypeOK
  <1>2. CtlInv'
    BY DEF DelistMap, TypeOK, CtlInv, HooksAt, Listing
  <1>3. MapInv'
    BY DEF DelistMap, TypeOK, MapInv, CtlInv, HooksAt, Listing
  <1>4. DriverInv'
    BY DEF DelistMap, TypeOK, DriverInv, AsIf, Stopping, CtlInv, HooksAt,
           Listing, MapInv
  <1>5. CpuInv'
    BY DEF DelistMap, TypeOK, CpuInv, CtlInv, HooksAt, Listing, MapInv
  <1>6. QuietInv'
    BY DEF DelistMap, TypeOK, QuietInv, CtlInv, HooksAt, Listing, CpuInv,
           DriverInv, AsIf, Stopping
  <1> QED
    BY <1>1, <1>2, <1>3, <1>4, <1>5, <1>6

LEMMA RestorePteKeeps ==
  ASSUME IInv, RestorePte, UNCHANGED late
  PROVE  IInv'
  <1> USE NoneAssumption DEF IInv, drvVars, cpuVars
  <1>1. TypeOK'
    BY DEF RestorePte, TypeOK
  <1>2. CtlInv'
    BY DEF RestorePte, TypeOK, CtlInv, HooksAt, Listing
  <1>3. MapInv'
    BY DEF RestorePte, TypeOK, MapInv, CtlInv, HooksAt, Listing
  <1>4. DriverInv'
    BY DEF RestorePte, TypeOK, DriverInv, AsIf, Stopping, CtlInv, HooksAt,
           Listing, MapInv
  <1>5. CpuInv'
    BY DEF RestorePte, TypeOK, CpuInv, CtlInv, HooksAt, Listing, MapInv
  <1>6. QuietInv'
    BY DEF RestorePte, TypeOK, QuietInv, CtlInv, HooksAt, Listing, CpuInv,
           DriverInv, AsIf, Stopping
  <1> QED
    BY <1>1, <1>2, <1>3, <1>4, <1>5, <1>6

LEMMA StopBadareaKeeps ==
  ASSUME IInv, StopBadarea, UNCHANGED late
  PROVE  IInv'
  <1> USE NoneAssumption DEF IInv, drvVars, cpuVars
  <1>1. TypeOK'
    BY DEF StopBadarea, TypeOK
  <1>2. CtlInv'
    BY DEF StopBadarea, TypeOK, CtlInv, HooksAt, Listing
  <1>3. MapInv'
    BY DEF StopBadarea, TypeOK, MapInv, CtlInv, HooksAt, Listing
  <1>4. DriverInv'
    BY DEF StopBadarea, TypeOK, DriverInv, AsIf, Stopping, CtlInv, HooksAt,
           Listing, MapInv
  <1>5. CpuInv'
    BY DEF StopBadarea, TypeOK, CpuInv, CtlInv, HooksAt, Listing, MapInv
  <1>6. QuietInv'
    BY DEF StopBadarea, TypeOK, QuietInv, CtlInv, HooksAt, Listing, CpuInv,
           DriverInv, AsIf, Stopping
  <1> QED
    BY <1>1, <1>2, <1>3, <1>4, <1>5, <1>6

LEMMA UnmapShadowKeeps ==
  ASSUME IInv, UnmapShadow, UNCHANGED late
  PROVE  IInv'
  <1> USE NoneAssumption DEF IInv, drvVars, cpuVars
  <1>1. TypeOK'
    BY DEF UnmapShadow, TypeOK
  <1>2. CtlInv'
    BY DEF UnmapShadow, TypeOK, CtlInv, HooksAt, Listing
  <1>3. MapInv'
    BY DEF UnmapShadow, TypeOK, MapInv, CtlInv, HooksAt, Listing
  <1>4. DriverInv'
    BY DEF UnmapShadow, TypeOK, DriverInv, AsIf, Stopping, CtlInv, HooksAt,
           Listing, MapInv
  <1>5. CpuInv'
    BY DEF UnmapShadow, TypeOK, CpuInv, CtlInv, HooksAt, Listing, MapInv
  <1>6. QuietInv'
    BY DEF UnmapShadow, TypeOK, QuietInv, CtlInv, HooksAt, Listing, CpuInv,
           DriverInv, AsIf, Stopping
  <1> QED
    BY <1>1, <1>2, <1>3, <1>4, <1>5, <1>6

-----------------------------------------------------------------------------
(* The invariant *)

LEMMA IInvNext == IInv /\ [Next]_vars => IInv'
  <1> SUFFICES ASSUME IInv, [Next]_vars PROVE IInv'
    OBVIOUS
  <1>1. ASSUME Start, UNCHANGED late PROVE IInv'
    BY <1>1, MapShadowKeeps, RegisterKeeps, RegisterFailsKeeps DEF Start
  <1>2. ASSUME Driver, UNCHANGED late PROVE IInv'
    BY <1>2, IoremapKeeps, IoremapUntracedKeeps, IoremapFailsKeeps,
       IounmapKeeps, AccessKeeps DEF Driver
  <1>3. ASSUME NEW c \in CPUs, Handler(c), UNCHANGED late PROVE IInv'
    BY <1>3, EnterBadareaKeeps, CopyMapKeeps, EmulateKeeps DEF Handler
  <1>4. ASSUME Stop, UNCHANGED late PROVE IInv'
    BY <1>4, StopIounmapKeeps, RestorePteKeeps, StopBadareaKeeps,
       UnmapShadowKeeps, DelistMapKeeps DEF Stop
  <1>5. CASE UNCHANGED vars
    BY <1>5 DEF vars, IInv, TypeOK, CtlInv, MapInv, DriverInv, AsIf, Stopping,
                CpuInv, QuietInv
  <1> QED
    BY <1>1, <1>2, <1>3, <1>4, <1>5, StopIoremapKeeps, KfreeRcuKeeps
       DEF Next, Step

LEMMA Invariance == Spec => []IInv
  BY IInvInit, IInvNext, PTL DEF Spec

-----------------------------------------------------------------------------
(* What it says of the code *)

(* TypeOK: the start, the stop, the driver and the handlers are each in one *)
(* of their states.                                                         *)
THEOREM TypeCorrect == Spec => []TypeOK
  BY Invariance, PTL DEF IInv

(* HandlerSafe: a fault handler has the struct it found until it has copied *)
(* it, and the shadow mapping until it has emulated the access.             *)
THEOREM HandlerFindsAll == Spec => []HandlerSafe
  <1>1. IInv => HandlerSafe
    BY DEF IInv, HandlerSafe, CpuInv, CtlInv, Listing
  <1> QED
    BY <1>1, Invariance, PTL

(* PoisonedIsHandled: no entry is poisoned without the fault hook, the      *)
(* shadow mapping and a struct that will restore it.                        *)
THEOREM PoisonHasItsHook == Spec => []PoisonedIsHandled
  <1>1. IInv => PoisonedIsHandled
    <2> SUFFICES ASSUME IInv, NEW m \in Maps, pte[m] = "poisoned"
                 PROVE  "badarea" \in hooks /\ shadow /\ m \in maps \cup {cur}
      BY DEF PoisonedIsHandled
    <2>1. m \in maps \/ m = cur
      BY DEF IInv, MapInv
    <2>2. ctl \in Listing
      BY <2>1, NoneAssumption DEF IInv, TypeOK, CtlInv, Listing
    <2> QED
      BY <2>1, <2>2 DEF IInv, CtlInv, HooksAt, Listing
  <1> QED
    BY <1>1, Invariance, PTL

(* CleanWhenOff: a start that failed or a stop that is over leaves no hook  *)
(* and no trace on the mappings of a driver that was quiet meanwhile.       *)
THEOREM OffIsClean == Spec => []CleanWhenOff
  <1>1. IInv => CleanWhenOff
    BY NoneAssumption
       DEF IInv, TypeOK, CleanWhenOff, CtlInv, HooksAt, Listing, DriverInv, AsIf
  <1> QED
    BY <1>1, Invariance, PTL

(* QuietDriverUndisturbed: if the driver makes no access while tracing      *)
(* stops, none of its accesses ends in a fault nobody handles.              *)
THEOREM QuietDriverSafe == Spec => []QuietDriverUndisturbed
  <1>1. IInv => QuietDriverUndisturbed
    BY DEF IInv, QuietInv, QuietDriverUndisturbed, NoUnhandledFault
  <1> QED
    BY <1>1, Invariance, PTL

-----------------------------------------------------------------------------
(* TraceArch: the walks *)

(* An entry of the mapping: one that starts inside it. *)
Touched(s) == map.va <= s /\ s < map.va + map.len

(* The entries that the walk has saved and poisoned and not put back yet. *)
Gone(s) ==
    /\ Touched(s)
    /\ CASE phase = "poison" -> s < va
         [] phase = "traced" -> TRUE
         [] phase = "restore" -> s >= va
         [] OTHER -> FALSE

PoisonedEntry(s) ==
    [at |-> s, state |-> IF arch = "x86" /\ levels[s] # "pte" THEN "invalid" ELSE "none"]
SavedEntry(s) == [va |-> s, level |-> levels[s], value |-> Present(s)]

Table ==
    /\ pt = [s \in DOMAIN levels |-> IF Gone(s) THEN PoisonedEntry(s) ELSE Present(s)]
    /\ saved = {SavedEntry(s) : s \in {t \in DOMAIN levels : Gone(t)}}

Static ==
    /\ \E y \in Layouts : arch = y.arch /\ levels = y.level
    /\ map \in Mappings

AtEntry ==
    /\ va \in Nat /\ remain \in Int
    /\ map.va <= va /\ va + remain = map.va + map.len
    /\ remain > 0 => va \in DOMAIN levels

WalkInv ==
    /\ Static
    /\ phase \in {"poison", "traced", "restore", "done", "failed"}
    /\ phase = "poison" \/ (LargeOnX86 /\ phase = "restore") => AtEntry
    /\ phase \in {"poison", "traced"} \/ (LargeOnX86 /\ phase \in {"restore", "done"}) => Table

LEMMA Entries ==
    ASSUME Static
    PROVE  /\ arch \in Arch
           /\ map.va \in Nat /\ map.len \in Nat
           /\ \A s \in DOMAIN levels :
                /\ s \in Nat /\ levels[s] \in {"pte", "pmd", "pud"}
                /\ Size(levels[s]) \in Nat /\ Size(levels[s]) > 0
           /\ \A s, t \in DOMAIN levels :
                s # t => s + Size(levels[s]) <= t \/ t + Size(levels[t]) <= s
           /\ \A a \in Int : Touched(a) =>
                \E s \in DOMAIN levels : s <= a /\ a < s + Size(levels[s])
           /\ StartsEntry => map.va \in DOMAIN levels
           /\ LargeOnX86 /\ arch # "x86" => \A s \in DOMAIN levels : levels[s] = "pte"
<1>1. PICK y \in Layouts : arch = y.arch /\ levels = y.level
  BY DEF Static
<1>2. map \in Mappings
  BY DEF Static
<1>3. map.va \in Nat /\ map.len \in Nat
  BY <1>2, MappingsAssumption
<1>4. ASSUME NEW s \in DOMAIN levels
      PROVE  /\ s \in Nat /\ levels[s] \in {"pte", "pmd", "pud"}
             /\ Size(levels[s]) \in Nat /\ Size(levels[s]) > 0
  BY <1>1, LayoutsAssumption DEF Size, Page
<1>5. ASSUME NEW s \in DOMAIN levels, NEW t \in DOMAIN levels, s # t
      PROVE  s + Size(levels[s]) <= t \/ t + Size(levels[t]) <= s
  BY <1>1, <1>5, LayoutsAssumption
<1>6. ASSUME NEW a \in Int, Touched(a)
      PROVE  \E s \in DOMAIN levels : s <= a /\ a < s + Size(levels[s])
  <2>1. a \in map.va .. map.va + map.len - 1
    BY <1>3, <1>6 DEF Touched
  <2> QED
    BY <1>1, <1>2, <2>1, MappingsAssumption
<1>7. StartsEntry => map.va \in DOMAIN levels
  BY <1>1, <1>2 DEF StartsEntry
<1>8. LargeOnX86 /\ arch # "x86" => \A s \in DOMAIN levels : levels[s] = "pte"
  BY <1>1 DEF LargeOnX86
<1> QED
  BY <1>1, <1>3, <1>4, <1>5, <1>6, <1>7, <1>8, LayoutsAssumption

LEMMA EntryOfStart ==
    ASSUME Static, NEW s \in DOMAIN levels
    PROVE  EntryAt(s) = s
<1> DEFINE P(t) == t <= s /\ s < t + Size(levels[t])
<1>1. P(s)
  BY Entries
<1>2. ASSUME NEW t \in DOMAIN levels, P(t)
      PROVE  t = s
  BY <1>2, Entries
<1>3. EntryAt(s) = CHOOSE t \in DOMAIN levels : P(t)
  BY DEF EntryAt
<1> HIDE DEF P
<1> QED
  BY <1>1, <1>2, <1>3

LEMMA NextEntry ==
    ASSUME Static, NEW s \in DOMAIN levels, s >= map.va
    PROVE  /\ Touched(s + Size(levels[s])) => s + Size(levels[s]) \in DOMAIN levels
           /\ \A t \in DOMAIN levels : t < s + Size(levels[s]) <=> t <= s
<1> DEFINE n == s + Size(levels[s])
<1>1. /\ s \in Nat /\ Size(levels[s]) \in Nat /\ Size(levels[s]) > 0
      /\ n \in Nat /\ n > s
  BY Entries
<1>2. ASSUME NEW t \in DOMAIN levels
      PROVE  t < n <=> t <= s
  BY <1>1, Entries
<1>3. ASSUME Touched(n)
      PROVE  n \in DOMAIN levels
  <2>1. PICK t \in DOMAIN levels : t <= n /\ n < t + Size(levels[t])
    BY <1>1, <1>3, Entries
  <2>2. t \in Nat /\ Size(levels[t]) \in Nat
    BY Entries
  <2>3. t # s
    BY <2>1, <1>1
  <2>4. n <= t
    BY <2>1, <2>2, <2>3, <1>1, Entries
  <2>5. t = n
    BY <2>1, <2>2, <2>4, <1>1
  <2> QED
    BY <2>5
<1> QED
  BY <1>2, <1>3

LEMMA WalkInit ==
    ASSUME StartsEntry, ArchInit
    PROVE  WalkInv
<1>1. Static
  BY DEF ArchInit, Static
<1>2. phase = "poison" /\ va = map.va /\ remain = map.len
  BY DEF ArchInit
<1>3. \A s \in DOMAIN levels : ~Gone(s)
  <2>1. \A s \in DOMAIN levels : s \in Nat
    BY <1>1, Entries
  <2> QED
    BY <1>1, <1>2, <2>1, Entries DEF Gone, Touched
<1>4. Table
  <2>1. pt = [s \in DOMAIN levels |-> Present(s)] /\ saved = {}
    BY DEF ArchInit
  <2> QED
    BY <1>3, <2>1 DEF Table
<1>5. AtEntry
  BY <1>1, <1>2, Entries DEF AtEntry
<1> QED
  BY <1>1, <1>2, <1>4, <1>5 DEF WalkInv

(* What the steps of an access leave alone. *)
LEMMA WalkUnchanged ==
    ASSUME WalkInv, UNCHANGED <<static, phase, loop>>
    PROVE  WalkInv'
<1>1. /\ arch' = arch /\ levels' = levels /\ map' = map /\ phase' = phase
      /\ pt' = pt /\ saved' = saved /\ va' = va /\ remain' = remain
  BY DEF static, loop
<1>2. Static' = Static /\ AtEntry' = AtEntry /\ Table' = Table
  BY <1>1 DEF Static, AtEntry, Table, Gone, Touched, PoisonedEntry, SavedEntry, Present
<1> QED
  BY <1>1, <1>2 DEF WalkInv

LEMMA WalkPoisonOne ==
    ASSUME WalkInv, Looping("poison"), NEW poison, PoisonOne(poison),
           poison = PoisonedEntry(va).state
    PROVE  WalkInv'
<1>1. /\ Static /\ AtEntry /\ Table
      /\ phase = "poison" /\ remain > 0 /\ va \in DOMAIN levels
  BY DEF WalkInv, Looping, AtEntry
<1>2. /\ EntryAt(va) = va /\ Touched(va)
      /\ va \in Nat /\ remain \in Int /\ map.va <= va /\ va + remain = map.va + map.len
      /\ Size(levels[va]) \in Nat /\ Size(levels[va]) > 0
      /\ map.va \in Nat /\ map.len \in Nat
  BY <1>1, EntryOfStart, Entries DEF AtEntry, Touched
<1>3. /\ saved' = saved \cup {SaveEntry(va)}
      /\ pt' = [pt EXCEPT ![va].state = poison]
      /\ remain' = remain - Size(levels[va])
      /\ va' = va + Size(levels[va])
      /\ arch' = arch /\ levels' = levels /\ map' = map /\ phase' = phase
  BY <1>2 DEF PoisonOne, static
<1>4. Static'
  BY <1>1, <1>3 DEF Static
<1>5. /\ Touched(va') => va' \in DOMAIN levels
      /\ \A t \in DOMAIN levels : t < va' <=> t <= va
  BY <1>1, <1>2, <1>3, NextEntry
<1>6. AtEntry'
  BY <1>2, <1>3, <1>5 DEF AtEntry, Touched
<1>7. \A t \in DOMAIN levels : Gone(t)' <=> (Gone(t) \/ t = va)
  <2>1. \A t \in DOMAIN levels : t \in Nat
    BY <1>1, Entries
  <2> QED
    BY <1>1, <1>2, <1>3, <1>5, <2>1 DEF Gone, Touched
<1>8. ~Gone(va)
  BY <1>1, <1>2 DEF Gone
<1>9. pt[va] = Present(va)
  BY <1>1, <1>8 DEF Table
<1>10. Table'
  <2>1. SaveEntry(va) = SavedEntry(va)
    BY <1>9 DEF SaveEntry, SavedEntry
  <2>2. \A t : SavedEntry(t)' = SavedEntry(t) /\ PoisonedEntry(t)' = PoisonedEntry(t)
    BY <1>3 DEF SavedEntry, PoisonedEntry, Present
  <2>3. saved' = {SavedEntry(s) : s \in {t \in DOMAIN levels : Gone(t)'}}
    <3>1. saved = {SavedEntry(s) : s \in {t \in DOMAIN levels : Gone(t)}}
      BY <1>1 DEF Table
    <3> QED
      BY <3>1, <1>1, <1>3, <1>7, <2>1
  <2>4. pt' = [s \in DOMAIN levels |-> IF Gone(s)' THEN PoisonedEntry(s) ELSE Present(s)]
    <3>1. pt = [s \in DOMAIN levels |-> IF Gone(s) THEN PoisonedEntry(s) ELSE Present(s)]
      BY <1>1 DEF Table
    <3>2. [pt[va] EXCEPT !.state = poison] = PoisonedEntry(va)
      BY <1>9 DEF Present, PoisonedEntry
    <3> QED
      BY <3>1, <3>2, <1>1, <1>3, <1>7
  <2> QED
    BY <1>3, <2>2, <2>3, <2>4 DEF Table, Present
<1> QED
  BY <1>1, <1>3, <1>4, <1>6, <1>10 DEF WalkInv

LEMMA WalkRestoreOne ==
    ASSUME WalkInv, Looping("restore"), NEW found \in BOOLEAN, RestoreOne(found),
           LargeOnX86 => found
    PROVE  WalkInv'
<1>1. /\ Static /\ phase = "restore" /\ remain > 0
      /\ Static' /\ phase' = "restore"
  BY DEF WalkInv, Looping, RestoreOne, static, Static
<1>2. CASE ~LargeOnX86
  BY <1>1, <1>2 DEF WalkInv
<1>3. CASE LargeOnX86
  <2>1. /\ AtEntry /\ Table /\ va \in DOMAIN levels /\ found
    BY <1>1, <1>3 DEF WalkInv, AtEntry
  <2>2. /\ EntryAt(va) = va /\ Touched(va)
        /\ va \in Nat /\ remain \in Int /\ map.va <= va
        /\ va + remain = map.va + map.len
        /\ Size(levels[va]) \in Nat /\ Size(levels[va]) > 0
        /\ map.va \in Nat /\ map.len \in Nat
    BY <1>1, <2>1, EntryOfStart, Entries DEF AtEntry, Touched
  <2> DEFINE orig == {o \in saved : o.va = va}
  <2>3. /\ saved' = saved \ orig
        /\ pt' = [pt EXCEPT ![va] =
                    IF orig = {} THEN @ ELSE (CHOOSE o \in orig : TRUE).value]
        /\ remain' = remain - Size(levels[va])
        /\ va' = va + Size(levels[va])
        /\ arch' = arch /\ levels' = levels /\ map' = map
    BY <2>1, <2>2 DEF RestoreOne, StepOn, static
  <2>4. /\ Touched(va') => va' \in DOMAIN levels
        /\ \A t \in DOMAIN levels : t < va' <=> t <= va
    BY <1>1, <2>1, <2>2, <2>3, NextEntry
  <2>5. AtEntry'
    BY <2>2, <2>3, <2>4 DEF AtEntry, Touched
  <2>6. \A t \in DOMAIN levels : Gone(t)' <=> (Gone(t) /\ t # va)
    <3>1. \A t \in DOMAIN levels : t \in Nat
      BY <1>1, Entries
    <3> QED
      BY <1>1, <2>1, <2>2, <2>3, <2>4, <3>1 DEF Gone, Touched
  <2>7. Gone(va)
    BY <1>1, <2>2 DEF Gone
  <2>8. saved = {SavedEntry(s) : s \in {t \in DOMAIN levels : Gone(t)}}
    BY <2>1 DEF Table
  <2>9. orig = {SavedEntry(va)}
    BY <2>1, <2>7, <2>8 DEF SavedEntry
  <2>10. Table'
    <3>1. \A t : SavedEntry(t)' = SavedEntry(t) /\ PoisonedEntry(t)' = PoisonedEntry(t)
      BY <2>3 DEF SavedEntry, PoisonedEntry, Present
    <3>2. saved' = {SavedEntry(s) : s \in {t \in DOMAIN levels : Gone(t)'}}
      <4>1. \A s, t : SavedEntry(s) = SavedEntry(t) => s = t
        BY DEF SavedEntry
      <4>2. saved' = saved \ {SavedEntry(va)}
        BY <2>3, <2>9
      <4> QED
        BY <2>1, <2>6, <2>8, <4>1, <4>2
    <3>3. pt' = [s \in DOMAIN levels |-> IF Gone(s)' THEN PoisonedEntry(s) ELSE Present(s)]
      <4>1. pt = [s \in DOMAIN levels |-> IF Gone(s) THEN PoisonedEntry(s) ELSE Present(s)]
        BY <2>1 DEF Table
      <4>2. pt' = [pt EXCEPT ![va] = Present(va)]
        <5>1. (CHOOSE o \in orig : TRUE) = SavedEntry(va)
          BY <2>9
        <5>2. orig # {} /\ (CHOOSE o \in orig : TRUE).value = Present(va)
          BY <2>9, <5>1 DEF SavedEntry
        <5> HIDE DEF orig
        <5> QED
          BY <2>3, <5>2
      <4> QED
        BY <4>1, <4>2, <2>1, <2>6
    <3>4. levels' = levels
      BY <2>3
    <3> QED
      BY <3>1, <3>2, <3>3, <3>4 DEF Table, Present
  <2> QED
    BY <1>1, <2>5, <2>10 DEF WalkInv
<1> QED
  BY <1>2, <1>3

LEMMA WalkStep ==
    ASSUME StartsEntry, WalkInv, [ArchNext]_archVars
    PROVE  WalkInv'
<1>1. /\ Static
      /\ phase = "poison" \/ (LargeOnX86 /\ phase = "restore") => AtEntry
  BY DEF WalkInv
<1>2. ASSUME phase = "poison" \/ (LargeOnX86 /\ phase = "restore"), remain > 0
      PROVE  va \in DOMAIN levels /\ EntryAt(va) = va
  BY <1>1, <1>2, EntryOfStart DEF AtEntry
<1>3. CASE PoisonX86
  BY <1>2, <1>3, WalkPoisonOne DEF PoisonX86, Looping, PoisonedEntry
<1>4. CASE PoisonArm64
  BY <1>2, <1>4, WalkPoisonOne DEF PoisonArm64, Looping, PoisonedEntry
<1>5. CASE PoisonRiscv
  BY <1>2, <1>5, WalkPoisonOne DEF PoisonRiscv, Looping, PoisonedEntry
<1>6. CASE PoisonDone
  <2>1. /\ phase = "poison" /\ remain <= 0 /\ phase' = "traced"
        /\ arch' = arch /\ levels' = levels /\ map' = map
        /\ pt' = pt /\ saved' = saved /\ va' = va /\ remain' = remain
    BY <1>6 DEF PoisonDone, static, loop
  <2>2. Table /\ AtEntry
    BY <2>1 DEF WalkInv
  <2>3. \A s \in DOMAIN levels : Gone(s)' <=> Gone(s)
    BY <1>1, <2>1, <2>2, Entries DEF Gone, Touched, AtEntry
  <2>4. Table'
    BY <2>1, <2>2, <2>3 DEF Table, PoisonedEntry, SavedEntry, Present
  <2> QED
    BY <1>1, <2>1, <2>4 DEF WalkInv, Static
<1>7. CASE PoisonFails
  BY <1>1, <1>7 DEF PoisonFails, WalkInv, Static, static
<1>8. CASE Unmap
  <2>1. /\ phase = "traced" /\ phase' = "restore" /\ va' = map.va /\ remain' = map.len
        /\ arch' = arch /\ levels' = levels /\ map' = map /\ pt' = pt /\ saved' = saved
    BY <1>8 DEF Unmap, static
  <2>2. AtEntry'
    BY <1>1, <2>1, Entries DEF AtEntry
  <2>3. \A s \in DOMAIN levels : Gone(s)' <=> Gone(s)
    BY <1>1, <2>1, Entries DEF Gone, Touched
  <2>4. Table
    BY <2>1 DEF WalkInv
  <2>5. Table'
    BY <2>1, <2>3, <2>4 DEF Table, PoisonedEntry, SavedEntry, Present
  <2> QED
    BY <1>1, <2>1, <2>2, <2>5 DEF WalkInv, Static
<1>9. ASSUME RestoreX86 \/ RestoreArm64 \/ RestoreRiscv
      PROVE  WalkInv'
  <2>1. Looping("restore")
    BY <1>9 DEF RestoreX86, RestoreArm64, RestoreRiscv
  <2>2. ASSUME LargeOnX86
        PROVE  /\ EntryAt(va) = va /\ va \in DOMAIN levels
               /\ pt[va] = PoisonedEntry(va)
               /\ arch # "x86" => levels[va] = "pte"
    <3>1. /\ AtEntry /\ Table /\ va \in DOMAIN levels /\ EntryAt(va) = va
          /\ phase = "restore" /\ remain > 0
      BY <1>2, <2>1, <2>2 DEF WalkInv, Looping
    <3>2. Gone(va)
      BY <1>1, <3>1, Entries DEF Gone, Touched, AtEntry
    <3> QED
      BY <1>1, <2>2, <3>1, <3>2, Entries DEF Table
  <2>3. CASE RestoreX86
    <3>1. /\ LookupX86(va) \in BOOLEAN /\ RestoreOne(LookupX86(va)) /\ arch = "x86"
      BY <2>3 DEF RestoreX86, LookupX86
    <3>2. LargeOnX86 => LookupX86(va)
      BY <2>2, <3>1 DEF LookupX86, PoisonedEntry
    <3> QED
      BY <2>1, <3>1, <3>2, WalkRestoreOne
  <2>4. CASE RestoreArm64
    <3>1. /\ WalkArm64(va) \in BOOLEAN /\ RestoreOne(WalkArm64(va)) /\ arch = "arm64"
      BY <2>4 DEF RestoreArm64, WalkArm64
    <3>2. LargeOnX86 => WalkArm64(va)
      BY <2>2, <3>1 DEF WalkArm64
    <3> QED
      BY <2>1, <3>1, <3>2, WalkRestoreOne
  <2>5. CASE RestoreRiscv
    <3>1. /\ WalkRiscv(va) \in BOOLEAN /\ RestoreOne(WalkRiscv(va)) /\ arch = "riscv"
      BY <2>5 DEF RestoreRiscv, WalkRiscv
    <3>2. LargeOnX86 => WalkRiscv(va)
      BY <2>2, <3>1 DEF WalkRiscv
    <3> QED
      BY <2>1, <3>1, <3>2, WalkRestoreOne
  <2> QED
    BY <1>9, <2>3, <2>4, <2>5
<1>10. CASE RestoreDone
  <2>1. /\ phase = "restore" /\ remain <= 0 /\ phase' = "done"
        /\ arch' = arch /\ levels' = levels /\ map' = map
        /\ pt' = pt /\ saved' = saved /\ va' = va /\ remain' = remain
    BY <1>10 DEF RestoreDone, static, loop
  <2>2. ASSUME LargeOnX86
        PROVE  Table'
    <3>1. Table /\ AtEntry
      BY <2>1, <2>2 DEF WalkInv
    <3>2. \A s \in DOMAIN levels : ~Gone(s) /\ ~Gone(s)'
      BY <1>1, <2>1, <3>1, Entries DEF Gone, Touched, AtEntry
    <3> QED
      BY <2>1, <3>1, <3>2 DEF Table, PoisonedEntry, SavedEntry, Present
  <2> QED
    BY <1>1, <2>1, <2>2 DEF WalkInv, Static
<1>11. CASE \E i \in Insns : Run(i)
  BY <1>11, WalkUnchanged DEF Run
<1>12. CASE EmulateFault
  BY <1>12, WalkUnchanged DEF EmulateFault
<1>13. CASE UNCHANGED archVars
  BY <1>13, WalkUnchanged DEF archVars
<1> QED
  BY <1>3, <1>4, <1>5, <1>6, <1>7, <1>8, <1>9, <1>10, <1>11, <1>12, <1>13 DEF ArchNext

LEMMA WalkSound ==
    ASSUME StartsEntry, WalkInv
    PROVE  /\ EveryAccessFaults
           /\ LargeOnX86 => EntriesRestored
<1>1. Static
  BY DEF WalkInv
<1>2. ASSUME phase = "traced", NEW a \in map.va .. map.va + map.len - 1
      PROVE  pt[EntryAt(a)].state # "present"
  <2>1. a \in Int /\ map.va <= a /\ Touched(a) /\ map.va \in Nat /\ map.len \in Nat
    BY <1>1, <1>2, Entries DEF Touched
  <2> DEFINE P(s) == s <= a /\ a < s + Size(levels[s])
  <2>2. \E s \in DOMAIN levels : P(s)
    BY <1>1, <2>1, Entries
  <2>3. EntryAt(a) = CHOOSE s \in DOMAIN levels : P(s)
    BY DEF EntryAt
  <2>4. EntryAt(a) \in DOMAIN levels /\ P(EntryAt(a))
    <3> HIDE DEF P
    <3> QED
      BY <2>2, <2>3
  <2> DEFINE e == EntryAt(a)
  <2>5. e \in Nat /\ map.va \in DOMAIN levels /\ Size(levels[e]) \in Nat
    BY <1>1, <2>4, Entries
  <2>6. map.va <= e
    BY <1>1, <2>1, <2>4, <2>5, Entries
  <2>7. Gone(e)
    BY <1>2, <2>1, <2>4, <2>5, <2>6 DEF Gone, Touched
  <2>8. pt[e] = PoisonedEntry(e)
    BY <1>2, <2>4, <2>7 DEF WalkInv, Table
  <2> QED
    BY <2>8 DEF PoisonedEntry
<1>3. LargeOnX86 => EntriesRestored
  <2> SUFFICES ASSUME LargeOnX86, phase = "done"
               PROVE  saved = {} /\ \A s \in DOMAIN levels : pt[s] = Present(s)
    BY DEF EntriesRestored
  <2>1. Table /\ \A s : ~Gone(s)
    BY DEF WalkInv, Gone
  <2> QED
    BY <2>1 DEF Table
<1> QED
  BY <1>2, <1>3 DEF EveryAccessFaults

(* While a mapping is traced, each of its addresses faults: the walk of     *)
(* smptrace_arch_poison_pte() meets every entry that it touches.            *)
THEOREM EveryAccessFaultsHolds ==
    ASSUME StartsEntry
    PROVE  ArchSpec => []EveryAccessFaults
<1>1. ArchInit => WalkInv
  BY WalkInit
<1>2. WalkInv /\ [ArchNext]_archVars => WalkInv'
  BY WalkStep
<1>3. WalkInv => EveryAccessFaults
  BY WalkSound
<1> QED
  BY <1>1, <1>2, <1>3, PTL DEF ArchSpec

(* When smptrace_arch_restore_pte() is done, the page table is what it was  *)
(* and nothing saved is left over: the walk meets the poisoned entries      *)
(* again, in the same order.                                                *)
THEOREM EntriesAreRestored ==
    ASSUME StartsEntry, LargeOnX86
    PROVE  ArchSpec => []EntriesRestored
<1>1. ArchInit => WalkInv
  BY WalkInit
<1>2. WalkInv /\ [ArchNext]_archVars => WalkInv'
  BY WalkStep
<1>3. WalkInv => EntriesRestored
  BY WalkSound
<1> QED
  BY <1>1, <1>2, <1>3, PTL DEF ArchSpec

-----------------------------------------------------------------------------
(* X86Insn: the decoder *)

(* What there is to know of the prefixes. *)
Prefixed(i, s) ==
    /\ s \in Seq(Int) /\ Len(s) \in Nat /\ Len(s) <= 2
    /\ \A k \in 1 .. Len(s) : s[k] \in {OperandSize, AddressSize} \cup DOMAIN Segment
    /\ Len(s) = 2 => s[1] # s[2]
    /\ i.opnd = 2 <=> \E k \in 1 .. Len(s) : s[k] = OperandSize
    /\ i.addr = 4 <=> \E k \in 1 .. Len(s) : s[k] = AddressSize
    /\ i.prefixes = <<>> => \A k \in 1 .. Len(s) : s[k] \notin DOMAIN Segment
    /\ i.prefixes # <<>> =>
         /\ Len(s) > 0 /\ i.prefixes = <<s[Len(s)]>> /\ s[Len(s)] \in DOMAIN Segment
         /\ \A k \in 1 .. Len(s) - 1 : s[k] \notin DOMAIN Segment

LEMMA Concat ==
    ASSUME NEW a \in Seq(Int), NEW b \in Seq(Int)
    PROVE  /\ a \o b \in Seq(Int) /\ Len(a \o b) = Len(a) + Len(b)
           /\ Len(a) \in Nat /\ Len(b) \in Nat
           /\ \A k \in 1 .. Len(a) : (a \o b)[k] = a[k]
           /\ \A k \in Len(a) + 1 .. Len(a) + Len(b) : (a \o b)[k] = b[k - Len(a)]
           /\ DOMAIN (a \o b) = 1 .. Len(a \o b)
OBVIOUS

LEMMA ConcatNothing ==
    ASSUME NEW s \in Seq(Int)
    PROVE  <<>> \o s = s /\ s \o <<>> = s
BY ConcatEmptySeq

LEMMA ConcatBytes ==
    ASSUME NEW x \in Int, NEW y \in Int
    PROVE  <<x>> \o <<y>> = <<x, y>>
<1> DEFINE a == <<x>>  b == <<y>>  c == <<x, y>>
<1>1. a \in Seq(Int) /\ Len(a) = 1 /\ a[1] = x
  OBVIOUS
<1>2. b \in Seq(Int) /\ Len(b) = 1 /\ b[1] = y
  OBVIOUS
<1>3. c \in Seq(Int) /\ Len(c) = 2 /\ c[1] = x /\ c[2] = y
  OBVIOUS
<1> HIDE DEF a, b, c
<1>4. /\ a \o b \in Seq(Int) /\ Len(a \o b) = 2
      /\ (a \o b)[1] = x /\ (a \o b)[2] = y
  <2>1. /\ a \o b \in Seq(Int) /\ Len(a \o b) = Len(a) + Len(b)
        /\ \A k \in 1 .. Len(a) : (a \o b)[k] = a[k]
        /\ \A k \in Len(a) + 1 .. Len(a) + Len(b) : (a \o b)[k] = b[k - Len(a)]
    BY <1>1, <1>2, Concat
  <2>2. 1 \in 1 .. Len(a) /\ 2 \in Len(a) + 1 .. Len(a) + Len(b) /\ 2 - Len(a) = 1
    BY <1>1, <1>2
  <2>3. (a \o b)[1] = a[1] /\ (a \o b)[2] = b[2 - Len(a)]
    BY <2>1, <2>2
  <2> QED
    BY <1>1, <1>2, <2>1, <2>2, <2>3
<1>5. \A k \in 1 .. Len(a \o b) : (a \o b)[k] = c[k]
  BY <1>3, <1>4
<1>6. a \o b = c
  BY <1>3, <1>4, <1>5, SeqEqual
<1> QED
  BY <1>6 DEF a, b, c

LEMMA Segments ==
    DOMAIN Segment = {\h26, \h2e, \h36, \h3e, \h64, \h65}
BY DEF Segment

LEMMA FoundPrefixes ==
    ASSUME NEW i, Regular(i)
    PROVE  Prefixed(i, LegacyPrefixes(i))
<1> DEFINE s == LegacyPrefixes(i)
<1>1. i.opnd \in {2, 4, 8} /\ i.addr \in {4, 8}
  BY DEF Regular
<1>2. <<OperandSize>> = <<\h66>> /\ <<AddressSize>> = <<\h67>>
  BY DEF OperandSize, AddressSize
<1>3. CASE i.prefixes = <<>>
  <2>1. s = IF i.opnd = 2 THEN IF i.addr = 4 THEN <<\h66, \h67>> ELSE <<\h66>>
            ELSE IF i.addr = 4 THEN <<\h67>> ELSE <<>>
    <3>1. s = (IF i.opnd = 2 THEN <<\h66>> ELSE <<>>)
                \o (IF i.addr = 4 THEN <<\h67>> ELSE <<>>) \o <<>>
      BY <1>2, <1>3 DEF LegacyPrefixes
    <3>2. /\ <<\h66>> \o <<\h67>> = <<\h66, \h67>>
          /\ <<\h66>> \o <<>> = <<\h66>>
          /\ <<>> \o <<\h67>> = <<\h67>>
          /\ <<>> \o <<>> = <<>>
          /\ <<\h66, \h67>> \o <<>> = <<\h66, \h67>>
          /\ <<\h67>> \o <<>> = <<\h67>>
      BY ConcatNothing, ConcatBytes
    <3> HIDE DEF s
    <3> QED
      BY <3>1, <3>2, Zenon
  <2> HIDE DEF s
  <2>2. Prefixed(i, s)
    BY <1>1, <1>3, <2>1, Segments DEF Prefixed, OperandSize, AddressSize
  <2> QED
    BY <2>2 DEF s
<1>4. CASE i.prefixes # <<>>
  <2>1. PICK b \in DOMAIN Segment : i.prefixes = <<b>> /\ ~(i.opnd = 2 /\ i.addr = 4)
    BY <1>4 DEF Regular
  <2>2. b \in Int /\ b \notin {\h66, \h67}
    BY Segments
  <2>3. s = IF i.opnd = 2 THEN <<\h66, b>> ELSE IF i.addr = 4 THEN <<\h67, b>> ELSE <<b>>
    <3>1. s = (IF i.opnd = 2 THEN <<\h66>> ELSE <<>>)
                \o (IF i.addr = 4 THEN <<\h67>> ELSE <<>>) \o <<b>>
      BY <1>2, <2>1 DEF LegacyPrefixes
    <3>2. /\ <<\h66>> \o <<>> = <<\h66>>
          /\ <<>> \o <<\h67>> = <<\h67>>
          /\ <<>> \o <<>> = <<>>
      BY ConcatNothing
    <3>3. <<\h66>> \o <<b>> = <<\h66, b>> /\ <<\h67>> \o <<b>> = <<\h67, b>>
      BY <2>2, ConcatBytes
    <3>4. <<>> \o <<b>> = <<b>>
      BY <2>2, ConcatNothing
    <3> HIDE DEF s
    <3> QED
      BY <2>1, <3>1, <3>2, <3>3, <3>4, Zenon
  <2> HIDE DEF s
  <2>4. Prefixed(i, s)
    BY <1>1, <1>4, <2>1, <2>2, <2>3, Segments DEF Prefixed, OperandSize, AddressSize
  <2> QED
    BY <2>4 DEF s
<1> QED
  BY <1>3, <1>4

Injective(s) == \A j, k \in 1 .. Len(s) : j # k => s[j] # s[k]

LEMMA DistinctInjective ==
    ASSUME NEW s \in Seq(Int), Injective(s)
    PROVE  Distinct(s) = s
<1> DEFINE first == {k \in DOMAIN s : \A m \in 1 .. k - 1 : s[m] # s[k]}
           nth(n) == CHOOSE k \in first : Cardinality({m \in first : m <= k}) = n
<1>1. DOMAIN s = 1 .. Len(s) /\ Len(s) \in Nat
  OBVIOUS
<1>2. first = 1 .. Len(s)
  BY <1>1 DEF Injective
<1>3. Distinct(s) = [n \in 1 .. Cardinality(first) |-> s[nth(n)]]
  BY DEF Distinct
<1> HIDE DEF first
<1>4. Cardinality(first) = Len(s)
  <2>1. Cardinality(1 .. Len(s)) = IF 1 > Len(s) THEN 0 ELSE Len(s) - 1 + 1
    BY <1>1, FS_Interval
  <2> QED
    BY <1>1, <1>2, <2>1
<1>5. ASSUME NEW k \in first
      PROVE  Cardinality({m \in first : m <= k}) = k
  <2>0. k \in Nat /\ k >= 1 /\ k <= Len(s)
    BY <1>1, <1>2
  <2>1. {m \in first : m <= k} = 1 .. k
    BY <1>1, <1>2, <2>0
  <2>2. Cardinality(1 .. k) = k
    <3>1. Cardinality(1 .. k) = IF 1 > k THEN 0 ELSE k - 1 + 1
      BY <2>0, FS_Interval
    <3> QED
      BY <2>0, <3>1
  <2> QED
    BY <2>1, <2>2, Zenon
<1>6. ASSUME NEW n \in first
      PROVE  nth(n) = n
  BY <1>5, <1>6
<1> HIDE DEF nth
<1>7. [n \in 1 .. Cardinality(first) |-> s[nth(n)]] = [n \in 1 .. Len(s) |-> s[n]]
  BY <1>2, <1>4, <1>6
<1>8. s = [n \in 1 .. Len(s) |-> s[n]]
  BY <1>1
<1> QED
  BY <1>3, <1>7, <1>8

LEMMA StartOfPrefixes ==
    ASSUME NEW code \in Seq(Int), NEW s \in Seq(Int), Injective(s), Len(s) \in Nat /\ Len(s) <= 2,
           \A k \in 1 .. Len(s) : s[k] \in LegacyPrefix /\ code[k] = s[k],
           Len(s) < Len(code), NEW m \in 0 .. Len(s)
    PROVE  /\ m < Len(code)
           /\ \A k \in 1 .. m : code[k] \in LegacyPrefix
           /\ Len(Distinct(SubSeq(code, 1, m))) <= 4
<1>1. m \in Nat /\ m <= Len(s) /\ m < Len(code) /\ Len(s) \in Nat /\ Len(code) \in Nat
  OBVIOUS
<1>2. \A k \in 1 .. m : k \in 1 .. Len(s)
  BY <1>1
<1> DEFINE t == SubSeq(code, 1, m)
<1>3. t \in Seq(Int) /\ Len(t) = m /\ \A k \in 1 .. m : t[k] = code[k]
  BY <1>1, SubSeqProperties
<1> HIDE DEF t
<1>4. Injective(t)
  BY <1>1, <1>2, <1>3 DEF Injective
<1>5. Distinct(t) = t
  BY <1>3, <1>4, DistinctInjective
<1>6. Len(Distinct(t)) <= 4
  <2>1. m <= 4
    BY <1>1
  <2> QED
    BY <1>3, <1>5, <2>1
<1>7. \A k \in 1 .. m : code[k] \in LegacyPrefix
  BY <1>2
<1> QED
  BY <1>1, <1>6, <1>7 DEF t

LEMMA GotPrefixes ==
    ASSUME NEW code \in Seq(Int), NEW s \in Seq(Int), Injective(s), Len(s) \in Nat /\ Len(s) <= 2,
           \A k \in 1 .. Len(s) : s[k] \in LegacyPrefix /\ code[k] = s[k],
           Len(s) < Len(code), code[Len(s) + 1] \notin LegacyPrefix
    PROVE  LET n == Len(s)
               hasRex == code[n + 1] \in \h40 .. \h4f
               rex == IF hasRex THEN code[n + 1] ELSE 0
           IN  GetPrefixes(InsnInit(code)) =
                 [InsnInit(code) EXCEPT
                    !.next = IF hasRex THEN n + 2 ELSE n + 1,
                    !.prefixes = KeptPrefixes(s),
                    !.rex = rex,
                    !.addr_bytes = IF AddressSize \in ToSet(s) THEN 4 ELSE 8,
                    !.opnd_bytes = CASE Bit(rex, 3) = 1 -> 8
                                     [] Bit(rex, 3) = 0 /\ OperandSize \in ToSet(s) -> 2
                                     [] OTHER -> 4]
<1> DEFINE i == InsnInit(code)
           ok(n) == /\ n < Len(i.code)
                    /\ \A k \in 1 .. n : i.code[k] \in LegacyPrefix
                    /\ Len(Distinct(SubSeq(i.code, 1, n))) <= 4
           N == CHOOSE m \in 0 .. Len(i.code) - 1 : ok(m) /\ ~ok(m + 1)
           G(n) == [i EXCEPT
                     !.next = IF i.code[n + 1] \in \h40 .. \h4f THEN n + 2 ELSE n + 1,
                     !.prefixes = KeptPrefixes(SubSeq(i.code, 1, n)),
                     !.rex = IF i.code[n + 1] \in \h40 .. \h4f THEN i.code[n + 1] ELSE 0,
                     !.addr_bytes =
                        IF AddressSize \in ToSet(SubSeq(i.code, 1, n)) THEN 4 ELSE 8,
                     !.opnd_bytes =
                        CASE Bit(IF i.code[n + 1] \in \h40 .. \h4f THEN i.code[n + 1]
                                 ELSE 0, 3) = 1 -> 8
                          [] Bit(IF i.code[n + 1] \in \h40 .. \h4f THEN i.code[n + 1]
                                 ELSE 0, 3) = 0
                               /\ OperandSize \in ToSet(SubSeq(i.code, 1, n)) -> 2
                          [] OTHER -> 4]
<1>1. GetPrefixes(i) = G(N)
  BY DEF GetPrefixes
<1>2. i.code = code
  BY DEF InsnInit
<1>3. Len(code) \in Nat /\ Len(s) \in Nat
  OBVIOUS
<1>4. ASSUME NEW m \in 0 .. Len(s)
      PROVE  ok(m)
  <2>1. /\ m < Len(code)
        /\ \A k \in 1 .. m : code[k] \in LegacyPrefix
        /\ Len(Distinct(SubSeq(code, 1, m))) <= 4
    BY StartOfPrefixes
  <2> QED
    BY <1>2, <2>1
<1>5. ASSUME NEW m \in Nat, m > Len(s)
      PROVE  ~ok(m)
  <2>1. Len(s) + 1 \in 1 .. m
    BY <1>3, <1>5
  <2> QED
    BY <1>2, <2>1
<1> HIDE DEF ok
<1>6. N = Len(s)
  <2>1. Len(s) \in 0 .. Len(i.code) - 1 /\ ok(Len(s)) /\ ~ok(Len(s) + 1)
    BY <1>2, <1>3, <1>4, <1>5
  <2>2. ASSUME NEW m \in 0 .. Len(i.code) - 1, ok(m), ~ok(m + 1)
        PROVE  m = Len(s)
    <3>1. m <= Len(s)
      BY <1>3, <1>5, <2>2
    <3>2. ~(m + 1 \in 0 .. Len(s))
      BY <1>4, <2>2
    <3> QED
      BY <1>3, <3>1, <3>2
  <2> HIDE DEF i
  <2> QED
    BY <2>1, <2>2
<1>7. SubSeq(code, 1, Len(s)) = s
  <2>1. /\ SubSeq(code, 1, Len(s)) \in Seq(Int) /\ Len(SubSeq(code, 1, Len(s))) = Len(s)
        /\ \A k \in 1 .. Len(s) : SubSeq(code, 1, Len(s))[k] = code[k]
    BY <1>3, SubSeqProperties
  <2> QED
    BY <2>1, SeqEqual
<1> HIDE DEF N
<1> QED
  BY <1>1, <1>2, <1>6, <1>7

(* ------------------------------------------------------------------------ *)

LEMMA FieldSeq ==
    ASSUME NEW v \in Int, NEW n \in Nat
    PROVE  /\ Field(v, n) \in Seq(Int) /\ Len(Field(v, n)) = n
           /\ n > 0 => Field(v, n)[1] = v
BY DEF Field

LEMMA Registers ==
    ASSUME NEW r \in 0 .. NoReg
    PROVE  /\ Low(r) \in 0 .. 7 /\ High(r) \in {0, 1}
           /\ r < 16 => Low(r) = r % 8 /\ Low(r) + 8 * High(r) = r
           /\ r >= 16 => Low(r) = 5 /\ High(r) = 0
BY DEF Low, High, Rip, NoReg

LEMMA ByteOfSeq ==
    ASSUME NEW b \in Int
    PROVE  <<b>> \in Seq(Int) /\ Len(<<b>>) = 1 /\ <<b>>[1] = b
OBVIOUS

Opcodes ==
    {<<\h88>>, <<\h89>>, <<\hc6>>, <<\hc7>>, <<\h8a>>, <<\h8b>>, <<\h0f, \hb6>>,
     <<\h0f, \hb7>>, <<\h0f, \hbe>>, <<\h0f, \hbf>>, <<\h01>>, <<\ha1>>}

LEMMA OpcodeSeq ==
    ASSUME NEW op \in Ops
    PROVE  /\ Opcode[op] \in Seq(Int)
           /\ Opcode[op][1] \notin LegacyPrefix \cup (\h40 .. \h4f)
           /\ Len(Opcode[op]) = IF Opcode[op][1] = \h0f THEN 2 ELSE 1
<1>1. LegacyPrefix = {\h26, \h2e, \h36, \h3e, \h64, \h65, \h66, \h67, \hf0, \hf2, \hf3}
  BY Segments DEF LegacyPrefix, OperandSize, AddressSize
<1>2. Opcode[op] \in Opcodes
  BY DEF Ops, Opcode, Opcodes
<1>3. CASE \E b \in {\h88, \h89, \hc6, \hc7, \h8a, \h8b, \h01, \ha1} : Opcode[op] = <<b>>
  <2>1. PICK b \in {\h88, \h89, \hc6, \hc7, \h8a, \h8b, \h01, \ha1} : Opcode[op] = <<b>>
    BY <1>3
  <2>2. b \in Int /\ b # \h0f /\ b \notin LegacyPrefix \cup (\h40 .. \h4f)
    BY <1>1
  <2> QED
    BY <2>1, <2>2, ByteOfSeq
<1>4. CASE \E b \in {\hb6, \hb7, \hbe, \hbf} : Opcode[op] = <<\h0f, b>>
  <2>1. PICK b \in {\hb6, \hb7, \hbe, \hbf} : Opcode[op] = <<\h0f, b>>
    BY <1>4
  <2>2. \h0f \notin LegacyPrefix \cup (\h40 .. \h4f)
    BY <1>1
  <2>3. /\ <<\h0f, b>> \in Seq(Int) /\ Len(<<\h0f, b>>) = 2 /\ <<\h0f, b>>[1] = \h0f
    OBVIOUS
  <2> QED
    BY <2>1, <2>2, <2>3
<1> QED
  BY <1>2, <1>3, <1>4 DEF Opcodes

LEMMA RexByte ==
    ASSUME NEW i, Regular(i)
    PROVE  /\ RexBits(i) \in 0 .. 15
           /\ RexBits(i) = (IF i.opnd = 8 THEN 8 ELSE 0) + 4 * High(i.data)
                             + 2 * High(i.index) + High(i.base)
           /\ High(i.data) \in {0, 1} /\ High(i.index) \in {0, 1} /\ High(i.base) \in {0, 1}
           /\ \/ Rex(i) = <<>> /\ RexBits(i) = 0
              \/ Rex(i) = <<\h40 + RexBits(i)>>
           /\ Rex(i) \in Seq(Int)
<1>1. i.data \in 0 .. NoReg /\ i.index \in 0 .. NoReg /\ i.base \in 0 .. NoReg
  BY DEF Regular, NoReg
<1>2. High(i.data) \in {0, 1} /\ High(i.index) \in {0, 1} /\ High(i.base) \in {0, 1}
  BY <1>1, Registers
<1>3. RexBits(i) \in 0 .. 15
  BY <1>2 DEF RexBits
<1>4. \/ Rex(i) = <<>> /\ RexBits(i) = 0
      \/ Rex(i) = <<\h40 + RexBits(i)>>
  BY DEF Rex
<1>5. Rex(i) \in Seq(Int)
  <2>1. \h40 + RexBits(i) \in Int
    BY <1>3
  <2>2. <<\h40 + RexBits(i)>> \in Seq(Int)
    BY <2>1, ByteOfSeq
  <2>3. <<>> \in Seq(Int)
    OBVIOUS
  <2> QED
    BY <1>4, <2>2, <2>3, Zenon
<1> QED
  BY <1>2, <1>3, <1>4, <1>5 DEF RexBits

(* What the encoding is made of, and where. *)
LEMMA OperandBytes ==
    ASSUME NEW i, Regular(i), i.op # "moffs"
    PROVE  LET o == Operands(i)
               s == IF NeedsSib(i) THEN 1 ELSE 0
           IN  /\ o \in Seq(Int) /\ Len(o) = 1 + s + DispLen(i) + ImmLen(i)
               /\ DispLen(i) \in {0, 1, 4} /\ ImmLen(i) \in Nat
               /\ o[1] = ModrmByte(i)
               /\ NeedsSib(i) => o[2] = SibByte(i)
               /\ DispLen(i) > 0 => o[s + 2] = i.disp
<1> DEFINE a == <<ModrmByte(i)>>
           b == IF NeedsSib(i) THEN <<SibByte(i)>> ELSE <<>>
           c == Field(i.disp, DispLen(i))
           d == Field(0, ImmLen(i))
           s == IF NeedsSib(i) THEN 1 ELSE 0
           o == Operands(i)
<1>1. o = (a \o b) \o (c \o d)
  BY DEF Operands
<1>2. /\ i.data \in 0 .. NoReg /\ i.index \in 0 .. NoReg /\ i.base \in 0 .. NoReg
      /\ i.data < 16 /\ i.mod \in 0 .. 2 /\ i.scale \in 0 .. 3 /\ i.disp \in Int
  BY DEF Regular, NoReg
<1>3. /\ a \in Seq(Int) /\ Len(a) = 1 /\ a[1] = ModrmByte(i)
  <2>1. ModrmByte(i) \in Int
    BY <1>2, Registers DEF ModrmByte
  <2> QED
    BY <2>1, ByteOfSeq
<1>4. /\ b \in Seq(Int) /\ Len(b) = s
      /\ NeedsSib(i) => b[1] = SibByte(i)
  <2>1. SibByte(i) \in Int
    BY <1>2, Registers DEF SibByte, NoReg
  <2> QED
    BY <2>1, ByteOfSeq
<1>5. DispLen(i) \in {0, 1, 4} /\ ImmLen(i) \in Nat
  BY DEF DispLen, ImmLen
<1>6. /\ c \in Seq(Int) /\ Len(c) = DispLen(i) /\ (DispLen(i) > 0 => c[1] = i.disp)
  <2>1. DispLen(i) \in Nat
    BY <1>5
  <2> QED
    BY <1>2, <2>1, FieldSeq
<1>7. d \in Seq(Int) /\ Len(d) = ImmLen(i)
  BY <1>5, FieldSeq
<1>8. s \in {0, 1} /\ (NeedsSib(i) <=> s = 1)
  OBVIOUS
<1> DEFINE ab == a \o b
           cd == c \o d
<1> HIDE DEF a, b, c, d, s, o
<1>9. /\ ab \in Seq(Int) /\ Len(ab) = 1 + s
      /\ ab[1] = a[1] /\ (NeedsSib(i) => ab[2] = b[1])
  <2>1. /\ ab \in Seq(Int) /\ Len(ab) = Len(a) + Len(b)
        /\ \A k \in 1 .. Len(a) : ab[k] = a[k]
        /\ \A k \in Len(a) + 1 .. Len(a) + Len(b) : ab[k] = b[k - Len(a)]
    BY <1>3, <1>4, Concat
  <2> HIDE DEF ab
  <2>2. ab[1] = a[1]
    BY <1>3, <2>1
  <2>3. ASSUME NeedsSib(i)
        PROVE  ab[2] = b[1]
    <3>1. 2 \in Len(a) + 1 .. Len(a) + Len(b) /\ 2 - Len(a) = 1
      BY <1>3, <1>4, <1>8, <2>3
    <3>2. ab[2] = b[2 - Len(a)]
      BY <2>1, <3>1
    <3> QED
      BY <3>1, <3>2
  <2> QED
    BY <1>3, <1>4, <2>1, <2>2, <2>3
<1>10. /\ cd \in Seq(Int) /\ Len(cd) = DispLen(i) + ImmLen(i)
       /\ DispLen(i) > 0 => cd[1] = c[1]
  <2>1. /\ cd \in Seq(Int) /\ Len(cd) = Len(c) + Len(d)
        /\ \A k \in 1 .. Len(c) : cd[k] = c[k]
    BY <1>6, <1>7, Concat
  <2> HIDE DEF cd
  <2> QED
    BY <1>5, <1>6, <1>7, <2>1
<1>11. o = ab \o cd
  BY <1>1
<1> HIDE DEF ab, cd
<1>12. /\ o \in Seq(Int) /\ Len(o) = Len(ab) + Len(cd)
       /\ \A k \in 1 .. Len(ab) : o[k] = ab[k]
       /\ \A k \in Len(ab) + 1 .. Len(ab) + Len(cd) : o[k] = cd[k - Len(ab)]
  BY <1>9, <1>10, <1>11, Concat
<1>13. o[1] = ModrmByte(i)
  BY <1>3, <1>8, <1>9, <1>12
<1>14. NeedsSib(i) => o[2] = SibByte(i)
  BY <1>4, <1>8, <1>9, <1>12
<1>15. ASSUME DispLen(i) > 0
       PROVE  o[s + 2] = i.disp
  <2>1. s + 2 \in Len(ab) + 1 .. Len(ab) + Len(cd) /\ s + 2 - Len(ab) = 1
    BY <1>5, <1>8, <1>9, <1>10, <1>15
  <2> DEFINE k == s + 2
  <2> HIDE DEF k
  <2>2. o[k] = cd[k - Len(ab)]
    BY <1>12, <2>1 DEF k
  <2>3. k - Len(ab) = 1
    BY <1>8, <1>9 DEF k
  <2>4. o[k] = i.disp
    BY <1>6, <1>10, <1>15, <2>2, <2>3
  <2> QED
    BY <2>4 DEF k
<1>16. Len(o) = 1 + s + DispLen(i) + ImmLen(i)
  BY <1>5, <1>8, <1>9, <1>10, <1>12
<1> QED
  BY <1>5, <1>12, <1>13, <1>14, <1>15, <1>16 DEF o, s

(* x is found in w after n bytes. *)
Lies(w, n, x) == n + Len(x) <= Len(w) /\ \A k \in 1 .. Len(x) : w[n + k] = x[k]

LEMMA ConcatLies ==
    ASSUME NEW a \in Seq(Int), NEW b \in Seq(Int)
    PROVE  /\ Lies(a \o b, 0, a) /\ Lies(a \o b, Len(a), b)
           /\ \A n \in Nat, x \in Seq(Int) : Lies(a, n, x) => Lies(a \o b, n, x)
<1> DEFINE w == a \o b
<1>1. /\ w \in Seq(Int) /\ Len(w) = Len(a) + Len(b)
      /\ Len(a) \in Nat /\ Len(b) \in Nat
      /\ \A k \in 1 .. Len(a) : w[k] = a[k]
      /\ \A k \in Len(a) + 1 .. Len(a) + Len(b) : w[k] = b[k - Len(a)]
  BY Concat
<1> HIDE DEF w
<1>2. Lies(w, 0, a)
  BY <1>1 DEF Lies
<1>3. Lies(w, Len(a), b)
  <2>1. ASSUME NEW k \in 1 .. Len(b)
        PROVE  w[Len(a) + k] = b[k]
    <3> DEFINE m == Len(a) + k
    <3>1. m \in Len(a) + 1 .. Len(a) + Len(b) /\ m - Len(a) = k
      BY <1>1
    <3> HIDE DEF m
    <3>2. w[m] = b[m - Len(a)]
      BY <1>1, <3>1
    <3>3. w[m] = b[k]
      BY <3>1, <3>2
    <3> QED
      BY <3>3 DEF m
  <2> QED
    BY <1>1, <2>1 DEF Lies
<1>4. ASSUME NEW n \in Nat, NEW x \in Seq(Int), Lies(a, n, x)
      PROVE  Lies(w, n, x)
  <2>1. Len(x) \in Nat /\ n + Len(x) <= Len(a) /\ \A k \in 1 .. Len(x) : a[n + k] = x[k]
    BY <1>4 DEF Lies
  <2>2. ASSUME NEW k \in 1 .. Len(x)
        PROVE  w[n + k] = x[k]
    <3>1. n + k \in 1 .. Len(a)
      <4> DEFINE l == Len(x)
                 m == Len(a)
      <4>1. l \in Nat /\ m \in Nat /\ n + l <= m /\ k \in 1 .. l
        BY <1>1, <2>1
      <4> HIDE DEF l, m
      <4>2. n + k \in 1 .. m
        BY <4>1
      <4> QED
        BY <4>2 DEF m
    <3>2. w[n + k] = a[n + k]
      BY <1>1, <3>1
    <3> QED
      BY <2>1, <3>2
  <2>3. n + Len(x) <= Len(w)
    <3> DEFINE l == Len(x)
               m == Len(a)
               q == Len(b)
    <3>1. l \in Nat /\ m \in Nat /\ q \in Nat /\ n + l <= m /\ Len(w) = m + q
      BY <1>1, <2>1
    <3> HIDE DEF l, m, q
    <3>2. n + l <= m + q
      BY <3>1
    <3> QED
      BY <3>1, <3>2 DEF l
  <2> QED
    BY <2>2, <2>3 DEF Lies
<1> QED
  BY <1>2, <1>3, <1>4 DEF w

LEMMA EncodedBytes ==
    ASSUME NEW i, Regular(i)
    PROVE  LET w == Encode(i)
               p == Len(LegacyPrefixes(i))
               r == Len(Rex(i))
               o == Len(Opcode[i.op])
           IN  /\ w \in Seq(Int) /\ Len(w) = p + r + o + Len(Operands(i))
               /\ p \in Nat /\ r \in Nat /\ o \in Nat /\ Len(Operands(i)) \in Nat
               /\ Lies(w, 0, LegacyPrefixes(i))
               /\ Lies(w, p, Rex(i))
               /\ Lies(w, p + r, Opcode[i.op])
               /\ Lies(w, p + r + o, Operands(i))
<1> DEFINE a == LegacyPrefixes(i)
           b == Rex(i)
           c == Opcode[i.op]
           d == Operands(i)
           ab == a \o b
           abc == ab \o c
           w == Encode(i)
<1>1. a \in Seq(Int)
  BY FoundPrefixes DEF Prefixed
<1>2. b \in Seq(Int)
  BY RexByte
<1>3. c \in Seq(Int)
  BY OpcodeSeq DEF Regular
<1>4. d \in Seq(Int)
  <2>1. CASE i.op = "moffs"
    <3>1. i.disp \in Int /\ i.addr \in Nat
      BY DEF Regular
    <3> QED
      BY <2>1, <3>1, FieldSeq DEF Operands
  <2>2. CASE i.op # "moffs"
    BY <2>2, OperandBytes
  <2> QED
    BY <2>1, <2>2
<1>5. w = abc \o d
  BY DEF Encode
<1> HIDE DEF a, b, c, d, w
<1>6. /\ ab \in Seq(Int) /\ Len(ab) = Len(a) + Len(b)
      /\ Lies(ab, 0, a) /\ Lies(ab, Len(a), b)
      /\ Len(a) \in Nat /\ Len(b) \in Nat
  BY <1>1, <1>2, Concat, ConcatLies
<1> HIDE DEF ab
<1>7. /\ abc \in Seq(Int) /\ Len(abc) = Len(ab) + Len(c) /\ Len(c) \in Nat
      /\ Lies(abc, Len(ab), c)
      /\ Lies(abc, 0, a) /\ Lies(abc, Len(a), b)
  <2>1. Len(a) \in Nat /\ 0 \in Nat
    BY <1>6
  <2> QED
    BY <1>1, <1>2, <1>3, <1>6, <2>1, Concat, ConcatLies
<1> HIDE DEF abc
<1>8. /\ w \in Seq(Int) /\ Len(w) = Len(abc) + Len(d) /\ Len(d) \in Nat
      /\ Lies(w, Len(abc), d)
      /\ Lies(w, 0, a) /\ Lies(w, Len(a), b) /\ Lies(w, Len(ab), c)
  <2>1. Len(a) \in Nat /\ 0 \in Nat /\ Len(ab) \in Nat
    BY <1>6
  <2> QED
    BY <1>1, <1>2, <1>3, <1>4, <1>5, <1>7, <2>1, Concat, ConcatLies
<1>9. Len(ab) = Len(a) + Len(b) /\ Len(abc) = Len(a) + Len(b) + Len(c)
  BY <1>6, <1>7
<1> QED
  BY <1>6, <1>7, <1>8, <1>9 DEF a, b, c, d, w

(* ------------------------------------------------------------------------ *)
(* The prefixes kept, and what is made of them *)

LEMMA PrefixBytes ==
    ASSUME NEW i, NEW s, Prefixed(i, s)
    PROVE  /\ s \in Seq(Int) /\ Len(s) \in Nat /\ Len(s) <= 2 /\ Injective(s) /\ Distinct(s) = s
           /\ \A k \in 1 .. Len(s) : s[k] \in LegacyPrefix /\ s[k] \in Int /\ s[k] # 0
<1>1. s \in Seq(Int) /\ Len(s) \in Nat /\ Len(s) <= 2 /\ (Len(s) = 2 => s[1] # s[2])
  BY DEF Prefixed
<1>2. \A k \in 1 .. Len(s) : s[k] \in {\h66, \h67} \cup DOMAIN Segment
  BY DEF Prefixed, OperandSize, AddressSize
<1>3. \A k \in 1 .. Len(s) : s[k] \in LegacyPrefix /\ s[k] \in Int /\ s[k] # 0
  BY <1>2, Segments DEF LegacyPrefix, OperandSize, AddressSize
<1>4. Injective(s)
  <2> DEFINE n == Len(s)
  <2>1. n \in Nat /\ n <= 2 /\ (n = 2 => s[1] # s[2])
    BY <1>1
  <2> HIDE DEF n
  <2>2. ASSUME NEW j \in 1 .. n, NEW k \in 1 .. n, j # k
        PROVE  s[j] # s[k]
    <3>1. n = 2 /\ ((j = 1 /\ k = 2) \/ (j = 2 /\ k = 1))
      BY <2>1, <2>2
    <3> QED
      BY <2>1, <3>1
  <2> QED
    BY <2>2 DEF n, Injective
<1> QED
  BY <1>1, <1>3, <1>4, DistinctInjective

LEMMA Kept ==
    ASSUME NEW i, NEW s, Prefixed(i, s)
    PROVE  /\ KeptPrefixes(s) \in [1 .. 4 -> Int]
           /\ KeptPrefixes(s) \in Seq(Int) /\ Len(KeptPrefixes(s)) = 4
           /\ \A k \in 1 .. Len(s) : KeptPrefixes(s)[k] = s[k]
           /\ KeptPrefixes(s)[Len(s) + 1] = 0
<1>1. /\ s \in Seq(Int) /\ Len(s) \in Nat /\ Len(s) <= 2 /\ Distinct(s) = s
      /\ \A k \in 1 .. Len(s) : s[k] \in Int
  BY PrefixBytes
<1>2. Len(s) \in Nat /\ Len(s) <= 2
  BY <1>1
<1> DEFINE d == [k \in 1 .. 4 |-> IF k <= Len(s) THEN s[k] ELSE 0]
           K == KeptPrefixes(s)
<1>3. /\ s = <<>> => K = d
      /\ s # <<>> => K = [k \in 1 .. 4 |-> IF k = 4 THEN s[Len(s)]
                                          ELSE IF d[k] = s[Len(s)] /\ d[4] # 0 THEN d[4]
                                               ELSE d[k]]
  BY <1>1 DEF KeptPrefixes
<1>4. /\ d \in [1 .. 4 -> Int] /\ d[4] = 0 /\ d[Len(s) + 1] = 0
      /\ \A k \in 1 .. Len(s) : d[k] = s[k]
  BY <1>1, <1>2
<1> HIDE DEF d, K
<1>5. s = <<>> \/ (s # <<>> /\ s[Len(s)] \in Int /\ Len(s) > 0)
  BY <1>1, <1>2
<1>6. K \in [1 .. 4 -> Int]
  BY <1>3, <1>4, <1>5
<1>7. \A k \in 1 .. 3 : K[k] = d[k]
  BY <1>3, <1>4
<1>8. K \in Seq(Int) /\ Len(K) = 4
  <2>1. K \in Seq(Int)
    BY <1>6, SeqDef
  <2>2. 1 .. Len(K) = 1 .. 4 /\ Len(K) \in Nat
    BY <1>6, <2>1, LenProperties
  <2> DEFINE n == Len(K)
  <2> HIDE DEF n
  <2>3. 4 \in 1 .. n /\ n \in Nat
    BY <2>2 DEF n
  <2>4. n \in 1 .. n
    BY <2>3
  <2>5. n \in 1 .. 4
    BY <2>2, <2>4 DEF n
  <2>6. n = 4
    BY <2>3, <2>5
  <2> QED
    BY <2>1, <2>6 DEF n
<1>9. (\A k \in 1 .. Len(s) : K[k] = s[k]) /\ K[Len(s) + 1] = 0
  BY <1>2, <1>4, <1>7
<1> QED
  BY <1>6, <1>8, <1>9 DEF K

LEMMA IteratedPrefixes ==
    ASSUME NEW i, NEW s, Prefixed(i, s), NEW j, j.prefixes = KeptPrefixes(s)
    PROVE  Iterated(j) = s
<1> DEFINE K == KeptPrefixes(s)
           empty == {k \in 1 .. 4 : K[k] = 0}
           first == CHOOSE k \in empty : \A m \in empty : k <= m
<1>1. /\ s \in Seq(Int) /\ Len(s) \in Nat /\ Len(s) <= 2
      /\ \A k \in 1 .. Len(s) : s[k] # 0
  BY PrefixBytes
<1>2. /\ K \in Seq(Int) /\ Len(K) = 4
      /\ \A k \in 1 .. Len(s) : K[k] = s[k]
      /\ K[Len(s) + 1] = 0
  BY Kept
<1>3. Iterated(j) = IF empty = {} THEN K ELSE SubSeq(K, 1, first - 1)
  BY DEF Iterated
<1> HIDE DEF K
<1>4. /\ Len(s) + 1 \in empty
      /\ \A m \in empty : Len(s) + 1 <= m
      /\ \A m \in empty : m \in Nat
  BY <1>1, <1>2
<1>5. first = Len(s) + 1
  <2> HIDE DEF empty
  <2>1. \A k \in empty : (\A m \in empty : k <= m) => k = Len(s) + 1
    BY <1>1, <1>4
  <2> QED
    BY <1>4, <2>1
<1>6. Iterated(j) = SubSeq(K, 1, Len(s))
  <2> HIDE DEF empty, first
  <2>1. first - 1 = Len(s)
    BY <1>1, <1>5
  <2> QED
    BY <1>3, <1>4, <2>1
<1>7. /\ SubSeq(K, 1, Len(s)) \in Seq(Int) /\ Len(SubSeq(K, 1, Len(s))) = Len(s)
      /\ \A k \in 1 .. Len(s) : SubSeq(K, 1, Len(s))[k] = K[k]
  BY <1>1, <1>2, SubSeqProperties
<1>8. SubSeq(K, 1, Len(s)) = s
  BY <1>1, <1>2, <1>7, SeqEqual
<1> QED
  BY <1>6, <1>8

LEMMA SegmentRight ==
    ASSUME NEW i, NEW s, Prefixed(i, s), Regular(i),
           NEW j, j.prefixes = KeptPrefixes(s), NEW cpu
    PROVE  /\ ResolveSegReg(j) # "invalid"
           /\ SegBase(ResolveSegReg(j), cpu)
                = CASE SegmentOf(i) = "fs" -> cpu.fs
                    [] SegmentOf(i) = "gs" -> cpu.gs
                    [] OTHER -> 0
<1>1. Iterated(j) = s
  BY IteratedPrefixes
<1>2. /\ s \in Seq(Int) /\ Len(s) \in Nat /\ Len(s) <= 2
      /\ i.prefixes = <<>> => \A k \in 1 .. Len(s) : s[k] \notin DOMAIN Segment
      /\ i.prefixes # <<>> =>
           /\ Len(s) > 0 /\ i.prefixes = <<s[Len(s)]>> /\ s[Len(s)] \in DOMAIN Segment
           /\ \A k \in 1 .. Len(s) - 1 : s[k] \notin DOMAIN Segment
  BY DEF Prefixed
<1> DEFINE found == {k \in DOMAIN s : s[k] \in DOMAIN Segment}
<1>3. SegRegOverride(j) = CASE found = {} -> "default"
                            [] \E k \in found : found = {k} -> Segment[s[CHOOSE k \in found : TRUE]]
                            [] OTHER -> "invalid"
  BY <1>1 DEF SegRegOverride
<1>4. \A b \in DOMAIN Segment : Segment[b] \in {"es", "cs", "ss", "ds", "fs", "gs"}
  BY DEF Segment
<1> DEFINE q == {k \in DOMAIN i.prefixes : i.prefixes[k] \in DOMAIN Segment}
<1>5. SegmentOf(i) = IF q = {} THEN "ds"
                     ELSE Segment[i.prefixes[CHOOSE k \in q : \A m \in q : m <= k]]
  BY DEF SegmentOf
<1>6. CASE i.prefixes = <<>>
  <2>1. found = {} /\ q = {}
    BY <1>2, <1>6
  <2> HIDE DEF found, q
  <2>2. SegRegOverride(j) = "default" /\ SegmentOf(i) = "ds"
    BY <1>3, <1>5, <2>1
  <2> QED
    BY <2>2 DEF ResolveSegReg, SegBase
<1>7. CASE i.prefixes # <<>>
  <2> DEFINE b == s[Len(s)]
  <2>1. /\ Len(s) \in Nat /\ Len(s) > 0 /\ i.prefixes = <<b>> /\ b \in DOMAIN Segment
        /\ \A k \in 1 .. Len(s) - 1 : s[k] \notin DOMAIN Segment
    BY <1>2, <1>7
  <2>2. found = {Len(s)}
    BY <1>2, <2>1
  <2>3. q = {1} /\ i.prefixes[1] = b
    BY <2>1
  <2>4. (CHOOSE k \in found : TRUE) = Len(s)
    BY <2>2
  <2>5. (CHOOSE k \in q : \A m \in q : m <= k) = 1
    BY <2>3
  <2> HIDE DEF found, q
  <2>6. SegRegOverride(j) = Segment[b]
    BY <1>3, <2>2, <2>4
  <2>7. SegmentOf(i) = Segment[b]
    BY <1>5, <2>3, <2>5
  <2>8. Segment[b] \in {"es", "cs", "ss", "ds", "fs", "gs"}
    BY <1>4, <2>1
  <2> HIDE DEF b
  <2> QED
    BY <2>6, <2>7, <2>8 DEF ResolveSegReg, SegBase
<1> QED
  BY <1>6, <1>7

(* ------------------------------------------------------------------------ *)
(* The stages of the decoder, on what Encode has laid out. *)

State(w, n, pre, rex, ob, ab, opc, md, sb, dp, ln) ==
    [code |-> w, next |-> n, prefixes |-> pre, rex |-> rex,
     opnd_bytes |-> ob, addr_bytes |-> ab, opcode |-> opc,
     modrm |-> md, sib |-> sb, displacement |-> dp, length |-> ln]

LEMMA StateAfterPrefixes ==
    ASSUME NEW w, NEW n, NEW pre, NEW rex, NEW ob, NEW ab
    PROVE  [InsnInit(w) EXCEPT !.next = n, !.prefixes = pre, !.rex = rex,
                               !.addr_bytes = ab, !.opnd_bytes = ob]
             = State(w, n, pre, rex, ob, ab, <<>>, <<>>, <<>>, 0, 0)
<1> DEFINE z == <<0, 0, 0, 0>>
           i == InsnInit(w)
           a == [i EXCEPT !.next = n]
           b == [a EXCEPT !.prefixes = pre]
           c == [b EXCEPT !.rex = rex]
           d == [c EXCEPT !.addr_bytes = ab]
           e == [d EXCEPT !.opnd_bytes = ob]
<1>0. i = State(w, 1, z, 0, 4, 8, <<>>, <<>>, <<>>, 0, 0)
  BY DEF InsnInit, State
<1> HIDE DEF i, z
<1>1. a = State(w, n, z, 0, 4, 8, <<>>, <<>>, <<>>, 0, 0)
  BY <1>0 DEF State
<1>2. b = State(w, n, pre, 0, 4, 8, <<>>, <<>>, <<>>, 0, 0)
  <2> HIDE DEF a
  <2> QED
    BY <1>1 DEF State
<1>3. c = State(w, n, pre, rex, 4, 8, <<>>, <<>>, <<>>, 0, 0)
  <2> HIDE DEF b
  <2> QED
    BY <1>2 DEF State
<1>4. d = State(w, n, pre, rex, 4, ab, <<>>, <<>>, <<>>, 0, 0)
  <2> HIDE DEF c
  <2> QED
    BY <1>3 DEF State
<1>5. e = State(w, n, pre, rex, ob, ab, <<>>, <<>>, <<>>, 0, 0)
  <2> HIDE DEF d
  <2> QED
    BY <1>4 DEF State
<1>6. [i EXCEPT !.next = n, !.prefixes = pre, !.rex = rex,
                !.addr_bytes = ab, !.opnd_bytes = ob] = e
  OBVIOUS
<1> QED
  BY <1>5, <1>6 DEF i

LEMMA PowersOfTwo == 2 ^ 0 = 1 /\ 2 ^ 1 = 2 /\ 2 ^ 2 = 4 /\ 2 ^ 3 = 8
OBVIOUS

LEMMA RexFields ==
    ASSUME NEW W \in {0, 1}, NEW R \in {0, 1}, NEW X \in {0, 1}, NEW B \in {0, 1},
           NEW v \in {0, \h40}
    PROVE  LET u == v + (8 * W + 4 * R + 2 * X + B)
           IN  Bit(u, 3) = W /\ Bit(u, 2) = R /\ Bit(u, 1) = X /\ Bit(u, 0) = B
<1> DEFINE u == v + (8 * W + 4 * R + 2 * X + B)
<1>1. u \in Nat
  OBVIOUS
<1>2. /\ (u \div 8) % 2 = W /\ (u \div 4) % 2 = R
      /\ (u \div 2) % 2 = X /\ (u \div 1) % 2 = B
  OBVIOUS
<1> HIDE DEF u
<1>3. /\ Bit(u, 3) = (u \div 8) % 2 /\ Bit(u, 2) = (u \div 4) % 2
      /\ Bit(u, 1) = (u \div 2) % 2 /\ Bit(u, 0) = (u \div 1) % 2
  BY PowersOfTwo DEF Bit
<1> QED
  BY <1>2, <1>3 DEF u

(* The REX byte as the decoder has it: 0 where there is none. *)
RexValue(i) == IF Rex(i) = <<>> THEN 0 ELSE \h40 + RexBits(i)

LEMMA RexBitsRight ==
    ASSUME NEW i, Regular(i)
    PROVE  LET u == RexValue(i) IN
           /\ Bit(u, 3) = IF i.opnd = 8 THEN 1 ELSE 0
           /\ Bit(u, 2) = High(i.data) /\ Bit(u, 1) = High(i.index)
           /\ Bit(u, 0) = High(i.base)
<1> DEFINE W == IF i.opnd = 8 THEN 1 ELSE 0
           v == IF Rex(i) = <<>> THEN 0 ELSE \h40
           h == 8 * W + 4 * High(i.data) + 2 * High(i.index) + High(i.base)
<1>1. /\ High(i.data) \in {0, 1} /\ High(i.index) \in {0, 1} /\ High(i.base) \in {0, 1}
      /\ W \in {0, 1} /\ v \in {0, \h40}
  BY RexByte
<1>2. RexBits(i) = h /\ RexBits(i) \in 0 .. 15 /\ (Rex(i) = <<>> => RexBits(i) = 0)
  <2>1. RexBits(i) = h /\ RexBits(i) \in 0 .. 15
    BY RexByte
  <2>2. <<\h40 + RexBits(i)>> # <<>>
    OBVIOUS
  <2>3. Rex(i) = <<>> => RexBits(i) = 0
    BY <2>2, RexByte, Zenon
  <2> QED
    BY <2>1, <2>3
<1>3. RexValue(i) = v + h
  BY <1>2 DEF RexValue
<1> HIDE DEF W, v
<1>4. /\ Bit(v + h, 3) = W
      /\ Bit(v + h, 2) = High(i.data) /\ Bit(v + h, 1) = High(i.index)
      /\ Bit(v + h, 0) = High(i.base)
  BY <1>1, RexFields
<1> HIDE DEF h
<1> QED
  BY <1>3, <1>4 DEF W

(* Where the stages are in the bytes. *)
PrefixLen(i) == Len(LegacyPrefixes(i)) + Len(Rex(i))

Stage(i, n, opc, md, sb, dp, ln) ==
    State(Encode(i), PrefixLen(i) + n, KeptPrefixes(LegacyPrefixes(i)), RexValue(i),
          i.opnd, i.addr, opc, md, sb, dp, ln)

LEMMA AfterPrefixes ==
    ASSUME NEW i, Regular(i)
    PROVE  GetPrefixes(InsnInit(Encode(i))) = Stage(i, 1, <<>>, <<>>, <<>>, 0, 0)
<1> DEFINE w == Encode(i)
           s == LegacyPrefixes(i)
           p == Len(s)
           r == Len(Rex(i))
           opc == Opcode[i.op]
           hasRex == w[p + 1] \in \h40 .. \h4f
           rex == IF hasRex THEN w[p + 1] ELSE 0
<1>1. Prefixed(i, s)
  BY FoundPrefixes
<1>2. /\ s \in Seq(Int) /\ p \in Nat /\ p <= 2 /\ Injective(s)
      /\ \A k \in 1 .. p : s[k] \in LegacyPrefix
  BY <1>1, PrefixBytes
<1>3. /\ w \in Seq(Int) /\ Len(w) = p + r + Len(opc) + Len(Operands(i))
      /\ p \in Nat /\ r \in Nat /\ Len(opc) \in Nat /\ Len(Operands(i)) \in Nat
      /\ Lies(w, 0, s) /\ Lies(w, p, Rex(i)) /\ Lies(w, p + r, opc)
  BY EncodedBytes
<1>4. /\ opc \in Seq(Int) /\ Len(opc) >= 1 /\ Len(opc) \in Nat
      /\ opc[1] \notin LegacyPrefix /\ opc[1] \notin \h40 .. \h4f
  <2>1. i.op \in Ops
    BY DEF Regular
  <2>2. /\ opc \in Seq(Int) /\ opc[1] \notin LegacyPrefix \cup (\h40 .. \h4f)
        /\ Len(opc) = IF opc[1] = \h0f THEN 2 ELSE 1
    BY <2>1, OpcodeSeq
  <2> HIDE DEF opc
  <2>3. Len(opc) >= 1 /\ Len(opc) \in Nat
    BY <2>2
  <2> QED
    BY <2>2, <2>3
<1>5. /\ Rex(i) = <<>> => r = 0
      /\ Rex(i) # <<>> => r = 1 /\ Rex(i)[1] = \h40 + RexBits(i)
      /\ RexBits(i) \in 0 .. 15
  <2>1. \h40 + RexBits(i) \in Int /\ RexBits(i) \in 0 .. 15
    BY RexByte
  <2>2. Len(<<\h40 + RexBits(i)>>) = 1 /\ <<\h40 + RexBits(i)>>[1] = \h40 + RexBits(i)
    BY <2>1, ByteOfSeq
  <2> QED
    BY <2>1, <2>2, RexByte
<1> HIDE DEF w, s, opc, p, r
<1>6. \A k \in 1 .. p : w[k] = s[k]
  BY <1>2, <1>3 DEF Lies, p
<1>7. p < Len(w)
  BY <1>3, <1>4
<1>8. Rex(i) = <<>> => w[p + 1] = opc[1]
  <2> SUFFICES ASSUME Rex(i) = <<>> PROVE w[p + 1] = opc[1]
    OBVIOUS
  <2>1. r = 0 /\ 1 \in 1 .. Len(opc)
    BY <1>4, <1>5
  <2>2. w[p + r + 1] = opc[1]
    BY <1>3, <2>1 DEF Lies
  <2>3. p + r = p
    BY <1>2, <2>1
  <2> QED
    BY <2>2, <2>3
<1>9. Rex(i) # <<>> => w[p + 1] = \h40 + RexBits(i)
  <2> SUFFICES ASSUME Rex(i) # <<>> PROVE w[p + 1] = Rex(i)[1]
    BY <1>5
  <2>1. \A k \in 1 .. r : w[p + k] = Rex(i)[k]
    BY <1>3 DEF Lies, r
  <2>2. 1 \in 1 .. r
    BY <1>5
  <2> QED
    BY <2>1, <2>2
<1>10. \A b \in \h40 .. \h4f : b \notin LegacyPrefix
  BY Segments DEF LegacyPrefix, OperandSize, AddressSize
<1>11. /\ hasRex <=> Rex(i) # <<>>
       /\ rex = RexValue(i)
       /\ w[p + 1] \notin LegacyPrefix
  <2>1. CASE Rex(i) = <<>>
    BY <1>4, <1>8, <2>1 DEF RexValue
  <2>2. CASE Rex(i) # <<>>
    <3> DEFINE b == RexBits(i)
    <3>0. b \in 0 .. 15
      BY <1>5
    <3> HIDE DEF b
    <3>1. \h40 + b \in \h40 .. \h4f
      BY <3>0
    <3> QED
      BY <1>9, <1>10, <2>2, <3>1 DEF RexValue, b
  <2> QED
    BY <2>1, <2>2
<1>12. GetPrefixes(InsnInit(w)) =
         [InsnInit(w) EXCEPT
            !.next = IF hasRex THEN p + 2 ELSE p + 1,
            !.prefixes = KeptPrefixes(s),
            !.rex = rex,
            !.addr_bytes = IF AddressSize \in ToSet(s) THEN 4 ELSE 8,
            !.opnd_bytes = CASE Bit(rex, 3) = 1 -> 8
                             [] Bit(rex, 3) = 0 /\ OperandSize \in ToSet(s) -> 2
                             [] OTHER -> 4]
  BY <1>2, <1>3, <1>6, <1>7, <1>11, GotPrefixes DEF p, hasRex, rex
<1> HIDE DEF rex, hasRex
<1>13. (IF hasRex THEN p + 2 ELSE p + 1) = PrefixLen(i) + 1
  <2>1. PrefixLen(i) = p + r
    BY DEF PrefixLen, s, p, r
  <2> QED
    BY <1>2, <1>3, <1>5, <1>11, <2>1
<1>14. /\ OperandSize \in ToSet(s) <=> i.opnd = 2
       /\ AddressSize \in ToSet(s) <=> i.addr = 4
  <2>1. ToSet(s) = {s[k] : k \in 1 .. p}
    BY <1>2 DEF ToSet, p
  <2> QED
    BY <1>1, <2>1 DEF Prefixed, p
<1>15. i.opnd \in {2, 4, 8} /\ i.addr \in {4, 8}
  BY DEF Regular
<1>16. (IF AddressSize \in ToSet(s) THEN 4 ELSE 8) = i.addr
  BY <1>14, <1>15
<1>17. (CASE Bit(rex, 3) = 1 -> 8
          [] Bit(rex, 3) = 0 /\ OperandSize \in ToSet(s) -> 2
          [] OTHER -> 4) = i.opnd
  <2>1. Bit(rex, 3) = IF i.opnd = 8 THEN 1 ELSE 0
    BY <1>11, RexBitsRight
  <2> QED
    BY <1>14, <1>15, <2>1
<1>18. GetPrefixes(InsnInit(w)) =
         State(w, PrefixLen(i) + 1, KeptPrefixes(s), RexValue(i), i.opnd, i.addr,
               <<>>, <<>>, <<>>, 0, 0)
  <2>1. GetPrefixes(InsnInit(w)) =
         [InsnInit(w) EXCEPT !.next = PrefixLen(i) + 1, !.prefixes = KeptPrefixes(s),
                             !.rex = RexValue(i), !.addr_bytes = i.addr,
                             !.opnd_bytes = i.opnd]
    BY <1>11, <1>12, <1>13, <1>16, <1>17, Zenon
  <2> QED
    BY <2>1, StateAfterPrefixes
<1> QED
  BY <1>18 DEF Stage, w, s

LEMMA StageFields ==
    ASSUME NEW i, NEW n, NEW opc, NEW md, NEW sb, NEW dp, NEW ln
    PROVE  LET j == Stage(i, n, opc, md, sb, dp, ln) IN
           /\ j.code = Encode(i) /\ j.next = PrefixLen(i) + n
           /\ j.prefixes = KeptPrefixes(LegacyPrefixes(i)) /\ j.rex = RexValue(i)
           /\ j.opnd_bytes = i.opnd /\ j.addr_bytes = i.addr
           /\ j.opcode = opc /\ j.modrm = md /\ j.sib = sb
           /\ j.displacement = dp /\ j.length = ln
BY DEF Stage, State

LEMMA StageAdvances ==
    ASSUME NEW i, NEW n \in Nat, NEW opc, NEW md, NEW sb, NEW dp, NEW ln, NEW x \in Nat,
           PrefixLen(i) \in Nat
    PROVE  Advance(Stage(i, n, opc, md, sb, dp, ln), x) = Stage(i, n + x, opc, md, sb, dp, ln)
<1>1. (PrefixLen(i) + n) + x = PrefixLen(i) + (n + x)
  OBVIOUS
<1> QED
  BY <1>1 DEF Stage, State, Advance

LEMMA TakenBytes ==
    ASSUME NEW w \in Seq(Int), NEW n \in Nat, NEW x \in Seq(Int), Lies(w, n, x)
    PROVE  /\ SubSeq(w, n + 1, n + 1 + Len(x) - 1) = x
           /\ Len(x) > 0 => w[n + 1] = x[1]
<1>1. Len(x) \in Nat /\ n + Len(x) <= Len(w) /\ \A k \in 1 .. Len(x) : w[n + k] = x[k]
  BY DEF Lies
<1> DEFINE m == Len(x)
           t == SubSeq(w, n + 1, n + m)
<1> HIDE DEF m
<1>2. n + 1 + m - 1 = n + m /\ m \in Nat
  BY <1>1 DEF m
<1>3. t \in Seq(Int) /\ Len(t) = m /\ \A k \in 1 .. m : t[k] = w[n + 1 + k - 1]
  <2>1. n + 1 \in 1 .. Len(w) + 1 /\ n + m \in n + 1 - 1 .. Len(w)
    BY <1>1, <1>2 DEF m
  <2>2. Len(t) = IF n + 1 <= n + m THEN n + m - (n + 1) + 1 ELSE 0
    BY <2>1, <1>2, SubSeqProperties
  <2> QED
    BY <1>2, <2>1, <2>2, SubSeqProperties
<1>4. \A k \in 1 .. m : n + 1 + k - 1 = n + k
  BY <1>2
<1>5. \A k \in 1 .. Len(t) : t[k] = x[k]
  BY <1>1, <1>3, <1>4 DEF m
<1>6. t = x
  BY <1>1, <1>3, <1>5, SeqEqual DEF m
<1> QED
  BY <1>1, <1>2, <1>6 DEF m

LEMMA EncodedAt ==
    ASSUME NEW i, Regular(i)
    PROVE  LET o == Len(Opcode[i.op]) IN
           /\ Encode(i) \in Seq(Int)
           /\ PrefixLen(i) \in Nat /\ o \in Nat /\ Len(Operands(i)) \in Nat
           /\ Len(Encode(i)) = PrefixLen(i) + o + Len(Operands(i))
           /\ Lies(Encode(i), PrefixLen(i), Opcode[i.op])
           /\ Lies(Encode(i), PrefixLen(i) + o, Operands(i))
<1> DEFINE w == Encode(i)
           p == Len(LegacyPrefixes(i))
           r == Len(Rex(i))
           o == Len(Opcode[i.op])
           q == Len(Operands(i))
<1>1. /\ w \in Seq(Int) /\ Len(w) = p + r + o + q
      /\ p \in Nat /\ r \in Nat /\ o \in Nat /\ q \in Nat
      /\ Lies(w, p + r, Opcode[i.op])
      /\ Lies(w, p + r + o, Operands(i))
  BY EncodedBytes
<1>2. PrefixLen(i) = p + r
  BY DEF PrefixLen
<1> HIDE DEF p, r, o, q, w
<1>3. PrefixLen(i) \in Nat
  BY <1>1, <1>2
<1> QED
  BY <1>1, <1>2, <1>3 DEF o, q, w

LEMMA AfterOpcode ==
    ASSUME NEW i, Regular(i)
    PROVE  /\ PrefixLen(i) \in Nat /\ Len(Opcode[i.op]) \in Nat
           /\ GetOpcode(Stage(i, 1, <<>>, <<>>, <<>>, 0, 0)) =
                Stage(i, 1 + Len(Opcode[i.op]), Opcode[i.op], <<>>, <<>>, 0, 0)
<1> DEFINE w == Encode(i)
           opc == Opcode[i.op]
           j == Stage(i, 1, <<>>, <<>>, <<>>, 0, 0)
           n == IF j.code[j.next] = \h0f THEN 2 ELSE 1
<1>1. w \in Seq(Int) /\ Lies(w, PrefixLen(i), opc) /\ PrefixLen(i) \in Nat /\ Len(opc) \in Nat
  BY EncodedAt
<1>2. opc \in Seq(Int) /\ Len(opc) = IF opc[1] = \h0f THEN 2 ELSE 1
  <2>1. i.op \in Ops
    BY DEF Regular
  <2> QED
    BY <2>1, OpcodeSeq
<1>3. j.code = w /\ j.next = PrefixLen(i) + 1
  BY StageFields
<1>4. GetOpcode(j) = [Advance(j, n) EXCEPT !.opcode = Take(j, n)]
  BY DEF GetOpcode
<1> HIDE DEF w, opc
<1>5. /\ SubSeq(w, PrefixLen(i) + 1, PrefixLen(i) + 1 + Len(opc) - 1) = opc
      /\ w[PrefixLen(i) + 1] = opc[1]
  <2>1. Len(opc) > 0
    BY <1>2
  <2> QED
    BY <1>1, <1>2, <2>1, TakenBytes
<1> HIDE DEF j
<1>6. n = Len(opc)
  BY <1>2, <1>3, <1>5
<1>7. Take(j, n) = opc
  BY <1>3, <1>5, <1>6 DEF Take
<1> HIDE DEF n
<1>8. Advance(j, n) = Stage(i, 1 + Len(opc), <<>>, <<>>, <<>>, 0, 0)
  BY <1>1, <1>6, StageAdvances DEF j
<1>10. [Stage(i, 1 + Len(opc), <<>>, <<>>, <<>>, 0, 0) EXCEPT !.opcode = opc] =
         Stage(i, 1 + Len(opc), opc, <<>>, <<>>, 0, 0)
  BY DEF Stage, State
<1> QED
  BY <1>1, <1>4, <1>7, <1>8, <1>10 DEF j, opc

(* What the decoder asks of an opcode. *)
LEMMA OpcodeClasses ==
    ASSUME NEW op \in Ops
    PROVE  /\ Opcode[op] \in HasModrm <=> op # "moffs"
           /\ Opcode[op] \in HasMoffset <=> op = "moffs"
           /\ Opcode[op] = <<\hc6>> <=> op = "imm8"
           /\ Opcode[op] = <<\hc7>> <=> op = "imm"
           /\ Opcode[op] \in {<<\h88>>, <<\h89>>} <=> op \in {"store8", "store"}
           /\ Opcode[op] \in {<<\hc6>>, <<\hc7>>} <=> op \in {"imm8", "imm"}
           /\ Opcode[op] \in {<<\h8a>>, <<\h8b>>} <=> op \in {"load8", "load"}
           /\ Opcode[op] \in {<<\h0f, \hb6>>, <<\h0f, \hb7>>} <=> op \in {"movzx8", "movzx16"}
           /\ Opcode[op] \in {<<\h0f, \hbe>>, <<\h0f, \hbf>>} <=> op \in {"movsx8", "movsx16"}
           /\ Opcode[op] \in {<<\h88>>, <<\hc6>>, <<\h8a>>, <<\h0f, \hb6>>, <<\h0f, \hbe>>}
                <=> op \in {"store8", "imm8", "load8", "movzx8", "movsx8"}
           /\ Opcode[op] \in {<<\h0f, \hb7>>, <<\h0f, \hbf>>} <=> op \in {"movzx16", "movsx16"}
BY DEF Opcode, Ops, HasModrm, HasMoffset

LEMMA ByteFields ==
    ASSUME NEW m \in 0 .. 3, NEW a \in 0 .. 7, NEW b \in 0 .. 7
    PROVE  LET y == 64 * m + 8 * a + b IN Mod(y) = m /\ Reg(y) = a /\ Rm(y) = b
BY DEF Mod, Reg, Rm

LEMMA ModrmFields ==
    ASSUME NEW i, Regular(i)
    PROVE  /\ Mod(ModrmByte(i)) = i.mod /\ Reg(ModrmByte(i)) = i.data % 8
           /\ Rm(ModrmByte(i)) = IF NeedsSib(i) THEN 4 ELSE Low(i.base)
           /\ Mod(SibByte(i)) = i.scale
           /\ Reg(SibByte(i)) = IF i.index = NoReg THEN 4 ELSE i.index % 8
           /\ Rm(SibByte(i)) = Low(i.base)
<1>1. /\ i.mod \in 0 .. 3 /\ i.scale \in 0 .. 3 /\ i.data \in 0 .. 15
      /\ i.index \in 0 .. 15 \cup {NoReg} /\ i.base \in 0 .. NoReg
  BY DEF Regular
<1> DEFINE a == i.data % 8
           b == IF NeedsSib(i) THEN 4 ELSE Low(i.base)
           c == IF i.index = NoReg THEN 4 ELSE i.index % 8
           d == Low(i.base)
<1>2. d \in 0 .. 7
  BY <1>1, Registers
<1>3. a \in 0 .. 7 /\ b \in 0 .. 7 /\ c \in 0 .. 7
  BY <1>1, <1>2 DEF NoReg
<1>4. ModrmByte(i) = 64 * i.mod + 8 * a + b
  BY <1>1 DEF ModrmByte
<1>5. SibByte(i) = 64 * i.scale + 8 * c + d
  BY DEF SibByte
<1> HIDE DEF a, b, c, d
<1>6. Mod(ModrmByte(i)) = i.mod /\ Reg(ModrmByte(i)) = a /\ Rm(ModrmByte(i)) = b
  BY <1>1, <1>3, <1>4, ByteFields
<1>7. Mod(SibByte(i)) = i.scale /\ Reg(SibByte(i)) = c /\ Rm(SibByte(i)) = d
  BY <1>1, <1>2, <1>3, <1>5, ByteFields
<1> QED
  BY <1>6, <1>7 DEF a, b, c, d

SibLen(i) == IF NeedsSib(i) THEN 1 ELSE 0
SibOf(i) == IF NeedsSib(i) THEN <<SibByte(i)>> ELSE <<>>
OpcodeLen(i) == Len(Opcode[i.op])

LEMMA OperandsAt ==
    ASSUME NEW i, Regular(i), i.op # "moffs"
    PROVE  LET w == Encode(i)
               n == PrefixLen(i) + OpcodeLen(i)
           IN  /\ PrefixLen(i) \in Nat /\ OpcodeLen(i) \in Nat /\ SibLen(i) \in {0, 1}
               /\ DispLen(i) \in {0, 1, 4} /\ ImmLen(i) \in Nat
               /\ Len(w) = n + 1 + SibLen(i) + DispLen(i) + ImmLen(i)
               /\ w[n + 1] = ModrmByte(i)
               /\ NeedsSib(i) => w[n + 2] = SibByte(i)
               /\ DispLen(i) > 0 => w[n + SibLen(i) + 2] = i.disp
<1> DEFINE w == Encode(i)
           n == PrefixLen(i) + OpcodeLen(i)
           o == Operands(i)
           s == SibLen(i)
<1>1. /\ PrefixLen(i) \in Nat /\ OpcodeLen(i) \in Nat /\ Len(o) \in Nat
      /\ Len(w) = n + Len(o) /\ Lies(w, n, o)
  BY EncodedAt DEF OpcodeLen
<1>2. /\ o \in Seq(Int) /\ Len(o) = 1 + s + DispLen(i) + ImmLen(i)
      /\ DispLen(i) \in {0, 1, 4} /\ ImmLen(i) \in Nat
      /\ o[1] = ModrmByte(i)
      /\ NeedsSib(i) => o[2] = SibByte(i)
      /\ DispLen(i) > 0 => o[s + 2] = i.disp
  BY OperandBytes DEF SibLen
<1>3. s \in {0, 1} /\ (NeedsSib(i) <=> s = 1)
  BY DEF SibLen
<1>4. n \in Nat
  BY <1>1
<1> HIDE DEF w, n, o, s
<1>5. \A k \in 1 .. Len(o) : w[n + k] = o[k]
  BY <1>1 DEF Lies
<1>6. w[n + 1] = ModrmByte(i)
  <2>1. 1 \in 1 .. Len(o)
    BY <1>2, <1>3
  <2> QED
    BY <1>2, <1>5, <2>1
<1>7. NeedsSib(i) => w[n + 2] = SibByte(i)
  <2> SUFFICES ASSUME NeedsSib(i) PROVE w[n + 2] = SibByte(i)
    OBVIOUS
  <2>1. 2 \in 1 .. Len(o)
    BY <1>2, <1>3
  <2> QED
    BY <1>2, <1>5, <2>1
<1>8. DispLen(i) > 0 => w[n + s + 2] = i.disp
  <2> SUFFICES ASSUME DispLen(i) > 0 PROVE w[n + s + 2] = i.disp
    OBVIOUS
  <2>1. s + 2 \in 1 .. Len(o) /\ n + (s + 2) = n + s + 2
    BY <1>2, <1>3, <1>4
  <2>2. w[n + (s + 2)] = o[s + 2]
    BY <1>5, <2>1
  <2> QED
    BY <1>2, <2>1, <2>2
<1>9. Len(w) = n + 1 + s + DispLen(i) + ImmLen(i)
  <2> DEFINE D == DispLen(i)
             I == ImmLen(i)
             L == Len(o)
  <2>1. L = 1 + s + D + I /\ s \in Nat /\ D \in Nat /\ I \in Nat /\ Len(w) = n + L
    BY <1>1, <1>2, <1>3
  <2> HIDE DEF D, I, L
  <2>2. n + L = n + 1 + s + D + I
    BY <1>4, <2>1
  <2> QED
    BY <2>1, <2>2 DEF D, I
<1> QED
  BY <1>1, <1>2, <1>3, <1>6, <1>7, <1>8, <1>9 DEF w, n, s

LEMMA OneByte ==
    ASSUME NEW w \in Seq(Int), NEW n \in Nat, n + 1 <= Len(w)
    PROVE  SubSeq(w, n + 1, n + 1 + 1 - 1) = <<w[n + 1]>>
<1> DEFINE x == <<w[n + 1]>>
<1>1. w[n + 1] \in Int
  <2>1. n + 1 \in 1 .. Len(w)
    OBVIOUS
  <2> QED
    BY <2>1
<1>2. x \in Seq(Int) /\ Len(x) = 1 /\ x[1] = w[n + 1]
  BY <1>1, ByteOfSeq
<1> HIDE DEF x
<1>3. \A k \in 1 .. Len(x) : w[n + k] = x[k]
  BY <1>2
<1>4. Lies(w, n, x)
  BY <1>2, <1>3 DEF Lies
<1>5. SubSeq(w, n + 1, n + 1 + Len(x) - 1) = x
  BY <1>2, <1>4, TakenBytes
<1> QED
  BY <1>2, <1>5 DEF x

LEMMA AfterModrm ==
    ASSUME NEW i, Regular(i), i.op # "moffs"
    PROVE  GetModrm(Stage(i, 1 + OpcodeLen(i), Opcode[i.op], <<>>, <<>>, 0, 0)) =
             Stage(i, 2 + OpcodeLen(i), Opcode[i.op], <<ModrmByte(i)>>, <<>>, 0, 0)
<1> DEFINE opc == Opcode[i.op]
           o == OpcodeLen(i)
           w == Encode(i)
           n == PrefixLen(i) + o
           j == Stage(i, 1 + o, opc, <<>>, <<>>, 0, 0)
<1>1. /\ PrefixLen(i) \in Nat /\ o \in Nat /\ w \in Seq(Int)
      /\ Len(w) = n + 1 + SibLen(i) + DispLen(i) + ImmLen(i)
      /\ SibLen(i) \in {0, 1} /\ DispLen(i) \in {0, 1, 4} /\ ImmLen(i) \in Nat
      /\ w[n + 1] = ModrmByte(i)
  BY OperandsAt, EncodedAt
<1>2. opc \in HasModrm
  <2>1. i.op \in Ops
    BY DEF Regular
  <2> QED
    BY <2>1, OpcodeClasses
<1>3. j.opcode = opc /\ j.code = w /\ j.next = PrefixLen(i) + (1 + o)
  BY StageFields
<1> HIDE DEF opc, o, w, j
<1>4. j.next = n + 1 /\ n \in Nat /\ n + 1 <= Len(w)
  <2> DEFINE D == DispLen(i)
             I == ImmLen(i)
             s == SibLen(i)
  <2>0. s \in {0, 1} /\ D \in {0, 1, 4} /\ I \in Nat
    BY <1>1
  <2>1. s \in Nat /\ D \in Nat /\ I \in Nat
    BY <2>0
  <2>2. Len(w) = n + 1 + s + D + I
    BY <1>1
  <2>3. PrefixLen(i) + (1 + o) = n + 1 /\ n \in Nat
    <3>1. PrefixLen(i) \in Nat /\ o \in Nat
      BY <1>1
    <3> QED
      BY <3>1
  <2> HIDE DEF D, I, s, n
  <2>4. n + 1 <= n + 1 + s + D + I
    BY <2>1, <2>3
  <2> QED
    BY <1>3, <2>2, <2>3, <2>4
<1> HIDE DEF n
<1>5. Take(j, 1) = <<ModrmByte(i)>>
  BY <1>1, <1>3, <1>4, OneByte DEF Take
<1>6. Advance(j, 1) = Stage(i, 2 + o, opc, <<>>, <<>>, 0, 0)
  <2>1. 1 + o \in Nat /\ (1 + o) + 1 = 2 + o
    BY <1>1
  <2>2. Advance(j, 1) = Stage(i, (1 + o) + 1, opc, <<>>, <<>>, 0, 0)
    BY <1>1, <2>1, StageAdvances DEF j
  <2> QED
    BY <2>1, <2>2
<1>7. GetModrm(j) = [Advance(j, 1) EXCEPT !.modrm = Take(j, 1)]
  BY <1>2, <1>3 DEF GetModrm
<1>8. [Stage(i, 2 + o, opc, <<>>, <<>>, 0, 0) EXCEPT !.modrm = <<ModrmByte(i)>>]
        = Stage(i, 2 + o, opc, <<ModrmByte(i)>>, <<>>, 0, 0)
  BY DEF Stage, State
<1> QED
  BY <1>5, <1>6, <1>7, <1>8 DEF j, o, opc

LEMMA AfterSib ==
    ASSUME NEW i, Regular(i), i.op # "moffs"
    PROVE  GetSib(Stage(i, 2 + OpcodeLen(i), Opcode[i.op], <<ModrmByte(i)>>, <<>>, 0, 0)) =
             Stage(i, 2 + OpcodeLen(i) + SibLen(i), Opcode[i.op], <<ModrmByte(i)>>,
                   SibOf(i), 0, 0)
<1> DEFINE opc == Opcode[i.op]
           o == OpcodeLen(i)
           w == Encode(i)
           n == PrefixLen(i) + o
           m == <<ModrmByte(i)>>
           j == Stage(i, 2 + o, opc, m, <<>>, 0, 0)
<1>1. /\ PrefixLen(i) \in Nat /\ o \in Nat /\ w \in Seq(Int)
      /\ Len(w) = n + 1 + SibLen(i) + DispLen(i) + ImmLen(i)
      /\ SibLen(i) \in {0, 1} /\ DispLen(i) \in {0, 1, 4} /\ ImmLen(i) \in Nat
      /\ NeedsSib(i) => w[n + 2] = SibByte(i)
  BY OperandsAt, EncodedAt
<1>2. j.modrm = m /\ j.code = w /\ j.next = PrefixLen(i) + (2 + o)
  BY StageFields
<1>3. m # <<>> /\ Head(m) = ModrmByte(i)
  OBVIOUS
<1>4. Mod(Head(m)) # 3 /\ (Rm(Head(m)) = 4 <=> NeedsSib(i))
  <2>1. /\ Mod(ModrmByte(i)) = i.mod
        /\ Rm(ModrmByte(i)) = IF NeedsSib(i) THEN 4 ELSE Low(i.base)
    BY ModrmFields
  <2>2. i.mod # 3 /\ i.base \in 0 .. NoReg
    BY DEF Regular
  <2>3. ~NeedsSib(i) => Low(i.base) # 4
    BY <2>2 DEF NeedsSib, Low, NoReg, Rip
  <2> QED
    BY <1>3, <2>1, <2>2, <2>3
<1> HIDE DEF opc, o, w, j, m
<1>5. CASE NeedsSib(i)
  <2>1. GetSib(j) = [Advance(j, 1) EXCEPT !.sib = Take(j, 1)]
    BY <1>2, <1>3, <1>4, <1>5 DEF GetSib
  <2>2. j.next = (n + 1) + 1 /\ n + 1 \in Nat /\ (n + 1) + 1 <= Len(w) /\ (n + 1) + 1 = n + 2
    <3> DEFINE D == DispLen(i)
               I == ImmLen(i)
    <3>1. D \in Nat /\ I \in Nat
      BY <1>1
    <3>2. Len(w) = n + 1 + 1 + D + I
      <4>1. SibLen(i) = 1
        BY <1>5 DEF SibLen
      <4> QED
        BY <1>1, <4>1
    <3>3. PrefixLen(i) + (2 + o) = (n + 1) + 1 /\ n \in Nat
      <4>1. PrefixLen(i) \in Nat /\ o \in Nat
        BY <1>1
      <4> QED
        BY <4>1
    <3> HIDE DEF D, I, n
    <3>4. (n + 1) + 1 <= n + 1 + 1 + D + I /\ n + 1 \in Nat /\ (n + 1) + 1 = n + 2
      BY <3>1, <3>3
    <3> QED
      BY <1>2, <3>2, <3>3, <3>4
  <2> HIDE DEF n
  <2>3. SubSeq(w, (n + 1) + 1, (n + 1) + 1 + 1 - 1) = <<w[(n + 1) + 1]>>
    BY <1>1, <2>2, OneByte
  <2>4. Take(j, 1) = <<SibByte(i)>>
    BY <1>1, <1>2, <1>5, <2>2, <2>3 DEF Take
  <2>5. Advance(j, 1) = Stage(i, 2 + o + 1, opc, m, <<>>, 0, 0)
    <3>1. 2 + o \in Nat
      BY <1>1
    <3> QED
      BY <1>1, <3>1, StageAdvances DEF j
  <2>6. [Stage(i, 2 + o + 1, opc, m, <<>>, 0, 0) EXCEPT !.sib = <<SibByte(i)>>]
          = Stage(i, 2 + o + 1, opc, m, <<SibByte(i)>>, 0, 0)
    BY DEF Stage, State
  <2>7. GetSib(j) = Stage(i, 2 + o + SibLen(i), opc, m, SibOf(i), 0, 0)
    BY <1>5, <2>1, <2>4, <2>5, <2>6 DEF SibLen, SibOf
  <2> QED
    BY <2>7 DEF j, o, opc, m
<1>6. CASE ~NeedsSib(i)
  <2>1. GetSib(j) = j
    BY <1>2, <1>3, <1>4, <1>6 DEF GetSib
  <2>2. 2 + o + SibLen(i) = 2 + o /\ SibOf(i) = <<>>
    BY <1>1, <1>6 DEF SibLen, SibOf
  <2> QED
    BY <2>1, <2>2 DEF j, o, opc, m
<1> QED
  BY <1>5, <1>6

LEMMA DisplacementRight ==
    ASSUME NEW i, Regular(i), NEW j, j.modrm = <<ModrmByte(i)>>, j.sib = SibOf(i)
    PROVE  DisplacementSize(j) = DispLen(i)
<1>1. /\ i.mod \in 0 .. 2 /\ i.base \in 0 .. NoReg
      /\ i.base = Rip => i.index = NoReg
      /\ i.base \in {Rip, NoReg} => i.mod = 0
      /\ i.base \notin {Rip, NoReg} /\ i.mod = 0 => i.base % 8 # 5
  BY DEF Regular, Encodable
<1>2. j.modrm # <<>> /\ Head(j.modrm) = ModrmByte(i)
  OBVIOUS
<1>3. /\ Mod(ModrmByte(i)) = i.mod
      /\ Rm(ModrmByte(i)) = IF NeedsSib(i) THEN 4 ELSE Low(i.base)
      /\ Rm(SibByte(i)) = Low(i.base)
  BY ModrmFields
<1>4. SibBase(j) = IF NeedsSib(i) THEN Low(i.base) ELSE 0
  <2>1. <<SibByte(i)>> # <<>> /\ Head(<<SibByte(i)>>) = SibByte(i)
    OBVIOUS
  <2> QED
    BY <1>3, <2>1 DEF SibBase, SibOf
<1>5. DisplacementSize(j) =
         CASE i.mod = 3 -> 0
           [] i.mod = 1 -> 1
           [] i.mod = 2 -> 4
           [] i.mod = 0 -> IF Rm(ModrmByte(i)) = 5 \/ SibBase(j) = 5 THEN 4 ELSE 0
  BY <1>2, <1>3 DEF DisplacementSize
<1>6. ASSUME i.mod = 0
      PROVE  (Rm(ModrmByte(i)) = 5 \/ SibBase(j) = 5) <=> i.base \in {Rip, NoReg}
  <2>1. Low(i.base) = 5 <=> i.base \in {Rip, NoReg}
    BY <1>1, <1>6 DEF Low
  <2>2. i.base = Rip => ~NeedsSib(i)
    BY <1>1 DEF NeedsSib, Rip, NoReg
  <2>3. i.base = NoReg => NeedsSib(i)
    BY DEF NeedsSib
  <2> QED
    BY <1>3, <1>4, <2>1, <2>2, <2>3
<1>7. CASE i.mod = 0
  BY <1>5, <1>6, <1>7 DEF DispLen
<1>8. CASE i.mod = 1
  BY <1>1, <1>5, <1>8 DEF DispLen
<1>9. CASE i.mod = 2
  BY <1>1, <1>5, <1>9 DEF DispLen
<1>10. i.mod = 0 \/ i.mod = 1 \/ i.mod = 2
  BY <1>1
<1> QED
  BY <1>10, <1>7, <1>8, <1>9

LEMMA AfterDisplacement ==
    ASSUME NEW i, Regular(i), i.op # "moffs"
    PROVE  GetDisplacement(Stage(i, 2 + OpcodeLen(i) + SibLen(i), Opcode[i.op],
                                 <<ModrmByte(i)>>, SibOf(i), 0, 0)) =
             Stage(i, 2 + OpcodeLen(i) + SibLen(i) + DispLen(i), Opcode[i.op],
                   <<ModrmByte(i)>>, SibOf(i), i.disp, 0)
<1> DEFINE opc == Opcode[i.op]
           o == OpcodeLen(i)
           s == SibLen(i)
           D == DispLen(i)
           m == <<ModrmByte(i)>>
           b == SibOf(i)
           w == Encode(i)
           x == 2 + o + s
           j == Stage(i, x, opc, m, b, 0, 0)
<1>1. /\ PrefixLen(i) \in Nat /\ o \in Nat /\ s \in {0, 1} /\ D \in {0, 1, 4}
      /\ D > 0 => w[PrefixLen(i) + o + s + 2] = i.disp
  BY OperandsAt
<1>2. j.code = w /\ j.next = PrefixLen(i) + x /\ j.modrm = m /\ j.sib = b
  BY StageFields
<1>3. DisplacementSize(j) = D
  BY <1>2, DisplacementRight
<1>4. D = 0 => i.disp = 0
  BY DEF Regular, Encodable, DispLen
<1>5. x \in Nat /\ D \in Nat /\ PrefixLen(i) + x = PrefixLen(i) + o + s + 2
  <2>1. PrefixLen(i) \in Nat /\ o \in Nat /\ s \in Nat /\ D \in Nat
    BY <1>1
  <2> HIDE DEF o, s, D
  <2> QED
    BY <2>1
<1> HIDE DEF opc, o, s, D, m, b, w, j, x
<1>6. CASE D = 0
  <2>1. GetDisplacement(j) = j
    BY <1>3, <1>6 DEF GetDisplacement
  <2>2. x + D = x /\ i.disp = 0
    BY <1>4, <1>5, <1>6
  <2>3. GetDisplacement(j) = Stage(i, x + D, opc, m, b, i.disp, 0)
    BY <2>1, <2>2 DEF j
  <2> QED
    BY <2>3 DEF j, opc, o, s, D, m, b, x
<1>7. CASE D # 0
  <2>1. GetDisplacement(j) = [Advance(j, D) EXCEPT !.displacement = w[PrefixLen(i) + x]]
    BY <1>2, <1>3, <1>7 DEF GetDisplacement
  <2>2. w[PrefixLen(i) + x] = i.disp
    BY <1>1, <1>5, <1>7
  <2>3. Advance(j, D) = Stage(i, x + D, opc, m, b, 0, 0)
    BY <1>1, <1>5, StageAdvances DEF j
  <2>4. [Stage(i, x + D, opc, m, b, 0, 0) EXCEPT !.displacement = i.disp]
          = Stage(i, x + D, opc, m, b, i.disp, 0)
    BY DEF Stage, State
  <2> QED
    BY <2>1, <2>2, <2>3, <2>4 DEF j, opc, o, s, D, m, b, x
<1> QED
  BY <1>6, <1>7

(* The whole decoder. *)
LEMMA Decoded ==
    ASSUME NEW i, Regular(i), i.op # "moffs"
    PROVE  \E n : Decode(Encode(i)) =
             Stage(i, n, Opcode[i.op], <<ModrmByte(i)>>, SibOf(i), i.disp, Len(Encode(i)))
<1> DEFINE opc == Opcode[i.op]
           o == OpcodeLen(i)
           s == SibLen(i)
           D == DispLen(i)
           I == ImmLen(i)
           m == <<ModrmByte(i)>>
           b == SibOf(i)
           w == Encode(i)
           x == 2 + o + s + D
           j == Stage(i, x, opc, m, b, i.disp, 0)
           c == Stage(i, x + I, opc, m, b, i.disp, 0)
<1>1. GetDisplacement(GetSib(GetModrm(GetOpcode(GetPrefixes(InsnInit(w)))))) = j
  <2>1. GetPrefixes(InsnInit(w)) = Stage(i, 1, <<>>, <<>>, <<>>, 0, 0)
    BY AfterPrefixes
  <2>2. GetOpcode(Stage(i, 1, <<>>, <<>>, <<>>, 0, 0)) = Stage(i, 1 + o, opc, <<>>, <<>>, 0, 0)
    BY AfterOpcode DEF OpcodeLen
  <2>3. GetModrm(Stage(i, 1 + o, opc, <<>>, <<>>, 0, 0)) = Stage(i, 2 + o, opc, m, <<>>, 0, 0)
    BY AfterModrm
  <2>4. GetSib(Stage(i, 2 + o, opc, m, <<>>, 0, 0)) = Stage(i, 2 + o + s, opc, m, b, 0, 0)
    BY AfterSib
  <2>5. GetDisplacement(Stage(i, 2 + o + s, opc, m, b, 0, 0)) = j
    BY AfterDisplacement
  <2> HIDE DEF opc, o, s, D, m, b, w, x, j
  <2> QED
    BY <2>1, <2>2, <2>3, <2>4, <2>5, Zenon
<1>2. /\ PrefixLen(i) \in Nat /\ o \in Nat /\ s \in {0, 1} /\ D \in {0, 1, 4} /\ I \in Nat
      /\ Len(w) = PrefixLen(i) + o + 1 + s + D + I
  BY OperandsAt
<1>3. x \in Nat /\ x + I \in Nat /\ (PrefixLen(i) + (x + I)) - 1 = PrefixLen(i) + o + 1 + s + D + I
  <2>1. PrefixLen(i) \in Nat /\ o \in Nat /\ s \in Nat /\ D \in Nat /\ I \in Nat
    BY <1>2
  <2> HIDE DEF o, s, D, I
  <2> QED
    BY <2>1
<1>4. GetImmediate(j) = c
  <2>1. j.opcode = opc /\ j.opnd_bytes = i.opnd
    BY StageFields
  <2>2. i.op \in Ops
    BY DEF Regular
  <2>3. /\ opc \notin HasMoffset
        /\ opc = <<\hc6>> <=> i.op = "imm8"
        /\ opc = <<\hc7>> <=> i.op = "imm"
    BY <2>2, OpcodeClasses
  <2> HIDE DEF j, opc
  <2>4. (CASE j.opcode \in HasMoffset -> MoffsetSize(j)
           [] j.opcode = <<\hc6>> -> 1
           [] j.opcode = <<\hc7>> -> Immv32Size(j)
           [] OTHER -> 0) = I
    BY <2>1, <2>3 DEF ImmLen, Immv32Size
  <2>5. GetImmediate(j) = Advance(j, I)
    BY <2>4 DEF GetImmediate
  <2>6. Advance(j, I) = c
    BY <1>2, <1>3, StageAdvances DEF j
  <2> QED
    BY <2>5, <2>6
<1>5. GetLength(c) = Stage(i, x + I, opc, m, b, i.disp, Len(w))
  <2>1. c.next = PrefixLen(i) + (x + I)
    BY StageFields
  <2>2. c.next - 1 = Len(w)
    BY <1>2, <1>3, <2>1
  <2>3. GetLength(c) = [c EXCEPT !.length = Len(w)]
    BY <2>2 DEF GetLength
  <2> HIDE DEF x, I, opc, m, b, w
  <2>4. [c EXCEPT !.length = Len(w)] = Stage(i, x + I, opc, m, b, i.disp, Len(w))
    BY DEF Stage, State
  <2> QED
    BY <2>3, <2>4
<1>6. Decode(w) = GetLength(GetImmediate(GetDisplacement(GetSib(GetModrm(GetOpcode(
                    GetPrefixes(InsnInit(w))))))))
  BY DEF Decode
<1> HIDE DEF j, c
<1> QED
  BY <1>1, <1>4, <1>5, <1>6

(* What DecodeMmio is to make of a mnemonic. *)
Kind(i) ==
    CASE i.op \in {"store8", "store"} -> "write"
      [] i.op \in {"imm8", "imm"} -> "write_imm"
      [] i.op \in {"load8", "load"} -> "read"
      [] i.op \in {"movzx8", "movzx16"} -> "read_zx"
      [] i.op \in {"movsx8", "movsx16"} -> "read_sx"
      [] OTHER -> "fail"

(* The decoder has found the instruction that was encoded. *)
DecodedRight(i) ==
    LET c == Decode(Encode(i)) IN
    /\ DecodeMmio(c).type = Kind(i)
    /\ Kind(i) # "fail" =>
         /\ DecodeMmio(c).len = X86Size(i)
         /\ c.opnd_bytes = i.opnd
         /\ c.length = Len(Encode(i))
         /\ DataReg(c) = i.data
         /\ AddrRef(c, Cpu) = NativeAddr(i, Cpu)
         /\ NativeAddr(i, Cpu) # -1

LEMMA DecodedOpcode ==
    ASSUME NEW i, Regular(i)
    PROVE  Decode(Encode(i)).opcode = Opcode[i.op]
<1>1. CASE i.op # "moffs"
  <2>1. PICK n : Decode(Encode(i)) = Stage(i, n, Opcode[i.op], <<ModrmByte(i)>>, SibOf(i),
                                           i.disp, Len(Encode(i)))
    BY <1>1, Decoded
  <2>2. Stage(i, n, Opcode[i.op], <<ModrmByte(i)>>, SibOf(i), i.disp,
              Len(Encode(i))).opcode = Opcode[i.op]
    BY StageFields
  <2> QED
    BY <2>1, <2>2
<1>2. CASE i.op = "moffs"
  <2> DEFINE opc == Opcode[i.op]
             o == OpcodeLen(i)
             w == Encode(i)
             j == Stage(i, 1 + o, opc, <<>>, <<>>, 0, 0)
             c == Stage(i, 1 + o + i.addr, opc, <<>>, <<>>, 0, 0)
  <2>1. GetOpcode(GetPrefixes(InsnInit(w))) = j /\ PrefixLen(i) \in Nat /\ o \in Nat
    BY AfterPrefixes, AfterOpcode DEF OpcodeLen
  <2>2. j.opcode = opc /\ j.modrm = <<>> /\ j.addr_bytes = i.addr
    BY StageFields
  <2>3. opc \notin HasModrm /\ opc \in HasMoffset /\ opc # <<\hc6>> /\ opc # <<\hc7>>
    <3>1. i.op \in Ops
      BY DEF Regular
    <3> QED
      BY <1>2, <3>1, OpcodeClasses
  <2>4. i.addr \in Nat /\ 1 + o \in Nat
    BY <2>1 DEF Regular
  <2> HIDE DEF j, opc, o
  <2>5. GetDisplacement(GetSib(GetModrm(j))) = j
    <3>1. GetModrm(j) = j
      BY <2>2, <2>3 DEF GetModrm
    <3>2. GetSib(j) = j
      BY <2>2 DEF GetSib
    <3>3. GetDisplacement(j) = j
      BY <2>2 DEF GetDisplacement, DisplacementSize
    <3> QED
      BY <3>1, <3>2, <3>3
  <2>6. GetImmediate(j) = Advance(j, i.addr)
    <3>1. (CASE j.opcode \in HasMoffset -> MoffsetSize(j)
             [] j.opcode = <<\hc6>> -> 1
             [] j.opcode = <<\hc7>> -> Immv32Size(j)
             [] OTHER -> 0) = i.addr
      BY <2>2, <2>3 DEF MoffsetSize
    <3> QED
      BY <3>1 DEF GetImmediate
  <2>7. Advance(j, i.addr) = c
    <3>1. PrefixLen(i) \in Nat /\ 1 + o \in Nat /\ i.addr \in Nat
      BY <2>1, <2>4
    <3> DEFINE n == 1 + o
               x == i.addr
    <3> HIDE DEF n, x
    <3>2. Advance(Stage(i, n, opc, <<>>, <<>>, 0, 0), x) = Stage(i, n + x, opc, <<>>, <<>>, 0, 0)
      <4>1. PrefixLen(i) \in Nat /\ n \in Nat /\ x \in Nat
        BY <3>1 DEF n, x
      <4> QED
        BY <4>1, StageAdvances
    <3> QED
      BY <3>2 DEF n, x, j
  <2>8. GetLength(c).opcode = opc
    <3>1. c.opcode = opc
      BY StageFields
    <3>2. [c EXCEPT !.length = c.next - 1].opcode = opc
      BY <3>1 DEF Stage, State
    <3> QED
      BY <3>2 DEF GetLength
  <2>9. Decode(w) = GetLength(c)
    BY <2>1, <2>5, <2>6, <2>7 DEF Decode
  <2> QED
    BY <2>8, <2>9 DEF opc
<1> QED
  BY <1>1, <1>2

LEMMA AccessDecoded ==
    ASSUME NEW i, Regular(i), NEW c, c.opcode = Opcode[i.op], c.opnd_bytes = i.opnd
    PROVE  /\ DecodeMmio(c).type = Kind(i)
           /\ Kind(i) # "fail" => DecodeMmio(c).len = X86Size(i)
<1> DEFINE opc == Opcode[i.op]
           byte == {<<\h88>>, <<\hc6>>, <<\h8a>>, <<\h0f, \hb6>>, <<\h0f, \hbe>>}
           word == {<<\h0f, \hb7>>, <<\h0f, \hbf>>}
           type == CASE opc \in {<<\h88>>, <<\h89>>} -> "write"
                     [] opc \in {<<\hc6>>, <<\hc7>>} -> "write_imm"
                     [] opc \in {<<\h8a>>, <<\h8b>>} -> "read"
                     [] opc \in {<<\h0f, \hb6>>, <<\h0f, \hb7>>} -> "read_zx"
                     [] opc \in {<<\h0f, \hbe>>, <<\h0f, \hbf>>} -> "read_sx"
                     [] OTHER -> "fail"
<1>1. i.op \in Ops
  BY DEF Regular
<1>2. /\ DecodeMmio(c).type = type
      /\ DecodeMmio(c).len = CASE type = "fail" -> 0
                               [] opc \in byte -> 1
                               [] opc \in word -> 2
                               [] OTHER -> i.opnd
  BY DEF DecodeMmio
<1>3. /\ opc \in {<<\h88>>, <<\h89>>} <=> i.op \in {"store8", "store"}
      /\ opc \in {<<\hc6>>, <<\hc7>>} <=> i.op \in {"imm8", "imm"}
      /\ opc \in {<<\h8a>>, <<\h8b>>} <=> i.op \in {"load8", "load"}
      /\ opc \in {<<\h0f, \hb6>>, <<\h0f, \hb7>>} <=> i.op \in {"movzx8", "movzx16"}
      /\ opc \in {<<\h0f, \hbe>>, <<\h0f, \hbf>>} <=> i.op \in {"movsx8", "movsx16"}
      /\ opc \in byte <=> i.op \in {"store8", "imm8", "load8", "movzx8", "movsx8"}
      /\ opc \in word <=> i.op \in {"movzx16", "movsx16"}
  BY <1>1, OpcodeClasses
<1>4. type = Kind(i)
  <2> HIDE DEF opc
  <2> QED
    BY <1>3 DEF Kind
<1>5. Kind(i) # "fail" => type # "fail"
  BY <1>4
<1> HIDE DEF opc, byte, word, type
<1>6. Kind(i) # "fail" => DecodeMmio(c).len = X86Size(i)
  BY <1>2, <1>3, <1>5 DEF X86Size
<1> QED
  BY <1>2, <1>4, <1>6


LEMMA Widths == Width(4) = 64 /\ Width(8) = 1024
BY DEF Width

LEMMA RegisterRight ==
    ASSUME NEW r \in 0 .. 15
    PROVE  (r % 8) + 8 * High(r) = r /\ Low(r) = r % 8
BY DEF High, Low, Rip, NoReg

(* The effective address, before it is cut to its width. *)
NativeSum(i, cpu) ==
    LET b == CASE i.base = Rip -> cpu.ip + Len(Encode(i))
               [] i.base = NoReg -> 0
               [] OTHER -> cpu.reg[i.base]
        x == IF i.index = NoReg THEN 0 ELSE cpu.reg[i.index] * 2 ^ i.scale
    IN  b + x + i.disp

LEMMA ScaleInt ==
    ASSUME NEW s \in 0 .. 3
    PROVE  2 ^ s \in Int
<1>1. CASE s = 0
  BY <1>1
<1>2. CASE s = 1
  BY <1>2
<1>3. CASE s = 2
  BY <1>3
<1>4. CASE s = 3
  BY <1>4
<1> QED
  BY <1>1, <1>2, <1>3, <1>4

LEMMA SumParts ==
    ASSUME NEW i, Regular(i)
    PROVE  LET b == CASE i.base = Rip -> Cpu.ip + Len(Encode(i))
                      [] i.base = NoReg -> 0
                      [] OTHER -> Cpu.reg[i.base]
               x == IF i.index = NoReg THEN 0 ELSE Cpu.reg[i.index] * 2 ^ i.scale
           IN  b \in Int /\ x \in Int /\ i.disp \in Int
<1>1. Len(Encode(i)) \in Int
  <2>1. Encode(i) \in Seq(Int)
    BY EncodedAt
  <2> QED
    BY <2>1
<1>2. /\ i.base \in 0 .. NoReg /\ i.index \in 0 .. 15 \cup {NoReg}
      /\ i.scale \in 0 .. 3 /\ i.disp \in Int
  BY DEF Regular
<1>3. i.base \notin {Rip, NoReg} => Cpu.reg[i.base] \in Int
  <2>1. i.base \notin {Rip, NoReg} => i.base \in 0 .. 15
    BY <1>2 DEF Rip, NoReg
  <2> QED
    BY <2>1, CpuAssumption
<1>4. i.index # NoReg => Cpu.reg[i.index] * 2 ^ i.scale \in Int
  <2>1. i.index # NoReg => Cpu.reg[i.index] \in Int
    BY <1>2, CpuAssumption
  <2>2. 2 ^ i.scale \in Int
    BY <1>2, ScaleInt
  <2> DEFINE e == 2 ^ i.scale
  <2> HIDE DEF e
  <2>3. i.index # NoReg => Cpu.reg[i.index] * e \in Int
    BY <2>1, <2>2 DEF e
  <2> QED
    BY <2>3 DEF e
<1>5. Cpu.ip + Len(Encode(i)) \in Int
  BY <1>1, CpuAssumption
<1> QED
  BY <1>2, <1>3, <1>4, <1>5

LEMMA EffectiveRight ==
    ASSUME NEW i, Regular(i), NEW c,
           c.modrm = <<ModrmByte(i)>>, c.sib = SibOf(i), c.rex = RexValue(i),
           c.displacement = i.disp, c.length = Len(Encode(i)), c.addr_bytes = i.addr
    PROVE  EffAddr(c, Cpu) = NativeSum(i, Cpu) % Width(i.addr)
<1>1. /\ i.mod \in 0 .. 2 /\ i.base \in 0 .. NoReg /\ i.index \in 0 .. 15 \cup {NoReg}
      /\ i.scale \in 0 .. 3
      /\ i.index # 4
      /\ i.base = Rip => i.index = NoReg
      /\ i.base \in {Rip, NoReg} => i.mod = 0
      /\ i.index = NoReg => i.scale = 0
      /\ i.base \notin {Rip, NoReg} /\ i.mod = 0 => i.base % 8 # 5
  BY DEF Regular, Encodable
<1>2. Bit(c.rex, 1) = High(i.index) /\ Bit(c.rex, 0) = High(i.base)
  BY RexBitsRight
<1>3. Head(c.modrm) = ModrmByte(i)
  OBVIOUS
<1>4. /\ Mod(ModrmByte(i)) = i.mod
      /\ Rm(ModrmByte(i)) = IF NeedsSib(i) THEN 4 ELSE Low(i.base)
      /\ Mod(SibByte(i)) = i.scale
      /\ Reg(SibByte(i)) = IF i.index = NoReg THEN 4 ELSE i.index % 8
      /\ Rm(SibByte(i)) = Low(i.base)
  BY ModrmFields
<1>5. i.base \notin {Rip, NoReg} => i.base \in 0 .. 15
  BY <1>1 DEF Rip, NoReg
<1>6. /\ i.base \notin {Rip, NoReg} => Low(i.base) = i.base % 8
                                        /\ (i.base % 8) + 8 * High(i.base) = i.base
      /\ i.base \in {Rip, NoReg} => Low(i.base) = 5
  BY <1>5, RegisterRight DEF Low
<1>7. IF i.index = NoReg THEN High(i.index) = 0 ELSE (i.index % 8) + 8 * High(i.index) = i.index
  BY <1>1, RegisterRight DEF High, NoReg
<1> DEFINE b == CASE i.base = Rip -> Cpu.ip + Len(Encode(i))
                  [] i.base = NoReg -> 0
                  [] OTHER -> Cpu.reg[i.base]
           x == IF i.index = NoReg THEN 0 ELSE Cpu.reg[i.index] * 2 ^ i.scale
<1>8. b \in Int /\ x \in Int /\ i.disp \in Int
  BY SumParts
<1>9. NativeSum(i, Cpu) = b + x + i.disp
  BY DEF NativeSum
<1>10. CASE NeedsSib(i)
  <2>1. c.sib # <<>> /\ Head(c.sib) = SibByte(i)
    BY <1>10 DEF SibOf
  <2>2. SibBase(c) = Low(i.base)
    BY <1>4, <2>1 DEF SibBase
  <2>3. i.base # Rip
    BY <1>1, <1>10 DEF NeedsSib, Rip, NoReg
  <2>4. BaseReg(c) = i.base
    <3>1. BaseReg(c) = IF i.mod = 0 /\ Low(i.base) = 5 THEN NoReg
                       ELSE Low(i.base) + 8 * High(i.base)
      BY <1>2, <1>3, <1>4, <2>2 DEF BaseReg
    <3>2. CASE i.base = NoReg
      BY <1>1, <1>6, <3>1, <3>2
    <3>3. CASE i.base # NoReg
      BY <1>1, <1>6, <2>3, <3>1, <3>3
    <3> QED
      BY <3>2, <3>3
  <2>5. IndexReg(c) = i.index
    <3>1. IndexReg(c) = IF Reg(SibByte(i)) + 8 * High(i.index) = 4 THEN NoReg
                        ELSE Reg(SibByte(i)) + 8 * High(i.index)
      BY <1>2, <2>1 DEF IndexReg
    <3> QED
      BY <1>1, <1>4, <1>7, <3>1
  <2>6. RegsGet(Cpu, i.base) = b
    BY <2>3 DEF RegsGet, Rip, NoReg
  <2>7. RegsGet(Cpu, i.index) * 2 ^ i.scale = x
    <3>1. CASE i.index = NoReg
      <4>1. i.scale = 0 /\ RegsGet(Cpu, i.index) = 0 /\ x = 0
        BY <1>1, <3>1 DEF RegsGet
      <4>2. 0 * 2 ^ 0 = 0
        OBVIOUS
      <4> QED
        BY <4>1, <4>2, Zenon
    <3>2. CASE i.index # NoReg
      BY <3>2 DEF RegsGet
    <3> QED
      BY <3>1, <3>2
  <2>8. EffAddr(c, Cpu) =
          (RegsGet(Cpu, BaseReg(c)) + RegsGet(Cpu, IndexReg(c)) * 2 ^ Mod(Head(c.sib))
             + c.displacement) % Width(c.addr_bytes)
    BY <2>1 DEF EffAddr, EffAddrSib
  <2>9. Mod(Head(c.sib)) = i.scale
    BY <1>4, <2>1
  <2> HIDE DEF b, x
  <2> QED
    BY <1>9, <2>4, <2>5, <2>6, <2>7, <2>8, <2>9, Zenon
<1>11. CASE ~NeedsSib(i)
  <2>1. c.sib = <<>> /\ i.index = NoReg /\ i.base # NoReg
    BY <1>11 DEF SibOf, NeedsSib
  <2>2. RmReg(c) = IF i.mod = 0 /\ Low(i.base) = 5 THEN NoReg
                   ELSE Low(i.base) + 8 * High(i.base)
    BY <1>2, <1>3, <1>4, <1>11 DEF RmReg
  <2>3. RmReg(c) = IF i.base = Rip THEN NoReg ELSE i.base
    <3>1. CASE i.base = Rip
      BY <1>1, <1>6, <2>2, <3>1
    <3>2. CASE i.base # Rip
      BY <1>1, <1>6, <2>1, <2>2, <3>2
    <3> QED
      BY <3>1, <3>2
  <2> DEFINE t == IF RmReg(c) = NoReg THEN Cpu.ip + c.length ELSE Cpu.reg[RmReg(c)]
  <2>4. t = b
    BY <2>1, <2>3 DEF Rip, NoReg
  <2>5. EffAddr(c, Cpu) = (t + i.disp) % Width(i.addr)
    BY <2>1 DEF EffAddr, EffAddrModrm
  <2>6. x = 0
    BY <2>1
  <2> HIDE DEF t, b, x
  <2>7. t + i.disp = b + x + i.disp
    BY <1>8, <2>4, <2>6
  <2> QED
    BY <1>9, <2>5, <2>7, Zenon
<1> QED
  BY <1>10, <1>11

LEMMA LinearRight ==
    ASSUME NEW i, Regular(i), NEW c,
           c.modrm = <<ModrmByte(i)>>, c.sib = SibOf(i), c.rex = RexValue(i),
           c.displacement = i.disp, c.length = Len(Encode(i)), c.addr_bytes = i.addr,
           c.prefixes = KeptPrefixes(LegacyPrefixes(i))
    PROVE  AddrRef(c, Cpu) = NativeAddr(i, Cpu) /\ NativeAddr(i, Cpu) # -1
<1> DEFINE eff == NativeSum(i, Cpu)
           seg == CASE SegmentOf(i) = "fs" -> Cpu.fs
                    [] SegmentOf(i) = "gs" -> Cpu.gs
                    [] OTHER -> 0
<1>1. ResolveSegReg(c) # "invalid" /\ SegBase(ResolveSegReg(c), Cpu) = seg
  BY FoundPrefixes, SegmentRight
<1>2. NativeAddr(i, Cpu) = ((eff % Width(i.addr)) + seg) % Width(8)
  BY DEF NativeAddr, NativeSum
<1>3. EffAddr(c, Cpu) = eff % Width(i.addr)
  BY EffectiveRight
<1>4. eff \in Int /\ seg \in Int
  <2>1. eff \in Int
    BY SumParts DEF NativeSum
  <2>2. seg \in Int
    BY CpuAssumption
  <2> QED
    BY <2>1, <2>2
<1>5. i.addr \in {4, 8}
  BY DEF Regular
<1> HIDE DEF eff, seg
<1>6. AddrRef(c, Cpu) = ((eff % Width(i.addr)) + seg) % Width(8)
  <2>1. CASE i.addr = 4
    <3>1. AddrRef(c, Cpu) = SegLinear(c, (eff % Width(4)) % Width(4), Cpu)
      BY <1>3, <2>1 DEF AddrRef, AddrRef32
    <3>2. (eff % Width(4)) % Width(4) = eff % Width(4)
      BY <1>4, Widths
    <3> QED
      BY <1>1, <2>1, <3>1, <3>2 DEF SegLinear
  <2>2. CASE i.addr = 8
    BY <1>1, <1>3, <2>2 DEF AddrRef, AddrRef64, SegLinear
  <2> QED
    BY <1>5, <2>1, <2>2
<1>7. NativeAddr(i, Cpu) # -1
  <2>1. eff % Width(i.addr) \in Int
    BY <1>4, <1>5, Widths
  <2> DEFINE a == (eff % Width(i.addr)) + seg
  <2>2. a \in Int
    BY <1>4, <2>1
  <2> HIDE DEF a
  <2>3. a % 1024 # -1
    BY <2>2
  <2> QED
    BY <1>2, <2>3, Widths DEF a
<1> QED
  BY <1>2, <1>6, <1>7

(* insn_decode(), insn_decode_mmio(), insn_get_addr_ref(): of every regular *)
(* instruction the decoder finds the kind of access, its size, the data     *)
(* register, the address and the length.                                    *)
THEOREM RegularDecodes ==
    ASSUME NEW i, Regular(i)
    PROVE  DecodedRight(i)
<1> DEFINE w == Encode(i)
           c == Decode(w)
<1>1. c.opcode = Opcode[i.op]
  BY DecodedOpcode
<1>2. CASE i.op = "moffs"
  <2>1. DecodeMmio(c).type = "fail" /\ Kind(i) = "fail"
    <3>1. c.opcode = <<\ha1>>
      BY <1>1, <1>2 DEF Opcode
    <3> HIDE DEF c
    <3> QED
      BY <1>2, <3>1 DEF DecodeMmio, Kind
  <2> QED
    BY <2>1 DEF DecodedRight
<1>3. CASE i.op # "moffs"
  <2>1. PICK n : c = Stage(i, n, Opcode[i.op], <<ModrmByte(i)>>, SibOf(i), i.disp, Len(w))
    BY <1>3, Decoded
  <2>2. /\ c.opnd_bytes = i.opnd /\ c.length = Len(w) /\ c.rex = RexValue(i)
        /\ c.modrm = <<ModrmByte(i)>> /\ c.sib = SibOf(i) /\ c.displacement = i.disp
        /\ c.addr_bytes = i.addr /\ c.prefixes = KeptPrefixes(LegacyPrefixes(i))
    <3> DEFINE d == Stage(i, n, Opcode[i.op], <<ModrmByte(i)>>, SibOf(i), i.disp, Len(w))
    <3>1. /\ d.opnd_bytes = i.opnd /\ d.length = Len(w) /\ d.rex = RexValue(i)
          /\ d.modrm = <<ModrmByte(i)>> /\ d.sib = SibOf(i) /\ d.displacement = i.disp
          /\ d.addr_bytes = i.addr /\ d.prefixes = KeptPrefixes(LegacyPrefixes(i))
      BY StageFields
    <3> QED
      BY <2>1, <3>1
  <2> HIDE DEF c
  <2>3. /\ DecodeMmio(c).type = Kind(i)
        /\ Kind(i) # "fail" => DecodeMmio(c).len = X86Size(i)
    BY <1>1, <2>2, AccessDecoded
  <2>4. DataReg(c) = i.data
    <3>1. Head(c.modrm) = ModrmByte(i) /\ Reg(ModrmByte(i)) = i.data % 8
      BY <2>2, ModrmFields
    <3>2. Bit(c.rex, 2) = High(i.data)
      BY <2>2, RexBitsRight
    <3>3. i.data \in 0 .. 15
      BY DEF Regular
    <3> QED
      BY <3>1, <3>2, <3>3, RegisterRight DEF DataReg
  <2>5. AddrRef(c, Cpu) = NativeAddr(i, Cpu) /\ NativeAddr(i, Cpu) # -1
    BY <2>2, LinearRight
  <2> QED
    BY <2>2, <2>3, <2>4, <2>5 DEF DecodedRight, c
<1> QED
  BY <1>2, <1>3

-----------------------------------------------------------------------------
(* TraceArch: the emulation *)

Decodes == \A i \in Insns : i.arch = "x86" => DecodedRight(i)

LEMMA InsnsDecode ==
    ASSUME RegularInsns
    PROVE  Decodes
BY RegularDecodes DEF RegularInsns, Decodes

NoTrace == events = <<>> /\ reg = was /\ base = {} /\ at = <<>>

Faulted ==
    /\ fate = "fault" /\ insn \in Insns /\ insn.arch = arch /\ NoTrace
    /\ racy \in Volatile

LEMMA PutPut ==
    ASSUME NEW dst, NEW src, NEW n \in Nat
    PROVE  /\ Put(Fill("zero"), Put(dst, src, n), n) = Put(Fill("zero"), src, n)
           /\ \A k \in 0 .. n - 1 : k \in Byte => Put(dst, src, n)[k] = src[k]
BY DEF Put, Fill, Byte

(* What a store makes true. *)
LEMMA Stored ==
    ASSUME Faulted, NEW n \in {1, 2, 4, 8}, NEW src, EmulateWrite(n, src),
           fate' = "emulated", insn' = insn, was' = was, reg' = reg,
           NativeStore(insn), NativeSize(insn) = n
    PROVE  /\ EventsTellAccess'
           /\ \A k \in 0 .. n - 1 : mem'[k] = src[k]
<1>1. /\ mem' = Put(mem, src, n) /\ events' = <<Notify("write", n, src)>>
  BY DEF EmulateWrite
<1>2. Notify("write", n, mem') = Notify("write", n, src)
  BY <1>1, PutPut DEF Notify
<1>3. \A k \in 0 .. n - 1 : mem'[k] = src[k]
  BY <1>1, PutPut DEF Byte
<1>4. NativeStore(insn)' = NativeStore(insn) /\ NativeSize(insn)' = NativeSize(insn)
  BY DEF NativeStore, NativeSize
<1>5. EventsTellAccess'
  BY <1>1, <1>2, <1>4 DEF EventsTellAccess, Notify
<1> QED
  BY <1>3, <1>5

(* What a load makes true, whatever becomes of the register. *)
LEMMA LoadTold ==
    ASSUME Faulted, NEW n \in {1, 2, 4, 8}, NEW r, EmulateRead(n, r),
           fate' = "emulated", insn' = insn, was' = was,
           ~NativeStore(insn), NativeSize(insn) = n
    PROVE  /\ EventsTellAccess'
           /\ reg' = r /\ mem \in seen'
<1>1. /\ reg' = r /\ mem' = mem /\ seen' = {mem} /\ events' = <<Notify("read", n, mem)>>
  BY DEF EmulateRead
<1>2. NativeStore(insn)' = NativeStore(insn) /\ NativeSize(insn)' = NativeSize(insn)
  BY DEF NativeStore, NativeSize
<1>3. EventsTellAccess'
  BY <1>1, <1>2 DEF EventsTellAccess, Notify
<1> QED
  BY <1>1, <1>3

LEMMA LoadedWide ==
    ASSUME NEW v, NEW n \in {1, 2, 4, 8}, NEW e \in {"sign", "zero"}
    PROVE  /\ Loaded(v, n, e, 8)
                = Put(Fill(IF e = "sign" THEN Sign(v, n) ELSE "zero"), v, n)
           /\ Loaded(v, n, e, 4)
                = Put(Fill("zero"),
                      Put(Fill(IF e = "sign" THEN Sign(v, n) ELSE "zero"), v, n), 4)
           /\ n <= 4 /\ e = "zero" => Loaded(v, n, e, 4) = Loaded(v, n, e, 8)
           /\ n = 8 => Loaded(v, n, e, 8) = Put(Fill("zero"), v, 8)
<1> DEFINE low == Put(Fill(IF e = "sign" THEN Sign(v, n) ELSE "zero"), v, n)
<1>1. Loaded(v, n, e, 8) = Put(Fill("zero"), low, 8)
  BY DEF Loaded
<1>2. Put(Fill("zero"), low, 8) = low
  <2>1. \A i \in Byte : i < 8
    BY DEF Byte
  <2> QED
    BY <2>1 DEF Put
<1>3. Loaded(v, n, e, 4) = Put(Fill("zero"), low, 4)
  BY DEF Loaded
<1>4. n <= 4 /\ e = "zero" => Put(Fill("zero"), low, 4) = low
  BY DEF Put, Fill, Byte
<1>5. n = 8 => low = Put(Fill("zero"), v, 8)
  BY DEF Put, Fill, Byte
<1> QED
  BY <1>1, <1>2, <1>3, <1>4, <1>5

(* Two fields of five bits next to each other. *)
LEMMA TwoFields ==
    ASSUME NEW a \in 0 .. 31, NEW b \in 0 .. 31
    PROVE  (32 * a + b) % 32 = b /\ ((32 * a + b) \div 32) % 32 = a
<1>1. (32 * a + b) % 32 = b
  OBVIOUS
<1>2. (32 * a + b) \div 32 = a
  OBVIOUS
<1>3. a % 32 = a
  OBVIOUS
<1> QED
  BY <1>1, <1>2, <1>3

LEMMA Arm64Fault ==
    ASSUME Faulted, EmulateArm64, insn' = insn, was' = was
    PROVE  /\ fate' \in {"emulated", "oops"}
           /\ EventsTellAccess'
           /\ insn.rn # 31 => AsNative'
<1> DEFINE d == IF insn.isv THEN DecodeIsv(insn) ELSE DecodeArm64(insn)
<1>0. insn.arch = "arm64" /\ insn \in Insns
  BY DEF EmulateArm64, Faulted
<1>1. /\ insn.arch = "arm64" /\ arch = "arm64"
      /\ insn.data \in 0 .. 31 /\ insn.rn \in 0 .. 31
      /\ insn.isv \in BOOLEAN
      /\ insn.size \in {1, 2, 4, 8} /\ insn.opc \in 0 .. 3
      /\ insn.isv => insn.form \notin {"pre", "post"}
  BY <1>0, InsnsAssumption DEF EmulateArm64
<1>11. Arm64Word(insn) % 32 = insn.data /\ (Arm64Word(insn) \div 32) % 32 = insn.rn
  BY <1>1, TwoFields DEF Arm64Word
<1>9. base' = IF /\ fate' = "emulated" /\ ~insn.isv
                 /\ insn.form \in {"pre", "post"} /\ insn.rn # 31
              THEN {insn.rn} ELSE {}
  BY <1>11 DEF EmulateArm64, Faulted, NoTrace
<1>10. EmulateAccess(d, 4)
  BY DEF EmulateArm64
<1>2. /\ fate' = IF d.ext = "fail" THEN "oops" ELSE "emulated"
      /\ d.ext = "fail" => UNCHANGED <<mem, reg, events, seen>>
      /\ d.ext # "fail" /\ d.store =>
           /\ EmulateWrite(d.size, IF ZeroReg(arch, d.reg) THEN Fill("zero") ELSE reg)
           /\ reg' = reg
      /\ d.ext # "fail" /\ ~d.store =>
           EmulateRead(d.size, IF ZeroReg(arch, d.reg) THEN reg ELSE Extended(d))
      /\ at' = IF d.ext = "fail" THEN at ELSE <<d.reg, 4>>
  <2> HIDE DEF d
  <2> QED
    BY <1>10 DEF EmulateAccess
<1>3. d.ext # "fail" =>
        /\ d.store <=> insn.opc = 0
        /\ d.size = insn.size /\ d.reg = insn.data
        /\ d.ext = IF insn.opc \in {2, 3} THEN "sign" ELSE "zero"
        /\ \/ d.wide <=> (insn.opc = 2 \/ insn.size = 8)
           \/ d.wide /\ d.ext = "zero" /\ insn.size <= 4
  <2>1. CASE insn.isv
    <3>1. d = DecodeIsv(insn)
      BY <2>1
    <3> HIDE DEF d
    <3> QED
      BY <1>1, <3>1 DEF DecodeIsv, AccessOf
  <2>2. CASE ~insn.isv
    <3>1. d = DecodeArm64(insn)
      BY <2>2
    <3> HIDE DEF d
    <3> SUFFICES ASSUME d.ext # "fail"
                 PROVE  /\ d.store <=> insn.opc = 0
                        /\ d.size = insn.size /\ d.reg = insn.data
                        /\ d.ext = IF insn.opc \in {2, 3} THEN "sign" ELSE "zero"
                        /\ \/ d.wide <=> (insn.opc = 2 \/ insn.size = 8)
                           \/ d.wide /\ d.ext = "zero" /\ insn.size <= 4
      OBVIOUS
    <3>2. ~(insn.size = 4 /\ insn.opc = 3) /\ ~(insn.size = 8 /\ insn.opc \in {2, 3})
      BY <3>1 DEF DecodeArm64, AccessOf, Undecoded
    <3>3. d = AccessOf(insn.opc = 0, insn.size,
                       IF insn.opc \in {2, 3} THEN "sign" ELSE "zero",
                       insn.opc # 3 /\ ~(insn.size = 4 /\ insn.opc = 1),
                       insn.data)
      BY <1>11, <3>1 DEF DecodeArm64, AccessOf, Undecoded
    <3>4. /\ d.store <=> insn.opc = 0
          /\ d.size = insn.size /\ d.reg = insn.data
          /\ d.ext = IF insn.opc \in {2, 3} THEN "sign" ELSE "zero"
      BY <3>3 DEF AccessOf
    <3>5. d.wide <=> insn.opc # 3 /\ ~(insn.size = 4 /\ insn.opc = 1)
      BY <3>3 DEF AccessOf
    <3> QED
      BY <1>1, <3>2, <3>4, <3>5
  <2> QED
    BY <1>1, <2>1, <2>2
<1>4. (NativeStore(insn) <=> insn.opc = 0) /\ NativeSize(insn) = insn.size
  BY <1>1 DEF NativeStore, NativeSize
<1>12. NativeLength(insn) = 4
  BY <1>1 DEF NativeLength
<1> DEFINE zr == ZeroReg(arch, insn.data)
<1>13. zr = ZeroReg(insn.arch, insn.data) /\ zr \in BOOLEAN
  BY <1>1 DEF ZeroReg
<1>5. /\ NativeStore(insn)' = NativeStore(insn) /\ NativeSize(insn)' = NativeSize(insn)
      /\ \A v : NativeLoad(insn, v)' = NativeLoad(insn, v)
      /\ NativeLength(insn)' = NativeLength(insn)
      /\ ZeroReg(insn.arch, insn.data)' = ZeroReg(insn.arch, insn.data)
  BY DEF NativeStore, NativeSize, NativeLoad, Loaded, NativeLength, ZeroReg
<1> HIDE DEF d, zr
<1>6. CASE d.ext = "fail"
  <2>1. /\ fate' = "oops" /\ events' = events /\ reg' = reg /\ base' = {} /\ at' = at
    BY <1>9, <1>2, <1>6
  <2> QED
    BY <2>1 DEF EventsTellAccess, AsNative, Faulted, NoTrace
<1>7. CASE d.ext # "fail" /\ d.store
  <2>0. /\ EmulateWrite(insn.size, IF zr THEN Fill("zero") ELSE reg)
        /\ reg' = reg /\ fate' = "emulated" /\ NativeStore(insn)
        /\ at' = <<insn.data, 4>>
    BY <1>2, <1>3, <1>4, <1>7 DEF zr
  <2>1. /\ EventsTellAccess' /\ reg' = reg
        /\ \A k \in 0 .. insn.size - 1 :
              mem'[k] = (IF zr THEN Fill("zero") ELSE reg)[k]
    BY <1>1, <1>4, <2>0, Stored
  <2>2. \A k \in 0 .. insn.size - 1 : mem'[k] = IF zr THEN "zero" ELSE was[k]
    BY <1>1, <1>13, <2>1 DEF Fill, Byte, Faulted, NoTrace
  <2>3. insn.rn # 31 => base' = IF insn.form \in {"pre", "post"} THEN {insn.rn} ELSE {}
    BY <1>1, <1>2, <1>9, <1>7
  <2>4. insn.rn # 31 => AsNative'
    BY <1>1, <1>2, <1>3, <1>4, <1>5, <1>7, <1>12, <1>13, <2>0, <2>1, <2>2, <2>3
       DEF AsNative, Faulted, NoTrace
  <2> QED
    BY <1>2, <1>7, <2>1, <2>4
<1>8. CASE d.ext # "fail" /\ ~d.store
  <2>1. /\ EventsTellAccess' /\ mem \in seen'
        /\ reg' = IF zr THEN reg ELSE Extended(d)
        /\ at' = <<insn.data, 4>>
    BY <1>1, <1>2, <1>3, <1>4, <1>8, LoadTold DEF zr
  <2>2. reg' = NativeLoad(insn, mem)
    <3> DEFINE e == IF insn.opc \in {2, 3} THEN "sign" ELSE "zero"
               w == IF insn.opc = 2 \/ insn.size = 8 THEN 8 ELSE 4
    <3>1. NativeLoad(insn, mem)
            = IF zr THEN was ELSE Loaded(mem, insn.size, e, w)
      BY <1>1, <1>4, <1>13 DEF NativeLoad
    <3>2. Extended(d) = Loaded(mem, insn.size, e, w)
      <4>1. /\ e \in {"sign", "zero"} /\ insn.size \in {1, 2, 4, 8}
            /\ d.ext = e /\ d.size = insn.size
            /\ d.wide => (w = 8 \/ (e = "zero" /\ insn.size <= 4))
            /\ ~d.wide => w = 4
            /\ w \in {4, 8}
        BY <1>1, <1>3, <1>8
      <4> HIDE DEF e, w
      <4> DEFINE low == Put(Fill(IF e = "sign" THEN Sign(mem, insn.size) ELSE "zero"),
                            mem, insn.size)
      <4>2. Extended(d) = IF d.wide THEN low ELSE Put(Fill("zero"), low, 4)
        BY <4>1 DEF Extended
      <4>3. /\ Loaded(mem, insn.size, e, 8) = low
            /\ Loaded(mem, insn.size, e, 4) = Put(Fill("zero"), low, 4)
            /\ insn.size <= 4 /\ e = "zero" =>
                 Loaded(mem, insn.size, e, 4) = Loaded(mem, insn.size, e, 8)
        BY <4>1, LoadedWide
      <4> HIDE DEF low
      <4> QED
        BY <4>1, <4>2, <4>3
    <3> QED
      BY <2>1, <3>1, <3>2 DEF Faulted, NoTrace
  <2>3. insn.rn # 31 => base' = IF insn.form \in {"pre", "post"} THEN {insn.rn} ELSE {}
    BY <1>1, <1>2, <1>9, <1>8
  <2>4. insn.rn # 31 => AsNative'
    BY <1>1, <1>2, <1>3, <1>4, <1>5, <1>8, <1>12, <2>1, <2>2, <2>3 DEF AsNative
  <2> QED
    BY <1>2, <1>8, <2>1, <2>4
<1> QED
  BY <1>6, <1>7, <1>8, <1>3

LEMMA Powers ==
    \A k \in 0 .. 3 : /\ 2 ^ k \in {1, 2, 4, 8}
                      /\ k = 2 => 2 ^ k = 4
                      /\ k = 3 => 2 ^ k = 8
<1> SUFFICES ASSUME NEW k \in 0 .. 3
             PROVE  2 ^ k \in {1, 2, 4, 8} /\ (k = 2 => 2 ^ k = 4) /\ (k = 3 => 2 ^ k = 8)
  OBVIOUS
<1>1. CASE k = 0
  BY <1>1
<1>2. CASE k = 1
  BY <1>2
<1>3. CASE k = 2
  BY <1>3
<1>4. CASE k = 3
  BY <1>4
<1> QED
  BY <1>1, <1>2, <1>3, <1>4

(* The sizes of riscv's accesses, by the low bits of f3. *)
LEMMA RiscvSizes ==
    ASSUME NEW f \in 0 .. 7
    PROVE  /\ 2 ^ (f % 4) \in {1, 2, 4, 8}
           /\ f \in {3, 7} => 2 ^ (f % 4) = 8
           /\ f \in {2, 6} => 2 ^ (f % 4) = 4
           /\ f < 4 => 2 ^ f = 2 ^ (f % 4)
           /\ f >= 4 => 2 ^ (f - 4) = 2 ^ (f % 4)
<1> DEFINE g == f % 4
<1>1. g \in 0 .. 3 /\ (f < 4 => g = f) /\ (f >= 4 => g = f - 4)
  OBVIOUS
<1> HIDE DEF g
<1>2. 2 ^ g \in {1, 2, 4, 8} /\ (g = 2 => 2 ^ g = 4) /\ (g = 3 => 2 ^ g = 8)
  BY <1>1, Powers
<1>3. f < 4 => 2 ^ f = 2 ^ g
  BY <1>1
<1>4. f >= 4 => 2 ^ (f - 4) = 2 ^ g
  BY <1>1
<1>5. (f \in {3, 7} => g = 3) /\ (f \in {2, 6} => g = 2)
  BY <1>1
<1> QED
  BY <1>2, <1>3, <1>4, <1>5 DEF g

LEMMA RvcDecoded ==
    ASSUME NEW i, i.form # "rvcother"
    PROVE  /\ i.f3 \in {2, 3} =>
                DecodeRvc(i) = AccessOf(FALSE, 2 ^ i.f3, "zero", TRUE, RvcReg(i, 7))
           /\ i.f3 \in {6, 7} =>
                DecodeRvc(i) = AccessOf(TRUE, 2 ^ (i.f3 - 4), "zero", TRUE, RvcReg(i, 2))
<1>1. i.f3 \in {2, 3} => i.f3 \notin {6, 7}
  OBVIOUS
<1> QED
  BY <1>1, Zenon DEF DecodeRvc

(* The data register as the decoders find it. *)
LEMMA RiscvRegs ==
    ASSUME NEW i, i.data \in 0 .. 31, i.rest \in 0 .. 31, i.f3 \in 0 .. 7,
           i.form = "rvc" => i.data \in 8 .. 15
    PROVE  /\ i.form = "load" => Bits(i, 7) = i.data
           /\ i.form = "store" => Bits(i, 20) = i.data
           /\ i.form = "rvc" => \A p : RvcReg(i, p) = i.data
           /\ i.form = "rvcsp" /\ i.f3 < 4 => RvcReg(i, 7) = i.data
           /\ i.form = "rvcsp" /\ i.f3 > 3 => RvcReg(i, 2) = i.data
<1>1. i.form = "load" => Bits(i, 7) = i.data
  BY DEF Bits, DataBit
<1>2. i.form = "store" => Bits(i, 20) = i.data
  BY DEF Bits, DataBit
<1>3. ASSUME i.form = "rvc", NEW p
      PROVE  RvcReg(i, p) = i.data
  <2> DEFINE h == i.rest \div 8
  <2>1. h \in Nat /\ i.data \in 8 .. 15
    BY <1>3
  <2>2. Bits(i, 2) = 8 * h + (i.data - 8)
    BY <1>3 DEF Bits, DataBit
  <2> HIDE DEF h
  <2>3. (8 * h + (i.data - 8)) % 8 = i.data - 8
    BY <2>1
  <2> QED
    BY <1>3, <2>1, <2>2, <2>3 DEF RvcReg
<1>4. i.form = "rvcsp" /\ i.f3 < 4 => RvcReg(i, 7) = i.data
  BY DEF RvcReg, Bits, DataBit
<1>5. i.form = "rvcsp" /\ i.f3 > 3 => RvcReg(i, 2) = i.data
  <2>1. i.f3 > 3 => ~(i.f3 < 4)
    OBVIOUS
  <2> QED
    BY <2>1 DEF RvcReg, Bits, DataBit
<1> QED
  BY <1>1, <1>2, <1>3, <1>4, <1>5

LEMMA RiscvDecoded ==
    ASSUME NEW i, i.arch = "riscv", i.f3 \in 0 .. 7,
           i.data \in 0 .. 31, i.rest \in 0 .. 31,
           i.form = "rvc" => i.data \in 8 .. 15,
           i.form \in {"load", "store", "other", "rvc", "rvcsp", "rvcother"},
           DecodeRiscv(i).ext # "fail"
    PROVE  LET d == DecodeRiscv(i) IN
           /\ d.store <=> NativeStore(i)
           /\ d.size = NativeSize(i) /\ d.size \in {1, 2, 4, 8}
           /\ d.wide
           /\ d.ext \in {"sign", "zero"}
           /\ ~d.store /\ ~(i.form \in {"rvc", "rvcsp"} /\ i.f3 = 2) =>
                d.size = 8 \/ d.ext = IF i.form # "load" \/ i.f3 < 4 THEN "sign" ELSE "zero"
           /\ d.reg = i.data
           /\ NativeLength(i) = IF IsRvc(i) THEN 2 ELSE 4
<1> DEFINE d == DecodeRiscv(i)
<1>1. /\ NativeStore(i) <=> i.form = "store" \/ (i.form \in {"rvc", "rvcsp"} /\ i.f3 > 3)
      /\ NativeSize(i) = 2 ^ (i.f3 % 4)
      /\ NativeLength(i) = IF i.form \in {"rvc", "rvcsp"} THEN 2 ELSE 4
      /\ IsRvc(i) <=> i.form \notin {"load", "store", "other"}
  BY DEF NativeStore, NativeSize, NativeLength, IsRvc
<1>5. /\ i.form = "load" => Bits(i, 7) = i.data
      /\ i.form = "store" => Bits(i, 20) = i.data
      /\ i.form \in {"rvc", "rvcsp"} /\ i.f3 < 4 => RvcReg(i, 7) = i.data
      /\ i.form \in {"rvc", "rvcsp"} /\ i.f3 > 3 => RvcReg(i, 2) = i.data
  BY RiscvRegs
<1>4. /\ 2 ^ (i.f3 % 4) \in {1, 2, 4, 8}
      /\ i.f3 \in {3, 7} => 2 ^ (i.f3 % 4) = 8
      /\ i.f3 \in {2, 6} => 2 ^ (i.f3 % 4) = 4
      /\ i.f3 < 4 => 2 ^ i.f3 = 2 ^ (i.f3 % 4)
      /\ i.f3 >= 4 => 2 ^ (i.f3 - 4) = 2 ^ (i.f3 % 4)
  BY RiscvSizes
<1>2. CASE i.form \in {"load", "store", "other"}
  <2>1. d = DecodeRiscv32(i)
    BY <1>1, <1>2 DEF DecodeRiscv
  <2>2. CASE i.form = "load" /\ i.f3 \in 0 .. 6
    <3>1. d = AccessOf(FALSE, 2 ^ (i.f3 % 4),
                       IF i.f3 \in 0 .. 2 THEN "sign" ELSE "zero", TRUE,
                       i.data)
      BY <1>5, <2>1, <2>2 DEF DecodeRiscv32
    <3>2. /\ ~d.store /\ d.wide /\ d.size = 2 ^ (i.f3 % 4)
          /\ d.ext = IF i.f3 \in 0 .. 2 THEN "sign" ELSE "zero"
          /\ d.reg = i.data
      BY <3>1 DEF AccessOf
    <3> HIDE DEF d
    <3>3. d.size \in {1, 2, 4, 8} /\ (i.f3 = 3 => d.size = 8)
      BY <1>4, <3>2
    <3> QED
      BY <1>1, <2>2, <3>2, <3>3 DEF d
  <2>3. CASE i.form = "store" /\ i.f3 \in 0 .. 3
    <3>1. d = AccessOf(TRUE, 2 ^ i.f3, "zero", TRUE, i.data)
      BY <1>5, <2>1, <2>3 DEF DecodeRiscv32
    <3>2. d.store /\ d.wide /\ d.size = 2 ^ i.f3 /\ d.ext = "zero" /\ d.reg = i.data
      BY <3>1 DEF AccessOf
    <3> HIDE DEF d
    <3>3. i.f3 < 4
      BY <2>3
    <3>4. d.size \in {1, 2, 4, 8} /\ d.size = NativeSize(i)
      BY <1>1, <1>4, <3>2, <3>3
    <3> QED
      BY <1>1, <2>3, <3>2, <3>4 DEF d
  <2>4. CASE ~(i.form = "load" /\ i.f3 \in 0 .. 6) /\ ~(i.form = "store" /\ i.f3 \in 0 .. 3)
    BY <2>1, <2>4 DEF DecodeRiscv32, Undecoded, AccessOf
  <2> QED
    BY <2>2, <2>3, <2>4
<1>6. CASE i.form = "rvcother"
  <2>1. d = DecodeRvc(i)
    BY <1>1, <1>6 DEF DecodeRiscv
  <2> QED
    BY <1>6, <2>1 DEF DecodeRvc, Undecoded, AccessOf
<1>3. CASE i.form = "rvc" \/ i.form = "rvcsp"
  <2>1. d = DecodeRvc(i) /\ i.form # "rvcother"
    BY <1>1, <1>3 DEF DecodeRiscv
  <2> DEFINE n == 2 ^ (i.f3 % 4)
  <2>2. CASE i.f3 = 2 \/ i.f3 = 3
    <3>1. 2 ^ i.f3 = n /\ n \in {4, 8} /\ (i.f3 = 3 => n = 8)
      BY <1>4, <2>2
    <3> HIDE DEF n
    <3>2. d = AccessOf(FALSE, n, "zero", TRUE, i.data)
      <4>1. DecodeRvc(i) = AccessOf(FALSE, 2 ^ i.f3, "zero", TRUE, RvcReg(i, 7))
        BY <2>1, <2>2, RvcDecoded
      <4>2. RvcReg(i, 7) = i.data
        BY <1>3, <1>5, <2>2
      <4> QED
        BY <2>1, <3>1, <4>1, <4>2, Zenon
    <3>3. ~d.store /\ d.wide /\ d.size = n /\ d.ext = "zero" /\ d.reg = i.data
      BY <3>2 DEF AccessOf
    <3> HIDE DEF d
    <3>4. NativeSize(i) = n
      BY <1>1 DEF n
    <3> QED
      BY <1>1, <1>3, <2>2, <3>1, <3>3, <3>4 DEF d
  <2>3. CASE i.f3 = 6 \/ i.f3 = 7
    <3>1. 2 ^ (i.f3 - 4) = n /\ n \in {4, 8}
      BY <1>4, <2>3
    <3> HIDE DEF n
    <3>2. d = AccessOf(TRUE, n, "zero", TRUE, i.data)
      <4>1. DecodeRvc(i) = AccessOf(TRUE, 2 ^ (i.f3 - 4), "zero", TRUE, RvcReg(i, 2))
        BY <2>1, <2>3, RvcDecoded
      <4>2. RvcReg(i, 2) = i.data
        BY <1>3, <1>5, <2>3
      <4> QED
        BY <2>1, <3>1, <4>1, <4>2, Zenon
    <3>3. d.store /\ d.wide /\ d.size = n /\ d.ext = "zero" /\ d.reg = i.data
      BY <3>2 DEF AccessOf
    <3> HIDE DEF d
    <3>4. NativeSize(i) = n
      BY <1>1 DEF n
    <3> QED
      BY <1>1, <1>3, <2>3, <3>1, <3>3, <3>4 DEF d
  <2>4. CASE i.f3 \notin {2, 3, 6, 7}
    BY <2>1, <2>4 DEF DecodeRvc, Undecoded, AccessOf
  <2> QED
    BY <2>2, <2>3, <2>4
<1> QED
  BY <1>2, <1>3, <1>6

LEMMA RiscvFault ==
    ASSUME Faulted, EmulateRiscv, base' = base, insn' = insn, was' = was
    PROVE  /\ fate' \in {"emulated", "oops"}
           /\ EventsTellAccess'
           /\ ~(insn.form \in {"rvc", "rvcsp"} /\ insn.f3 = 2) => AsNative'
<1> DEFINE d == DecodeRiscv(insn)
           len == IF IsRvc(insn) THEN 2 ELSE 4
<1>1. /\ insn.arch = "riscv" /\ arch = "riscv" /\ insn \in Insns
      /\ base = {} /\ base' = {}
  BY DEF EmulateRiscv, Faulted, NoTrace
<1>2. /\ insn.data \in 0 .. 31 /\ insn.rest \in 0 .. 31 /\ insn.f3 \in 0 .. 7
      /\ insn.form \in {"load", "store", "other", "rvc", "rvcsp", "rvcother"}
      /\ insn.form = "rvc" => insn.data \in 8 .. 15
  BY <1>1, InsnsAssumption
<1>3. EmulateAccess(d, len)
  BY DEF EmulateRiscv
<1>4. /\ fate' = IF d.ext = "fail" THEN "oops" ELSE "emulated"
      /\ d.ext = "fail" => UNCHANGED <<mem, reg, events, seen>>
      /\ d.ext # "fail" /\ d.store =>
           /\ EmulateWrite(d.size, IF ZeroReg(arch, d.reg) THEN Fill("zero") ELSE reg)
           /\ reg' = reg
      /\ d.ext # "fail" /\ ~d.store =>
           EmulateRead(d.size, IF ZeroReg(arch, d.reg) THEN reg ELSE Extended(d))
      /\ at' = IF d.ext = "fail" THEN at ELSE <<d.reg, len>>
  <2> HIDE DEF d, len
  <2> QED
    BY <1>3 DEF EmulateAccess
<1>5. d.ext # "fail" =>
        /\ d.store <=> NativeStore(insn)
        /\ d.size = NativeSize(insn) /\ d.size \in {1, 2, 4, 8}
        /\ d.wide
        /\ d.ext \in {"sign", "zero"}
        /\ ~d.store /\ ~(insn.form \in {"rvc", "rvcsp"} /\ insn.f3 = 2) =>
             \/ d.size = 8
             \/ d.ext = IF insn.form # "load" \/ insn.f3 < 4 THEN "sign" ELSE "zero"
        /\ d.reg = insn.data /\ len = NativeLength(insn)
  BY <1>1, <1>2, RiscvDecoded
<1>6. /\ NativeStore(insn)' = NativeStore(insn) /\ NativeSize(insn)' = NativeSize(insn)
      /\ \A v : NativeLoad(insn, v)' = NativeLoad(insn, v)
      /\ NativeLength(insn)' = NativeLength(insn)
      /\ ZeroReg(insn.arch, insn.data)' = ZeroReg(insn.arch, insn.data)
  BY DEF NativeStore, NativeSize, NativeLoad, Loaded, NativeLength, ZeroReg
<1> DEFINE zr == ZeroReg(arch, insn.data)
<1>10. zr = ZeroReg(insn.arch, insn.data) /\ zr \in BOOLEAN
  BY <1>1 DEF ZeroReg
<1> HIDE DEF d, len, zr
<1>7. CASE d.ext = "fail"
  <2>1. /\ fate' = "oops" /\ events' = events /\ reg' = reg /\ at' = at
    BY <1>4, <1>7
  <2> QED
    BY <1>1, <2>1 DEF EventsTellAccess, AsNative, Faulted, NoTrace
<1>8. CASE d.ext # "fail" /\ d.store
  <2>1. /\ EmulateWrite(d.size, IF zr THEN Fill("zero") ELSE reg)
        /\ reg' = reg /\ fate' = "emulated" /\ NativeStore(insn)
        /\ d.size = NativeSize(insn) /\ d.size \in {1, 2, 4, 8}
        /\ at' = <<insn.data, NativeLength(insn)>>
    BY <1>4, <1>5, <1>8 DEF zr
  <2>2. /\ EventsTellAccess'
        /\ \A k \in 0 .. d.size - 1 :
              mem'[k] = (IF zr THEN Fill("zero") ELSE reg)[k]
    BY <2>1, Stored
  <2>3. \A k \in 0 .. d.size - 1 : mem'[k] = IF zr THEN "zero" ELSE was[k]
    BY <1>2, <1>10, <2>1, <2>2 DEF Fill, Byte, Faulted, NoTrace
  <2>4. base' = {}
    BY <1>1
  <2>5. AsNative'
    BY <1>1, <1>6, <1>10, <2>1, <2>3, <2>4 DEF AsNative, Faulted, NoTrace
  <2> QED
    BY <2>1, <2>2, <2>5
<1>9. CASE d.ext # "fail" /\ ~d.store
  <2>1. /\ EmulateRead(d.size, IF zr THEN reg ELSE Extended(d))
        /\ fate' = "emulated" /\ ~NativeStore(insn)
        /\ d.size = NativeSize(insn) /\ d.size \in {1, 2, 4, 8}
        /\ at' = <<insn.data, NativeLength(insn)>>
    BY <1>4, <1>5, <1>9 DEF zr
  <2>2. /\ EventsTellAccess' /\ mem \in seen'
        /\ reg' = IF zr THEN reg ELSE Extended(d)
    BY <2>1, LoadTold
  <2>3. ASSUME ~(insn.form \in {"rvc", "rvcsp"} /\ insn.f3 = 2)
        PROVE  reg' = NativeLoad(insn, mem)
    <3> DEFINE e == IF insn.form # "load" \/ insn.f3 < 4 THEN "sign" ELSE "zero"
    <3>1. NativeLoad(insn, mem)
            = IF zr THEN was ELSE Loaded(mem, d.size, e, 8)
      BY <1>1, <1>2, <1>10, <2>1 DEF NativeLoad
    <3>2. e \in {"sign", "zero"} /\ (d.size = 8 \/ d.ext = e)
      BY <1>5, <1>9, <2>3
    <3> HIDE DEF e
    <3>3. Extended(d) = Put(Fill(IF d.ext = "sign" THEN Sign(mem, d.size) ELSE "zero"),
                            mem, d.size)
      BY <1>5, <1>9 DEF Extended
    <3>4. /\ Loaded(mem, d.size, d.ext, 8)
                = Put(Fill(IF d.ext = "sign" THEN Sign(mem, d.size) ELSE "zero"),
                      mem, d.size)
          /\ d.size = 8 => Loaded(mem, d.size, e, 8) = Loaded(mem, d.size, d.ext, 8)
      BY <1>5, <1>9, <2>1, <3>2, LoadedWide
    <3>5. Extended(d) = Loaded(mem, d.size, e, 8)
      BY <3>2, <3>3, <3>4
    <3> QED
      BY <2>2, <3>1, <3>5 DEF Faulted, NoTrace
  <2>4. base' = {}
    BY <1>1
  <2>5. ~(insn.form \in {"rvc", "rvcsp"} /\ insn.f3 = 2) => AsNative'
    BY <1>1, <1>6, <2>1, <2>2, <2>3, <2>4 DEF AsNative
  <2> QED
    BY <2>1, <2>2, <2>5
<1> QED
  BY <1>7, <1>8, <1>9, <1>5

(* What emulate_pf_instruction() does, in terms of what has been decoded. *)
LEMMA X86Emulated ==
    ASSUME EmulateX86, DecodedRight(insn)
    PROVE  LET n == X86Size(insn)
               K == Kind(insn)
           IN  /\ fate' = IF K = "fail" THEN "oops"
                          ELSE IF K = "write_imm" /\ n > 4 THEN "bug" ELSE "emulated"
               /\ fate' # "emulated" => UNCHANGED <<mem, reg, at, events, seen>>
               /\ fate' = "emulated" =>
                    /\ at' = <<NativeAddr(insn, Cpu), insn.data, Len(Encode(insn))>>
                    /\ K \in {"write", "write_imm"} => EmulateWrite(n, reg) /\ reg' = reg
                    /\ K = "read" =>
                         EmulateRead(n, Put(IF n = 4 THEN Fill("zero") ELSE reg, mem, n))
                    /\ K = "read_zx" =>
                         EmulateRead(n, Put(Put(reg, Fill("zero"), insn.opnd), mem, n))
                    /\ K = "read_sx" =>
                         \E v \in Later :
                            /\ mem' = v
                            /\ seen' = {mem, v}
                            /\ events' = <<Notify("read", n, mem), Notify("read", n, v)>>
                            /\ reg' = Put(Put(reg, Fill(Sign(mem, n)), insn.opnd), v, n)
<1> DEFINE i == Decode(Encode(insn))
           d == DecodeMmio(i)
           addr == AddrRef(i, Cpu)
           cleared == Put(reg, Fill("zero"), i.opnd_bytes)
           n == X86Size(insn)
           K == Kind(insn)
<1>1. /\ d.type = K
      /\ K # "fail" => /\ d.len = n /\ i.opnd_bytes = insn.opnd
                       /\ i.length = Len(Encode(insn)) /\ DataReg(i) = insn.data
                       /\ addr = NativeAddr(insn, Cpu) /\ addr # -1
  BY DEF DecodedRight
<1>2. /\ fate' = CASE d.type = "fail" -> "oops"
                   [] d.type = "write_imm" /\ d.len > 4 -> "bug"
                   [] d.type # "fail" /\ addr = -1 -> "bug"
                   [] OTHER -> "emulated"
      /\ IF fate' # "emulated" THEN UNCHANGED <<mem, reg, at, events, seen>>
         ELSE /\ at' = <<addr, DataReg(i), i.length>>
              /\ CASE d.type \in {"write", "write_imm"} ->
                        EmulateWrite(d.len, reg) /\ UNCHANGED reg
                   [] d.type = "read" ->
                        EmulateRead(d.len, Put(IF d.len = 4 THEN Fill("zero") ELSE reg,
                                               mem, d.len))
                   [] d.type = "read_zx" -> EmulateRead(d.len, Put(cleared, mem, d.len))
                   [] d.type = "read_sx" ->
                        \E v \in Later :
                          /\ mem' = v
                          /\ seen' = {mem, v}
                          /\ events' = <<Notify("read", d.len, mem),
                                        Notify("read", d.len, v)>>
                          /\ reg' = Put(Put(reg, Fill(Sign(mem, d.len)), i.opnd_bytes),
                                        v, d.len)
  BY DEF EmulateX86
<1> HIDE DEF i, d, addr
<1>3. K \in {"write", "write_imm", "read", "read_zx", "read_sx", "fail"}
  BY DEF Kind
<1>4. fate' = IF K = "fail" THEN "oops"
              ELSE IF K = "write_imm" /\ n > 4 THEN "bug" ELSE "emulated"
  <2> HIDE DEF K, n
  <2> QED
    BY <1>1, <1>2, <1>3
<1>5. fate' # "emulated" => UNCHANGED <<mem, reg, at, events, seen>>
  BY <1>2
<1>6. ASSUME fate' = "emulated"
      PROVE  /\ at' = <<NativeAddr(insn, Cpu), insn.data, Len(Encode(insn))>>
             /\ K \in {"write", "write_imm"} => EmulateWrite(n, reg) /\ reg' = reg
             /\ K = "read" =>
                  EmulateRead(n, Put(IF n = 4 THEN Fill("zero") ELSE reg, mem, n))
             /\ K = "read_zx" =>
                  EmulateRead(n, Put(Put(reg, Fill("zero"), insn.opnd), mem, n))
             /\ K = "read_sx" =>
                  \E v \in Later :
                     /\ mem' = v
                     /\ seen' = {mem, v}
                     /\ events' = <<Notify("read", n, mem), Notify("read", n, v)>>
                     /\ reg' = Put(Put(reg, Fill(Sign(mem, n)), insn.opnd), v, n)
  <2> HIDE DEF K, n
  <2>1. K # "fail"
    BY <1>4, <1>6
  <2>2. d.len = n /\ i.opnd_bytes = insn.opnd /\ i.length = Len(Encode(insn))
        /\ DataReg(i) = insn.data /\ addr = NativeAddr(insn, Cpu) /\ d.type = K
    BY <1>1, <2>1
  <2>3. at' = <<NativeAddr(insn, Cpu), insn.data, Len(Encode(insn))>>
    BY <1>2, <1>6, <2>2
  <2>4. K \in {"write", "write_imm"} => EmulateWrite(n, reg) /\ reg' = reg
    BY <1>2, <1>6, <2>2
  <2>5. K = "read" => EmulateRead(n, Put(IF n = 4 THEN Fill("zero") ELSE reg, mem, n))
    BY <1>2, <1>6, <2>2
  <2>6. K = "read_zx" => EmulateRead(n, Put(Put(reg, Fill("zero"), insn.opnd), mem, n))
    BY <1>2, <1>6, <2>2
  <2>7. K = "read_sx" =>
          \E v \in Later :
             /\ mem' = v
             /\ seen' = {mem, v}
             /\ events' = <<Notify("read", n, mem), Notify("read", n, v)>>
             /\ reg' = Put(Put(reg, Fill(Sign(mem, n)), insn.opnd), v, n)
    BY <1>2, <1>6, <2>2
  <2> QED
    BY <2>3, <2>4, <2>5, <2>6, <2>7
<1> QED
  BY <1>4, <1>5, <1>6

LEMMA X86Fault ==
    ASSUME Faulted, EmulateX86, DecodedRight(insn),
           base' = base, insn' = insn, was' = was
    PROVE  /\ fate' \in {"emulated", "oops", "bug"}
           /\ EventsTellAccess'
           /\ /\ ~racy
              /\ insn.op = "imm" => insn.opnd # 8
              /\ insn.op \in {"movzx8", "movzx16", "movsx8", "movsx16"} => insn.opnd # 4
              => AsNative'
<1> DEFINE n == X86Size(insn)
           K == Kind(insn)
           NoDev == /\ ~racy
                    /\ insn.op = "imm" => insn.opnd # 8
                    /\ insn.op \in {"movzx8", "movzx16", "movsx8", "movsx16"}
                         => insn.opnd # 4
<1>1. /\ insn.arch = "x86" /\ insn \in Insns /\ base = {} /\ base' = {}
      /\ fate = "fault" /\ events = <<>> /\ reg = was /\ at = <<>>
  BY DEF EmulateX86, Faulted, NoTrace
<1>2. /\ insn.opnd \in {2, 4, 8}
      /\ ~ZeroReg(insn.arch, insn.data) /\ ~ZeroReg(insn.arch, insn.data)'
  BY <1>1, InsnsAssumption DEF ZeroReg
<1>3. /\ K \in {"write", "write_imm", "read", "read_zx", "read_sx", "fail"}
      /\ NativeStore(insn) <=> K \in {"write", "write_imm"}
      /\ NativeSize(insn) = n /\ n \in {1, 2, 4, 8}
      /\ K \in {"read_zx", "read_sx"} <=>
           insn.op \in {"movzx8", "movzx16", "movsx8", "movsx16"}
      /\ K = "read_sx" <=> insn.op \in {"movsx8", "movsx16"}
      /\ K \in {"read_zx", "read_sx"} => n \in {1, 2}
      /\ K = "write_imm" /\ n > 4 => insn.op = "imm" /\ insn.opnd = 8
  BY <1>1, <1>2 DEF Kind, NativeStore, NativeSize, X86Store, X86Size
<1>4. /\ NativeStore(insn)' = NativeStore(insn) /\ NativeSize(insn)' = NativeSize(insn)
      /\ \A v : NativeLoad(insn, v)' = NativeLoad(insn, v)
  BY DEF NativeStore, NativeSize, NativeLoad, Loaded
<1>5. /\ fate' = IF K = "fail" THEN "oops"
                 ELSE IF K = "write_imm" /\ n > 4 THEN "bug" ELSE "emulated"
      /\ fate' # "emulated" => UNCHANGED <<mem, reg, at, events, seen>>
      /\ fate' = "emulated" =>
           /\ at' = <<NativeAddr(insn, Cpu), insn.data, Len(Encode(insn))>>
           /\ K \in {"write", "write_imm"} => EmulateWrite(n, reg) /\ reg' = reg
           /\ K = "read" => EmulateRead(n, Put(IF n = 4 THEN Fill("zero") ELSE reg, mem, n))
           /\ K = "read_zx" => EmulateRead(n, Put(Put(reg, Fill("zero"), insn.opnd), mem, n))
           /\ K = "read_sx" =>
                \E v \in Later :
                   /\ mem' = v
                   /\ seen' = {mem, v}
                   /\ events' = <<Notify("read", n, mem), Notify("read", n, v)>>
                   /\ reg' = Put(Put(reg, Fill(Sign(mem, n)), insn.opnd), v, n)
  BY X86Emulated
<1>6. \A v : NativeLoad(insn, v)
               = Loaded(v, n, IF insn.op \in {"movsx8", "movsx16"} THEN "sign" ELSE "zero",
                        IF insn.op = "load8" THEN 1 ELSE insn.opnd)
  BY <1>1, <1>3 DEF NativeLoad
<1>7. K = "read" => \/ insn.op = "load8" /\ n = 1
                    \/ insn.op = "load" /\ n = insn.opnd
  BY DEF Kind, X86Size
<1> HIDE DEF n, K
<1>8. CASE fate' # "emulated"
  <2>1. /\ UNCHANGED <<mem, reg, at, events, seen>>
        /\ fate' \in {"oops", "bug"} /\ (NoDev => fate' = "oops")
    BY <1>3, <1>5, <1>8
  <2> QED
    BY <1>1, <2>1 DEF EventsTellAccess, AsNative
<1>9. CASE fate' = "emulated"
  <2>1. at' = <<NativeAddr(insn, Cpu), insn.data, Len(Encode(insn))>>
    BY <1>5, <1>9
  <2>2. K # "fail"
    BY <1>5, <1>9
  <2>3. CASE K \in {"write", "write_imm"}
    <3>1. EmulateWrite(n, reg) /\ reg' = reg /\ NativeStore(insn)
      BY <1>3, <1>5, <1>9, <2>3
    <3>2. /\ EventsTellAccess'
          /\ \A k \in 0 .. n - 1 : mem'[k] = reg[k]
      BY <1>3, <1>9, <3>1, Stored
    <3>3. AsNative'
      BY <1>1, <1>2, <1>3, <1>4, <1>9, <2>1, <3>1, <3>2 DEF AsNative
    <3> QED
      BY <1>9, <3>2, <3>3
  <2>4. ASSUME NEW r, EmulateRead(n, r), ~NativeStore(insn),
               NoDev => r = NativeLoad(insn, mem)
        PROVE  EventsTellAccess' /\ (NoDev => AsNative')
    <3>1. EventsTellAccess' /\ reg' = r /\ mem \in seen'
      BY <1>3, <1>9, <2>4, LoadTold
    <3>2. NoDev => AsNative'
      BY <1>1, <1>4, <1>9, <2>1, <2>4, <3>1 DEF AsNative
    <3> QED
      BY <3>1, <3>2
  <2>5. CASE K = "read"
    <3> DEFINE r == Put(IF n = 4 THEN Fill("zero") ELSE reg, mem, n)
    <3>1. EmulateRead(n, r) /\ ~NativeStore(insn)
      BY <1>3, <1>5, <1>9, <2>5
    <3>2. NativeLoad(insn, mem) = Loaded(mem, n, "zero", n)
      BY <1>3, <1>6, <1>7, <2>5
    <3>3. r = Loaded(mem, n, "zero", n)
      <4>1. n \in {1, 2, 4, 8}
        BY <1>3
      <4> QED
        BY <1>1, <4>1 DEF Loaded, Put, Fill, Byte
    <3> HIDE DEF r
    <3> QED
      BY <1>9, <2>4, <3>1, <3>2, <3>3
  <2>6. CASE K = "read_zx"
    <3> DEFINE r == Put(Put(reg, Fill("zero"), insn.opnd), mem, n)
    <3>1. EmulateRead(n, r) /\ ~NativeStore(insn)
      BY <1>3, <1>5, <1>9, <2>6
    <3>2. NativeLoad(insn, mem) = Loaded(mem, n, "zero", insn.opnd)
      BY <1>3, <1>6, <2>6
    <3>3. NoDev => r = Loaded(mem, n, "zero", insn.opnd)
      <4>1. n \in {1, 2} /\ (NoDev => insn.opnd \in {2, 8})
        BY <1>2, <1>3, <2>6
      <4> QED
        BY <1>1, <4>1 DEF Loaded, Put, Fill, Byte
    <3> HIDE DEF r
    <3> QED
      BY <1>9, <2>4, <3>1, <3>2, <3>3
  <2>7. CASE K = "read_sx"
    <3>1. PICK v \in Later :
            /\ mem' = v
            /\ seen' = {mem, v}
            /\ events' = <<Notify("read", n, mem), Notify("read", n, v)>>
            /\ reg' = Put(Put(reg, Fill(Sign(mem, n)), insn.opnd), v, n)
      BY <1>5, <1>9, <2>7
    <3>2. ~NativeStore(insn)
      BY <1>3, <2>7
    <3>3. EventsTellAccess'
      BY <1>3, <1>4, <1>9, <3>1, <3>2 DEF EventsTellAccess, Notify
    <3>4. ASSUME NoDev
          PROVE  AsNative'
      <4>1. v = mem
        BY <3>1, <3>4 DEF Later
      <4>2. NativeLoad(insn, mem) = Loaded(mem, n, "sign", insn.opnd)
        BY <1>3, <1>6, <2>7
      <4>3. reg' = Loaded(mem, n, "sign", insn.opnd)
        <5>1. n \in {1, 2} /\ insn.opnd \in {2, 8}
          BY <1>2, <1>3, <2>7, <3>4
        <5> QED
          BY <1>1, <3>1, <4>1, <5>1 DEF Loaded, Put, Fill, Byte
      <4> QED
        BY <1>1, <1>4, <1>9, <2>1, <3>1, <3>2, <4>2, <4>3 DEF AsNative
    <3> QED
      BY <1>9, <3>3, <3>4
  <2> QED
    BY <1>3, <2>2, <2>3, <2>5, <2>6, <2>7
<1> QED
  BY <1>8, <1>9

(* One instruction is run, and nothing is left of it before it is emulated.  *)
EmulationInv ==
    /\ racy \in Volatile
    /\ fate \in {"none", "fault", "emulated", "oops", "bug"}
    /\ fate \in {"none", "fault"} => NoTrace
    /\ fate = "fault" => insn \in Insns /\ insn.arch = arch
    /\ fate \notin {"none", "fault"} => EventsTellAccess /\ (NoDeviation => AsNative)

LEMMA EmulationInit == ArchInit => EmulationInv
BY DEF ArchInit, EmulationInv, NoTrace

LEMMA EmulationUnchanged ==
    ASSUME EmulationInv, UNCHANGED <<static, access>>
    PROVE  EmulationInv'
<1>1. /\ arch' = arch /\ racy' = racy
      /\ insn' = insn /\ mem' = mem /\ reg' = reg /\ was' = was /\ base' = base
      /\ at' = at /\ fate' = fate /\ events' = events /\ seen' = seen
  BY DEF static, access
<1>2. /\ NoTrace' = NoTrace /\ AsNative' = AsNative
      /\ EventsTellAccess' = EventsTellAccess
  BY <1>1 DEF NoTrace, AsNative, EventsTellAccess, NativeStore, NativeSize, NativeLoad,
              Loaded, NativeLength, ZeroReg
<1> QED
  BY <1>1, <1>2 DEF EmulationInv

LEMMA EmulationStep ==
    ASSUME Decodes, EmulationInv, [ArchNext]_archVars
    PROVE  EmulationInv'
<1>1. CASE PoisonX86 \/ PoisonArm64 \/ PoisonRiscv
  BY <1>1, EmulationUnchanged DEF PoisonX86, PoisonArm64, PoisonRiscv, PoisonOne
<1>2. CASE PoisonDone \/ PoisonFails \/ Unmap \/ RestoreDone
  BY <1>2, EmulationUnchanged DEF PoisonDone, PoisonFails, Unmap, RestoreDone
<1>3. CASE RestoreX86 \/ RestoreArm64 \/ RestoreRiscv
  BY <1>3, EmulationUnchanged DEF RestoreX86, RestoreArm64, RestoreRiscv, RestoreOne
<1>4. CASE UNCHANGED archVars
  BY <1>4, EmulationUnchanged DEF archVars
<1>5. ASSUME NEW i \in Insns, Run(i)
      PROVE  EmulationInv'
  BY <1>5 DEF Run, EmulationInv, NoTrace, static
<1>6. CASE EmulateFault
  <2>1. Faulted
    BY <1>6 DEF EmulateFault, Faulted, EmulationInv
  <2>2. insn' = insn /\ was' = was /\ racy' = racy
    BY <1>6 DEF EmulateFault, static
  <2>3. /\ fate' \in {"emulated", "oops", "bug"}
        /\ EventsTellAccess' /\ (NoDeviation => AsNative')
    <3>1. CASE EmulateX86 /\ UNCHANGED base
      <4>1. insn \in Insns /\ insn.arch = "x86"
        BY <2>1, <3>1 DEF EmulateX86, Faulted
      <4>2. DecodedRight(insn)
        BY <4>1 DEF Decodes
      <4>3. NoDeviation => /\ ~racy
                           /\ insn.op = "imm" => insn.opnd # 8
                           /\ insn.op \in {"movzx8", "movzx16", "movsx8", "movsx16"}
                                => insn.opnd # 4
        BY <2>1, <4>1, VolatileAssumption DEF NoDeviation, Faulted
      <4> QED
        BY <2>1, <2>2, <3>1, <4>2, <4>3, X86Fault
    <3>2. CASE EmulateArm64
      <4>1. NoDeviation => insn.rn # 31
        BY <2>1, <3>2 DEF NoDeviation, Faulted, EmulateArm64
      <4> QED
        BY <2>1, <2>2, <3>2, <4>1, Arm64Fault
    <3>3. CASE EmulateRiscv /\ UNCHANGED base
      <4>1. NoDeviation => ~(insn.form \in {"rvc", "rvcsp"} /\ insn.f3 = 2)
        BY <2>1, <3>3 DEF NoDeviation, Faulted, EmulateRiscv
      <4> QED
        BY <2>1, <2>2, <3>3, <4>1, RiscvFault
    <3> QED
      BY <1>6, <3>1, <3>2, <3>3 DEF EmulateFault
  <2> QED
    BY <2>1, <2>2, <2>3 DEF EmulationInv, Faulted
<1> QED
  BY <1>1, <1>2, <1>3, <1>4, <1>5, <1>6 DEF ArchNext

LEMMA EmulationSound ==
    ASSUME EmulationInv
    PROVE  EventsTellAccess /\ (NoDeviation => AsNative)
BY DEF EmulationInv, EventsTellAccess, AsNative, NoTrace

(* emulate_*(): the events of an emulated access tell its kind, its size    *)
(* and its data; an access that is not emulated leaves no trace.            *)
THEOREM EventsTell ==
    ASSUME RegularInsns
    PROVE  ArchSpec => []EventsTellAccess
<1>0. Decodes
  BY InsnsDecode
<1>1. ArchInit => EmulationInv
  BY <1>0, EmulationInit
<1>2. EmulationInv /\ [ArchNext]_archVars => EmulationInv'
  BY <1>0, EmulationStep
<1>3. EmulationInv => EventsTellAccess
  BY <1>0, EmulationSound
<1> QED
  BY <1>1, <1>2, <1>3, PTL DEF ArchSpec

(* emulate_*(): an emulated instruction leaves registers, memory and the    *)
(* program counter as the CPU would have.                                   *)
THEOREM EmulatedAsNative ==
    ASSUME RegularInsns, NoDeviation
    PROVE  ArchSpec => []AsNative
<1>0. Decodes
  BY InsnsDecode
<1>1. ArchInit => EmulationInv
  BY <1>0, EmulationInit
<1>2. EmulationInv /\ [ArchNext]_archVars => EmulationInv'
  BY <1>0, EmulationStep
<1>3. EmulationInv => AsNative
  BY <1>0, EmulationSound
<1> QED
  BY <1>1, <1>2, <1>3, PTL DEF ArchSpec

=============================================================================
