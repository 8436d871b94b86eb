-------------------------- MODULE Lifecycle_proofs --------------------------
(***************************************************************************)
(* Theorems about Lifecycle for an emulator that makes its calls in the    *)
(* order they expect (Careless = {}), with any number of threads and       *)
(* functions: the safety properties of its run, by one inductive           *)
(* invariant.                                                              *)
(***************************************************************************)
EXTENDS Lifecycle, TLAPS

RegPc   == Registering \cup {"getfd", "kref"}
TracePc == {"init_trace", "own"}

(* References: one per descriptor, where the instance fd's is taken after   *)
(* it is open; and who runs an ioctl holds the PCIem fd.                    *)
FdInv ==
    /\ \A t \in Threads : tpc[t] # "idle" => mainFd
    /\ refs = (IF mainFd THEN 1 ELSE 0)
                + (IF instFd = "open" /\ \A t \in Threads : tpc[t] # "kref" THEN 1 ELSE 0)
    /\ refs = 0 <=> dpc # "no"
    /\ \A t \in Threads : tpc[t] = "kref" => instFd = "open"
    /\ \A t \in Threads : tpc[t] \in Registering \cup {"getfd"} => instFd = "none"
    /\ registered # "REGISTERED" => instFd = "none"

(* One thread registers, and where it is agrees with us->registered.        *)
RegInv ==
    /\ \A t, u \in Threads : tpc[t] \in RegPc /\ tpc[u] \in RegPc => t = u
    /\ \A t \in Threads : tpc[t] \in Registering => registered = "REGISTERING"
    /\ \A t \in Threads : tpc[t] \in {"getfd", "kref"} => registered = "REGISTERED"
    /\ registered # "UNREGISTERED" /\ dpc # "freed" => slot[0] # 0

(* The slot holds what is allocated, and stays as it is where a function    *)
(* is created.                                                              *)
SlotInv ==
    /\ live = (IF dpc = "freed" THEN {} ELSE InSlot)
    /\ live \subseteq 1..made
    /\ \A t \in Threads : tpc[t] = "create" => slot[targ[t]] = 0
    /\ \A t, u \in Threads :
          tpc[t] = "create" /\ tpc[u] = "create" /\ targ[t] = targ[u] => t = u

(* What is built, on the bus or active is function 0, in this order.        *)
BusInv ==
    /\ dpc = "freed" => onBus = {}
    /\ dpc # "freed" => onBus \subseteq {slot[0]} \ {0}
    /\ \A t \in Threads : tpc[t] \in {"init", "others"} => slot[0] \in built
    /\ \A t \in Threads : tpc[t] = "others" => slot[0] \in onBus
    /\ registered = "REGISTERED" /\ dpc # "freed" => slot[0] \in onBus \cap built
    /\ registered = "UNREGISTERED" /\ onBus # {} => ~(InSlot \subseteq {slot[0]})
    /\ \A t \in Threads :
          tpc[t] \in {"build", "init"} /\ onBus # {} => ~(InSlot \subseteq {slot[0]})
    /\ strays # {} => made > 1
    /\ queued \cup running \subseteq onBus
    /\ registered # "REGISTERED" => queued = {} /\ running = {}
    /\ dpc \in {"cancelled", "freed"} => queued = {} /\ running = {}

(* The probes are armed for an owner, or for the thread about to set it.    *)
TraceInv ==
    /\ \A t, u \in Threads : tpc[t] \in TracePc /\ tpc[u] \in TracePc => t = u
    /\ \A t \in Threads : tpc[t] \in TracePc => ~owned
    /\ \A t \in Threads : tpc[t] = "init_trace" => probes = "none"
    /\ probes \in {"none", "armed"}
    /\ probes = "armed" => owned \/ \E t \in Threads : tpc[t] = "own"
    /\ dpc \in {"untraced", "cancelled", "freed"} => probes = "none"

IInv == TypeOK /\ FdInv /\ RegInv /\ SlotInv /\ BusInv /\ TraceInv

(* The slot holds numbers of root complexes. *)
LEMMA SlotZero == TypeOK => slot[0] \in 0..MaxObjs /\ InSlot \subseteq Objs
  BY FuncsAssumption DEF TypeOK, InSlot, Objs

(* What is on the bus is in the slot, where the destruction finds it. *)
LEMMA OnBusInSlot == IInv /\ dpc # "freed" => onBus \subseteq InSlot
  BY FuncsAssumption DEF IInv, BusInv, InSlot

(* A slot with a second function has seen two root complexes. *)
LEMMA TwoMade ==
  ASSUME IInv, dpc # "freed", slot[0] # 0, ~(InSlot \subseteq {slot[0]})
  PROVE  made > 1
  <1>1. PICK v \in InSlot : v # slot[0]
    OBVIOUS
  <1>2. slot[0] \in InSlot
    BY FuncsAssumption DEF InSlot
  <1>3. v \in 1..made /\ slot[0] \in 1..made
    BY <1>2 DEF IInv, SlotInv
  <1> QED
    BY <1>1, <1>3 DEF IInv, TypeOK

-----------------------------------------------------------------------------
(* Each action keeps the invariant. *)

LEMMA CreateCheckKeeps ==
  ASSUME Careless = {}, IInv, NEW t \in Threads, NEW f \in Funcs, CreateCheck(t, f)
  PROVE  IInv'
  <1> USE DEF IInv, Objs, Goto, Call, RegPc, TracePc, Registering, slotVars,
              busVars, workVars, traceVars, fdVars
  <1>1. TypeOK'
    BY DEF CreateCheck, TypeOK
  <1>2. FdInv'
    BY DEF CreateCheck, FdInv
  <1>3. RegInv'
    BY DEF CreateCheck, RegInv
  <1>4. SlotInv'
    BY DEF CreateCheck, TypeOK, SlotInv, InSlot
  <1>5. BusInv'
    BY DEF CreateCheck, BusInv, InSlot
  <1>6. TraceInv'
    BY DEF CreateCheck, TraceInv
  <1> QED
    BY <1>1, <1>2, <1>3, <1>4, <1>5, <1>6

LEMMA CreateStoreKeeps ==
  ASSUME Careless = {}, IInv, NEW t \in Threads, CreateStore(t)
  PROVE  IInv'
  <1> USE DEF IInv, Objs, Goto, Call, RegPc, TracePc, Registering, slotVars,
              busVars, workVars, traceVars, fdVars
  <1>1. TypeOK'
    BY ObjsAssumption DEF CreateStore, TypeOK
  <1>2. FdInv'
    BY DEF CreateStore, FdInv
  <1>3. RegInv'
    BY DEF CreateStore, TypeOK, RegInv
  <1>4. SlotInv'
    <2>1. made + 1 \notin live /\ made + 1 # 0 /\ slot[targ[t]] = 0 /\ targ[t] \in Funcs
      BY DEF CreateStore, TypeOK, SlotInv
    <2>2. InSlot' = InSlot \cup {made + 1}
      BY <2>1 DEF CreateStore, TypeOK, InSlot
    <2>3. dpc # "freed"
      BY DEF CreateStore, TypeOK, FdInv
    <2>4. live' = InSlot' /\ live' \subseteq 1..made'
      BY <2>2, <2>3 DEF CreateStore, TypeOK, SlotInv
    <2> QED
      BY <2>1, <2>3, <2>4 DEF CreateStore, TypeOK, SlotInv
  <1>5. BusInv'
    <2>1. slot[targ[t]] = 0 /\ targ[t] \in Funcs /\ made + 1 # 0
      BY DEF CreateStore, TypeOK, SlotInv
    <2>2. InSlot \subseteq InSlot'
      BY <2>1 DEF CreateStore, TypeOK, InSlot
    <2>3. \A u \in Threads : tpc'[u] \in Registering => tpc[u] \in Registering /\ tpc'[u] = tpc[u]
      BY DEF CreateStore, TypeOK
    <2>4. dpc = "no" /\ (\A u \in Threads : tpc[u] \in Registering => slot[0] # 0)
      BY DEF CreateStore, TypeOK, FdInv, RegInv
    <2>5. slot[0] # 0 => slot'[0] = slot[0]
      BY <2>1 DEF CreateStore, TypeOK
    <2>6. onBus # {} => slot'[0] = slot[0]
      BY <2>4, <2>5 DEF BusInv
    <2>7. ~(InSlot \subseteq {slot[0]}) /\ onBus # {} => ~(InSlot' \subseteq {slot'[0]})
      BY <2>2, <2>6
    <2>8. UNCHANGED <<onBus, strays, built, queued, running, registered, dpc>> /\ made' = made + 1
      BY DEF CreateStore
    <2>9. onBus \subseteq {slot'[0]} \ {0}
      BY <2>6, <2>4 DEF BusInv
    <2>10. \A u \in Threads : tpc'[u] \in {"init", "others"} => slot'[0] \in built
      BY <2>3, <2>4, <2>5 DEF BusInv
    <2>11. \A u \in Threads : tpc'[u] = "others" => slot'[0] \in onBus
      BY <2>3, <2>4, <2>5 DEF BusInv
    <2>12. registered = "REGISTERED" => slot'[0] \in onBus \cap built
      BY <2>4, <2>5 DEF BusInv, RegInv
    <2>13. registered = "UNREGISTERED" /\ onBus # {} => ~(InSlot' \subseteq {slot'[0]})
      BY <2>7 DEF BusInv
    <2>14. \A u \in Threads :
              tpc'[u] \in {"build", "init"} /\ onBus # {} => ~(InSlot' \subseteq {slot'[0]})
      BY <2>7, <2>3 DEF BusInv
    <2>15. strays # {} => made + 1 > 1
      BY DEF BusInv, TypeOK
    <2> QED
      BY <2>4, <2>8, <2>9, <2>10, <2>11, <2>12, <2>13, <2>14, <2>15 DEF BusInv
  <1>6. TraceInv'
    BY DEF CreateStore, TraceInv
  <1> QED
    BY <1>1, <1>2, <1>3, <1>4, <1>5, <1>6

LEMMA TraceCheckKeeps ==
  ASSUME Careless = {}, IInv, NEW t \in Threads, TraceCheck(t)
  PROVE  IInv'
  <1> USE DEF IInv, Objs, Goto, Call, RegPc, TracePc, Registering, slotVars,
              busVars, workVars, traceVars, fdVars
  <1>1. TypeOK'
    BY DEF TraceCheck, TypeOK
  <1>2. FdInv'
    BY DEF TraceCheck, TypeOK, FdInv
  <1>3. RegInv'
    BY DEF TraceCheck, TypeOK, RegInv
  <1>4. SlotInv'
    BY DEF TraceCheck, TypeOK, SlotInv, InSlot
  <1>5. BusInv'
    BY DEF TraceCheck, TypeOK, BusInv, InSlot
  <1>6. TraceInv'
    BY DEF TraceCheck, TypeOK, TraceInv
  <1> QED
    BY <1>1, <1>2, <1>3, <1>4, <1>5, <1>6

LEMMA TraceInitKeeps ==
  ASSUME Careless = {}, IInv, NEW t \in Threads, TraceInit(t)
  PROVE  IInv'
  <1> USE DEF IInv, Objs, Goto, Call, RegPc, TracePc, Registering, slotVars,
              busVars, workVars, traceVars, fdVars
  <1>1. TypeOK'
    BY DEF TraceInit, TypeOK
  <1>2. FdInv'
    BY DEF TraceInit, TypeOK, FdInv
  <1>3. RegInv'
    BY DEF TraceInit, TypeOK, RegInv
  <1>4. SlotInv'
    BY DEF TraceInit, TypeOK, SlotInv, InSlot
  <1>5. BusInv'
    BY DEF TraceInit, TypeOK, BusInv, InSlot
  <1>6. TraceInv'
    BY DEF TraceInit, TypeOK, FdInv, TraceInv
  <1> QED
    BY <1>1, <1>2, <1>3, <1>4, <1>5, <1>6

LEMMA TraceOwnKeeps ==
  ASSUME Careless = {}, IInv, NEW t \in Threads, TraceOwn(t)
  PROVE  IInv'
  <1> USE DEF IInv, Objs, Goto, Call, RegPc, TracePc, Registering, slotVars,
              busVars, workVars, traceVars, fdVars
  <1>1. TypeOK'
    BY DEF TraceOwn, TypeOK
  <1>2. FdInv'
    BY DEF TraceOwn, FdInv
  <1>3. RegInv'
    BY DEF TraceOwn, RegInv
  <1>4. SlotInv'
    BY DEF TraceOwn, SlotInv, InSlot
  <1>5. BusInv'
    BY DEF TraceOwn, BusInv, InSlot
  <1>6. TraceInv'
    BY DEF TraceOwn, TypeOK, TraceInv
  <1> QED
    BY <1>1, <1>2, <1>3, <1>4, <1>5, <1>6

LEMMA StartRegistrationKeeps ==
  ASSUME Careless = {}, IInv, NEW t \in Threads, StartRegistration(t)
  PROVE  IInv'
  <1> USE DEF IInv, Objs, Goto, Call, RegPc, TracePc, Registering, slotVars,
              busVars, workVars, traceVars, fdVars
  <1>1. TypeOK'
    BY DEF StartRegistration, TypeOK
  <1>2. FdInv'
    BY DEF StartRegistration, FdInv
  <1>3. RegInv'
    BY DEF StartRegistration, RegInv
  <1>4. SlotInv'
    BY DEF StartRegistration, SlotInv, InSlot
  <1>5. BusInv'
    <2>1. InSlot' = InSlot
      BY DEF StartRegistration, InSlot
    <2> QED
      BY <2>1 DEF StartRegistration, BusInv
  <1>6. TraceInv'
    BY DEF StartRegistration, TraceInv
  <1> QED
    BY <1>1, <1>2, <1>3, <1>4, <1>5, <1>6

LEMMA BuildConfigKeeps ==
  ASSUME Careless = {}, IInv, NEW t \in Threads, BuildConfig(t)
  PROVE  IInv'
  <1> USE DEF IInv, Objs, Goto, Call, RegPc, TracePc, Registering, slotVars,
              busVars, workVars, traceVars, fdVars
  <1>1. TypeOK'
    BY SlotZero DEF BuildConfig, TypeOK
  <1>2. FdInv'
    BY DEF BuildConfig, FdInv
  <1>3. RegInv'
    BY DEF BuildConfig, RegInv
  <1>4. SlotInv'
    BY DEF BuildConfig, SlotInv, InSlot
  <1>5. BusInv'
    BY FuncsAssumption DEF BuildConfig, FdInv, RegInv, BusInv, InSlot
  <1>6. TraceInv'
    BY DEF BuildConfig, TraceInv
  <1> QED
    BY <1>1, <1>2, <1>3, <1>4, <1>5, <1>6

LEMMA InitFunc0Keeps ==
  ASSUME Careless = {}, IInv, NEW t \in Threads, InitFunc0(t)
  PROVE  IInv'
  <1> USE DEF IInv, Objs, Goto, Call, RegPc, TracePc, Registering, slotVars,
              busVars, workVars, traceVars, fdVars
  <1>1. TypeOK'
    <2>1. onBus' \subseteq onBus \cup {slot[0]} /\ strays' \subseteq strays \cup onBus
      BY DEF InitFunc0
    <2>2. slot[0] \in Objs
      BY SlotZero DEF InitFunc0, FdInv, RegInv
    <2>3. onBus' \subseteq Objs /\ strays' \subseteq Objs
      BY <2>1, <2>2 DEF TypeOK
    <2> QED
      BY <2>3 DEF InitFunc0, Cancel, TypeOK
  <1>2. FdInv'
    BY DEF InitFunc0, Cancel, TypeOK, FdInv
  <1>3. RegInv'
    BY DEF InitFunc0, Cancel, TypeOK, RegInv
  <1>4. SlotInv'
    BY DEF InitFunc0, Cancel, TypeOK, SlotInv, InSlot
  <1>5. BusInv'
    <2>1. dpc = "no" /\ registered = "REGISTERING" /\ slot[0] # 0
      BY DEF InitFunc0, FdInv, RegInv
    <2>2. queued = {} /\ running = {}
      BY <2>1 DEF BusInv
    <2>3. onBus' \subseteq {slot[0]}
      BY <2>1 DEF InitFunc0, BusInv
    <2>4. \A u \in Threads : tpc'[u] \in Registering => u = t
      BY DEF InitFunc0, Cancel, RegInv, TypeOK
    <2>5. InSlot' = InSlot /\ slot' = slot /\ made' = made /\ built' = built
      BY DEF InitFunc0, InSlot
    <2>6. onBus # {} => ~(InSlot \subseteq {slot[0]})
      BY DEF InitFunc0, BusInv
    <2>7. strays' # {} => made > 1
      BY <2>1, <2>6, TwoMade DEF InitFunc0, BusInv
    <2>8. CASE onBus' = onBus \cup {slot[0]} /\ Goto(t, "others") /\ UNCHANGED registered
      BY <2>1, <2>2, <2>3, <2>4, <2>8, <2>5, <2>7 DEF InitFunc0, BusInv, TypeOK
    <2>9. CASE onBus' \in {onBus, onBus \ {slot[0]}} /\ Cancel(t)
      BY <2>1, <2>2, <2>3, <2>4, <2>9, <2>5, <2>6, <2>7
         DEF InitFunc0, Cancel, BusInv, TypeOK
    <2> QED
      BY <2>8, <2>9 DEF InitFunc0
  <1>6. TraceInv'
    BY DEF InitFunc0, Cancel, TypeOK, TraceInv
  <1> QED
    BY <1>1, <1>2, <1>3, <1>4, <1>5, <1>6

LEMMA InitOthersKeeps ==
  ASSUME Careless = {}, IInv, NEW t \in Threads, InitOthers(t)
  PROVE  IInv'
  <1> USE DEF IInv, Objs, Goto, Call, RegPc, TracePc, Registering, slotVars,
              busVars, workVars, traceVars, fdVars
  <1>1. TypeOK'
    BY DEF InitOthers, Cancel, TypeOK
  <1>2. FdInv'
    BY DEF InitOthers, Cancel, TypeOK, FdInv
  <1>3. RegInv'
    BY DEF InitOthers, Cancel, TypeOK, RegInv
  <1>4. SlotInv'
    BY DEF InitOthers, Cancel, TypeOK, SlotInv, InSlot
  <1>5. BusInv'
    <2>1. InSlot' = InSlot /\ slot' = slot
      BY DEF InitOthers, InSlot
    <2>2. slot[0] \in InSlot
      BY FuncsAssumption DEF InitOthers, FdInv, RegInv, InSlot
    <2>3. \A u \in Threads : tpc'[u] \in Registering => FALSE
      BY DEF InitOthers, Cancel, RegInv, TypeOK
    <2>4. InSlot # {slot[0]} => ~(InSlot \subseteq {slot[0]})
      BY <2>2
    <2> QED
      BY <2>1, <2>3, <2>4 DEF InitOthers, Cancel, RegInv, BusInv
  <1>6. TraceInv'
    BY DEF InitOthers, Cancel, TypeOK, TraceInv
  <1> QED
    BY <1>1, <1>2, <1>3, <1>4, <1>5, <1>6

LEMMA GetInstanceFdKeeps ==
  ASSUME Careless = {}, IInv, NEW t \in Threads, GetInstanceFd(t)
  PROVE  IInv'
  <1> USE DEF IInv, Objs, Goto, Call, RegPc, TracePc, Registering, slotVars,
              busVars, workVars, traceVars, fdVars
  <1>1. TypeOK'
    BY DEF GetInstanceFd, TypeOK
  <1>2. FdInv'
    BY DEF GetInstanceFd, TypeOK, FdInv, RegInv
  <1>3. RegInv'
    BY DEF GetInstanceFd, TypeOK, RegInv
  <1>4. SlotInv'
    BY DEF GetInstanceFd, TypeOK, SlotInv, InSlot
  <1>5. BusInv'
    BY DEF GetInstanceFd, TypeOK, RegInv, BusInv
  <1>6. TraceInv'
    BY DEF GetInstanceFd, TypeOK, TraceInv
  <1> QED
    BY <1>1, <1>2, <1>3, <1>4, <1>5, <1>6

LEMMA KrefGetKeeps ==
  ASSUME Careless = {}, IInv, NEW t \in Threads, KrefGet(t)
  PROVE  IInv'
  <1> USE DEF IInv, Objs, Goto, Call, RegPc, TracePc, Registering, slotVars,
              busVars, workVars, traceVars, fdVars
  <1>1. TypeOK'
    BY DEF KrefGet, TypeOK, FdInv
  <1>2. FdInv'
    BY DEF KrefGet, TypeOK, FdInv, RegInv
  <1>3. RegInv'
    BY DEF KrefGet, RegInv
  <1>4. SlotInv'
    BY DEF KrefGet, SlotInv, InSlot
  <1>5. BusInv'
    BY DEF KrefGet, FdInv, BusInv
  <1>6. TraceInv'
    BY DEF KrefGet, TraceInv
  <1> QED
    BY <1>1, <1>2, <1>3, <1>4, <1>5, <1>6

LEMMA StartDeviceKeeps ==
  ASSUME Careless = {}, IInv, NEW t \in Threads, StartDevice(t)
  PROVE  IInv'
  <1> USE DEF IInv, Objs, Goto, Call, RegPc, TracePc, Registering, slotVars,
              busVars, workVars, traceVars, fdVars
  <1>1. TypeOK'
    <2>1. slot[0] \in 1..MaxObjs
      BY SlotZero, ObjsAssumption DEF StartDevice
    <2>2. queued' \subseteq 1..MaxObjs
      BY <2>1 DEF StartDevice, TypeOK
    <2> QED
      BY <2>2 DEF StartDevice, TypeOK
  <1>2. FdInv'
    BY DEF StartDevice, FdInv
  <1>3. RegInv'
    BY DEF StartDevice, RegInv
  <1>4. SlotInv'
    BY DEF StartDevice, SlotInv, InSlot
  <1>5. BusInv'
    <2>1. dpc = "no" /\ slot[0] \in onBus
      BY DEF StartDevice, TypeOK, FdInv, BusInv
    <2>2. InSlot' = InSlot
      BY DEF StartDevice, InSlot
    <2> QED
      BY <2>1, <2>2 DEF StartDevice, BusInv
  <1>6. TraceInv'
    BY DEF StartDevice, TraceInv
  <1> QED
    BY <1>1, <1>2, <1>3, <1>4, <1>5, <1>6

LEMMA WorkStartKeeps ==
  ASSUME Careless = {}, IInv, NEW v \in Objs, WorkStart(v)
  PROVE  IInv'
  <1> USE DEF IInv, Objs, Goto, Call, RegPc, TracePc, Registering, slotVars,
              busVars, workVars, traceVars, fdVars
  <1>1. TypeOK'
    BY DEF WorkStart, TypeOK
  <1>2. FdInv'
    BY DEF WorkStart, FdInv
  <1>3. RegInv'
    BY DEF WorkStart, RegInv
  <1>4. SlotInv'
    BY DEF WorkStart, SlotInv, InSlot
  <1>5. BusInv'
    <2>1. InSlot' = InSlot
      BY DEF WorkStart, InSlot
    <2> QED
      BY <2>1 DEF WorkStart, BusInv
  <1>6. TraceInv'
    BY DEF WorkStart, TraceInv
  <1> QED
    BY <1>1, <1>2, <1>3, <1>4, <1>5, <1>6

LEMMA WorkEndKeeps ==
  ASSUME Careless = {}, IInv, NEW v \in Objs, WorkEnd(v)
  PROVE  IInv'
  <1> USE DEF IInv, Objs, Goto, Call, RegPc, TracePc, Registering, slotVars,
              busVars, workVars, traceVars, fdVars
  <1>1. TypeOK'
    BY DEF WorkEnd, TypeOK
  <1>2. FdInv'
    BY DEF WorkEnd, FdInv
  <1>3. RegInv'
    BY DEF WorkEnd, RegInv
  <1>4. SlotInv'
    BY DEF WorkEnd, SlotInv, InSlot
  <1>5. BusInv'
    <2>1. InSlot' = InSlot
      BY DEF WorkEnd, InSlot
    <2> QED
      BY <2>1 DEF WorkEnd, BusInv
  <1>6. TraceInv'
    BY DEF WorkEnd, TraceInv
  <1> QED
    BY <1>1, <1>2, <1>3, <1>4, <1>5, <1>6

LEMMA CloseMainKeeps ==
  ASSUME Careless = {}, IInv, CloseMain
  PROVE  IInv'
  <1> USE DEF IInv, Objs, Goto, Call, RegPc, TracePc, Registering, slotVars,
              busVars, workVars, traceVars, fdVars
  <1>1. TypeOK'
    <2>1. refs' \in 0..2
      BY DEF CloseMain, KrefPut, TypeOK, FdInv
    <2> QED
      BY <2>1 DEF CloseMain, KrefPut, TypeOK
  <1>2. FdInv'
    BY DEF CloseMain, KrefPut, FdInv
  <1>3. RegInv'
    BY DEF CloseMain, KrefPut, FdInv, RegInv
  <1>4. SlotInv'
    BY DEF CloseMain, KrefPut, FdInv, SlotInv, InSlot
  <1>5. BusInv'
    BY DEF CloseMain, KrefPut, FdInv, BusInv, InSlot
  <1>6. TraceInv'
    BY DEF CloseMain, KrefPut, TraceInv
  <1> QED
    BY <1>1, <1>2, <1>3, <1>4, <1>5, <1>6

LEMMA CloseInstanceKeeps ==
  ASSUME Careless = {}, IInv, CloseInstance
  PROVE  IInv'
  <1> USE DEF IInv, Objs, Goto, Call, RegPc, TracePc, Registering, slotVars,
              busVars, workVars, traceVars, fdVars
  <1>1. TypeOK'
    BY DEF CloseInstance, KrefPut, TypeOK, FdInv
  <1>2. FdInv'
    BY DEF CloseInstance, KrefPut, FdInv
  <1>3. RegInv'
    BY DEF CloseInstance, KrefPut, FdInv, RegInv
  <1>4. SlotInv'
    BY DEF CloseInstance, KrefPut, FdInv, SlotInv, InSlot
  <1>5. BusInv'
    BY DEF CloseInstance, KrefPut, FdInv, BusInv
  <1>6. TraceInv'
    BY DEF CloseInstance, KrefPut, TraceInv
  <1> QED
    BY <1>1, <1>2, <1>3, <1>4, <1>5, <1>6

LEMMA StopTracersKeeps ==
  ASSUME Careless = {}, IInv, StopTracers
  PROVE  IInv'
  <1> USE DEF IInv, Objs, Goto, Call, RegPc, TracePc, Registering, slotVars,
              busVars, workVars, traceVars, fdVars
  <1>1. TypeOK'
    BY DEF StopTracers, Unprobe, TypeOK
  <1>2. FdInv'
    BY DEF StopTracers, Unprobe, FdInv
  <1>3. RegInv'
    BY DEF StopTracers, Unprobe, RegInv
  <1>4. SlotInv'
    BY DEF StopTracers, Unprobe, SlotInv, InSlot
  <1>5. BusInv'
    BY DEF StopTracers, Unprobe, BusInv, InSlot
  <1>6. TraceInv'
    BY DEF StopTracers, Unprobe, FdInv, TraceInv
  <1> QED
    BY <1>1, <1>2, <1>3, <1>4, <1>5, <1>6

LEMMA CancelWorkKeeps ==
  ASSUME Careless = {}, IInv, CancelWork
  PROVE  IInv'
  <1> USE DEF IInv, Objs, Goto, Call, RegPc, TracePc, Registering, slotVars,
              busVars, workVars, traceVars, fdVars
  <1>1. TypeOK'
    BY DEF CancelWork, TypeOK
  <1>2. FdInv'
    BY DEF CancelWork, FdInv
  <1>3. RegInv'
    BY DEF CancelWork, RegInv
  <1>4. SlotInv'
    BY DEF CancelWork, SlotInv, InSlot
  <1>5. BusInv'
    <2>1. onBus \subseteq InSlot
      BY OnBusInSlot DEF CancelWork
    <2>2. queued' = {} /\ running' = {}
      BY <2>1 DEF CancelWork, BusInv
    <2> QED
      BY <2>2 DEF CancelWork, BusInv, InSlot
  <1>6. TraceInv'
    BY DEF CancelWork, TraceInv
  <1> QED
    BY <1>1, <1>2, <1>3, <1>4, <1>5, <1>6

LEMMA RemoveAndFreeKeeps ==
  ASSUME Careless = {}, IInv, RemoveAndFree
  PROVE  IInv'
  <1> USE DEF IInv, Objs, Goto, Call, RegPc, TracePc, Registering, slotVars,
              busVars, workVars, traceVars, fdVars
  <1>1. TypeOK'
    <2>1. slot' \in [Funcs -> 0..MaxObjs]
      BY ObjsAssumption DEF RemoveAndFree
    <2> QED
      BY <2>1 DEF RemoveAndFree, TypeOK
  <1>2. FdInv'
    BY DEF RemoveAndFree, FdInv
  <1>3. RegInv'
    BY DEF RemoveAndFree, RegInv
  <1>4. SlotInv'
    BY DEF RemoveAndFree, TypeOK, SlotInv
  <1>5. BusInv'
    <2>1. onBus' = {} /\ queued = {} /\ running = {} /\ dpc' = "freed" /\ dpc = "cancelled"
      BY OnBusInSlot DEF RemoveAndFree, BusInv
    <2>2. \A u \in Threads : tpc[u] = "idle"
      BY <2>1 DEF FdInv, TypeOK
    <2>3. registered = "UNREGISTERED" => onBus' = {}
      BY <2>1
    <2> QED
      BY <2>1, <2>2 DEF RemoveAndFree, BusInv
  <1>6. TraceInv'
    BY DEF RemoveAndFree, TraceInv
  <1> QED
    BY <1>1, <1>2, <1>3, <1>4, <1>5, <1>6

-----------------------------------------------------------------------------
LEMMA IInvInit == Init => IInv
  <1> SUFFICES ASSUME Init PROVE IInv
    OBVIOUS
  <1>1. InSlot = {}
    BY DEF Init, InSlot
  <1>2. TypeOK
    <2>1. slot \in [Funcs -> 0..MaxObjs] /\ made \in 0..MaxObjs /\ refs \in 0..2
      BY ObjsAssumption DEF Init
    <2>2. tpc \in [Threads -> Registering \cup {"idle"}] /\ targ \in [Threads -> Funcs]
      BY FuncsAssumption DEF Init
    <2> QED
      BY <2>1, <2>2 DEF Init, TypeOK
  <1>3. FdInv /\ RegInv /\ TraceInv
    BY DEF Init, FdInv, RegInv, TraceInv, RegPc, TracePc, Registering
  <1>4. SlotInv /\ BusInv
    BY <1>1 DEF Init, SlotInv, BusInv
  <1> QED
    BY <1>2, <1>3, <1>4 DEF IInv

LEMMA IInvStep ==
  ASSUME Careless = {}, IInv, [Next]_vars
  PROVE  IInv'
  <1>1. CASE UNCHANGED vars
    BY <1>1 DEF vars, slotVars, busVars, workVars, traceVars, fdVars, IInv, TypeOK,
                FdInv,
                RegInv, SlotInv, BusInv, TraceInv, InSlot
  <1>2. ASSUME NEW t \in Threads, NEW f \in Funcs, CreateCheck(t, f) PROVE IInv'
    BY <1>2, CreateCheckKeeps
  <1>3. ASSUME NEW t \in Threads, TraceCheck(t) PROVE IInv'
    BY <1>3, TraceCheckKeeps
  <1>4. ASSUME NEW t \in Threads, StartRegistration(t) PROVE IInv'
    BY <1>4, StartRegistrationKeeps
  <1>5. ASSUME NEW t \in Threads, StartDevice(t) PROVE IInv'
    BY <1>5, StartDeviceKeeps
  <1>6. ASSUME NEW t \in Threads, Ioctl(t) PROVE IInv'
    <2>1. CASE CreateStore(t)
      BY <2>1, CreateStoreKeeps
    <2>2. CASE TraceInit(t)
      BY <2>2, TraceInitKeeps
    <2>3. CASE TraceOwn(t)
      BY <2>3, TraceOwnKeeps
    <2>4. CASE BuildConfig(t)
      BY <2>4, BuildConfigKeeps
    <2>5. CASE InitFunc0(t)
      BY <2>5, InitFunc0Keeps
    <2>6. CASE InitOthers(t)
      BY <2>6, InitOthersKeeps
    <2>7. CASE GetInstanceFd(t)
      BY <2>7, GetInstanceFdKeeps
    <2>8. CASE KrefGet(t)
      BY <2>8, KrefGetKeeps
    <2> QED
      BY <1>6, <2>1, <2>2, <2>3, <2>4, <2>5, <2>6, <2>7, <2>8 DEF Ioctl
  <1>7. ASSUME NEW v \in 1..MaxObjs, Work(v) PROVE IInv'
    BY <1>7, WorkStartKeeps, WorkEndKeeps DEF Work, Objs
  <1>8. CASE CloseMain \/ CloseInstance
    BY <1>8, CloseMainKeeps, CloseInstanceKeeps
  <1>9. CASE Destroy
    BY <1>9, StopTracersKeeps, CancelWorkKeeps, RemoveAndFreeKeeps DEF Destroy
  <1> QED
    BY <1>1, <1>2, <1>3, <1>4, <1>5, <1>6, <1>7, <1>8, <1>9 DEF Next

(* An emulator that makes its calls in order keeps the invariant.           *)
LEMMA LifeInvariant == Careless = {} => (Spec => []IInv)
  <1> SUFFICES ASSUME Careless = {} PROVE Spec => []IInv
    OBVIOUS
  <1>1. IInv /\ [Next]_vars => IInv'
    BY IInvStep
  <1> QED
    BY IInvInit, <1>1, PTL DEF Spec

(* pciem_userspace_state, refcnt: with any number of threads and functions, *)
(* the state outlives every open descriptor and every running ioctl.        *)
THEOREM StateSafe == Careless = {} => (Spec => []StateOutlivesFds)
  <1>1. IInv => StateOutlivesFds
    BY DEF IInv, FdInv, TypeOK, StateOutlivesFds
  <1> QED
    BY <1>1, LifeInvariant, PTL

(* pciem_ioctl_register: function 0 is on the bus and its configuration     *)
(* space built exactly while the device is registered.                      *)
THEOREM BusSafe == Careless = {} => (Spec => []OnBusIffRegistered)
  <1>1. IInv => OnBusIffRegistered
    BY DEF IInv, BusInv, OnBusIffRegistered
  <1> QED
    BY <1>1, LifeInvariant, PTL

(* pciem_activation_work_func, cancel_work_sync: the activation work has a  *)
(* device to add whenever it runs.                                          *)
THEOREM WorkSafe == Careless = {} => (Spec => []ActivationHasDevice)
  <1>1. IInv => ActivationHasDevice
    BY DEF IInv, BusInv, TypeOK, ActivationHasDevice
  <1> QED
    BY <1>1, LifeInvariant, PTL

(* pciem_userspace_destroy: the last close leaves no root complex, device,  *)
(* work or probe behind.                                                    *)
THEOREM DestroySafe == Careless = {} => (Spec => []NothingLeft)
  <1>1. IInv => NothingLeft
    BY DEF IInv, SlotInv, BusInv, TraceInv, NothingLeft
  <1> QED
    BY <1>1, LifeInvariant, PTL

=============================================================================
