----------------------------- MODULE Irq_proofs -----------------------------
(***************************************************************************)
(* Theorems about interrupts.  Irqfd, for any number of irqfds and         *)
(* eventfds: whoever can reach an irqfd finds it, nothing is left behind,  *)
(* and the two lock orders never meet.  Msi, for any number of callers,    *)
(* CPUs and vectors: what is delivered, that nothing runs once the device  *)
(* is gone, and the safety half of delivery: an IRQ left in                *)
(* pending_msi_irq always has somebody who will read it.                   *)
(***************************************************************************)
EXTENDS Irqfd, Msi, FiniteSetTheorems, TLAPS

-----------------------------------------------------------------------------
(* Irqfd                                                                    *)

(* Where a SET_IRQFD call has the eventfd's file, and where it has linked   *)
(* its irqfd.                                                               *)
HasFile == {"file", "locked", "added", "polled"}
Linked  == {"added", "polled", "done"}

(* The irqfds that hold a reference to a context, and the calls that hold   *)
(* one to a file.                                                           *)
Users(e)   == {i \in live : trigger[i] = e}
Holders(e) == {i \in Irqfds : ipc[i] \in HasFile /\ file[i] = e}

(* References are counted; the file is released when the last one is put.   *)
CtxInv ==
    \A e \in Eventfds :
        ctxRefs[e] = (IF rel[e] = "done" THEN 0 ELSE 1) + Cardinality(Users(e))
FileInv ==
    \A e \in Eventfds :
        /\ fileRefs[e] = (IF e \in fdOpen THEN 1 ELSE 0) + Cardinality(Holders(e))
        /\ rel[e] = "no" <=> fileRefs[e] # 0

(* The life of an irqfd: allocated from its SET_IRQFD call to the end of    *)
(* its shutdown_work, on the list until that work is queued. The call ends  *)
(* before anything can end the irqfd.                                       *)
LifeInv ==
    \A i \in Irqfds :
        /\ ipc[i] # "none" => trigger[i] \in Eventfds
        /\ IF ipc[i] \in HasFile \cup {"done"} THEN file[i] \in Eventfds
                                             ELSE file[i] = None
        /\ ipc[i] \in {"none", "failed"} => i \notin live
        /\ ipc[i] \notin {"none", "failed"} => (i \in live <=> cleanup[i] # "done")
        /\ ipc[i] # "done" => cleanup[i] = "none"
        /\ i \in items <=> ipc[i] \in Linked /\ cleanup[i] = "none"

(* Who can reach it: the wait queue until shutdown_work has left it, a HUP  *)
(* only while the irqfd is in the queue, inject_work until it is flushed.   *)
ReachInv ==
    /\ \A e \in Eventfds :
          /\ \A i \in waiters[e] :
                /\ file[i] = e /\ ipc[i] \in Linked
                /\ cleanup[i] \in {"none", "queued"}
          /\ ~corrupt => todo[e] \subseteq waiters[e]
          /\ rel[e] # "waking" => todo[e] = {}
          /\ wqh[e] <=> rel[e] = "waking"
    /\ \A i \in injQueued \cup injRunning :
          ipc[i] \in Linked /\ cleanup[i] \notin {"flushed", "done"}

(* The destruction begins when no call runs, and empties the list first.    *)
EndInv ==
    /\ dpc # "open" => \A i \in Irqfds : ipc[i] \in {"none", "done", "failed"}
    /\ dpc \in {"drain", "free", "freed"} => items = {}
    /\ dpc \in {"free", "freed"} => \A i \in Irqfds : cleanup[i] \in {"none", "done"}

(* A wait queue is corrupted only by an irqfd that waits on another eventfd *)
(* than the one it holds.                                                   *)
CorruptInv == corrupt => TwoEventfds

IInv == /\ TypeOK /\ CtxInv /\ FileInv /\ LifeInv /\ ReachInv /\ EndInv
        /\ CorruptInv

-----------------------------------------------------------------------------
(* Counting *)

LEMMA SetsFinite ==
  ASSUME TypeOK, NEW e \in Eventfds
  PROVE  IsFiniteSet(Users(e)) /\ IsFiniteSet(Holders(e))
  <1>1. Users(e) \subseteq Irqfds /\ Holders(e) \subseteq Irqfds
    BY DEF TypeOK, Users, Holders
  <1> QED
    BY <1>1, IrqfdsAssumption, FS_Subset

(* A user is counted. *)
LEMMA UserCounted ==
  ASSUME TypeOK, CtxInv, NEW i \in live, trigger[i] \in Eventfds
  PROVE  ctxRefs[trigger[i]] > 0
  <1> DEFINE U == Users(trigger[i])
  <1>1. IsFiniteSet(U) /\ i \in U
    BY SetsFinite DEF Users
  <1>2. Cardinality(U) \in Nat /\ Cardinality(U) # 0
    BY <1>1, FS_CardinalityType, FS_EmptySet
  <1> QED
    BY <1>2 DEF CtxInv

(* While a call holds the file, it is counted and the file not released. *)
LEMMA HolderCounted ==
  ASSUME TypeOK, FileInv, NEW i \in Irqfds, ipc[i] \in HasFile, file[i] \in Eventfds
  PROVE  rel[file[i]] = "no" /\ fileRefs[file[i]] > 0
  <1> DEFINE H == Holders(file[i])
  <1>1. IsFiniteSet(H) /\ i \in H
    BY SetsFinite DEF Holders
  <1>2. Cardinality(H) \in Nat /\ Cardinality(H) # 0
    BY <1>1, FS_CardinalityType, FS_EmptySet
  <1> QED
    BY <1>2 DEF FileInv

-----------------------------------------------------------------------------
(* Each action keeps the invariant. *)

LEMMA GetCtxKeeps ==
  ASSUME IInv, NEW i \in Irqfds, NEW e \in Eventfds, GetCtx(i, e)
  PROVE  IInv'
  <1> USE DEF IInv, regVars, listVars, fdVars, injVars
  <1>1. TypeOK'
    BY DEF GetCtx, TypeOK
  <1>2. CtxInv'
    <2>1. i \notin live /\ trigger'[i] = e
      BY DEF GetCtx, TypeOK, LifeInv
    <2>2. Users(e)' = Users(e) \cup {i} /\ i \notin Users(e)
      BY <2>1 DEF GetCtx, TypeOK, Users
    <2>3. \A f \in Eventfds \ {e} : Users(f)' = Users(f)
      BY <2>1 DEF GetCtx, TypeOK, Users
    <2>4. Cardinality(Users(e)') = Cardinality(Users(e)) + 1
      BY <2>2, SetsFinite, FS_AddElement
    <2>5. Cardinality(Users(e)) \in Nat
      BY SetsFinite, FS_CardinalityType
    <2> QED
      BY <2>3, <2>4, <2>5 DEF GetCtx, TypeOK, CtxInv
  <1>3. FileInv'
    <2>1. \A f \in Eventfds : Holders(f)' = Holders(f)
      BY DEF GetCtx, TypeOK, LifeInv, Holders, HasFile
    <2> QED
      BY <2>1 DEF GetCtx, TypeOK, FileInv
  <1>4. LifeInv'
    BY DEF GetCtx, TypeOK, LifeInv, ReachInv, EndInv, Linked,
       HasFile
  <1>5. ReachInv'
    BY DEF GetCtx, TypeOK, LifeInv, ReachInv, EndInv, Linked,
       HasFile
  <1>6. EndInv'
    BY DEF GetCtx, TypeOK, LifeInv, ReachInv, EndInv, Linked,
       HasFile
  <1>7. CorruptInv'
    BY DEF GetCtx, TypeOK, LifeInv, HasFile, CorruptInv, TwoEventfds
  <1> QED
    BY <1>1, <1>2, <1>3, <1>4, <1>5, <1>6, <1>7

LEMMA GetFileKeeps ==
  ASSUME IInv, NEW i \in Irqfds, NEW e \in Eventfds, GetFile(i, e)
  PROVE  IInv'
  <1> USE DEF IInv, regVars, listVars, fdVars, injVars
  <1>1. TypeOK'
    BY DEF GetFile, TypeOK
  <1>2. CtxInv'
    <2>1. \A f \in Eventfds : Users(f)' = Users(f)
      BY DEF GetFile, Users
    <2> QED
      BY <2>1 DEF GetFile, TypeOK, CtxInv, FileInv
  <1>3. FileInv'
    <2>1. i \notin Holders(e) /\ file'[i] = e
      BY DEF GetFile, TypeOK, Holders, HasFile
    <2>2. Holders(e)' = Holders(e) \cup {i} /\ i \notin Holders(e)
      BY <2>1 DEF GetFile, TypeOK, Holders, HasFile
    <2>3. \A f \in Eventfds \ {e} : Holders(f)' = Holders(f)
      BY <2>1 DEF GetFile, TypeOK, Holders, HasFile
    <2>4. Cardinality(Holders(e)') = Cardinality(Holders(e)) + 1
      BY <2>1, <2>2, SetsFinite, FS_AddElement
    <2>5. Cardinality(Holders(e)) \in Nat
      BY <2>1, SetsFinite, FS_CardinalityType
    <2> QED
      BY <2>1, <2>3, <2>4, <2>5 DEF GetFile, TypeOK, FileInv
  <1>4. LifeInv'
    BY DEF GetFile, TypeOK, LifeInv, ReachInv, EndInv, Linked,
       HasFile
  <1>5. ReachInv'
    BY DEF GetFile, TypeOK, LifeInv, ReachInv, EndInv, Linked,
       HasFile
  <1>6. EndInv'
    BY DEF GetFile, TypeOK, LifeInv, ReachInv, EndInv, Linked,
       HasFile
  <1>7. CorruptInv'
    BY DEF GetFile, TypeOK, LifeInv, HasFile, CorruptInv, TwoEventfds
  <1> QED
    BY <1>1, <1>2, <1>3, <1>4, <1>5, <1>6, <1>7

LEMMA GetFileFailsKeeps ==
  ASSUME IInv, NEW i \in Irqfds, GetFileFails(i)
  PROVE  IInv'
  <1> USE DEF IInv, regVars, listVars, fdVars, injVars
  <1>0. trigger[i] \in Eventfds /\ ctxRefs[trigger[i]] > 0
    <2>1. i \in live /\ trigger[i] \in Eventfds
      BY DEF GetFileFails, TypeOK, LifeInv
    <2> QED
      BY <2>1, UserCounted
  <1> USE <1>0
  <1>1. TypeOK'
    BY DEF GetFileFails, TypeOK
  <1>2. CtxInv'
    <2> DEFINE e == trigger[i]
    <2>1. i \in live /\ e \in Eventfds
      BY DEF GetFileFails, TypeOK, LifeInv
    <2>2. Users(e)' = Users(e) \ {i} /\ i \in Users(e)
      BY <2>1 DEF GetFileFails, TypeOK, Users
    <2>3. \A f \in Eventfds \ {e} : Users(f)' = Users(f)
      BY <2>1 DEF GetFileFails, TypeOK, Users
    <2>4. Cardinality(Users(e)') = Cardinality(Users(e)) - 1
      BY <2>1, <2>2, SetsFinite, FS_RemoveElement
    <2>5. Cardinality(Users(e)) \in Nat
      BY <2>1, SetsFinite, FS_CardinalityType
    <2> QED
      BY <2>1, <2>3, <2>4, <2>5 DEF GetFileFails, TypeOK, CtxInv
  <1>3. FileInv'
    <2>1. \A e \in Eventfds : Holders(e)' = Holders(e)
      BY DEF GetFileFails, TypeOK, LifeInv, Holders, HasFile
    <2> QED
      BY <2>1 DEF GetFileFails, TypeOK, FileInv
  <1>4. LifeInv'
    BY DEF GetFileFails, TypeOK, LifeInv, ReachInv, EndInv, Linked,
       HasFile
  <1>5. ReachInv'
    BY DEF GetFileFails, TypeOK, LifeInv, ReachInv, EndInv, Linked,
       HasFile
  <1>6. EndInv'
    BY DEF GetFileFails, TypeOK, LifeInv, ReachInv, EndInv, Linked,
       HasFile
  <1>7. CorruptInv'
    BY DEF GetFileFails, TypeOK, LifeInv, HasFile, CorruptInv, TwoEventfds
  <1> QED
    BY <1>1, <1>2, <1>3, <1>4, <1>5, <1>6, <1>7

LEMMA QueueProcLockKeeps ==
  ASSUME IInv, NEW i \in Irqfds, QueueProcLock(i)
  PROVE  IInv'
  <1> USE DEF IInv, regVars, listVars, fdVars, injVars
  <1>1. TypeOK'
    BY DEF QueueProcLock, TypeOK
  <1>2. CtxInv'
    <2>1. \A e \in Eventfds : Users(e)' = Users(e)
      BY DEF QueueProcLock, Users
    <2> QED
      BY <2>1 DEF QueueProcLock, TypeOK, CtxInv, FileInv
  <1>3. FileInv'
    <2>1. \A e \in Eventfds : Holders(e)' = Holders(e)
      BY DEF QueueProcLock, TypeOK, LifeInv, Holders, HasFile
    <2> QED
      BY <2>1 DEF QueueProcLock, TypeOK, FileInv
  <1>4. LifeInv'
    BY DEF QueueProcLock, TypeOK, LifeInv, ReachInv, EndInv, Linked,
       HasFile
  <1>5. ReachInv'
    BY DEF QueueProcLock, TypeOK, LifeInv, ReachInv, EndInv, Linked,
       HasFile
  <1>6. EndInv'
    BY DEF QueueProcLock, TypeOK, LifeInv, ReachInv, EndInv, Linked,
       HasFile
  <1>7. CorruptInv'
    BY DEF QueueProcLock, TypeOK, LifeInv, HasFile, CorruptInv, TwoEventfds
  <1> QED
    BY <1>1, <1>2, <1>3, <1>4, <1>5, <1>6, <1>7

LEMMA QueueProcAddKeeps ==
  ASSUME IInv, NEW i \in Irqfds, QueueProcAdd(i)
  PROVE  IInv'
  <1> USE DEF IInv, regVars, listVars, fdVars, injVars
  <1>1. TypeOK'
    BY DEF QueueProcAdd, TypeOK
  <1>2. CtxInv'
    <2>1. \A e \in Eventfds : Users(e)' = Users(e)
      BY DEF QueueProcAdd, Users
    <2> QED
      BY <2>1 DEF QueueProcAdd, TypeOK, CtxInv, FileInv
  <1>3. FileInv'
    <2>1. \A e \in Eventfds : Holders(e)' = Holders(e)
      BY DEF QueueProcAdd, TypeOK, LifeInv, Holders, HasFile
    <2> QED
      BY <2>1 DEF QueueProcAdd, TypeOK, FileInv
  <1>4. LifeInv'
    BY DEF QueueProcAdd, TypeOK, LifeInv, ReachInv, EndInv, Linked,
       HasFile
  <1>5. ReachInv'
    BY DEF QueueProcAdd, TypeOK, LifeInv, ReachInv, EndInv, Linked,
       HasFile
  <1>6. EndInv'
    BY DEF QueueProcAdd, TypeOK, LifeInv, ReachInv, EndInv, Linked,
       HasFile
  <1>7. CorruptInv'
    BY DEF QueueProcAdd, TypeOK, LifeInv, HasFile, CorruptInv, TwoEventfds
  <1> QED
    BY <1>1, <1>2, <1>3, <1>4, <1>5, <1>6, <1>7

LEMMA PollCountKeeps ==
  ASSUME IInv, NEW i \in Irqfds, PollCount(i)
  PROVE  IInv'
  <1> USE DEF IInv, regVars, listVars, fdVars, injVars
  <1>1. TypeOK'
    BY DEF PollCount, TypeOK
  <1>2. CtxInv'
    <2>1. \A e \in Eventfds : Users(e)' = Users(e)
      BY DEF PollCount, Users
    <2> QED
      BY <2>1 DEF PollCount, TypeOK, CtxInv, FileInv
  <1>3. FileInv'
    <2>1. \A e \in Eventfds : Holders(e)' = Holders(e)
      BY DEF PollCount, TypeOK, LifeInv, Holders, HasFile
    <2> QED
      BY <2>1 DEF PollCount, TypeOK, FileInv
  <1>4. LifeInv'
    BY DEF PollCount, TypeOK, LifeInv, ReachInv, EndInv, Linked,
       HasFile
  <1>5. ReachInv'
    BY DEF PollCount, TypeOK, LifeInv, ReachInv, EndInv, Linked,
       HasFile
  <1>6. EndInv'
    BY DEF PollCount, TypeOK, LifeInv, ReachInv, EndInv, Linked,
       HasFile
  <1>7. CorruptInv'
    BY DEF PollCount, TypeOK, LifeInv, HasFile, CorruptInv, TwoEventfds
  <1> QED
    BY <1>1, <1>2, <1>3, <1>4, <1>5, <1>6, <1>7

LEMMA FdPutKeeps ==
  ASSUME IInv, NEW i \in Irqfds, FdPut(i)
  PROVE  IInv'
  <1> USE DEF IInv, regVars, listVars, fdVars, injVars
  <1>0. /\ file[i] \in Eventfds
        /\ rel[file[i]] = "no" /\ fileRefs[file[i]] > 0
    <2>1. file[i] \in Eventfds /\ ipc[i] \in HasFile
      BY DEF FdPut, LifeInv, HasFile
    <2> QED
      BY <2>1, HolderCounted
  <1> USE <1>0
  <1>1. TypeOK'
    BY DEF FdPut, PutFile, TypeOK
  <1>2. CtxInv'
    <2>1. \A e \in Eventfds : Users(e)' = Users(e)
      BY DEF FdPut, PutFile, Users
    <2> QED
      BY <2>1 DEF FdPut, PutFile, TypeOK, CtxInv, FileInv
  <1>3. FileInv'
    <2> DEFINE e == file[i]
    <2>1. e \in Eventfds
      BY DEF FdPut, TypeOK, LifeInv
    <2>2. Holders(e)' = Holders(e) \ {i} /\ i \in Holders(e)
      BY <2>1 DEF FdPut, TypeOK, Holders, HasFile
    <2>3. \A f \in Eventfds \ {e} : Holders(f)' = Holders(f)
      BY <2>1 DEF FdPut, TypeOK, Holders, HasFile
    <2>4. Cardinality(Holders(e)') = Cardinality(Holders(e)) - 1
      BY <2>1, <2>2, SetsFinite, FS_RemoveElement
    <2>5. Cardinality(Holders(e)) \in Nat /\ Cardinality(Holders(e)') \in Nat
      BY <1>1, <2>1, <2>2, SetsFinite, FS_CardinalityType, FS_RemoveElement
    <2> QED
      BY <2>1, <2>3, <2>4, <2>5 DEF FdPut, PutFile, TypeOK, FileInv
  <1>4. LifeInv'
    BY DEF FdPut, PutFile, TypeOK, LifeInv, ReachInv, EndInv, Linked,
       HasFile
  <1>5. ReachInv'
    BY DEF FdPut, PutFile, TypeOK, LifeInv, ReachInv, EndInv, Linked,
       HasFile
  <1>6. EndInv'
    BY DEF FdPut, PutFile, TypeOK, LifeInv, ReachInv, EndInv, Linked,
       HasFile
  <1>7. CorruptInv'
    BY DEF FdPut, PutFile, TypeOK, LifeInv, HasFile, CorruptInv, TwoEventfds
  <1> QED
    BY <1>1, <1>2, <1>3, <1>4, <1>5, <1>6, <1>7

LEMMA CloseFdKeeps ==
  ASSUME IInv, NEW e \in Eventfds, CloseFd(e)
  PROVE  IInv'
  <1> USE DEF IInv, regVars, listVars, fdVars, injVars
  <1>0. rel[e] = "no" /\ fileRefs[e] > 0
    <2>1. Cardinality(Holders(e)) \in Nat
      BY SetsFinite, FS_CardinalityType
    <2> QED
      BY <2>1 DEF CloseFd, TypeOK, FileInv
  <1> USE <1>0
  <1>1. TypeOK'
    BY DEF CloseFd, PutFile, TypeOK
  <1>2. CtxInv'
    <2>1. \A f \in Eventfds : Users(f)' = Users(f)
      BY DEF CloseFd, PutFile, Users
    <2> QED
      BY <2>1 DEF CloseFd, PutFile, TypeOK, CtxInv, FileInv
  <1>3. FileInv'
    <2>1. \A f \in Eventfds : Holders(f)' = Holders(f)
      BY DEF CloseFd, Holders
    <2>2. Cardinality(Holders(e)) \in Nat
      BY SetsFinite, FS_CardinalityType
    <2> QED
      BY <2>1, <2>2 DEF CloseFd, PutFile, TypeOK, FileInv
  <1>4. LifeInv'
    BY DEF CloseFd, PutFile, TypeOK, LifeInv, ReachInv, EndInv, Linked,
       HasFile
  <1>5. ReachInv'
    BY DEF CloseFd, PutFile, TypeOK, LifeInv, ReachInv, EndInv, Linked,
       HasFile
  <1>6. EndInv'
    BY DEF CloseFd, PutFile, TypeOK, LifeInv, ReachInv, EndInv, Linked,
       HasFile
  <1>7. CorruptInv'
    BY DEF CloseFd, PutFile, TypeOK, LifeInv, HasFile, CorruptInv, TwoEventfds
  <1> QED
    BY <1>1, <1>2, <1>3, <1>4, <1>5, <1>6, <1>7

LEMMA WriteKeeps ==
  ASSUME IInv, NEW e \in Eventfds, Write(e)
  PROVE  IInv'
  <1> USE DEF IInv, regVars, listVars, fdVars, injVars
  <1>1. TypeOK'
    BY DEF Write, TypeOK
  <1>2. CtxInv'
    <2>1. \A f \in Eventfds : Users(f)' = Users(f)
      BY DEF Write, Users
    <2> QED
      BY <2>1 DEF Write, TypeOK, CtxInv, FileInv
  <1>3. FileInv'
    <2>1. \A f \in Eventfds : Holders(f)' = Holders(f)
      BY DEF Write, TypeOK, LifeInv, Holders, HasFile
    <2> QED
      BY <2>1 DEF Write, TypeOK, FileInv
  <1>4. LifeInv'
    BY DEF Write, TypeOK, LifeInv, ReachInv, EndInv, Linked,
       HasFile
  <1>5. ReachInv'
    BY DEF Write, TypeOK, LifeInv, ReachInv, EndInv, Linked,
       HasFile
  <1>6. EndInv'
    BY DEF Write, TypeOK, LifeInv, ReachInv, EndInv, Linked,
       HasFile
  <1>7. CorruptInv'
    BY DEF Write, TypeOK, LifeInv, HasFile, CorruptInv, TwoEventfds
  <1> QED
    BY <1>1, <1>2, <1>3, <1>4, <1>5, <1>6, <1>7

LEMMA HupLockKeeps ==
  ASSUME IInv, NEW e \in Eventfds, HupLock(e)
  PROVE  IInv'
  <1> USE DEF IInv, regVars, listVars, fdVars, injVars
  <1>1. TypeOK'
    BY DEF HupLock, TypeOK
  <1>2. CtxInv'
    <2>1. \A f \in Eventfds : Users(f)' = Users(f)
      BY DEF HupLock, Users
    <2> QED
      BY <2>1 DEF HupLock, TypeOK, CtxInv, FileInv
  <1>3. FileInv'
    <2>1. \A f \in Eventfds : Holders(f)' = Holders(f)
      BY DEF HupLock, TypeOK, LifeInv, Holders, HasFile
    <2> QED
      BY <2>1 DEF HupLock, TypeOK, FileInv
  <1>4. LifeInv'
    BY DEF HupLock, TypeOK, LifeInv, ReachInv, EndInv, Linked,
       HasFile
  <1>5. ReachInv'
    BY DEF HupLock, TypeOK, LifeInv, ReachInv, EndInv, Linked,
       HasFile
  <1>6. EndInv'
    BY DEF HupLock, TypeOK, LifeInv, ReachInv, EndInv, Linked,
       HasFile
  <1>7. CorruptInv'
    BY DEF HupLock, TypeOK, LifeInv, HasFile, CorruptInv, TwoEventfds
  <1> QED
    BY <1>1, <1>2, <1>3, <1>4, <1>5, <1>6, <1>7

LEMMA HupWakeupKeeps ==
  ASSUME IInv, ~corrupt, NEW e \in Eventfds, NEW i \in Irqfds, HupWakeup(e, i)
  PROVE  IInv'
  <1> USE DEF IInv, regVars, listVars, fdVars, injVars
  <1>0. file[i] = e /\ ipc[i] = "done"
    <2>1. file[i] = e /\ ipc[i] \in Linked
      BY DEF HupWakeup, ReachInv
    <2> QED
      BY <2>1, HolderCounted DEF HupWakeup, Linked, HasFile
  <1> USE <1>0
  <1>1. TypeOK'
    BY DEF HupWakeup, Shutdown, TypeOK
  <1>2. CtxInv'
    <2>1. \A f \in Eventfds : Users(f)' = Users(f)
      BY DEF HupWakeup, Shutdown, Users
    <2> QED
      BY <2>1 DEF HupWakeup, Shutdown, TypeOK, CtxInv, FileInv
  <1>3. FileInv'
    <2>1. \A f \in Eventfds : Holders(f)' = Holders(f)
      BY DEF HupWakeup, Shutdown, TypeOK, LifeInv, Holders, HasFile
    <2> QED
      BY <2>1 DEF HupWakeup, Shutdown, TypeOK, FileInv
  <1>4. LifeInv'
    BY DEF HupWakeup, Shutdown, TypeOK, LifeInv, ReachInv, EndInv, Linked,
       HasFile
  <1>5. ReachInv'
    BY DEF HupWakeup, Shutdown, TypeOK, LifeInv, ReachInv, EndInv, Linked,
       HasFile
  <1>6. EndInv'
    BY DEF HupWakeup, Shutdown, TypeOK, LifeInv, ReachInv, EndInv, Linked,
       HasFile
  <1>7. CorruptInv'
    BY DEF HupWakeup, Shutdown, TypeOK, LifeInv, HasFile, CorruptInv, TwoEventfds
  <1> QED
    BY <1>1, <1>2, <1>3, <1>4, <1>5, <1>6, <1>7

LEMMA HupUnlockKeeps ==
  ASSUME IInv, NEW e \in Eventfds, HupUnlock(e)
  PROVE  IInv'
  <1> USE DEF IInv, regVars, listVars, fdVars, injVars
  <1>1. TypeOK'
    BY DEF HupUnlock, TypeOK
  <1>2. CtxInv'
    <2>1. \A f \in Eventfds : Users(f)' = Users(f)
      BY DEF HupUnlock, Users
    <2> QED
      BY <2>1 DEF HupUnlock, TypeOK, CtxInv, FileInv
  <1>3. FileInv'
    <2>1. \A f \in Eventfds : Holders(f)' = Holders(f)
      BY DEF HupUnlock, TypeOK, LifeInv, Holders, HasFile
    <2> QED
      BY <2>1 DEF HupUnlock, TypeOK, FileInv
  <1>4. LifeInv'
    BY DEF HupUnlock, TypeOK, LifeInv, ReachInv, EndInv, Linked,
       HasFile
  <1>5. ReachInv'
    BY DEF HupUnlock, TypeOK, LifeInv, ReachInv, EndInv, Linked,
       HasFile
  <1>6. EndInv'
    BY DEF HupUnlock, TypeOK, LifeInv, ReachInv, EndInv, Linked,
       HasFile
  <1>7. CorruptInv'
    BY DEF HupUnlock, TypeOK, LifeInv, HasFile, CorruptInv, TwoEventfds
  <1> QED
    BY <1>1, <1>2, <1>3, <1>4, <1>5, <1>6, <1>7

LEMMA ReleasePutKeeps ==
  ASSUME IInv, NEW e \in Eventfds, ReleasePut(e)
  PROVE  IInv'
  <1> USE DEF IInv, regVars, listVars, fdVars, injVars
  <1>0. ctxRefs[e] > 0
    <2>1. Cardinality(Users(e)) \in Nat
      BY SetsFinite, FS_CardinalityType
    <2> QED
      BY <2>1 DEF ReleasePut, TypeOK, CtxInv
  <1> USE <1>0
  <1>1. TypeOK'
    BY DEF ReleasePut, TypeOK
  <1>2. CtxInv'
    <2>1. \A f \in Eventfds : Users(f)' = Users(f)
      BY DEF ReleasePut, Users
    <2>2. Cardinality(Users(e)) \in Nat
      BY SetsFinite, FS_CardinalityType
    <2> QED
      BY <2>1, <2>2 DEF ReleasePut, TypeOK, CtxInv
  <1>3. FileInv'
    <2>1. \A f \in Eventfds : Holders(f)' = Holders(f)
      BY DEF ReleasePut, TypeOK, LifeInv, Holders, HasFile
    <2> QED
      BY <2>1 DEF ReleasePut, TypeOK, FileInv
  <1>4. LifeInv'
    BY DEF ReleasePut, TypeOK, LifeInv, ReachInv, EndInv, Linked,
       HasFile
  <1>5. ReachInv'
    BY DEF ReleasePut, TypeOK, LifeInv, ReachInv, EndInv, Linked,
       HasFile
  <1>6. EndInv'
    BY DEF ReleasePut, TypeOK, LifeInv, ReachInv, EndInv, Linked,
       HasFile
  <1>7. CorruptInv'
    BY DEF ReleasePut, TypeOK, LifeInv, HasFile, CorruptInv, TwoEventfds
  <1> QED
    BY <1>1, <1>2, <1>3, <1>4, <1>5, <1>6, <1>7

LEMMA InjectStartKeeps ==
  ASSUME IInv, NEW i \in Irqfds, InjectStart(i)
  PROVE  IInv'
  <1> USE DEF IInv, regVars, listVars, fdVars, injVars
  <1>1. TypeOK'
    BY DEF InjectStart, TypeOK
  <1>2. CtxInv'
    <2>1. \A e \in Eventfds : Users(e)' = Users(e)
      BY DEF InjectStart, Users
    <2> QED
      BY <2>1 DEF InjectStart, TypeOK, CtxInv, FileInv
  <1>3. FileInv'
    <2>1. \A e \in Eventfds : Holders(e)' = Holders(e)
      BY DEF InjectStart, TypeOK, LifeInv, Holders, HasFile
    <2> QED
      BY <2>1 DEF InjectStart, TypeOK, FileInv
  <1>4. LifeInv'
    BY DEF InjectStart, TypeOK, LifeInv, ReachInv, EndInv, Linked,
       HasFile
  <1>5. ReachInv'
    BY DEF InjectStart, TypeOK, LifeInv, ReachInv, EndInv, Linked,
       HasFile
  <1>6. EndInv'
    BY DEF InjectStart, TypeOK, LifeInv, ReachInv, EndInv, Linked,
       HasFile
  <1>7. CorruptInv'
    BY DEF InjectStart, TypeOK, LifeInv, HasFile, CorruptInv, TwoEventfds
  <1> QED
    BY <1>1, <1>2, <1>3, <1>4, <1>5, <1>6, <1>7

LEMMA InjectEndKeeps ==
  ASSUME IInv, NEW i \in Irqfds, InjectEnd(i)
  PROVE  IInv'
  <1> USE DEF IInv, regVars, listVars, fdVars, injVars
  <1>1. TypeOK'
    BY DEF InjectEnd, TypeOK
  <1>2. CtxInv'
    <2>1. \A e \in Eventfds : Users(e)' = Users(e)
      BY DEF InjectEnd, Users
    <2> QED
      BY <2>1 DEF InjectEnd, TypeOK, CtxInv, FileInv
  <1>3. FileInv'
    <2>1. \A e \in Eventfds : Holders(e)' = Holders(e)
      BY DEF InjectEnd, TypeOK, LifeInv, Holders, HasFile
    <2> QED
      BY <2>1 DEF InjectEnd, TypeOK, FileInv
  <1>4. LifeInv'
    BY DEF InjectEnd, TypeOK, LifeInv, ReachInv, EndInv, Linked,
       HasFile
  <1>5. ReachInv'
    BY DEF InjectEnd, TypeOK, LifeInv, ReachInv, EndInv, Linked,
       HasFile
  <1>6. EndInv'
    BY DEF InjectEnd, TypeOK, LifeInv, ReachInv, EndInv, Linked,
       HasFile
  <1>7. CorruptInv'
    BY DEF InjectEnd, TypeOK, LifeInv, HasFile, CorruptInv, TwoEventfds
  <1> QED
    BY <1>1, <1>2, <1>3, <1>4, <1>5, <1>6, <1>7

LEMMA RemoveWaitKeeps ==
  ASSUME IInv, NEW i \in Irqfds, RemoveWait(i)
  PROVE  IInv'
  <1> USE DEF IInv, regVars, listVars, fdVars, injVars
  <1>1. TypeOK'
    BY DEF RemoveWait, TypeOK
  <1>2. CtxInv'
    <2>1. \A e \in Eventfds : Users(e)' = Users(e)
      BY DEF RemoveWait, Users
    <2> QED
      BY <2>1 DEF RemoveWait, TypeOK, CtxInv, FileInv
  <1>3. FileInv'
    <2>1. \A e \in Eventfds : Holders(e)' = Holders(e)
      BY DEF RemoveWait, TypeOK, LifeInv, Holders, HasFile
    <2> QED
      BY <2>1 DEF RemoveWait, TypeOK, FileInv
  <1>4. LifeInv'
    BY DEF RemoveWait, TypeOK, LifeInv, ReachInv, EndInv, Linked,
       HasFile
  <1>5. ReachInv'
    BY DEF RemoveWait, TypeOK, LifeInv, ReachInv, EndInv, Linked,
       HasFile
  <1>6. EndInv'
    BY DEF RemoveWait, TypeOK, LifeInv, ReachInv, EndInv, Linked,
       HasFile
  <1>7. CorruptInv'
    <2>1. i \in live /\ trigger[i] \in Eventfds /\ file[i] \in Eventfds
      BY DEF RemoveWait, TypeOK, LifeInv
    <2>2. ctxRefs[trigger[i]] > 0
      BY <2>1, UserCounted
    <2>3. file[i] # None
      BY <2>1, NoneAssumption
    <2>4. TwoEventfds' <=> TwoEventfds
      BY DEF RemoveWait, TwoEventfds
    <2>5. file[i] # trigger[i] => TwoEventfds
      BY <2>3 DEF TwoEventfds
    <2>6. ASSUME corrupt' PROVE corrupt \/ file[i] # trigger[i]
      <3> SUFFICES ASSUME file[i] = trigger[i] PROVE corrupt
        OBVIOUS
      <3>1. PICK raced \in {FALSE, file[i] # trigger[i]} :
               corrupt' = (corrupt \/ raced \/ wqh[file[i]] \/ ctxRefs[file[i]] = 0)
        BY DEF RemoveWait
      <3>2. ~raced
        BY <3>1
      <3>3. ~wqh[file[i]] /\ ctxRefs[file[i]] # 0
        BY <2>2 DEF RemoveWait
      <3> QED
        BY <2>6, <3>1, <3>2, <3>3
    <2>7. ASSUME corrupt' PROVE TwoEventfds
      BY <2>5, <2>6, <2>7 DEF CorruptInv
    <2> QED
      BY <2>4, <2>7 DEF CorruptInv
  <1> QED
    BY <1>1, <1>2, <1>3, <1>4, <1>5, <1>6, <1>7

LEMMA FlushInjectKeeps ==
  ASSUME IInv, NEW i \in Irqfds, FlushInject(i)
  PROVE  IInv'
  <1> USE DEF IInv, regVars, listVars, fdVars, injVars
  <1>1. TypeOK'
    BY DEF FlushInject, TypeOK
  <1>2. CtxInv'
    <2>1. \A e \in Eventfds : Users(e)' = Users(e)
      BY DEF FlushInject, Users
    <2> QED
      BY <2>1 DEF FlushInject, TypeOK, CtxInv, FileInv
  <1>3. FileInv'
    <2>1. \A e \in Eventfds : Holders(e)' = Holders(e)
      BY DEF FlushInject, TypeOK, LifeInv, Holders, HasFile
    <2> QED
      BY <2>1 DEF FlushInject, TypeOK, FileInv
  <1>4. LifeInv'
    BY DEF FlushInject, TypeOK, LifeInv, ReachInv, EndInv, Linked,
       HasFile
  <1>5. ReachInv'
    BY DEF FlushInject, TypeOK, LifeInv, ReachInv, EndInv, Linked,
       HasFile
  <1>6. EndInv'
    BY DEF FlushInject, TypeOK, LifeInv, ReachInv, EndInv, Linked,
       HasFile
  <1>7. CorruptInv'
    BY DEF FlushInject, TypeOK, LifeInv, HasFile, CorruptInv, TwoEventfds
  <1> QED
    BY <1>1, <1>2, <1>3, <1>4, <1>5, <1>6, <1>7

LEMMA FreeIrqfdKeeps ==
  ASSUME IInv, NEW i \in Irqfds, FreeIrqfd(i)
  PROVE  IInv'
  <1> USE DEF IInv, regVars, listVars, fdVars, injVars
  <1>0. trigger[i] \in Eventfds /\ ctxRefs[trigger[i]] > 0
    <2>1. i \in live /\ trigger[i] \in Eventfds
      BY DEF FreeIrqfd, TypeOK, LifeInv
    <2> QED
      BY <2>1, UserCounted
  <1> USE <1>0
  <1>1. TypeOK'
    BY DEF FreeIrqfd, TypeOK
  <1>2. CtxInv'
    <2> DEFINE e == trigger[i]
    <2>1. i \in live /\ e \in Eventfds
      BY DEF FreeIrqfd, TypeOK, LifeInv
    <2>2. Users(e)' = Users(e) \ {i} /\ i \in Users(e)
      BY <2>1 DEF FreeIrqfd, TypeOK, Users
    <2>3. \A f \in Eventfds \ {e} : Users(f)' = Users(f)
      BY <2>1 DEF FreeIrqfd, TypeOK, Users
    <2>4. Cardinality(Users(e)') = Cardinality(Users(e)) - 1
      BY <2>1, <2>2, SetsFinite, FS_RemoveElement
    <2>5. Cardinality(Users(e)) \in Nat
      BY <2>1, SetsFinite, FS_CardinalityType
    <2> QED
      BY <2>1, <2>3, <2>4, <2>5 DEF FreeIrqfd, TypeOK, CtxInv
  <1>3. FileInv'
    <2>1. \A e \in Eventfds : Holders(e)' = Holders(e)
      BY DEF FreeIrqfd, TypeOK, LifeInv, Holders, HasFile
    <2> QED
      BY <2>1 DEF FreeIrqfd, TypeOK, FileInv
  <1>4. LifeInv'
    BY DEF FreeIrqfd, TypeOK, LifeInv, ReachInv, EndInv, Linked,
       HasFile
  <1>5. ReachInv'
    BY DEF FreeIrqfd, TypeOK, LifeInv, ReachInv, EndInv, Linked,
       HasFile
  <1>6. EndInv'
    BY DEF FreeIrqfd, TypeOK, LifeInv, ReachInv, EndInv, Linked,
       HasFile
  <1>7. CorruptInv'
    BY DEF FreeIrqfd, TypeOK, LifeInv, HasFile, CorruptInv, TwoEventfds
  <1> QED
    BY <1>1, <1>2, <1>3, <1>4, <1>5, <1>6, <1>7

LEMMA LastCloseKeeps ==
  ASSUME IInv, LastClose
  PROVE  IInv'
  <1> USE DEF IInv, regVars, listVars, fdVars, injVars
  <1>1. TypeOK'
    BY DEF LastClose, TypeOK
  <1>2. CtxInv'
    <2>1. \A e \in Eventfds : Users(e)' = Users(e)
      BY DEF LastClose, Users
    <2> QED
      BY <2>1 DEF LastClose, TypeOK, CtxInv, FileInv
  <1>3. FileInv'
    <2>1. \A e \in Eventfds : Holders(e)' = Holders(e)
      BY DEF LastClose, TypeOK, LifeInv, Holders, HasFile
    <2> QED
      BY <2>1 DEF LastClose, TypeOK, FileInv
  <1>4. LifeInv'
    BY DEF LastClose, TypeOK, LifeInv, ReachInv, EndInv, Linked,
       HasFile
  <1>5. ReachInv'
    BY DEF LastClose, TypeOK, LifeInv, ReachInv, EndInv, Linked,
       HasFile
  <1>6. EndInv'
    BY DEF LastClose, TypeOK, LifeInv, ReachInv, EndInv, Linked,
       HasFile
  <1>7. CorruptInv'
    BY DEF LastClose, TypeOK, LifeInv, HasFile, CorruptInv, TwoEventfds
  <1> QED
    BY <1>1, <1>2, <1>3, <1>4, <1>5, <1>6, <1>7

LEMMA ShutdownAllKeeps ==
  ASSUME IInv, ShutdownAll
  PROVE  IInv'
  <1> USE DEF IInv, regVars, listVars, fdVars, injVars
  <1>1. TypeOK'
    BY DEF ShutdownAll, Shutdown, TypeOK
  <1>2. CtxInv'
    <2>1. \A e \in Eventfds : Users(e)' = Users(e)
      BY DEF ShutdownAll, Shutdown, Users
    <2> QED
      BY <2>1 DEF ShutdownAll, Shutdown, TypeOK, CtxInv, FileInv
  <1>3. FileInv'
    <2>1. \A e \in Eventfds : Holders(e)' = Holders(e)
      BY DEF ShutdownAll, Shutdown, TypeOK, LifeInv, Holders, HasFile
    <2> QED
      BY <2>1 DEF ShutdownAll, Shutdown, TypeOK, FileInv
  <1>4. LifeInv'
    BY DEF ShutdownAll, Shutdown, TypeOK, LifeInv, ReachInv, EndInv, Linked,
       HasFile
  <1>5. ReachInv'
    BY DEF ShutdownAll, Shutdown, TypeOK, LifeInv, ReachInv, EndInv, Linked,
       HasFile
  <1>6. EndInv'
    BY DEF ShutdownAll, Shutdown, TypeOK, LifeInv, ReachInv, EndInv, Linked,
       HasFile
  <1>7. CorruptInv'
    BY DEF ShutdownAll, Shutdown, TypeOK, LifeInv, HasFile, CorruptInv, TwoEventfds
  <1> QED
    BY <1>1, <1>2, <1>3, <1>4, <1>5, <1>6, <1>7

LEMMA DestroyWorkqueueKeeps ==
  ASSUME IInv, DestroyWorkqueue
  PROVE  IInv'
  <1> USE DEF IInv, regVars, listVars, fdVars, injVars
  <1>1. TypeOK'
    BY DEF DestroyWorkqueue, TypeOK
  <1>2. CtxInv'
    <2>1. \A e \in Eventfds : Users(e)' = Users(e)
      BY DEF DestroyWorkqueue, Users
    <2> QED
      BY <2>1 DEF DestroyWorkqueue, TypeOK, CtxInv, FileInv
  <1>3. FileInv'
    <2>1. \A e \in Eventfds : Holders(e)' = Holders(e)
      BY DEF DestroyWorkqueue, TypeOK, LifeInv, Holders, HasFile
    <2> QED
      BY <2>1 DEF DestroyWorkqueue, TypeOK, FileInv
  <1>4. LifeInv'
    BY DEF DestroyWorkqueue, TypeOK, LifeInv, ReachInv, EndInv, Linked,
       HasFile
  <1>5. ReachInv'
    BY DEF DestroyWorkqueue, TypeOK, LifeInv, ReachInv, EndInv, Linked,
       HasFile
  <1>6. EndInv'
    BY DEF DestroyWorkqueue, TypeOK, LifeInv, ReachInv, EndInv, Linked,
       HasFile
  <1>7. CorruptInv'
    BY DEF DestroyWorkqueue, TypeOK, LifeInv, HasFile, CorruptInv, TwoEventfds
  <1> QED
    BY <1>1, <1>2, <1>3, <1>4, <1>5, <1>6, <1>7

LEMMA FreeStateKeeps ==
  ASSUME IInv, FreeState
  PROVE  IInv'
  <1> USE DEF IInv, regVars, listVars, fdVars, injVars
  <1>1. TypeOK'
    BY DEF FreeState, TypeOK
  <1>2. CtxInv'
    <2>1. \A e \in Eventfds : Users(e)' = Users(e)
      BY DEF FreeState, Users
    <2> QED
      BY <2>1 DEF FreeState, TypeOK, CtxInv, FileInv
  <1>3. FileInv'
    <2>1. \A e \in Eventfds : Holders(e)' = Holders(e)
      BY DEF FreeState, TypeOK, LifeInv, Holders, HasFile
    <2> QED
      BY <2>1 DEF FreeState, TypeOK, FileInv
  <1>4. LifeInv'
    BY DEF FreeState, TypeOK, LifeInv, ReachInv, EndInv, Linked,
       HasFile
  <1>5. ReachInv'
    BY DEF FreeState, TypeOK, LifeInv, ReachInv, EndInv, Linked,
       HasFile
  <1>6. EndInv'
    BY DEF FreeState, TypeOK, LifeInv, ReachInv, EndInv, Linked,
       HasFile
  <1>7. CorruptInv'
    BY DEF FreeState, TypeOK, LifeInv, HasFile, CorruptInv, TwoEventfds
  <1> QED
    BY <1>1, <1>2, <1>3, <1>4, <1>5, <1>6, <1>7

-----------------------------------------------------------------------------
(* The invariant *)

LEMMA IInvInit == Init => IInv
  <1> SUFFICES ASSUME Init PROVE IInv
    OBVIOUS
  <1>1. \A e \in Eventfds : Users(e) = {} /\ Holders(e) = {}
    BY DEF Init, Users, Holders, HasFile
  <1>2. \A e \in Eventfds :
           Cardinality(Users(e)) = 0 /\ Cardinality(Holders(e)) = 0
    BY <1>1, FS_EmptySet
  <1>2a. CtxInv
    BY <1>2 DEF Init, CtxInv
  <1>2b. FileInv
    BY <1>2 DEF Init, FileInv
  <1>3. TypeOK
    BY DEF Init, TypeOK
  <1>4. LifeInv /\ ReachInv /\ EndInv /\ CorruptInv
    BY DEF Init, LifeInv, ReachInv, EndInv, CorruptInv, Linked, HasFile
  <1> QED
    BY <1>2a, <1>2b, <1>3, <1>4 DEF IInv

LEMMA IInvNext == IInv /\ [Next]_vars => IInv'
  <1> SUFFICES ASSUME IInv, [Next]_vars PROVE IInv'
    OBVIOUS
  <1>1. ASSUME Userspace PROVE IInv'
    BY <1>1, GetCtxKeeps, CloseFdKeeps, WriteKeeps, LastCloseKeeps DEF Userspace
  <1>2. ASSUME NEW i \in Irqfds, SetIrqfd(i) PROVE IInv'
    BY <1>2, GetFileKeeps, GetFileFailsKeeps, QueueProcLockKeeps,
       QueueProcAddKeeps, PollCountKeeps, FdPutKeeps DEF SetIrqfd
  <1>3. ASSUME NEW i \in Irqfds, Inject(i) PROVE IInv'
    BY <1>3, InjectStartKeeps, InjectEndKeeps DEF Inject
  <1>4. ASSUME NEW i \in Irqfds, Cleanup(i) PROVE IInv'
    BY <1>4, RemoveWaitKeeps, FlushInjectKeeps, FreeIrqfdKeeps DEF Cleanup
  <1>5. ASSUME NEW e \in Eventfds, Sound(Release(e)) PROVE IInv'
    BY <1>5, HupLockKeeps, HupUnlockKeeps, ReleasePutKeeps, HupWakeupKeeps
       DEF Release, Sound
  <1>6. ASSUME Destroy PROVE IInv'
    BY <1>6, ShutdownAllKeeps, DestroyWorkqueueKeeps, FreeStateKeeps DEF Destroy
  <1>7. CASE UNCHANGED vars
    <2>1. \A e \in Eventfds : Users(e)' = Users(e) /\ Holders(e)' = Holders(e)
      BY <1>7 DEF vars, Users, Holders
    <2>2. CtxInv' /\ FileInv'
      BY <1>7, <2>1 DEF vars, IInv, CtxInv, FileInv
    <2>3. TypeOK' /\ LifeInv' /\ ReachInv' /\ EndInv' /\ CorruptInv'
      BY <1>7 DEF vars, IInv, TypeOK, LifeInv, ReachInv, EndInv, CorruptInv,
                  TwoEventfds
    <2> QED
      BY <2>2, <2>3 DEF IInv
  <1> QED
    BY <1>1, <1>2, <1>3, <1>4, <1>5, <1>6, <1>7 DEF Next, Sound

LEMMA Invariance == Spec => []IInv
  BY IInvInit, IInvNext, PTL DEF Spec

-----------------------------------------------------------------------------
(* What it says of the code *)

(* TypeOK: irqfds, their calls, works and references stay well formed. *)
THEOREM TypeCorrect == Spec => []TypeOK
  BY Invariance, PTL DEF IInv

(* NoUseAfterFree: wherever an irqfd can still be reached from, it is       *)
(* allocated, its eventfd context is referenced and the state is there.     *)
THEOREM ReachedIsAllocated == Spec => []NoUseAfterFree
  <1>1. IInv => NoUseAfterFree
    <2> SUFFICES ASSUME IInv, ~corrupt, NEW i \in Irqfds, InUse(i)
                 PROVE  /\ i \in live
                        /\ dpc \notin {"free", "freed"}
                        /\ ctxRefs[trigger[i]] > 0
      BY DEF NoUseAfterFree, IInv, CorruptInv
    <2>1. ipc[i] \in Linked /\ cleanup[i] # "done"
      BY DEF InUse, IInv, TypeOK, LifeInv, ReachInv, Linked
    <2>2. i \in live /\ trigger[i] \in Eventfds
      BY <2>1 DEF IInv, LifeInv, Linked
    <2>3. dpc \notin {"free", "freed"}
      <3> SUFFICES ASSUME dpc \in {"free", "freed"} PROVE FALSE
        OBVIOUS
      <3>1. cleanup[i] = "none" /\ i \notin items
        BY <2>1 DEF IInv, EndInv
      <3> QED
        BY <2>1, <3>1 DEF IInv, LifeInv
    <2>4. ctxRefs[trigger[i]] > 0
      BY <2>2, UserCounted DEF IInv
    <2> QED
      BY <2>2, <2>3, <2>4
  <1> QED
    BY <1>1, Invariance, PTL

(* NothingLeaked: once the state is freed, so is every irqfd, and only      *)
(* userspace's own reference to an eventfd is left.                         *)
THEOREM FreedIsEmpty == Spec => []NothingLeaked
  <1>1. IInv => NothingLeaked
    <2> SUFFICES ASSUME IInv, dpc = "freed"
                 PROVE  /\ live = {}
                        /\ \A e \in Eventfds :
                              ctxRefs[e] = (IF rel[e] = "done" THEN 0 ELSE 1)
      BY DEF NothingLeaked
    <2>1. \A i \in Irqfds : i \notin live
      <3> SUFFICES ASSUME NEW i \in Irqfds, i \in live PROVE FALSE
        OBVIOUS
      <3>1. ipc[i] = "done" /\ cleanup[i] = "none" /\ i \notin items
        BY DEF IInv, EndInv, LifeInv
      <3> QED
        BY <3>1 DEF IInv, LifeInv, Linked
    <2>2. live = {}
      BY <2>1 DEF IInv, TypeOK
    <2>3. \A e \in Eventfds : Cardinality(Users(e)) = 0
      BY <2>2, FS_EmptySet DEF Users
    <2> QED
      BY <2>2, <2>3 DEF IInv, CtxInv
  <1> QED
    BY <1>1, Invariance, PTL

(* NoLockInversion: a registering thread that holds irqfds->lock also holds *)
(* a reference to the file, so no HUP of that eventfd is under way.         *)
THEOREM LockOrdersNeverMeet == Spec => []NoLockInversion
  <1>1. IInv => NoLockInversion
    <2> SUFFICES ASSUME IInv, NEW i \in Irqfds, NEW e \in Eventfds,
                        ipc[i] = "locked", file[i] = e, rel[e] = "waking"
                 PROVE  FALSE
      BY DEF NoLockInversion
    <2> QED
      BY HolderCounted DEF IInv, HasFile
  <1> QED
    BY <1>1, Invariance, PTL

-----------------------------------------------------------------------------
(* Msi                                                                      *)

(* Somebody is between leaving an IRQ in pending_msi_irq and reading it: a  *)
(* caller about to queue the work, the queue, or a handler.                 *)
Awaited ==
    \/ \E c \in Callers : pc[c] = "queue"
    \/ wPending
    \/ \E u \in Cpus : hpc[u] = Called

(* The handler only runs on an IRQ that was left; one left by a call that   *)
(* succeeded, and not read since, will be read.                             *)
WorkInv ==
    /\ Awaited => pending \in Irq
    /\ pending \in accepted => Awaited

(* The teardown starts when no call runs, and goes on when no work does. *)
TeardownInv ==
    /\ tpc # "no" => \A c \in Callers : pc[c] = "idle"
    /\ tpc = "removed" => /\ mode = "none" /\ ~wPending
                          /\ \A u \in Cpus : hpc[u] = Idle

MsiInv == MsiTypeOK /\ WorkInv /\ TeardownInv

LEMMA VectorIrqType ==
  ASSUME NEW v \in Vectors
  PROVE  VectorIrq(v) \in Irq
  BY NumVectorsAssumption, VectorsAssumption DEF VectorIrq, Irq

LEMMA IdleCalled == Idle # Called /\ Idle \notin Irq /\ Called \notin Irq
  BY DEF Idle, Called, Irq

LEMMA MsiInvInit == MsiInit => MsiInv
  <1> SUFFICES ASSUME MsiInit PROVE MsiInv
    OBVIOUS
  <1>1. MsiTypeOK
    <2>1. calls \in 0..MaxCalls
      BY MaxCallsAssumption DEF MsiInit
    <2>2. hpc \in [Cpus -> Irq \cup {Idle, Called}]
      BY DEF MsiInit
    <2> QED
      BY <2>1, <2>2 DEF MsiInit, MsiTypeOK
  <1>2. WorkInv /\ TeardownInv
    BY IdleCalled DEF MsiInit, WorkInv, Awaited, TeardownInv
  <1> QED
    BY <1>1, <1>2 DEF MsiInv

LEMMA MsiInvNext == MsiInv /\ [MsiNext]_msiVars => MsiInv'
  <1> SUFFICES ASSUME MsiInv, [MsiNext]_msiVars PROVE MsiInv'
    OBVIOUS
  <1> USE IdleCalled, MaxCallsAssumption DEF MsiInv
  <1>0. Irq' = Irq /\ Idle' = Idle /\ Called' = Called
    BY DEF Irq, Idle, Called
  <1>1. ASSUME NEW m \in {"none", "irq", "msix"}, SetMode(m) PROVE MsiInv'
    BY <1>1 DEF SetMode, MsiTypeOK, WorkInv, Awaited, TeardownInv
  <1>2. ASSUME NEW c \in Callers, NEW v \in Vectors, Trigger(c, v) PROVE MsiInv'
    <2> DEFINE q == VectorIrq(v)
    <2>0. q \in Irq
      BY VectorIrqType
    <2>1. MsiTypeOK'
      BY <1>2, <2>0 DEF Trigger, MsiTypeOK
    <2>2. WorkInv'
      <3>1. CASE mode = "none"
        BY <1>2, <3>1 DEF Trigger, WorkInv, Awaited
      <3>2. CASE mode # "none"
        <4>1. pending' = q /\ pc'[c] = "queue"
          BY <1>2, <3>2 DEF Trigger, MsiTypeOK
        <4> QED
          BY <2>0, <4>1 DEF WorkInv, Awaited
      <3> QED
        BY <3>1, <3>2
    <2>3. TeardownInv'
      BY <1>2 DEF Trigger, TeardownInv
    <2> QED
      BY <2>1, <2>2, <2>3
  <1>3. ASSUME NEW c \in Callers, QueueWork(c) PROVE MsiInv'
    BY <1>3 DEF QueueWork, MsiTypeOK, WorkInv, Awaited, TeardownInv
  <1>4. ASSUME NEW u \in Cpus, WorkStart(u) PROVE MsiInv'
    <2>1. hpc'[u] = Called /\ pending \in Irq
      BY <1>4 DEF WorkStart, MsiTypeOK, WorkInv, Awaited
    <2>2. MsiTypeOK' /\ WorkInv'
      BY <1>4, <2>1 DEF WorkStart, MsiTypeOK, WorkInv, Awaited
    <2>3. TeardownInv'
      BY <1>4 DEF WorkStart, TeardownInv
    <2> QED
      BY <2>2, <2>3
  <1>5. ASSUME NEW u \in Cpus, WorkRead(u) PROVE MsiInv'
    <2>1. pending \in Irq
      BY <1>5 DEF WorkRead, WorkInv, Awaited
    <2>2. MsiTypeOK'
      BY <1>5, <2>1 DEF WorkRead, MsiTypeOK
    <2>3. WorkInv'
      BY <1>5, <2>1 DEF WorkRead, WorkInv
    <2>4. TeardownInv'
      BY <1>5 DEF WorkRead, TeardownInv
    <2> QED
      BY <2>2, <2>3, <2>4
  <1>6. ASSUME NEW u \in Cpus, WorkDeliver(u) PROVE MsiInv'
    <2>1. hpc[u] # Called /\ \A w \in Cpus : hpc'[w] = IF w = u THEN Idle ELSE hpc[w]
      BY <1>6 DEF WorkDeliver, MsiTypeOK
    <2>2. MsiTypeOK' /\ TeardownInv'
      BY <1>6, <2>1 DEF WorkDeliver, MsiTypeOK, TeardownInv
    <2>3. WorkInv'
      BY <1>6, <2>1 DEF WorkDeliver, WorkInv, Awaited
    <2> QED
      BY <2>2, <2>3
  <1>7. CASE Teardown
    BY <1>7 DEF Teardown, MsiTypeOK, WorkInv, Awaited, TeardownInv
  <1>8. CASE RemoveDevice
    BY <1>8 DEF RemoveDevice, MsiTypeOK, WorkInv, Awaited, TeardownInv
  <1>9. CASE UNCHANGED msiVars
    BY <1>9 DEF msiVars, MsiTypeOK, WorkInv, Awaited, TeardownInv
  <1> QED
    BY <1>1, <1>2, <1>3, <1>4, <1>5, <1>6, <1>7, <1>8, <1>9 DEF MsiNext

LEMMA MsiInvariance == MsiSpec => []MsiInv
  BY MsiInvInit, MsiInvNext, PTL DEF MsiSpec

-----------------------------------------------------------------------------
(* What it says of the code *)

(* MsiTypeOK: whatever vector was asked for, the handler reads and delivers an *)
(* IRQ that the function has.                                               *)
THEOREM DeliversItsIrqs == MsiSpec => []MsiTypeOK
  BY MsiInvariance, PTL DEF MsiInv

(* NoIrqAfterRemoval: after pciem_teardown_device has removed the device no *)
(* irq_work is queued or running.                                           *)
THEOREM NoWorkOnRemoved == MsiSpec => []NoIrqAfterRemoval
  <1>1. MsiInv => NoIrqAfterRemoval
    BY DEF MsiInv, TeardownInv, NoIrqAfterRemoval
  <1> QED
    BY <1>1, MsiInvariance, PTL

(* The IRQ last left by a successful call is never forgotten: until it is   *)
(* read, a caller is about to queue the work, or it is queued, or a handler *)
(* has started and not read yet. With fairness this is LatestIsDelivered.   *)
THEOREM LatestIsAwaited == MsiSpec => [](pending \in accepted => Awaited)
  <1>1. MsiInv => (pending \in accepted => Awaited)
    BY DEF MsiInv, WorkInv
  <1> QED
    BY <1>1, MsiInvariance, PTL

=============================================================================
