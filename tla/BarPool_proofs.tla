--------------------------- MODULE BarPool_proofs ---------------------------
(***************************************************************************)
(* Proofs about BarPool, for any pool, any BAR sizes, any number of        *)
(* instances, BARs and threads. The properties hold where ADD_BAR and      *)
(* REGISTER of one instance do not overlap ("late"); the reason is that    *)
(* nobody then stores into a BAR that the lockless loops read (QuietInv).  *)
(***************************************************************************)
EXTENDS BarPool, TLAPS

(* What an ADD_BAR call that holds bars_lock has carved. *)
GotInv ==
    \A t \in Threads : left[t] # {} =>
        /\ call[t] \in Slots
        /\ want[t] \in Sizes /\ want[t] # 0
        /\ got[t] \in PoolSpan /\ got[t] % want[t] = 0
        /\ Span(got[t], want[t]) \subseteq PoolSpan

(* bars_lock: one call at a time stores into the BARs of an instance. *)
LockInv ==
    \A t, u \in Threads :
        left[t] # {} /\ left[u] # {} /\ call[t][1] = call[u][1] => t = u

(* No ADD_BAR call runs but before REGISTER. *)
QuietInv == \A i \in Insts : reg[i] # "UNREGISTERED" => Idle(i)

(* What a call has stored so far. *)
StoreInv ==
    \A t \in Threads : left[t] # {} =>
        /\ "start" \notin left[t] => start[call[t]] = got[t]
        /\ "end" \notin left[t] => end[call[t]] = got[t] + want[t] - 1

(* carved_start and carved_end of a BAR nobody stores into are a pair. *)
PairInv ==
    \A s \in Slots : start[s] # 0 /\ Storers(s) = {} =>
        \E n \in Sizes :
            /\ n # 0 /\ start[s] % n = 0
            /\ end[s] = start[s] + n - 1
            /\ Span(start[s], n) \subseteq PoolSpan

(* What the loops have read is still so. *)
LoopInv ==
    \A i \in Insts :
        /\ pc[i] # "bar" => reg[i] \in {"REGISTERING", "UNDOING", "CLOSING"}
        /\ pc[i] \in {"freed", "zeroed"} => Cleaning(i)
        /\ \A b \in Bars : Turn(i, b) =>
              /\ pc[i] \in {"start", "end"} =>
                    first[i] = start[<<i, b>>] /\ start[<<i, b>>] # 0
              /\ pc[i] = "end" => last[i] = end[<<i, b>>]
              /\ pc[i] = "zeroed" => start[<<i, b>>] = 0
              /\ Cleaning(i) /\ pc[i] # "bar" => res[<<i, b>>] = {}

CallInv == TypeOK /\ GotInv /\ LockInv
QuietParts == QuietInv /\ StoreInv /\ PairInv /\ LoopInv
PoolParts == ChunksApart /\ DecodedReserved /\ ~bug
SafeInv == "late" \notin usage => QuietParts /\ PoolParts

-----------------------------------------------------------------------------
(* Types and the lock *)

(* Address 0, which stands for "no chunk", is not in the pool. *)
LEMMA ZeroOutside == 0 \notin PoolSpan /\ PoolSpan \subseteq Nat
  BY BaseAssumption DEF PoolSpan, Span

(* What the allocator answers: an aligned run of free pages of the pool. *)
LEMMA FirstFitFree ==
  ASSUME NEW n \in Sizes \cup {0}, NEW a \in FirstFit(n)
  PROVE  /\ a \in PoolSpan /\ a # 0
         /\ a % n = 0
         /\ Span(a, n) \subseteq PoolSpan
         /\ Span(a, n) \cap used = {}
  BY ZeroOutside DEF FirstFit, Fits

(* Where a chunk inside the pool ends. *)
LEMMA SpanEnd ==
  ASSUME NEW a \in PoolSpan, NEW n \in Sizes, n # 0, Span(a, n) \subseteq PoolSpan
  PROVE  /\ a + n - 1 \in PoolSpan
         /\ Span(a, n) = a .. (a + n - 1)
         /\ a \in Span(a, n) /\ a <= a + n - 1
  <1>1. a \in Nat /\ n \in Nat /\ n >= 1
    BY ZeroOutside, SizesAssumption
  <1>2. a + n - 1 \in Span(a, n) /\ a \in Span(a, n)
    BY <1>1 DEF Span
  <1> QED
    BY <1>1, <1>2 DEF Span

LEMMA CallInvInit == Init => CallInv
  <1> SUFFICES ASSUME Init PROVE CallInv
    OBVIOUS
  <1>1. TypeOK
    BY DEF Init, TypeOK, RegStates
  <1>2. GotInv /\ LockInv
    BY DEF Init, GotInv, LockInv
  <1> QED
    BY <1>1, <1>2 DEF CallInv

(* The calls of ADD_BAR. *)
LEMMA CallInvAddBar ==
  ASSUME CallInv, NEW t \in Threads, UNCHANGED <<bug, usage>>,
         \/ AddBar(t)
         \/ \E s \in Slots : \E n \in Sizes : AddBarCheck(t, s, n)
  PROVE  CallInv'
  <1> USE DEF CallInv
  <1>1. CASE \E s \in Slots : \E n \in Sizes : AddBarCheck(t, s, n)
    <2>1. PICK s \in Slots, n \in Sizes : AddBarCheck(t, s, n)
      BY <1>1
    <2>2. left[t] = {}
      BY <2>1, NoneAssumption DEF AddBarCheck, GotInv
    <2>3. TypeOK'
      BY <2>1 DEF AddBarCheck, TypeOK, bars, loops
    <2>4. GotInv' /\ LockInv'
      BY <2>1, <2>2 DEF AddBarCheck, GotInv, LockInv, TypeOK
    <2> QED
      BY <2>3, <2>4
  <1>2. CASE ClearBar(t) \/ CarveFails(t)
    <2>1. TypeOK'
      BY <1>2 DEF ClearBar, CarveFails, Locks, Adding, Return, TypeOK, bars, loops
    <2>2. /\ left'[t] = {}
          /\ \A u \in Threads : u # t => /\ left'[u] = left[u] /\ call'[u] = call[u]
                                         /\ want'[u] = want[u] /\ got'[u] = got[u]
      BY <1>2 DEF ClearBar, CarveFails, Return, TypeOK
    <2>3. GotInv' /\ LockInv'
      BY <2>2 DEF GotInv, LockInv
    <2> QED
      BY <2>1, <2>3
  <1>3. CASE Carve(t)
    <2>1. PICK c \in Slots, n \in Sizes : c = call[t] /\ n = want[t] /\ n # 0
      BY <1>3 DEF Carve, Locks, Adding, TypeOK
    <2>2. PICK a \in FirstFit(n) :
            used' = used \cup Span(a, n) /\ got' = [got EXCEPT ![t] = a]
      BY <1>3, <2>1 DEF Carve
    <2>3. /\ a \in PoolSpan /\ a % n = 0 /\ Span(a, n) \subseteq PoolSpan
      BY <2>1, <2>2, FirstFitFree
    <2>4. TypeOK'
      BY <1>3, <2>2, <2>3 DEF Carve, TypeOK, loops
    <2>5. /\ left'[t] # {} /\ got'[t] = a
          /\ UNCHANGED <<call, want>>
          /\ \A u \in Threads : u # t => left'[u] = left[u] /\ got'[u] = got[u]
      BY <1>3, <2>2 DEF Carve, TypeOK
    <2>6. GotInv'
      BY <2>1, <2>3, <2>5 DEF GotInv
    <2>7. LockInv'
      <3>1. \A u \in Threads : left[u] # {} => call[u][1] # call[t][1]
        BY <1>3, NoneAssumption DEF Carve, Locks, GotInv
      <3> QED
        BY <2>5, <3>1 DEF LockInv
    <2> QED
      BY <2>4, <2>6, <2>7
  <1>4. ASSUME NEW f \in left[t], Store(t, f) PROVE CallInv'
    <2>1. /\ call[t] \in Slots /\ want[t] \in Sizes /\ want[t] # 0
          /\ got[t] \in PoolSpan /\ got[t] + want[t] - 1 \in PoolSpan
      BY <1>4, SpanEnd DEF GotInv
    <2>2. TypeOK'
      <3>1. /\ size' \in [Slots -> Sizes \cup {0}]
            /\ start' \in [Slots -> PoolSpan \cup {0}]
            /\ end' \in [Slots -> PoolSpan \cup {0}]
        BY <1>4, <2>1 DEF Store, TypeOK
      <3>2. CASE left[t] = {f}
        BY <1>4, <3>1, <3>2 DEF Store, Return, TypeOK, loops
      <3>3. CASE left[t] # {f}
        BY <1>4, <3>1, <3>3 DEF Store, TypeOK, loops
      <3> QED
        BY <3>2, <3>3
    <2>3. \A u \in Threads : left'[u] # {} =>
             /\ left[u] # {} /\ call'[u] = call[u]
             /\ want'[u] = want[u] /\ got'[u] = got[u]
      <3>1. CASE left[t] = {f}
        BY <1>4, <3>1 DEF Store, Return, TypeOK
      <3>2. CASE left[t] # {f}
        BY <1>4, <3>2 DEF Store, TypeOK
      <3> QED
        BY <3>1, <3>2
    <2>4. GotInv' /\ LockInv'
      BY <2>3 DEF GotInv, LockInv
    <2> QED
      BY <2>2, <2>4
  <1> QED
    BY <1>1, <1>2, <1>3, <1>4 DEF AddBar

(* The loops leave the calls alone. *)
LEMMA CallInvInstance ==
  ASSUME CallInv, NEW i \in Insts, Instance(i), UNCHANGED usage
  PROVE  CallInv'
  <1> USE DEF CallInv
  <1>1. UNCHANGED calls
    BY DEF Instance, InitBar, CleanBar, Register, InitFails, InitDone, Teardown,
           CleanDone, SkipBar, TakeBar, ReadStart, ReadEnd, InsertRes, DropRes,
           FreeChunk, ClearStart, ClearEnd
  <1>2. GotInv' /\ LockInv'
    BY <1>1 DEF calls, GotInv, LockInv
  <1>3. TypeOK'
    <2>1. CASE \/ Register(i) \/ InitFails(i) \/ InitDone(i) \/ Teardown(i)
               \/ CleanDone(i)
      BY <2>1 DEF Register, InitFails, InitDone, Teardown, CleanDone, Enter,
                  TypeOK, RegStates, bars, calls
    <2>2. ASSUME NEW b \in Bars, SkipBar(i, b) \/ TakeBar(i, b)
                                 \/ ReadStart(i, b) \/ ReadEnd(i, b)
          PROVE  TypeOK'
      <3>1. <<i, b>> \in Slots
        BY DEF Slots
      <3> QED
        BY <2>2, <3>1 DEF SkipBar, TakeBar, ReadStart, ReadEnd, NextBar, Goto,
                          TypeOK, bars, calls
    <2>3. ASSUME NEW b \in Bars, InsertRes(i, b) \/ DropRes(i, b) PROVE TypeOK'
      <3>1. <<i, b>> \in Slots
        BY DEF Slots
      <3>2. res' \in [Slots -> SUBSET PoolSpan]
        BY <2>3 DEF InsertRes, Insertable, DropRes, TypeOK
      <3>3. CASE InsertRes(i, b)
        BY <3>2, <3>3 DEF InsertRes, NextBar, TypeOK, calls
      <3>4. CASE DropRes(i, b) /\ start[<<i, b>>] = 0
        BY <3>2, <3>4 DEF DropRes, NextBar, TypeOK, calls
      <3>5. CASE DropRes(i, b) /\ start[<<i, b>>] # 0
        BY <3>1, <3>2, <3>5 DEF DropRes, Goto, TypeOK, calls
      <3> QED
        BY <2>3, <3>3, <3>4, <3>5
    <2>4. ASSUME NEW b \in Bars,
                 FreeChunk(i, b) \/ ClearStart(i, b) \/ ClearEnd(i, b)
          PROVE  TypeOK'
      <3>1. CASE FreeChunk(i, b)
        BY <3>1 DEF FreeChunk, Goto, TypeOK, calls
      <3>2. CASE ClearStart(i, b)
        BY <3>2 DEF ClearStart, Goto, TypeOK, calls
      <3>3. CASE ClearEnd(i, b)
        BY <3>3 DEF ClearEnd, NextBar, TypeOK, calls
      <3> QED
        BY <2>4, <3>1, <3>2, <3>3
    <2> QED
      BY <2>1, <2>2, <2>3, <2>4 DEF Instance, InitBar, CleanBar
  <1> QED
    BY <1>2, <1>3

LEMMA CallInvNext == CallInv /\ [Next]_vars => CallInv'
  <1> SUFFICES ASSUME CallInv, [Next]_vars PROVE CallInv'
    OBVIOUS
  <1>1. CASE UNCHANGED vars
    BY <1>1 DEF vars, bars, loops, calls, CallInv, TypeOK, GotInv, LockInv
  <1>2. CASE Next
    BY <1>2, CallInvAddBar, CallInvInstance DEF Next, Step
  <1> QED
    BY <1>1, <1>2

(* Every variable keeps its type: no page outside the pool is ever marked,  *)
(* carved, read or claimed, however ADD_BAR is called.                      *)
THEOREM PoolTypeCorrect == Spec => []TypeOK
  BY CallInvInit, CallInvNext, PTL DEF Spec, CallInv

-----------------------------------------------------------------------------
(* Who has which pages *)

LEMMA TurnUnique ==
  ASSUME NEW i \in Insts, NEW b \in Bars, NEW c \in Bars, Turn(i, b), Turn(i, c)
  PROVE  b = c
  BY BarsAssumption DEF Turn

(* A step that moves no page keeps the facts about pages. *)
LEMMA PagesUnchanged ==
  ASSUME PoolParts, UNCHANGED <<used, res, bug>>,
         \A s \in Slots : Chunk(s)' = Chunk(s)
  PROVE  PoolParts'
  BY DEF PoolParts, ChunksApart, DecodedReserved, IsRun

(* The chunk of a BAR that nobody stores into and that keeps it. *)
LEMMA ChunkIsPair ==
  ASSUME CallInv, PairInv, NEW s \in Slots, Storers(s) = {}, ~GivenBack(s), start[s] # 0
  PROVE  /\ Chunk(s) = start[s] .. end[s]
         /\ start[s] <= end[s] /\ Chunk(s) # {}
  <1>1. PICK n \in Sizes : /\ n # 0 /\ end[s] = start[s] + n - 1
                           /\ Span(start[s], n) \subseteq PoolSpan
    BY DEF PairInv
  <1>2. start[s] \in PoolSpan
    BY DEF CallInv, TypeOK
  <1> QED
    BY <1>1, <1>2, SpanEnd DEF Chunk

(* ADD_BAR before it takes the lock, and where it carves nothing. *)
LEMMA SafeReturn ==
  ASSUME CallInv, QuietParts, PoolParts, NEW t \in Threads, UNCHANGED <<bug, usage>>,
         \/ ClearBar(t) \/ CarveFails(t)
         \/ \E s \in Slots : \E n \in Sizes : AddBarCheck(t, s, n)
  PROVE  /\ QuietParts' /\ PoolParts'
         /\ used' = used /\ \A s \in Slots : Chunk(s)' = Chunk(s)
  <1>1. UNCHANGED <<used, start, end, res, reg, done, pc, first, last>>
    BY DEF ClearBar, CarveFails, AddBarCheck, bars, loops
  <1>2. /\ left[t] = {} /\ left'[t] = {}
        /\ call'[t] = None \/ (call'[t] \in Slots /\ reg[call'[t][1]] = "UNREGISTERED")
        /\ \A u \in Threads : u # t => /\ left'[u] = left[u] /\ call'[u] = call[u]
                                       /\ want'[u] = want[u] /\ got'[u] = got[u]
    <2>1. CASE ClearBar(t) \/ CarveFails(t)
      BY <2>1 DEF ClearBar, CarveFails, Locks, Return, CallInv, TypeOK
    <2>2. CASE \E s \in Slots : \E n \in Sizes : AddBarCheck(t, s, n)
      <3>1. PICK s \in Slots, n \in Sizes : AddBarCheck(t, s, n)
        BY <2>2
      <3>2. left[t] = {}
        BY <3>1, NoneAssumption DEF AddBarCheck, CallInv, GotInv
      <3> QED
        BY <3>1, <3>2 DEF AddBarCheck, CallInv, TypeOK
    <2> QED
      BY <2>1, <2>2
  <1>3. \A s \in Slots : Storers(s)' = Storers(s) /\ GivenBack(s)' = GivenBack(s)
    BY <1>1, <1>2 DEF Storers, GivenBack
  <1>4. \A s \in Slots : Chunk(s)' = Chunk(s)
    <2> SUFFICES ASSUME NEW s \in Slots PROVE Chunk(s)' = Chunk(s)
      OBVIOUS
    <2>1. \A u \in Storers(s) : got'[u] = got[u] /\ want'[u] = want[u]
      BY <1>2 DEF Storers
    <2> QED
      BY <1>1, <1>3, <2>1 DEF Chunk
  <1>5. QuietInv'
    BY <1>1, <1>2 DEF QuietParts, QuietInv, Idle, Adding
  <1>6. StoreInv'
    BY <1>1, <1>2 DEF QuietParts, StoreInv
  <1>7. PairInv'
    BY <1>1, <1>3 DEF QuietParts, PairInv
  <1>8. LoopInv'
    BY <1>1 DEF QuietParts, LoopInv, Cleaning, Turn
  <1> QED
    BY <1>1, <1>4, <1>5, <1>6, <1>7, <1>8, PagesUnchanged DEF QuietParts

(* The instance of a call has not been registered. *)
LEMMA CallerQuiet ==
  ASSUME CallInv, QuietParts, NEW t \in Threads, Adding(t)
  PROVE  /\ call[t] \in Slots /\ call[t][1] \in Insts
         /\ reg[call[t][1]] = "UNREGISTERED" /\ pc[call[t][1]] = "bar"
         /\ ~GivenBack(call[t])
  <1>1. call[t] \in Slots /\ call[t][1] \in Insts
    BY DEF Adding, CallInv, TypeOK, Slots
  <1>2. reg[call[t][1]] = "UNREGISTERED"
    BY <1>1 DEF QuietParts, QuietInv, Idle
  <1>3. pc[call[t][1]] = "bar"
    BY <1>1, <1>2 DEF QuietParts, LoopInv
  <1> QED
    BY <1>1, <1>2, <1>3 DEF GivenBack

(* Pages are taken: they were free, so nobody else has them. *)
LEMMA SafeCarve ==
  ASSUME CallInv, QuietParts, PoolParts, NEW t \in Threads, Carve(t),
         UNCHANGED <<bug, usage>>
  PROVE  /\ QuietParts' /\ PoolParts'
         /\ call[t] \in Slots /\ Storers(call[t]) = {}
         /\ \E p : /\ used' = used \cup p
                  /\ \A s \in Slots :
                        Chunk(s)' = IF s = call[t] THEN p ELSE Chunk(s)
  <1> USE DEF QuietParts, PoolParts
  <1>1. PICK c \in Slots, n \in Sizes : c = call[t] /\ n = want[t] /\ n # 0
    BY DEF Carve, Locks, Adding, CallInv, TypeOK
  <1>2. PICK a \in FirstFit(n) :
          used' = used \cup Span(a, n) /\ got' = [got EXCEPT ![t] = a]
    BY <1>1 DEF Carve
  <1>3. /\ a \in PoolSpan /\ a # 0 /\ a % n = 0
        /\ Span(a, n) \subseteq PoolSpan /\ Span(a, n) \cap used = {}
    BY <1>1, <1>2, FirstFitFree
  <1>4. /\ UNCHANGED <<start, end, res, reg, done, pc, first, last, call, want>>
        /\ left'[t] = {"size", "start", "end"} /\ got'[t] = a
        /\ \A u \in Threads : u # t => left'[u] = left[u] /\ got'[u] = got[u]
    BY <1>2 DEF Carve, loops, CallInv, TypeOK
  <1>5. Storers(c) = {} /\ Storers(c)' = {t}
    <2>1. \A u \in Threads : left[u] # {} => call[u] # c
      BY <1>1, NoneAssumption DEF Carve, Locks, CallInv, GotInv
    <2> QED
      BY <1>1, <1>4, <2>1 DEF Storers
  <1>6. \A s \in Slots : s # c => Storers(s)' = Storers(s) /\ t \notin Storers(s)
    BY <1>1, <1>4 DEF Storers
  <1>7. Chunk(c)' = Span(a, n)
    BY <1>1, <1>4, <1>5 DEF Chunk
  <1>8. ASSUME NEW s \in Slots, s # c PROVE Chunk(s)' = Chunk(s)
    <2>1. \A u \in Storers(s) : got'[u] = got[u]
      BY <1>4, <1>6, <1>8 DEF Storers
    <2> QED
      BY <1>4, <1>6, <1>8, <2>1 DEF Chunk, GivenBack
  <1>9. \A s \in Slots : Span(a, n) \cap (Chunk(s) \cup res[s]) = {}
    BY <1>3 DEF DecodedReserved
  <1>10. ChunksApart'
    <2>1. IsRun(Span(a, n))
      BY <1>1, <1>3 DEF IsRun
    <2> QED
      BY <2>1, <1>7, <1>8, <1>9 DEF ChunksApart, IsRun
  <1>11. DecodedReserved'
    BY <1>1, <1>2, <1>4, <1>7, <1>8, <1>9 DEF DecodedReserved
  <1>12. QuietInv' /\ LoopInv'
    BY <1>4 DEF QuietInv, Idle, Adding, LoopInv, Cleaning, Turn
  <1>13. StoreInv'
    BY <1>4 DEF StoreInv
  <1>14. PairInv'
    BY <1>4, <1>5, <1>6 DEF PairInv
  <1> HIDE DEF QuietParts, PoolParts
  <1>15. QuietParts' /\ PoolParts'
    BY <1>10, <1>11, <1>12, <1>13, <1>14 DEF QuietParts, PoolParts
  <1> QED
    BY <1>1, <1>2, <1>5, <1>7, <1>8, <1>15

(* ADD_BAR stores: nobody else stores into the BAR nor looks at it. *)
LEMMA SafeStore ==
  ASSUME CallInv, QuietParts, PoolParts, NEW t \in Threads, NEW f \in left[t],
         Store(t, f), UNCHANGED <<bug, usage>>
  PROVE  /\ QuietParts' /\ PoolParts'
         /\ used' = used /\ \A s \in Slots : Chunk(s)' = Chunk(s)
  <1> USE DEF QuietParts
  <1>0. PICK c \in Slots : c = call[t]
    BY DEF CallInv, GotInv
  <1>1. /\ Adding(t) /\ want[t] \in Sizes /\ want[t] # 0 /\ got[t] \in PoolSpan
        /\ got[t] % want[t] = 0 /\ Span(got[t], want[t]) \subseteq PoolSpan
    BY <1>0, NoneAssumption DEF CallInv, GotInv, Adding
  <1>2. c[1] \in Insts /\ pc[c[1]] = "bar" /\ ~GivenBack(c)
    BY <1>0, <1>1, CallerQuiet
  <1>3. \A u \in Threads : left[u] # {} /\ u # t => call[u] # c
    BY <1>0 DEF CallInv, LockInv
  <1>4. Storers(c) = {t}
    BY <1>0, <1>3 DEF Storers
  <1>5. /\ UNCHANGED <<used, res, reg, done, pc, first, last>>
        /\ \A s \in Slots : s # c => start'[s] = start[s] /\ end'[s] = end[s]
        /\ \A u \in Threads : u # t => /\ left'[u] = left[u] /\ call'[u] = call[u]
                                       /\ want'[u] = want[u] /\ got'[u] = got[u]
    <2>1. UNCHANGED <<used, res, reg, done, pc, first, last>>
      BY DEF Store, loops
    <2>2. \A s \in Slots : s # c => start'[s] = start[s] /\ end'[s] = end[s]
      BY <1>0 DEF Store, CallInv, TypeOK
    <2>3. CASE left[t] = {f}
      BY <2>1, <2>2, <2>3 DEF Store, Return, CallInv, TypeOK
    <2>4. CASE left[t] # {f}
      BY <2>1, <2>2, <2>4 DEF Store, CallInv, TypeOK
    <2> QED
      BY <2>3, <2>4
  <1>6. \A s \in Slots : s # c => Storers(s)' = Storers(s) /\ t \notin Storers(s)
    <2>1. left'[t] = {} \/ call'[t] = c
      BY <1>0 DEF Store, Return, CallInv, TypeOK
    <2> QED
      BY <1>0, <1>5, <2>1 DEF Storers
  <1>7. ASSUME NEW s \in Slots, s # c PROVE Chunk(s)' = Chunk(s)
    <2>1. \A u \in Storers(s) : got'[u] = got[u] /\ want'[u] = want[u]
      BY <1>5, <1>6, <1>7 DEF Storers
    <2>2. UNION {Span(got'[u], want'[u]) : u \in Storers(s)}
            = UNION {Span(got[u], want[u]) : u \in Storers(s)}
      BY <2>1
    <2>3. GivenBack(s)' = GivenBack(s) /\ Storers(s)' = Storers(s)
      BY <1>5, <1>6, <1>7 DEF GivenBack
    <2> QED
      BY <1>5, <1>7, <2>2, <2>3 DEF Chunk
  <1>8. LoopInv'
    <2> SUFFICES ASSUME NEW i \in Insts
                 PROVE  /\ pc[i] # "bar" => reg[i] \in {"REGISTERING", "UNDOING", "CLOSING"}
                        /\ pc[i] \in {"freed", "zeroed"} => Cleaning(i)
                        /\ \A b \in Bars : Turn(i, b) =>
                              /\ pc[i] \in {"start", "end"} =>
                                    first[i] = start'[<<i, b>>] /\ start'[<<i, b>>] # 0
                              /\ pc[i] = "end" => last[i] = end'[<<i, b>>]
                              /\ pc[i] = "zeroed" => start'[<<i, b>>] = 0
                              /\ Cleaning(i) /\ pc[i] # "bar" => res[<<i, b>>] = {}
      BY <1>5 DEF LoopInv, Cleaning, Turn
    <2>1. CASE i = c[1]
      BY <1>2, <2>1
    <2>2. CASE i # c[1]
      <3>1. \A b \in Bars : <<i, b>> \in Slots /\ <<i, b>> # c
        BY <2>2 DEF Slots
      <3> QED
        BY <1>5, <3>1 DEF LoopInv
    <2> QED
      BY <2>1, <2>2
  <1>9. QuietInv'
    <2>1. \A i \in Insts : Idle(i) => Idle(i)'
      <3>1. call'[t] = None \/ call'[t] = call[t]
        BY DEF Store, Return, CallInv, TypeOK
      <3> QED
        BY <1>0, <1>1, <1>5, <3>1 DEF Idle, Adding
    <2> QED
      BY <1>5, <2>1 DEF QuietInv
  <1>10. CASE left[t] # {f}
    <2>1. /\ UNCHANGED <<call, want, got>> /\ left'[t] = left[t] \ {f} /\ left'[t] # {}
      BY <1>10 DEF Store, CallInv, TypeOK
    <2>2. Storers(c)' = Storers(c)
      BY <1>0, <1>5, <2>1 DEF Storers
    <2>3. Chunk(c)' = Chunk(c)
      BY <1>4, <2>1, <2>2 DEF Chunk
    <2>4. StoreInv'
      <3>1. \A u \in Threads : u # t /\ left'[u] # {} =>
               /\ call[u] \in Slots /\ call[u] # c
        BY <1>3, <1>5 DEF CallInv, GotInv
      <3>2. /\ "start" \notin left'[t] => start'[c] = got[t]
            /\ "end" \notin left'[t] => end'[c] = got[t] + want[t] - 1
        BY <1>0, <1>1, <2>1 DEF Store, StoreInv, CallInv, TypeOK
      <3> QED
        BY <1>0, <1>5, <2>1, <3>1, <3>2 DEF StoreInv
    <2>5. PairInv'
      BY <1>4, <1>5, <1>6, <2>2 DEF PairInv
    <2> QED
      BY <1>0, <1>5, <1>7, <1>8, <1>9, <2>3, <2>4, <2>5, PagesUnchanged
  <1>11. CASE left[t] = {f}
    <2>1. left'[t] = {}
      BY <1>11 DEF Store, Return, CallInv, TypeOK
    <2>2. Storers(c)' = {}
      BY <1>0, <1>3, <1>5, <2>1 DEF Storers
    <2>3. start'[c] = got[t] /\ end'[c] = got[t] + want[t] - 1
      BY <1>0, <1>1, <1>11 DEF Store, StoreInv, CallInv, TypeOK
    <2>4. got[t] # 0 /\ got[t] .. (got[t] + want[t] - 1) = Span(got[t], want[t])
      BY <1>1, SpanEnd, ZeroOutside
    <2>5. Chunk(c)' = Chunk(c)
      <3>1. Chunk(c) = Span(got[t], want[t])
        BY <1>4 DEF Chunk
      <3>2. ~GivenBack(c)'
        BY <1>2, <1>5 DEF GivenBack
      <3> QED
        BY <2>2, <2>3, <2>4, <3>1, <3>2 DEF Chunk
    <2>6. StoreInv'
      <3>1. \A u \in Threads : left'[u] # {} =>
               /\ u # t /\ call[u] \in Slots /\ call[u] # c
        BY <1>3, <1>5, <2>1 DEF CallInv, GotInv
      <3> QED
        BY <1>5, <3>1 DEF StoreInv
    <2>7. PairInv'
      BY <1>1, <1>5, <1>6, <2>3 DEF PairInv
    <2> QED
      BY <1>0, <1>5, <1>7, <1>8, <1>9, <2>5, <2>6, <2>7, PagesUnchanged
  <1> QED
    BY <1>10, <1>11

(* The loops: nobody stores into the BAR they are at. *)
LEMMA LoopQuiet ==
  ASSUME CallInv, QuietParts, NEW i \in Insts, NEW b \in Bars, pc[i] # "bar"
  PROVE  /\ <<i, b>> \in Slots /\ Storers(<<i, b>>) = {}
         /\ Idle(i) /\ reg[i] # "UNREGISTERED"
  <1>1. <<i, b>> \in Slots
    BY DEF Slots
  <1>2. Idle(i) /\ reg[i] # "UNREGISTERED"
    BY DEF QuietParts, LoopInv, QuietInv
  <1>3. Storers(<<i, b>>) = {}
    BY <1>1, <1>2, NoneAssumption DEF Idle, Adding, Storers
  <1> QED
    BY <1>1, <1>2, <1>3

(* A step of the loops that leaves the fields of the BARs alone. *)
LEMMA FieldsUnchanged ==
  ASSUME CallInv, QuietParts, PoolParts, NEW i \in Insts,
         UNCHANGED <<used, start, end, bug>>, UNCHANGED calls,
         \A j \in Insts : j # i => UNCHANGED <<reg[j], pc[j], done[j]>>,
         reg'[i] # "UNREGISTERED" => Idle(i),
         \A b \in Bars : ~GivenBack(<<i, b>>) /\ ~GivenBack(<<i, b>>)'
  PROVE  /\ QuietInv' /\ StoreInv' /\ PairInv'
         /\ \A s \in Slots : Chunk(s)' = Chunk(s)
         /\ res' = res => PoolParts'
  <1> USE DEF QuietParts, calls
  <1>1. \A s \in Slots : Storers(s)' = Storers(s)
    BY DEF Storers
  <1>2. ASSUME NEW s \in Slots PROVE Chunk(s)' = Chunk(s)
    <2>1. GivenBack(s)' = GivenBack(s)
      <3>1. PICK j \in Insts, b \in Bars : s = <<j, b>>
        BY DEF Slots
      <3> QED
        BY <3>1 DEF GivenBack
    <2> QED
      BY <1>1, <2>1 DEF Chunk
  <1>3. QuietInv'
    <2>1. \A j \in Insts : Idle(j)' = Idle(j)
      BY DEF Idle, Adding
    <2> QED
      BY <2>1 DEF QuietInv
  <1>4. StoreInv' /\ PairInv'
    BY <1>1 DEF StoreInv, PairInv
  <1> QED
    BY <1>2, <1>3, <1>4, PagesUnchanged

(* A loop begins or ends: nothing is read or given back half. *)
LEMMA SafeEnter ==
  ASSUME CallInv, QuietParts, PoolParts, NEW i \in Insts, UNCHANGED usage,
         "late" \notin usage,
         \/ Register(i) \/ InitFails(i) \/ InitDone(i) \/ Teardown(i) \/ CleanDone(i)
  PROVE  /\ QuietParts' /\ PoolParts'
         /\ used' = used /\ \A s \in Slots : Chunk(s)' = Chunk(s)
  <1>1. /\ UNCHANGED <<used, start, end, res, bug>> /\ UNCHANGED calls
        /\ pc'[i] = "bar"
        /\ \A j \in Insts : j # i =>
              UNCHANGED <<reg[j], pc[j], done[j], first[j], last[j]>>
    BY DEF Register, InitFails, InitDone, Teardown, CleanDone, Enter, bars,
           CallInv, TypeOK
  <1>2. Idle(i)
    BY DEF Register, InitFails, InitDone, Teardown, CleanDone, Cleaning,
           QuietParts, QuietInv
  <1>3. ASSUME NEW b \in Bars PROVE ~GivenBack(<<i, b>>) /\ ~GivenBack(<<i, b>>)'
    <2>1. pc[i] \notin {"freed", "zeroed"} \/ done[i] = Bars
      BY DEF Register, InitFails, InitDone, Teardown, CleanDone, Cleaning,
             QuietParts, LoopInv
    <2> QED
      BY <1>1, <2>1 DEF GivenBack
  <1>4. LoopInv'
    BY <1>1 DEF QuietParts, LoopInv, Turn, Cleaning
  <1> QED
    BY <1>1, <1>2, <1>3, <1>4, FieldsUnchanged DEF QuietParts

(* pciem_complete_init reads; pciem_cleanup_bar reads the end too. *)
LEMMA SafeRead ==
  ASSUME CallInv, QuietParts, PoolParts, NEW i \in Insts, NEW b \in Bars,
         UNCHANGED usage,
         SkipBar(i, b) \/ TakeBar(i, b) \/ ReadStart(i, b) \/ ReadEnd(i, b)
  PROVE  /\ QuietParts' /\ PoolParts'
         /\ used' = used /\ \A s \in Slots : Chunk(s)' = Chunk(s)
  <1>1. /\ UNCHANGED <<used, start, end, res, bug, reg>> /\ UNCHANGED calls
        /\ Turn(i, b)
        /\ pc[i] \in {"bar", "taken", "start"}
        /\ pc'[i] \in {"bar", "taken", "start", "end"}
        /\ \A j \in Insts : j # i =>
              UNCHANGED <<pc[j], done[j], first[j], last[j]>>
    BY DEF SkipBar, TakeBar, ReadStart, ReadEnd, Goto, NextBar, bars, CallInv, TypeOK
  <1>2. reg[i] # "UNREGISTERED" /\ Idle(i)
    <2>1. reg[i] = "REGISTERING" \/ pc[i] # "bar"
      BY DEF SkipBar, TakeBar, ReadStart, ReadEnd
    <2> QED
      BY <2>1 DEF QuietParts, LoopInv, QuietInv
  <1>3. \A c \in Bars : ~GivenBack(<<i, c>>) /\ ~GivenBack(<<i, c>>)'
    BY <1>1 DEF GivenBack
  <1>4. LoopInv'
    <2>1. CASE SkipBar(i, b)
      <3>1. pc'[i] = "bar"
        BY <2>1 DEF SkipBar, NextBar, CallInv, TypeOK
      <3> QED
        BY <1>1, <3>1 DEF QuietParts, LoopInv, Turn, Cleaning
    <2>2. CASE ~SkipBar(i, b)
      <3>1. done' = done /\ \A c \in Bars : Turn(i, c) => c = b
        BY <1>1, <2>2, TurnUnique DEF TakeBar, ReadStart, ReadEnd, Goto
      <3>2. CASE TakeBar(i, b)
        <4>1. pc'[i] = "taken" /\ reg[i] = "REGISTERING"
          BY <3>2 DEF TakeBar, Goto, CallInv, TypeOK
        <4> QED
          BY <1>1, <3>1, <4>1 DEF QuietParts, LoopInv, Turn, Cleaning
      <3>3. CASE ReadStart(i, b)
        <4>1. /\ pc[i] = "taken" /\ pc'[i] = "start"
              /\ first'[i] = start[<<i, b>>] /\ start[<<i, b>>] # 0
          BY <3>3 DEF ReadStart, Goto, CallInv, TypeOK
        <4> QED
          BY <1>1, <3>1, <4>1 DEF QuietParts, LoopInv, Turn, Cleaning
      <3>4. CASE ReadEnd(i, b)
        <4>1. /\ pc[i] = "start" /\ pc'[i] = "end"
              /\ first' = first /\ last'[i] = end[<<i, b>>]
          BY <3>4 DEF ReadEnd, Goto, CallInv, TypeOK
        <4> QED
          BY <1>1, <3>1, <4>1 DEF QuietParts, LoopInv, Turn, Cleaning
      <3> QED
        BY <2>2, <3>2, <3>3, <3>4
    <2> QED
      BY <2>1, <2>2
  <1> QED
    BY <1>1, <1>2, <1>3, <1>4, FieldsUnchanged DEF QuietParts

(* The resource is that of the BAR's own chunk. *)
LEMMA SafeInsert ==
  ASSUME CallInv, QuietParts, PoolParts, NEW i \in Insts, NEW b \in Bars,
         UNCHANGED usage, InsertRes(i, b)
  PROVE  /\ QuietParts' /\ PoolParts'
         /\ used' = used /\ \A s \in Slots : Chunk(s)' = Chunk(s)
  <1> DEFINE c == <<i, b>>
  <1>1. /\ UNCHANGED <<used, start, end, bug, reg>> /\ UNCHANGED calls
        /\ Turn(i, b) /\ pc[i] = "end" /\ pc'[i] = "bar" /\ reg[i] = "REGISTERING"
        /\ \A j \in Insts : j # i =>
              UNCHANGED <<pc[j], done[j], first[j], last[j]>>
    BY DEF InsertRes, NextBar, CallInv, TypeOK
  <1>2. c \in Slots /\ Storers(c) = {} /\ Idle(i)
    BY <1>1, LoopQuiet
  <1>3. \A d \in Bars : ~GivenBack(<<i, d>>) /\ ~GivenBack(<<i, d>>)'
    BY <1>1 DEF GivenBack
  <1>4. /\ QuietInv' /\ StoreInv' /\ PairInv'
        /\ \A s \in Slots : Chunk(s)' = Chunk(s)
    BY <1>1, <1>2, <1>3, FieldsUnchanged
  <1>5. first[i] .. last[i] = Chunk(c)
    <2>1. first[i] = start[c] /\ start[c] # 0 /\ last[i] = end[c]
      BY <1>1 DEF QuietParts, LoopInv
    <2> QED
      BY <1>2, <1>3, <2>1 DEF Chunk
  <1>6. res'[c] = Chunk(c) /\ \A s \in Slots : s # c => res'[s] = res[s]
    BY <1>2, <1>5 DEF InsertRes, CallInv, TypeOK
  <1>7. LoopInv'
    <2>1. \A j \in Insts, d \in Bars : j # i => res'[<<j, d>>] = res[<<j, d>>]
      BY <1>6 DEF Slots
    <2> QED
      BY <1>1, <2>1 DEF QuietParts, LoopInv, Turn, Cleaning
  <1>8. PoolParts'
    BY <1>1, <1>2, <1>4, <1>6 DEF PoolParts, ChunksApart, DecodedReserved, IsRun
  <1> QED
    BY <1>1, <1>4, <1>7, <1>8 DEF QuietParts

(* The resource is released. *)
LEMMA SafeDrop ==
  ASSUME CallInv, QuietParts, PoolParts, NEW i \in Insts, NEW b \in Bars,
         UNCHANGED usage, DropRes(i, b)
  PROVE  /\ QuietParts' /\ PoolParts'
         /\ used' = used /\ \A s \in Slots : Chunk(s)' = Chunk(s)
  <1> DEFINE c == <<i, b>>
  <1>1. /\ UNCHANGED <<used, start, end, bug, reg>> /\ UNCHANGED calls
        /\ Turn(i, b) /\ Cleaning(i) /\ pc[i] = "bar" /\ pc'[i] \in {"bar", "start"}
        /\ \A j \in Insts : j # i =>
              UNCHANGED <<pc[j], done[j], first[j], last[j]>>
    BY DEF DropRes, NextBar, Goto, CallInv, TypeOK
  <1>2. c \in Slots /\ Idle(i)
    BY <1>1 DEF Slots, Cleaning, QuietParts, QuietInv
  <1>3. \A d \in Bars : ~GivenBack(<<i, d>>) /\ ~GivenBack(<<i, d>>)'
    BY <1>1 DEF GivenBack
  <1>4. /\ QuietInv' /\ StoreInv' /\ PairInv'
        /\ \A s \in Slots : Chunk(s)' = Chunk(s)
    BY <1>1, <1>2, <1>3, FieldsUnchanged
  <1>5. res'[c] = {} /\ \A s \in Slots : s # c => res'[s] = res[s]
    BY <1>2 DEF DropRes, CallInv, TypeOK
  <1>6. LoopInv'
    <2>1. \A j \in Insts, d \in Bars : j # i => res'[<<j, d>>] = res[<<j, d>>]
      BY <1>5 DEF Slots
    <2>2. CASE pc'[i] = "bar"
      BY <1>1, <2>1, <2>2 DEF QuietParts, LoopInv, Turn, Cleaning
    <2>3. CASE pc'[i] = "start"
      <3>1. start[c] # 0 /\ first'[i] = start[c] /\ done' = done
        BY <2>3 DEF DropRes, NextBar, Goto, CallInv, TypeOK
      <3>2. \A d \in Bars : Turn(i, d) => d = b
        BY <1>1, TurnUnique
      <3> QED
        BY <1>1, <1>5, <2>1, <2>3, <3>1, <3>2 DEF QuietParts, LoopInv, Turn, Cleaning
    <2> QED
      BY <1>1, <2>2, <2>3
  <1>7. PoolParts'
    BY <1>1, <1>4, <1>5 DEF PoolParts, ChunksApart, DecodedReserved, IsRun
  <1> QED
    BY <1>1, <1>4, <1>6, <1>7 DEF QuietParts

(* What is given back is the chunk, whole, and nobody else has its pages. *)
LEMMA SafeFree ==
  ASSUME CallInv, QuietParts, PoolParts, NEW i \in Insts, NEW b \in Bars,
         UNCHANGED usage, FreeChunk(i, b)
  PROVE  /\ QuietParts' /\ PoolParts'
         /\ used' = used \ Chunk(<<i, b>>) /\ Chunk(<<i, b>>)' = {}
         /\ \A s \in Slots : s # <<i, b>> => Chunk(s)' = Chunk(s)
  <1> DEFINE c == <<i, b>>
  <1>1. /\ UNCHANGED <<start, end, res, reg, done, first, last>> /\ UNCHANGED calls
        /\ Turn(i, b) /\ Cleaning(i) /\ pc[i] = "end" /\ pc'[i] = "freed"
        /\ \A j \in Insts : j # i => pc'[j] = pc[j]
    BY DEF FreeChunk, Goto, CallInv, TypeOK
  <1>2. c \in Slots /\ Storers(c) = {} /\ Idle(i)
    BY <1>1, LoopQuiet
  <1>3. first[i] = start[c] /\ start[c] # 0 /\ last[i] = end[c] /\ res[c] = {}
    BY <1>1 DEF QuietParts, LoopInv
  <1>4. ~GivenBack(c) /\ GivenBack(c)'
    BY <1>1 DEF GivenBack, Turn
  <1>5. Chunk(c) = first[i] .. last[i] /\ first[i] <= last[i]
    BY <1>2, <1>3, <1>4, ChunkIsPair DEF QuietParts
  <1>6. used' = used \ Chunk(c) /\ bug' = FALSE
    <2>1. first[i] .. last[i] \subseteq used
      BY <1>2, <1>5 DEF PoolParts, DecodedReserved
    <2>2. first[i] \in Nat /\ last[i] \in Nat
      <3>1. first[i] \in PoolSpan \cup {0} /\ last[i] \in PoolSpan \cup {0}
        BY DEF CallInv, TypeOK
      <3>2. PoolSpan \cup {0} \subseteq Nat
        BY ZeroOutside
      <3> QED
        BY <3>1, <3>2
    <2>3. ~ (first[i] > last[i])
      BY <1>5, <2>2
    <2>4. ~bug' /\ bug' \in BOOLEAN
      BY <2>1, <2>3 DEF FreeChunk
    <2> QED
      BY <1>5, <2>4 DEF FreeChunk
  <1>7. \A s \in Slots : Storers(s)' = Storers(s)
    BY <1>1 DEF Storers, calls
  <1>8. Chunk(c)' = {}
    BY <1>2, <1>4, <1>7 DEF Chunk
  <1>9. ASSUME NEW s \in Slots, s # c PROVE Chunk(s)' = Chunk(s)
    <2>1. PICK j \in Insts, d \in Bars : s = <<j, d>>
      BY DEF Slots
    <2>2. GivenBack(s)' = GivenBack(s)
      <3>1. CASE j # i
        BY <1>1, <2>1, <3>1 DEF GivenBack
      <3>2. CASE j = i
        <4>1. ~Turn(i, d)
          BY <1>1, <1>9, <2>1, <3>2, TurnUnique
        <4> QED
          BY <1>1, <2>1, <3>2, <4>1 DEF GivenBack, Turn
      <3> QED
        BY <3>1, <3>2
    <2> QED
      BY <1>1, <1>7, <2>2 DEF Chunk, calls
  <1>10. PoolParts'
    <2>1. ChunksApart'
      BY <1>8, <1>9 DEF PoolParts, ChunksApart, IsRun
    <2>2. \A s \in Slots : s # c => Chunk(s) \cup res[s] \subseteq used'
      BY <1>2, <1>6 DEF PoolParts, ChunksApart, DecodedReserved
    <2>3. DecodedReserved'
      BY <1>1, <1>3, <1>8, <1>9, <2>2 DEF PoolParts, DecodedReserved
    <2> QED
      BY <1>6, <2>1, <2>3 DEF PoolParts
  <1>11. QuietInv' /\ StoreInv' /\ PairInv'
    BY <1>1, <1>7 DEF QuietParts, QuietInv, StoreInv, PairInv, Idle, Adding, calls
  <1>12. LoopInv'
    BY <1>1 DEF QuietParts, LoopInv, Turn, Cleaning
  <1> QED
    BY <1>6, <1>8, <1>9, <1>10, <1>11, <1>12 DEF QuietParts

(* The fields of a chunk that was given back are cleared. *)
LEMMA SafeClear ==
  ASSUME CallInv, QuietParts, PoolParts, NEW i \in Insts, NEW b \in Bars,
         UNCHANGED usage, ClearStart(i, b) \/ ClearEnd(i, b)
  PROVE  /\ QuietParts' /\ PoolParts'
         /\ used' = used /\ \A s \in Slots : Chunk(s)' = Chunk(s)
  <1> DEFINE c == <<i, b>>
  <1>1. /\ UNCHANGED <<used, res, bug, reg>> /\ UNCHANGED calls
        /\ Turn(i, b) /\ pc[i] \in {"freed", "zeroed"} /\ Cleaning(i)
        /\ \A j \in Insts : j # i =>
              UNCHANGED <<pc[j], done[j], first[j], last[j]>>
    BY DEF ClearStart, ClearEnd, NextBar, Goto, CallInv, TypeOK, QuietParts, LoopInv
  <1>2. c \in Slots /\ Storers(c) = {} /\ Idle(i)
    BY <1>1, LoopQuiet
  <1>3. \A s \in Slots : s # c => start'[s] = start[s] /\ end'[s] = end[s]
    BY DEF ClearStart, ClearEnd, CallInv, TypeOK
  <1>4. /\ start'[c] = 0
        /\ \/ pc'[i] = "zeroed" /\ done' = done
           \/ pc'[i] = "bar" /\ done' = [done EXCEPT ![i] = @ \cup {b}]
    BY <1>1, <1>2 DEF ClearStart, ClearEnd, NextBar, Goto, CallInv, TypeOK,
                      QuietParts, LoopInv
  <1>5. \A s \in Slots : Storers(s)' = Storers(s)
    BY <1>1 DEF Storers, calls
  <1>6. GivenBack(c) /\ Chunk(c) = {} /\ Chunk(c)' = {}
    BY <1>1, <1>2, <1>4, <1>5 DEF GivenBack, Turn, Chunk
  <1>7. ASSUME NEW s \in Slots, s # c PROVE Chunk(s)' = Chunk(s)
    <2>1. PICK j \in Insts, d \in Bars : s = <<j, d>>
      BY DEF Slots
    <2>2. GivenBack(s)' = GivenBack(s)
      <3>1. CASE j # i
        BY <1>1, <2>1, <3>1 DEF GivenBack
      <3>2. CASE j = i
        <4>1. ~Turn(i, d)
          BY <1>1, <1>7, <2>1, <3>2, TurnUnique
        <4>2. ~GivenBack(s)
          BY <2>1, <3>2, <4>1 DEF GivenBack, Turn
        <4>3. ~GivenBack(s)'
          BY <1>4, <2>1, <3>2, <4>1 DEF GivenBack, Turn
        <4> QED
          BY <4>2, <4>3 DEF GivenBack
      <3> QED
        BY <3>1, <3>2
    <2>3. start'[s] = start[s] /\ end'[s] = end[s] /\ UNCHANGED <<got, want>>
      BY <1>1, <1>3, <1>7 DEF calls
    <2> QED
      BY <1>5, <2>2, <2>3 DEF Chunk
  <1>8. PoolParts' /\ \A s \in Slots : Chunk(s)' = Chunk(s)
    BY <1>1, <1>6, <1>7, PagesUnchanged
  <1>9. QuietInv'
    BY <1>1 DEF QuietParts, QuietInv, Idle, Adding, calls
  <1>10. StoreInv'
    <2>1. \A t \in Threads : left[t] # {} => call[t] \in Slots /\ call[t] # c
      BY <1>2 DEF Storers, CallInv, GotInv
    <2> QED
      BY <1>1, <1>3, <2>1 DEF QuietParts, StoreInv, calls
  <1>11. PairInv'
    BY <1>3, <1>4, <1>5 DEF QuietParts, PairInv
  <1>12. LoopInv'
    <2>1. \A j \in Insts, d \in Bars : j # i =>
             start'[<<j, d>>] = start[<<j, d>>] /\ end'[<<j, d>>] = end[<<j, d>>]
      BY <1>3 DEF Slots
    <2>2. \A d \in Bars : Turn(i, d) => d = b
      BY <1>1, TurnUnique
    <2>3. CASE pc'[i] = "bar"
      BY <1>1, <2>1, <2>3 DEF QuietParts, LoopInv, Turn, Cleaning
    <2>4. CASE pc'[i] = "zeroed" /\ done' = done
      BY <1>1, <1>4, <2>1, <2>2, <2>4 DEF QuietParts, LoopInv, Turn, Cleaning
    <2> QED
      BY <1>4, <2>3, <2>4
  <1> QED
    BY <1>1, <1>8, <1>9, <1>10, <1>11, <1>12 DEF QuietParts

LEMMA SafeInvNext == CallInv /\ SafeInv /\ [Next]_vars => SafeInv'
  <1> SUFFICES ASSUME CallInv, SafeInv, [Next]_vars, "late" \notin usage'
               PROVE  QuietParts' /\ PoolParts'
    BY DEF SafeInv
  <1>1. CASE UNCHANGED vars
    <2>1. QuietParts /\ PoolParts
      BY <1>1 DEF SafeInv, vars
    <2>2. QuietParts'
      BY <1>1, <2>1 DEF vars, bars, loops, calls, QuietParts, QuietInv, Idle, Adding,
                        StoreInv, PairInv, Storers, LoopInv, Cleaning, Turn
    <2>3. \A s \in Slots : Chunk(s)' = Chunk(s)
      BY <1>1 DEF vars, bars, loops, calls, Chunk, Storers, GivenBack
    <2> QED
      BY <1>1, <2>1, <2>2, <2>3, PagesUnchanged DEF vars, bars
  <1>2. CASE Next
    <2>1. usage' = usage /\ QuietParts /\ PoolParts /\ "late" \notin usage
      BY <1>2 DEF Next, SafeInv
    <2>2. ASSUME NEW t \in Threads, UNCHANGED bug,
                 \/ AddBar(t)
                 \/ \E s \in Slots : \E n \in Sizes : AddBarCheck(t, s, n)
          PROVE  QuietParts' /\ PoolParts'
      BY <2>1, <2>2, SafeReturn, SafeCarve, SafeStore DEF AddBar
    <2>3. ASSUME NEW i \in Insts, Instance(i) PROVE QuietParts' /\ PoolParts'
      BY <2>1, <2>3, SafeEnter, SafeRead, SafeInsert, SafeDrop, SafeFree, SafeClear
      DEF Instance, InitBar, CleanBar
    <2> QED
      BY <1>2, <2>2, <2>3 DEF Next, Step
  <1> QED
    BY <1>1, <1>2

LEMMA SafeInvInit == Init => SafeInv
  <1> SUFFICES ASSUME Init PROVE QuietParts /\ PoolParts
    BY DEF SafeInv
  <1>1. \A s \in Slots : Chunk(s) = {}
    BY DEF Init, Chunk, Storers
  <1>2. PoolParts
    BY <1>1 DEF Init, PoolParts, ChunksApart, DecodedReserved
  <1>3. QuietParts
    BY DEF Init, QuietParts, QuietInv, StoreInv, PairInv, LoopInv, Idle, Adding
  <1> QED
    BY <1>2, <1>3

LEMMA PoolSafe == Spec => [](CallInv /\ SafeInv)
  BY CallInvInit, CallInvNext, SafeInvInit, SafeInvNext, PTL DEF Spec

(* While no ADD_BAR runs beside REGISTER, the chunks of all BARs of all     *)
(* instances are aligned runs of the pool that do not meet, although they   *)
(* are carved, paired, freed and cleared in steps of many threads.          *)
THEOREM PoolDisjoint == Spec => []ChunksDisjoint
  <1>1. SafeInv => ChunksDisjoint
    BY DEF SafeInv, PoolParts, ChunksDisjoint
  <1> QED
    BY <1>1, PoolSafe, PTL

(* ... the pages a device on the bus decodes stay reserved and its own, and *)
(* pciem_cleanup_bar never gives back a page that is not taken.             *)
THEOREM PoolReserved == Spec => []DecodedStaysReserved
  <1>1. SafeInv => DecodedStaysReserved
    BY DEF SafeInv, PoolParts, DecodedStaysReserved
  <1> QED
    BY <1>1, PoolSafe, PTL

-----------------------------------------------------------------------------
(* What is taken and what is shown *)

(* No page is taken but by a chunk; for that, no ADD_BAR call may find a    *)
(* chunk that it would forget, nor may two of them be about one BAR.        *)
LeakParts ==
    /\ used = UNION {Chunk(s) : s \in Slots}
    /\ \A t \in Threads : Adding(t) =>
          /\ left[t] = {} => start[call[t]] = 0
          /\ \A u \in Threads : call[u] = call[t] => u = t

(* The BARs that registration has prepared have their resource.             *)
BackParts ==
    \A i \in Insts, b \in Bars :
        /\ reg[i] = "REGISTERED" \/ (reg[i] = "REGISTERING" /\ b \in done[i])
        /\ size[<<i, b>>] # 0
        => res[<<i, b>>] # {}

OrderlyInv == usage \subseteq {"off"} => LeakParts /\ BackParts

LEMMA OrderlyInit == Init => OrderlyInv
  <1> SUFFICES ASSUME Init PROVE LeakParts /\ BackParts
    BY DEF OrderlyInv
  <1>1. \A s \in Slots : Chunk(s) = {}
    BY DEF Init, Chunk, Storers
  <1>2. LeakParts
    BY <1>1 DEF Init, LeakParts, Adding
  <1> QED
    BY <1>2 DEF Init, BackParts

LEMMA AddBarOrderly ==
  ASSUME CallInv, QuietParts, PoolParts, LeakParts, BackParts,
         usage \subseteq {"off"}, NEW t \in Threads, AddBar(t), UNCHANGED <<bug, usage>>
  PROVE  LeakParts' /\ BackParts'
  <1> USE DEF LeakParts
  <1>1. PICK c \in Slots : c = call[t]
    BY NoneAssumption DEF AddBar, ClearBar, Carve, CarveFails, Locks, Adding, Store,
                          CallInv, TypeOK, GotInv
  <1>2. Adding(t) /\ c[1] \in Insts /\ reg[c[1]] = "UNREGISTERED"
    <2>1. Adding(t)
      BY <1>1, NoneAssumption DEF Adding
    <2> QED
      BY <1>1, <2>1, CallerQuiet
  <1>3. /\ UNCHANGED <<res, reg, done>>
        /\ \A s \in Slots : s # c => size'[s] = size[s]
    BY <1>1 DEF AddBar, ClearBar, Carve, CarveFails, Store, bars, loops, CallInv, TypeOK
  <1>4. BackParts'
    <2>1. \A i \in Insts, b \in Bars : i # c[1] => <<i, b>> \in Slots /\ <<i, b>> # c
      BY DEF Slots
    <2> QED
      BY <1>2, <1>3, <2>1 DEF BackParts
  <1>5. \A u \in Threads : u # t => /\ left'[u] = left[u] /\ call'[u] = call[u]
                                    /\ want'[u] = want[u] /\ got'[u] = got[u]
                                    /\ (Adding(u) => call[u] # c)
    <2>1. \A u \in Threads : u # t /\ Adding(u) => call[u] # c
      BY <1>1, <1>2 DEF Adding
    <2>2. CASE ClearBar(t) \/ CarveFails(t) \/ Carve(t)
      BY <2>1, <2>2 DEF ClearBar, CarveFails, Carve, Return, CallInv, TypeOK
    <2>3. ASSUME NEW f \in left[t], Store(t, f)
          PROVE  \A u \in Threads : u # t => /\ left'[u] = left[u] /\ call'[u] = call[u]
                                             /\ want'[u] = want[u] /\ got'[u] = got[u]
      <3>1. CASE left[t] = {f}
        BY <2>3, <3>1 DEF Store, Return, CallInv, TypeOK
      <3>2. CASE left[t] # {f}
        BY <2>3, <3>2 DEF Store, CallInv, TypeOK
      <3> QED
        BY <3>1, <3>2
    <2> QED
      BY <2>1, <2>2, <2>3 DEF AddBar
  <1>6. call'[t] = None \/ (call'[t] = c /\ left'[t] # {})
    <2>1. CASE ClearBar(t) \/ CarveFails(t)
      BY <2>1 DEF ClearBar, CarveFails, Return, CallInv, TypeOK
    <2>2. CASE Carve(t)
      BY <1>1, <2>2 DEF Carve, CallInv, TypeOK
    <2>3. ASSUME NEW f \in left[t], Store(t, f)
          PROVE  call'[t] = None \/ (call'[t] = c /\ left'[t] # {})
      <3>1. CASE left[t] = {f}
        BY <2>3, <3>1 DEF Store, Return, CallInv, TypeOK
      <3>2. CASE left[t] # {f}
        BY <1>1, <2>3, <3>2 DEF Store, CallInv, TypeOK
      <3> QED
        BY <3>1, <3>2
    <2> QED
      BY <2>1, <2>2, <2>3 DEF AddBar
  <1>7. \A s \in Slots : s # c => start'[s] = start[s]
    BY <1>1 DEF AddBar, ClearBar, Carve, CarveFails, Store, bars, CallInv, TypeOK
  <1>8. \A u \in Threads : Adding(u)' =>
          /\ left'[u] = {} => start'[call'[u]] = 0
          /\ \A v \in Threads : call'[v] = call'[u] => v = u
    <2>1. \A u \in Threads : Adding(u)' /\ left'[u] = {} =>
             u # t /\ Adding(u) /\ call[u] \in Slots
      BY <1>5, <1>6 DEF Adding, CallInv, TypeOK
    <2>2. \A u \in Threads : Adding(u)' /\ left'[u] = {} => start'[call'[u]] = 0
      BY <1>5, <1>7, <2>1
    <2>3. \A u, v \in Threads : Adding(u)' /\ call'[v] = call'[u] => v = u
      BY <1>1, <1>5, <1>6 DEF Adding
    <2> QED
      BY <2>2, <2>3
  <1>9. used' = UNION {Chunk(s)' : s \in Slots}
    <2>1. CASE ClearBar(t) \/ CarveFails(t) \/ \E f \in left[t] : Store(t, f)
      BY <2>1, SafeReturn, SafeStore
    <2>2. CASE Carve(t)
      <3>1. PICK p : /\ used' = used \cup p
                     /\ \A s \in Slots :
                           Chunk(s)' = IF s = call[t] THEN p ELSE Chunk(s)
        BY <2>2, SafeCarve
      <3>2. Storers(c) = {} /\ start[c] = 0
        BY <1>1, <1>2, <2>2, SafeCarve DEF Carve, Locks
      <3>3. Chunk(c) = {}
        BY <3>2 DEF Chunk
      <3> QED
        BY <1>1, <3>1, <3>3
    <2> QED
      BY <2>1, <2>2 DEF AddBar
  <1> QED
    BY <1>4, <1>8, <1>9

(* A call passes its check: the BAR has no chunk and no other call. *)
LEMMA CheckOrderly ==
  ASSUME CallInv, QuietParts, PoolParts, LeakParts, BackParts,
         usage \subseteq {"off"}, NEW t \in Threads, NEW s \in Slots, NEW n \in Sizes,
         AddBarCheck(t, s, n), UNCHANGED <<bug, usage>>
  PROVE  LeakParts' /\ BackParts'
  <1>1. UNCHANGED <<start, left, size, res, reg, done>>
    BY DEF AddBarCheck, bars, loops
  <1>2. used' = used /\ \A u \in Slots : Chunk(u)' = Chunk(u)
    BY SafeReturn
  <1>3. start[s] = 0 /\ \A u \in Threads : call[u] # s
    BY DEF AddBarCheck
  <1>4. call'[t] = s /\ \A u \in Threads : u # t => call'[u] = call[u]
    BY DEF AddBarCheck, CallInv, TypeOK
  <1>5. LeakParts'
    BY <1>1, <1>2, <1>3, <1>4 DEF LeakParts, Adding
  <1> QED
    BY <1>1, <1>5 DEF BackParts

(* The loops: what they give back was the chunk, what they claim is not empty. *)
LEMMA InstanceOrderly ==
  ASSUME CallInv, QuietParts, PoolParts, LeakParts, BackParts,
         usage \subseteq {"off"}, NEW i \in Insts, Instance(i), UNCHANGED usage
  PROVE  LeakParts' /\ BackParts'
  <1>1. UNCHANGED <<call, left, size>>
    BY DEF Instance, InitBar, CleanBar, Register, InitFails, InitDone, Teardown,
           CleanDone, SkipBar, TakeBar, ReadStart, ReadEnd, InsertRes, DropRes,
           FreeChunk, ClearStart, ClearEnd, bars, calls
  <1>2. \A s \in Slots : start'[s] = start[s] \/ start'[s] = 0
    <2>1. start' = start \/ \E b \in Bars : ClearStart(i, b)
      BY DEF Instance, InitBar, CleanBar, Register, InitFails, InitDone, Teardown,
             CleanDone, SkipBar, TakeBar, ReadStart, ReadEnd, InsertRes, DropRes,
             FreeChunk, ClearEnd, bars
    <2> QED
      BY <2>1 DEF ClearStart, CallInv, TypeOK
  <1>3. used' = UNION {Chunk(s)' : s \in Slots}
    <2>1. CASE used' = used /\ \A s \in Slots : Chunk(s)' = Chunk(s)
      BY <2>1 DEF LeakParts
    <2>2. ASSUME NEW b \in Bars, FreeChunk(i, b)
          PROVE  used' = UNION {Chunk(s)' : s \in Slots}
      <3>1. <<i, b>> \in Slots
        BY DEF Slots
      <3>2. /\ used' = used \ Chunk(<<i, b>>) /\ Chunk(<<i, b>>)' = {}
            /\ \A s \in Slots : s # <<i, b>> => Chunk(s)' = Chunk(s)
        BY <2>2, SafeFree
      <3>3. \A s \in Slots : s # <<i, b>> => Chunk(s) \cap Chunk(<<i, b>>) = {}
        BY <3>1 DEF PoolParts, ChunksApart
      <3> QED
        BY <3>1, <3>2, <3>3 DEF LeakParts
    <2> QED
      BY <2>1, <2>2, SafeEnter, SafeRead, SafeInsert, SafeDrop, SafeClear
      DEF Instance, InitBar, CleanBar
  <1>4. LeakParts'
    <2>1. \A t \in Threads : Adding(t) => call[t] \in Slots
      BY DEF Adding, CallInv, TypeOK
    <2> QED
      BY <1>1, <1>2, <1>3, <2>1 DEF LeakParts, Adding
  <1>5. BackParts'
    <2>1. CASE \/ Register(i) \/ InitFails(i) \/ InitDone(i) \/ Teardown(i)
               \/ CleanDone(i)
      BY <1>1, <2>1 DEF Register, InitFails, InitDone, Teardown, CleanDone, Enter,
                        bars, BackParts, CallInv, TypeOK
    <2>2. ASSUME NEW b \in Bars, SkipBar(i, b) PROVE BackParts'
      BY <1>1, <2>2 DEF SkipBar, NextBar, bars, BackParts, CallInv, TypeOK
    <2>3. ASSUME NEW b \in Bars, TakeBar(i, b) \/ ReadStart(i, b) \/ ReadEnd(i, b)
          PROVE  BackParts'
      BY <1>1, <2>3 DEF TakeBar, ReadStart, ReadEnd, Goto, bars, BackParts
    <2>4. ASSUME NEW b \in Bars, InsertRes(i, b) PROVE BackParts'
      <3>1. \A j \in Insts, d \in Bars :
               IF j = i /\ d = b THEN res'[<<j, d>>] # {}
               ELSE res'[<<j, d>>] = res[<<j, d>>]
        BY <2>4 DEF InsertRes, Insertable, Slots, CallInv, TypeOK
      <3>2. \A j \in Insts, d \in Bars :
               d \in done'[j] => d \in done[j] \/ (j = i /\ d = b)
        BY <2>4 DEF InsertRes, NextBar, CallInv, TypeOK
      <3>3. reg' = reg /\ reg[i] = "REGISTERING"
        BY <2>4 DEF InsertRes, NextBar
      <3> QED
        BY <1>1, <3>1, <3>2, <3>3 DEF BackParts
    <2>5. ASSUME NEW b \in Bars, CleanBar(i, b) PROVE BackParts'
      <3>1. Cleaning(i)
        BY <2>5 DEF CleanBar, DropRes, FreeChunk, ClearStart, ClearEnd, QuietParts,
                    LoopInv
      <3>2. \A j \in Insts, d \in Bars : j # i => res'[<<j, d>>] = res[<<j, d>>]
        BY <2>5 DEF CleanBar, DropRes, FreeChunk, ClearStart, ClearEnd, Slots, CallInv,
                    TypeOK
      <3>3. reg' = reg /\ \A j \in Insts : j # i => done'[j] = done[j]
        BY <2>5 DEF CleanBar, DropRes, FreeChunk, ClearStart, ClearEnd, NextBar, Goto,
                    CallInv, TypeOK
      <3> QED
        BY <1>1, <3>1, <3>2, <3>3 DEF BackParts, Cleaning
    <2> QED
      BY <2>1, <2>2, <2>3, <2>4, <2>5 DEF Instance, InitBar
  <1> QED
    BY <1>4, <1>5

LEMMA OrderlyNext == CallInv /\ SafeInv /\ OrderlyInv /\ [Next]_vars => OrderlyInv'
  <1> SUFFICES ASSUME CallInv, SafeInv, OrderlyInv, [Next]_vars, usage' \subseteq {"off"}
               PROVE  LeakParts' /\ BackParts'
    BY DEF OrderlyInv
  <1>1. CASE UNCHANGED vars
    <2>1. \A s \in Slots : Chunk(s)' = Chunk(s)
      BY <1>1 DEF vars, bars, loops, calls, Chunk, Storers, GivenBack
    <2> QED
      BY <1>1, <2>1 DEF vars, bars, loops, calls, OrderlyInv, LeakParts, BackParts, Adding
  <1>2. CASE Next
    <2>1. /\ usage' = usage /\ usage \subseteq {"off"}
          /\ QuietParts /\ PoolParts /\ LeakParts /\ BackParts
      BY <1>2 DEF Next, SafeInv, OrderlyInv
    <2> QED
      BY <1>2, <2>1, AddBarOrderly, CheckOrderly, InstanceOrderly DEF Next, Step
  <1> QED
    BY <1>1, <1>2

LEMMA PoolOrderly == Spec => []OrderlyInv
  BY OrderlyInit, OrderlyNext, PoolSafe, PTL DEF Spec

(* NoLeak: while no BAR is added twice and none beside REGISTER, the marked *)
(* pages of the pool are those of the chunks, through failed registrations, *)
(* failed carvings and teardowns.                                           *)
THEOREM PoolNoLeak == Spec => []NoLeak
  <1>1. OrderlyInv => NoLeak
    BY DEF OrderlyInv, LeakParts, NoLeak
  <1> QED
    BY <1>1, PoolOrderly, PTL

(* RegisteredBarsBacked: under the same condition every BAR with a size     *)
(* that a registered device shows has its resource.                         *)
THEOREM PoolBacked == Spec => []RegisteredBarsBacked
  <1>1. OrderlyInv => RegisteredBarsBacked
    BY DEF OrderlyInv, BackParts, RegisteredBarsBacked
  <1> QED
    BY <1>1, PoolOrderly, PTL

=============================================================================
