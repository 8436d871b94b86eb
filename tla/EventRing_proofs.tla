-------------------------- MODULE EventRing_proofs --------------------------
(***************************************************************************)
(* Proofs about EventRing, for every ring size, every number of producers, *)
(* setters and eventfds, and every number of events.                       *)
(***************************************************************************)
EXTENDS EventRing, TLAPS

(* The reduction modulo RingSize is a wrap to zero at the last slot. *)
LEMMA NextIndexWraps ==
    \A i \in Index : NextIndex(i) = IF i = RingSize - 1 THEN 0 ELSE i + 1
BY RingSizeAssumption, SMT DEF Index, NextIndex

LEMMA NextIndexType == \A i \in Index : NextIndex(i) \in Index
BY NextIndexWraps, RingSizeAssumption, SMT DEF Index

-----------------------------------------------------------------------------
(* Every variable keeps its type. *)
THEOREM TypeCorrect == Spec => []TypeOK
<1>1. Init => TypeOK
  <2> SUFFICES ASSUME Init PROVE TypeOK
    OBVIOUS
  <2>1. 0 \in Index /\ 0 \in 0..MaxEvents
    BY RingSizeAssumption, MaxEventsAssumption DEF Index
  <2>2. /\ << >> \in Seq(Nat) /\ << >> \in Seq(Nat \cup {Torn})
    OBVIOUS
  <2> QED BY <2>1, <2>2 DEF Init, TypeOK, Index
<1>2. TypeOK /\ [Next]_vars => TypeOK'
  <2> SUFFICES ASSUME TypeOK, [Next]_vars PROVE TypeOK'
    OBVIOUS
  <2> USE RingSizeAssumption, MaxEventsAssumption, SetArgsAssumption
        DEF TypeOK, Index, ringVars, fdVars, history
  <2>1. \A i \in Index : NextIndex(i) \in Index
    BY NextIndexType
  <2>2. ASSUME NEW p \in Producers, QueueEvent(p) PROVE TypeOK'
    BY <2>2 DEF QueueEvent
  <2>3. ASSUME NEW p \in Producers, PushFull(p) PROVE TypeOK'
    <3>1. pev[p] \in Nat
      OBVIOUS
    <3> QED BY <2>3, <3>1 DEF PushFull
  <2>4. ASSUME NEW p \in Producers, PushReserve(p) PROVE TypeOK'
    BY <2>4 DEF PushReserve
  <2>5. ASSUME NEW p \in Producers, PushCopied(p) PROVE TypeOK'
    BY <2>5 DEF PushCopied
  <2>6. ASSUME NEW p \in Producers, PushPublish(p) PROVE TypeOK'
    <3>1. tail' \in Index
      BY <2>1, <2>6 DEF PushPublish
    <3>2. pev[p] \in Nat
      OBVIOUS
    <3>3. accepted' \in Seq(Nat)
      BY <2>6, <3>2 DEF PushPublish
    <3> QED BY <2>6, <3>1, <3>3 DEF PushPublish
  <2>7. ASSUME NEW p \in Producers, Notify(p) PROVE TypeOK'
    BY <2>7 DEF Notify
  <2>8. ASSUME NEW s \in Setters, NEW e \in SetArgs, SwapEventfd(s, e)
        PROVE TypeOK'
    BY <2>8 DEF SwapEventfd
  <2>9. ASSUME NEW s \in Setters, XchgPending(s) PROVE TypeOK'
    BY <2>9 DEF XchgPending
  <2>10. ASSUME NEW s \in Setters, SignalPending(s) PROVE TypeOK'
    BY <2>10 DEF SignalPending
  <2>11. ASSUME NEW e \in Eventfds, PollRead(e) PROVE TypeOK'
    BY <2>11 DEF PollRead
  <2>12. CASE CheckRing
    BY <2>12 DEF CheckRing
  <2>13. CASE HandleEvent
    BY <2>13 DEF HandleEvent
  <2>14. CASE StoreHead
    <3>1. head' \in Index
      BY <2>1, <2>14 DEF StoreHead
    <3>2. handled' \in Seq(Nat \cup {Torn})
      BY <2>14 DEF StoreHead
    <3> QED BY <2>14, <3>1, <3>2 DEF StoreHead
  <2>15. CASE UNCHANGED vars
    BY <2>15 DEF vars
  <2> QED
    BY <2>2, <2>3, <2>4, <2>5, <2>6, <2>7, <2>8, <2>9, <2>10, <2>11, <2>12,
       <2>13, <2>14, <2>15 DEF Next, Kernel, Consumer, Producer
<1> QED BY <1>1, <1>2, PTL DEF Spec

-----------------------------------------------------------------------------
(* The ring invariant, one step per action. *)
LEMMA RingInvInit == Init => RingInv
BY RingSizeAssumption, MaxEventsAssumption, NoneAssumption
   DEF Init, RingInv, Used, Slot, Index

LEMMA RingInvNext ==
    ASSUME TypeOK, RingInv, [Next]_vars
    PROVE  RingInv'
<1> USE RingSizeAssumption, MaxEventsAssumption, NoneAssumption
      DEF TypeOK, Index, ringVars, fdVars, history
<1>1. ASSUME NEW p \in Producers, QueueEvent(p) PROVE RingInv'
  BY <1>1 DEF QueueEvent, RingInv, Used, Slot
<1>2. ASSUME NEW p \in Producers, PushFull(p) PROVE RingInv'
  BY <1>2 DEF PushFull, RingInv, Used, Slot
<1>3. ASSUME NEW p \in Producers, PushReserve(p) PROVE RingInv'
  <2>1. Used < RingSize - 1
    BY <1>3, NextIndexWraps DEF PushReserve, RingFull, Used
  <2>2. \A k \in Index : k < Used => Slot(k) \in Index /\ Slot(k) # tail
    BY DEF Used, Slot
  <2>3. cpc \in {"handle", "store"} => head # tail
    BY DEF RingInv
  <2>4. UNCHANGED <<head, tail, pev, cpc, cev, accepted, handled>>
    BY <1>3 DEF PushReserve
  <2>5. \A i \in Index : i # tail => events'[i] = events[i]
    BY <1>3 DEF PushReserve
  <2>6. UNCHANGED Used /\ \A k : Slot(k)' = Slot(k)
    BY <2>4 DEF Used, Slot
  <2>7. \A k \in Index : k < Used' =>
          events'[Slot(k)'] = accepted'[Len(handled') + k + 1]
    BY <2>2, <2>4, <2>5, <2>6 DEF RingInv
  <2>8. \A q \in Producers :
          /\ ppc'[q] \in {"copy", "publish"} <=> ringLock' = q
          /\ ppc'[q] # "publish"
          /\ ppc'[q] # "idle" => pev'[q] \in 1..MaxEvents
    BY <1>3 DEF PushReserve, RingInv
  <2> QED BY <2>1, <2>3, <2>4, <2>5, <2>6, <2>7, <2>8 DEF RingInv
<1>4. ASSUME NEW p \in Producers, PushCopied(p) PROVE RingInv'
  <2>1. ringLock = p /\ Used < RingSize - 1
    BY <1>4 DEF PushCopied, RingInv
  <2>2. \A k \in Index : k < Used => Slot(k) \in Index /\ Slot(k) # tail
    BY DEF Used, Slot
  <2>3. UNCHANGED <<head, tail, ringLock, pev, cpc, cev, accepted, handled>>
    BY <1>4 DEF PushCopied
  <2>4. \A i \in Index : i # tail => events'[i] = events[i]
    BY <1>4 DEF PushCopied
  <2>5. UNCHANGED Used /\ \A k : Slot(k)' = Slot(k)
    BY <2>3 DEF Used, Slot
  <2>6. \A k \in Index : k < Used' =>
          events'[Slot(k)'] = accepted'[Len(handled') + k + 1]
    BY <2>2, <2>3, <2>4, <2>5 DEF RingInv
  <2>7. \A q \in Producers :
          /\ ppc'[q] \in {"copy", "publish"} <=> ringLock' = q
          /\ ppc'[q] = "publish" => events'[tail'] = pev'[q]
          /\ ppc'[q] # "idle" => pev'[q] \in 1..MaxEvents
    BY <1>4, <2>1 DEF PushCopied, RingInv
  <2> QED BY <2>1, <2>3, <2>4, <2>5, <2>6, <2>7 DEF RingInv
<1>5. ASSUME NEW p \in Producers, PushPublish(p) PROVE RingInv'
  <2>1. ringLock = p /\ Used < RingSize - 1 /\ events[tail] = pev[p]
    BY <1>5 DEF PushPublish, RingInv
  <2>2. UNCHANGED <<head, events, pev, cpc, cev, handled>>
    BY <1>5 DEF PushPublish
  <2>3. /\ tail' = IF tail = RingSize - 1 THEN 0 ELSE tail + 1
        /\ accepted' = Append(accepted, pev[p])
        /\ ringLock' = None
    BY <1>5, NextIndexWraps DEF PushPublish
  <2>4. /\ Used' = Used + 1
        /\ head # tail'
        /\ Slot(Used) = tail
        /\ \A k \in Index : Slot(k)' = Slot(k)
    BY <2>1, <2>2, <2>3 DEF Used, Slot
  <2>5. /\ Len(accepted') = Len(accepted) + 1
        /\ \A i \in 1..Len(accepted) : accepted'[i] = accepted[i]
        /\ accepted'[Len(accepted) + 1] = pev[p]
    BY <2>3
  <2>6. Len(accepted) = Len(handled) + Used /\ Used \in Nat /\ Len(handled) \in Nat
    BY DEF RingInv, Used
  <2>7. ASSUME NEW k \in Index, k < Used'
        PROVE  events'[Slot(k)'] = accepted'[Len(handled') + k + 1]
    <3>1. CASE k < Used
      <4>1. Len(handled) + k + 1 \in 1..Len(accepted)
        BY <2>6, <3>1
      <4> QED BY <2>2, <2>4, <2>5, <3>1, <4>1 DEF RingInv
    <3>2. CASE k = Used
      BY <2>1, <2>2, <2>4, <2>5, <2>6, <3>2
    <3> QED BY <2>4, <2>6, <2>7, <3>1, <3>2
  <2>8. \A q \in Producers :
          /\ ppc'[q] \notin {"copy", "publish"}
          /\ ppc'[q] # "idle" => pev'[q] \in 1..MaxEvents
    BY <1>5, <2>1 DEF PushPublish, RingInv
  <2>9. Len(accepted') = Len(handled') + Used'
    BY <2>2, <2>4, <2>5, <2>6
  <2>10. cpc' = "store" => cev' = events'[head']
    BY <2>2 DEF RingInv
  <2> QED BY <2>2, <2>3, <2>4, <2>7, <2>8, <2>9, <2>10 DEF RingInv
<1>6. ASSUME NEW p \in Producers, Notify(p) PROVE RingInv'
  BY <1>6 DEF Notify, RingInv, Used, Slot
<1>7. ASSUME NEW s \in Setters, NEW e \in SetArgs, SwapEventfd(s, e)
      PROVE RingInv'
  BY <1>7 DEF SwapEventfd, RingInv, Used, Slot
<1>8. ASSUME NEW s \in Setters, XchgPending(s) PROVE RingInv'
  BY <1>8 DEF XchgPending, RingInv, Used, Slot
<1>9. ASSUME NEW s \in Setters, SignalPending(s) PROVE RingInv'
  BY <1>9 DEF SignalPending, RingInv, Used, Slot
<1>10. ASSUME NEW e \in Eventfds, PollRead(e) PROVE RingInv'
  BY <1>10 DEF PollRead, RingInv, Used, Slot
<1>11. CASE CheckRing
  BY <1>11 DEF CheckRing, RingInv, Used, Slot
<1>12. CASE HandleEvent
  BY <1>12 DEF HandleEvent, RingInv, Used, Slot
<1>13. CASE StoreHead
  <2>1. head # tail
    BY <1>13 DEF StoreHead, RingInv
  <2>2. UNCHANGED <<tail, events, ringLock, ppc, pev, accepted>> /\ cpc' = "check"
    BY <1>13 DEF StoreHead
  <2>3. /\ head' = IF head = RingSize - 1 THEN 0 ELSE head + 1
        /\ Len(handled') = Len(handled) + 1
    BY <1>13, NextIndexWraps DEF StoreHead
  <2>4. /\ Used' = Used - 1 /\ Used \in Index
        /\ \A k \in Index : k < Used' => k + 1 \in Index /\ Slot(k)' = Slot(k + 1)
    BY <2>1, <2>2, <2>3 DEF Used, Slot
  <2>5. Len(accepted) = Len(handled) + Used /\ Len(handled) \in Nat
    BY DEF RingInv
  <2>6. \A k \in Index : k < Used' =>
          events'[Slot(k)'] = accepted'[Len(handled') + k + 1]
    BY <2>2, <2>3, <2>4, <2>5 DEF RingInv
  <2>7. Len(accepted') = Len(handled') + Used'
    BY <2>2, <2>3, <2>4, <2>5
  <2>8. ringLock' # None => Used' < RingSize - 1
    BY <2>2, <2>4 DEF RingInv
  <2> QED BY <2>2, <2>6, <2>7, <2>8 DEF RingInv
<1>14. CASE UNCHANGED vars
  BY <1>14 DEF vars, RingInv, Used, Slot
<1> QED
  BY <1>1, <1>2, <1>3, <1>4, <1>5, <1>6, <1>7, <1>8, <1>9, <1>10, <1>11,
     <1>12, <1>13, <1>14 DEF Next, Kernel, Consumer, Producer

(* The slots in use always hold the waiting events in order, and only the   *)
(* holder of shared_ring_lock writes outside them.                          *)
THEOREM RingInvariant == Spec => []RingInv
BY TypeCorrect, RingInvInit, RingInvNext, PTL DEF Spec

(* A handler's slot is never torn or replaced under it. *)
THEOREM SlotIntact == Spec => []HandledSlotIntact
<1>1. TypeOK /\ RingInv => HandledSlotIntact
  <2> SUFFICES ASSUME TypeOK, RingInv, cpc \in {"handle", "store"}
               PROVE  /\ Len(handled) < Len(accepted)
                      /\ events[head] = accepted[Len(handled) + 1]
    BY DEF HandledSlotIntact
  <2>1. 0 < Used /\ Slot(0) = head /\ 0 \in Index
    BY RingSizeAssumption DEF TypeOK, RingInv, Used, Slot, Index
  <2>2. Len(accepted) = Len(handled) + Used /\ Len(handled) \in Nat /\ Used \in Nat
    BY RingSizeAssumption DEF TypeOK, RingInv, Used, Index
  <2>3. events[Slot(0)] = accepted[Len(handled) + 0 + 1]
    BY <2>1 DEF RingInv
  <2> QED BY <2>1, <2>2, <2>3
<1> QED BY <1>1, TypeCorrect, RingInvariant, PTL

-----------------------------------------------------------------------------
(* The ring implements the bounded FIFO queue: an accepted event is handled *)
(* once and in order, and only a full queue drops one.                      *)
THEOREM Refinement == Spec => ImplementsQueue
<1>1. Init => Queue!Init
  BY DEF Init, Queue!Init
<1>2. ASSUME TypeOK, RingInv, HandledSlotIntact, [Next]_vars
      PROVE  [Queue!Next]_Queue!vars
  <2> USE <1>2 DEF history
  <2>1. Len(accepted) = Len(handled) + Used /\ Len(handled) \in Nat /\ Used \in Nat
    BY RingSizeAssumption DEF TypeOK, RingInv, Used, Index
  <2>2. ASSUME NEW p \in Producers, PushFull(p) PROVE Queue!Next
    <3>0. NextIndex(tail) = head /\ head \in Index /\ tail \in Index
      BY <2>2 DEF PushFull, RingFull, TypeOK
    <3>1. Used = RingSize - 1
      BY <3>0, NextIndexWraps, RingSizeAssumption DEF Used, Index
    <3>2. pev[p] \in 1..MaxEvents
      BY <2>2 DEF PushFull, RingInv
    <3>3. Queue!Drop(pev[p])
      BY <2>1, <2>2, <3>1, RingSizeAssumption
         DEF PushFull, Queue!Drop, Queue!Waiting
    <3> QED BY <3>2, <3>3 DEF Queue!Next
  <2>3. ASSUME NEW p \in Producers, PushPublish(p) PROVE Queue!Next
    <3>1. Used < RingSize - 1
      BY <2>3, NoneAssumption DEF PushPublish, RingInv
    <3>2. pev[p] \in 1..MaxEvents
      BY <2>3 DEF PushPublish, RingInv
    <3>3. Queue!Accept(pev[p])
      BY <2>1, <2>3, <3>1, RingSizeAssumption
         DEF PushPublish, Queue!Accept, Queue!Waiting
    <3> QED BY <3>2, <3>3 DEF Queue!Next
  <2>4. CASE StoreHead
    <3>1. Len(handled) < Len(accepted) /\ cev = accepted[Len(handled) + 1]
      BY <2>4 DEF StoreHead, RingInv, HandledSlotIntact
    <3>2. Len(accepted) - Len(handled) > 0
      BY <2>1, <3>1
    <3>3. handled' = Append(handled, accepted[Len(handled) + 1])
      BY <2>4, <3>1 DEF StoreHead
    <3>4. UNCHANGED <<accepted, dropped>>
      BY <2>4 DEF StoreHead
    <3>5. Queue!Take
      BY <3>2, <3>3, <3>4 DEF Queue!Take, Queue!Waiting
    <3> QED BY <3>5 DEF Queue!Next
  <2>5. CASE UNCHANGED history
    BY <2>5 DEF Queue!vars
  <2>6. ASSUME NEW p \in Producers,
               QueueEvent(p) \/ PushReserve(p) \/ PushCopied(p) \/ Notify(p)
        PROVE  UNCHANGED history
    BY <2>6 DEF QueueEvent, PushReserve, PushCopied, Notify
  <2>7. ASSUME NEW s \in Setters,
               \/ \E e \in SetArgs : SwapEventfd(s, e)
               \/ XchgPending(s) \/ SignalPending(s)
        PROVE  UNCHANGED history
    BY <2>7 DEF SwapEventfd, XchgPending, SignalPending
  <2>8. ASSUME (\E e \in Eventfds : PollRead(e)) \/ CheckRing \/ HandleEvent
        PROVE  UNCHANGED history
    BY <2>8 DEF PollRead, CheckRing, HandleEvent
  <2>9. CASE UNCHANGED vars
    BY <2>9, <2>5 DEF vars
  <2> QED
    BY <2>2, <2>3, <2>4, <2>5, <2>6, <2>7, <2>8, <2>9
       DEF Next, Kernel, Consumer, Producer
<1> QED
  BY <1>1, <1>2, TypeCorrect, RingInvariant, SlotIntact, PTL
     DEF Spec, ImplementsQueue, Queue!Spec

-----------------------------------------------------------------------------
(* As long as SET_EVENTFD is only called with an eventfd (fd >= 0), it      *)
(* never signals NULL and no wake-up is lost.                               *)
THEOREM WakeupSafe ==
    ASSUME None \notin SetArgs
    PROVE  Spec => [](NoNullSignal /\ NoLostWakeup)
<1> DEFINE Inv == SetterInv /\ NoNullSignal /\ NoLostWakeup
<1>1. Init => Inv
  BY DEF Init, SetterInv, NoNullSignal, NoLostWakeup
<1>2. ASSUME TypeOK, Inv, [Next]_vars
      PROVE  Inv'
  <2> USE <1>2 DEF TypeOK, ringVars, fdVars, history
  <2>1. ASSUME NEW p \in Producers,
               QueueEvent(p) \/ PushFull(p) \/ PushReserve(p) \/ PushCopied(p)
        PROVE  Inv'
    <3>1. /\ UNCHANGED <<head, tail, eventfd, event_pending, signalled, oops, spc, cpc>>
          /\ \A q \in Producers : ppc[q] = "notify" => ppc'[q] = "notify"
      BY <2>1 DEF QueueEvent, PushFull, PushReserve, PushCopied
    <3> QED BY <3>1 DEF SetterInv, NoNullSignal, NoLostWakeup
  <2>2. ASSUME NEW p \in Producers, PushPublish(p) PROVE Inv'
    BY <2>2 DEF PushPublish, SetterInv, NoNullSignal, NoLostWakeup
  <2>3. ASSUME NEW p \in Producers, Notify(p) PROVE Inv'
    <3>1. CASE eventfd # None
      <4>1. eventfd \in Eventfds /\ signalled'[eventfd]
        BY <2>3, <3>1 DEF Notify
      <4> QED BY <2>3, <4>1 DEF Notify, SetterInv, NoNullSignal, NoLostWakeup
    <3>2. CASE eventfd = None
      <4>1. event_pending' /\ eventfd' = None
        BY <2>3, <3>2 DEF Notify
      <4> QED BY <2>3, <4>1 DEF Notify, SetterInv, NoNullSignal, NoLostWakeup
    <3> QED BY <3>1, <3>2
  <2>4. ASSUME NEW s \in Setters, NEW e \in SetArgs, SwapEventfd(s, e)
        PROVE  Inv'
    <3>1. eventfd' # None
      BY <2>4 DEF SwapEventfd
    <3>2. \A t \in Setters : spc[t] \in {"xchg", "signal"} => spc'[t] = spc[t]
      BY <2>4 DEF SwapEventfd
    <3>3. eventfd = None => spc'[s] = "xchg"
      BY <2>4 DEF SwapEventfd
    <3> QED BY <2>4, <3>1, <3>2, <3>3
            DEF SwapEventfd, SetterInv, NoNullSignal, NoLostWakeup
  <2>5. ASSUME NEW s \in Setters, XchgPending(s) PROVE Inv'
    <3>1. event_pending => spc'[s] = "signal"
      BY <2>5 DEF XchgPending
    <3>2. \A t \in Setters : spc[t] = "signal" => spc'[t] = "signal"
      BY <2>5 DEF XchgPending
    <3>3. SetterInv'
      BY <2>5 DEF XchgPending, SetterInv
    <3>4. NoNullSignal'
      BY <2>5 DEF XchgPending, NoNullSignal
    <3>5. NoLostWakeup'
      BY <2>5, <3>1, <3>2 DEF XchgPending, NoLostWakeup
    <3> QED BY <3>3, <3>4, <3>5
  <2>6. ASSUME NEW s \in Setters, SignalPending(s) PROVE Inv'
    <3>1. eventfd # None
      BY <2>6 DEF SignalPending, SetterInv
    <3>2. eventfd \in Eventfds /\ signalled'[eventfd]
      BY <2>6, <3>1 DEF SignalPending
    <3> QED BY <2>6, <3>1, <3>2
            DEF SignalPending, SetterInv, NoNullSignal, NoLostWakeup
  <2>7. ASSUME NEW e \in Eventfds, PollRead(e) PROVE Inv'
    BY <2>7 DEF PollRead, SetterInv, NoNullSignal, NoLostWakeup
  <2>8. CASE CheckRing
    BY <2>8 DEF CheckRing, SetterInv, NoNullSignal, NoLostWakeup
  <2>9. CASE HandleEvent
    BY <2>9 DEF HandleEvent, SetterInv, NoNullSignal, NoLostWakeup
  <2>10. CASE StoreHead
    BY <2>10 DEF StoreHead, SetterInv, NoNullSignal, NoLostWakeup
  <2>11. CASE UNCHANGED vars
    BY <2>11 DEF vars, SetterInv, NoNullSignal, NoLostWakeup
  <2> QED
    BY <2>1, <2>2, <2>3, <2>4, <2>5, <2>6, <2>7, <2>8, <2>9, <2>10, <2>11
       DEF Next, Kernel, Consumer, Producer
<1> QED BY <1>1, <1>2, TypeCorrect, PTL DEF Spec

=============================================================================
