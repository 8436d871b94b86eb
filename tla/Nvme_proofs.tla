----------------------------- MODULE Nvme_proofs -----------------------------
(***************************************************************************)
(* Theorems about Nvme, for any depth of the queues, any commands and any  *)
(* number of resets, for a driver that waits for the controller before it  *)
(* resets it: what the driver takes for an answer is the answer to its     *)
(* oldest command, and the emulator works on the memory that the driver    *)
(* has behind the queue now.                                               *)
(***************************************************************************)
EXTENDS Nvme, FiniteSetTheorems, SequenceTheorems, TLAPS

-----------------------------------------------------------------------------
(* Types *)

Ops == {"none", "identify", "log", "features", "create_cq", "create_sq", "delete",
        "flush", "read", "write"}
Cmd == [cid : Nat, op : Ops, args : Seq(Nat)]
Statuses == {"none", "success", "internal", "invalid_ns", "invalid_field", "bad_queue"}
CqEntry == [cid : Nat, phase : {0, 1}, status : Statuses]

QueueState == [sqSize : Nat, cqSize : Nat, sqAddr : Nat, cqAddr : Nat, sqTail : Nat,
               sqHead : Nat, cqTail : Nat, phase : {0, 1}, vector : Nat]
CstsType == [rdy : {0, 1}, shst : {"normal", "progress", "complete"}]

EventType ==
    [reg : {"cc"}, q : {0}, val : {"disable", "enable", "shutdown"}]
    \cup [reg : {"aqa"}, q : {0}, val : Nat \X Nat]
    \cup [reg : {"asq", "acq"}, q : {0}, val : Nat]
    \cup [reg : {"sqdb"}, q : Queue, val : Nat]

Slots(q) == 0 .. Depth(q) - 1

HostType(q) ==
    [gen : Nat, sq : [Slots(q) -> Cmd] \cup {<<>>}, cq : [Slots(q) -> CqEntry] \cup {<<>>},
     tail : Slots(q), rung : Slots(q), head : Slots(q), phase : {0, 1}, out : Seq(Cmd),
     isr : BOOLEAN]

DrvStates == Up \cup {"unbound", "disabling", "disabled", "programmed", "enabling",
                      "shutting", "down"}

TypeInv ==
    /\ dev \in [enabled : BOOLEAN, running : BOOLEAN, csts : CstsType,
                q : [Queue -> QueueState]]
    /\ pc \in {"closed", "registered", "ready", "poll", "shut", "submission", "complete",
               "interrupt", "exited"}
    /\ cur \in CqEntry
    /\ events \in Seq(EventType)
    /\ bar \in [cap : BOOLEAN, csts : CstsType, aqa : Nat \X Nat, asq : Nat, acq : Nat]
    /\ drv \in DrvStates
    /\ DOMAIN host = Queue /\ \A q \in Queue : host[q] \in HostType(q)
    /\ gen \in Nat

-----------------------------------------------------------------------------
(* One queue *)

(* Distances and places in a queue of q's depth.                            *)
Dist(q, a, b) == IF a <= b THEN b - a ELSE (b + Depth(q)) - a
Slot(q, i) == IF i < Depth(q) THEN i ELSE i - Depth(q)

(* The phase that makes the entry k places after the driver's head new.     *)
NewPhase(q, h, k) == IF h.head + k < Depth(q) THEN h.phase ELSE 1 - h.phase

Answers(e, c) == e.cid = c.cid /\ e.status \in Expected(c)

(* The new entries answer the driver's m oldest commands, in their order.   *)
Posted(q, h, m) ==
    \A k \in Slots(q) :
        LET e == h.cq[Slot(q, h.head + k)] IN
        IF k < m THEN e.phase = NewPhase(q, h, k) /\ Answers(e, h.out[k + 1])
                 ELSE e.phase # NewPhase(q, h, k)

(* The driver's record: memory once it is allocated, tags that differ.      *)
HostOK(q, h) ==
    /\ h.gen = 0 => h.out = <<>> /\ h.rung = h.tail
    /\ h.gen # 0 => /\ h.sq \in [Slots(q) -> Cmd] /\ h.cq \in [Slots(q) -> CqEntry]
                    /\ \E m \in 0 .. Len(h.out) : Posted(q, h, m)
    /\ Len(h.out) < Depth(q)
    /\ \A i, j \in DOMAIN h.out : h.out[i].cid = h.out[j].cid => i = j

(* Queue memory no command was ever put into.                               *)
Pristine(q, h) ==
    /\ h.gen # 0 /\ h.tail = 0 /\ h.rung = 0 /\ h.head = 0 /\ h.phase = 1 /\ h.out = <<>>
    /\ \A k \in Slots(q) : h.cq[k].phase = 0

(* Emulator and driver are at the same queue: the commands outstanding are  *)
(* the answered ones, one being completed (x = 1, with completion c), and   *)
(* those between the emulator's head and the driver's tail.                 *)
InStep(q, h, r, x, c) ==
    LET m == Dist(q, h.head, r.cqTail)
        n == Dist(q, r.sqHead, h.tail)
    IN  /\ h.gen # 0 /\ r.sqAddr = h.gen /\ r.cqAddr = h.gen
        /\ r.sqSize = Depth(q) /\ r.cqSize = Depth(q)
        /\ r.sqHead \in Slots(q) /\ r.sqTail \in Slots(q) /\ r.cqTail \in Slots(q)
        /\ r.phase = IF h.head <= r.cqTail THEN h.phase ELSE 1 - h.phase
        /\ m + x + n = Len(h.out)
        /\ Posted(q, h, m)
        /\ x = 1 => Answers(c, h.out[m + 1])
        /\ \A k \in 0 .. n - 1 : h.sq[Slot(q, r.sqHead + k)] = h.out[m + x + k + 1]
        /\ Dist(q, r.sqHead, r.sqTail) <= Dist(q, r.sqHead, h.rung)
        /\ Dist(q, r.sqHead, h.rung) <= n

IsBell(e, q) == e.reg = "sqdb" /\ e.q = q

(* The doorbells under way are further and further from the emulator's      *)
(* head; the first one is the one it works on, when it is busy.             *)
Chain(q, h, r, evs, busy) ==
    /\ \A i \in DOMAIN evs :
          IsBell(evs[i], q) =>
            /\ evs[i].val \in Slots(q)
            /\ Dist(q, r.sqHead, evs[i].val) <= Dist(q, r.sqHead, h.rung)
            /\ IF busy /\ i = 1 THEN evs[i].val = r.sqTail
               ELSE Dist(q, r.sqHead, r.sqTail) < Dist(q, r.sqHead, evs[i].val)
    /\ \A i, j \in DOMAIN evs :
          i < j /\ IsBell(evs[i], q) /\ IsBell(evs[j], q) =>
            Dist(q, r.sqHead, evs[i].val) < Dist(q, r.sqHead, evs[j].val)

NoBell(q, evs) == \A i \in DOMAIN evs : ~IsBell(evs[i], q)

-----------------------------------------------------------------------------
(* The two queues of an enabled controller *)

Busy == pc \in {"submission", "complete", "interrupt"}
Completing(q) == IF pc = "complete" /\ Ringing = q THEN 1 ELSE 0

Joined(q) == /\ InStep(q, host[q], dev.q[q], Completing(q), cur)
             /\ Chain(q, host[q], dev.q[q], events, Busy)

IsQuery(c) == <<c.op, c.args>> \in Queries
IsIo(c) == <<c.op, c.args>> \in IoCommands

(* The command that a stage of the driver waits for.                        *)
Sent == {"cq_sent", "sq_sent", "sq_del", "cq_del"}
SentOp(d) == CASE d = "cq_sent" -> "create_cq"
               [] d = "sq_sent" -> "create_sq"
               [] d \in {"sq_del", "cq_del"} -> "delete"
SentArgs(d) == CASE d = "cq_sent" -> <<1, IoDepth - 1, host[1].gen, 1>>
                 [] d = "sq_sent" -> <<1, IoDepth - 1, host[1].gen>>
                 [] d \in {"sq_del", "cq_del"} -> <<1>>

AllDone == dev.q[0].sqHead = host[0].tail

(* Whether the emulator has made the I/O queue's completion queue, and both. *)
CqMade(d) == (d = "cq_sent" /\ AllDone) \/ d = "cq_made" \/ (d = "sq_sent" /\ ~AllDone)
BothMade(d) == (d = "sq_sent" /\ AllDone) \/ d = "io" \/ (d = "sq_del" /\ ~AllDone)

(* The admin commands outstanding: queries, and at a stage that waits for   *)
(* one that changes a queue, this one behind them.                          *)
AdminOut(d) ==
    LET out == host[0].out IN
    /\ \A j \in DOMAIN out : IsQuery(out[j]) \/ (j = Len(out) /\ d \in Sent)
    /\ d \in Sent => /\ out # <<>>
                     /\ out[Len(out)].op = SentOp(d) /\ out[Len(out)].args = SentArgs(d)

(* What has become of the I/O queue.                                        *)
IoQueue(d) ==
    /\ d # "io" => host[1].out = <<>> /\ host[1].rung = host[1].tail
    /\ CqMade(d) \/ d = "cq_sent" => Pristine(1, host[1])
    /\ BothMade(d) => Joined(1)
    /\ ~BothMade(d) => NoBell(1, events)
    /\ CqMade(d) => dev.q[1] = CreateCq(ResetQueue, IoDepth - 1, host[1].gen, 1)
    /\ ~BothMade(d) /\ ~CqMade(d) => dev.q[1] = ResetQueue

Stage(d) == Joined(0) /\ AdminOut(d) /\ IoQueue(d)

-----------------------------------------------------------------------------
(* The driver, the events under way and the controller *)

(* What a driver writes to bring the controller up.                         *)
Script(i) ==
    CASE i = 1 -> Event("cc", 0, "disable")
      [] i = 2 -> Event("aqa", 0, <<AdminDepth - 1, AdminDepth - 1>>)
      [] i = 3 -> Event("asq", 0, gen)
      [] i = 4 -> Event("acq", 0, gen)
      [] i = 5 -> Event("cc", 0, "enable")

(* How much of it has been written.                                         *)
Written == CASE drv \in {"disabling", "disabled"} -> 1
             [] drv = "programmed" -> 4
             [] drv = "enabling" -> 5
Setup == {"disabling", "disabled", "programmed", "enabling"}

(* Doorbells, then a last event e.                                          *)
BellsThen(e) ==
    /\ events # <<>> /\ events[Len(events)] = e
    /\ \A i \in 1 .. Len(events) - 1 : events[i].reg = "sqdb"
Bells == \A i \in DOMAIN events : events[i].reg = "sqdb"

Blank == /\ dev.q[1] = ResetQueue
         /\ dev.q[0].sqHead = 0 /\ dev.q[0].sqTail = 0 /\ dev.q[0].cqTail = 0
         /\ dev.q[0].phase = 1

OffInv ==
    /\ drv \in {"unbound", "down"} => events = <<>> /\ ~dev.enabled
    /\ drv \in Setup /\ ~dev.enabled =>
          /\ Len(events) <= Written
          /\ \A i \in DOMAIN events : events[i] = Script((Written - Len(events)) + i)
          /\ Len(events) < Written => Blank
    /\ drv = "enabling" => (events = <<>> <=> dev.enabled)
    /\ drv \in {"disabled", "programmed"} => ~dev.enabled
    /\ drv = "shutting" /\ ~dev.enabled =>
          IF pc = "shut" THEN events = <<Event("cc", 0, "shutdown")>> ELSE events = <<>>

HostInv ==
    /\ \A q \in Queue : HostOK(q, host[q])
    /\ \A j \in DOMAIN host[1].out : IsIo(host[1].out[j])
    /\ drv \in {"unbound", "disabled", "down"} => \A q \in Queue : host[q].gen = 0
    /\ drv \in {"programmed", "enabling"} =>
          /\ host[0].gen = gen /\ Pristine(0, host[0]) /\ host[1].gen = 0
          /\ bar.aqa = <<AdminDepth - 1, AdminDepth - 1>>
          /\ bar.asq = gen /\ bar.acq = gen

(* The stage d that the driver is at, or was at when it began to reset or   *)
(* to shut down the controller.                                             *)
Where(d) ==
    \/ drv = d /\ Bells
    \/ drv = "enabling" /\ d = "live" /\ events = <<>>
    \/ drv = "disabling" /\ BellsThen(Event("cc", 0, "disable"))
    \/ drv = "shutting" /\ d = "live" /\ BellsThen(Event("cc", 0, "shutdown"))

OnInv == dev.enabled => \E d \in Up : Where(d) /\ Stage(d)

PcInv ==
    /\ drv \in Up => dev.enabled
    /\ bar.csts.rdy = (IF dev.enabled THEN 1 ELSE 0)
    /\ bar.csts.shst = "complete" => /\ ~dev.enabled /\ events = <<>>
                                     /\ drv \in {"shutting", "down"}
    /\ Busy => dev.enabled /\ events # <<>> /\ events[1].reg = "sqdb"
    /\ pc = "shut" => drv = "shutting" /\ ~dev.enabled

IInv == TypeInv /\ HostInv /\ OffInv /\ OnInv /\ PcInv

-----------------------------------------------------------------------------
(* Places in a queue *)

LEMMA DepthType ==
  ASSUME NEW q \in Queue
  PROVE  Depth(q) \in Nat /\ Depth(q) >= 2
  BY NvmeAssumption DEF Depth, Queue

LEMMA Modulo ==
  ASSUME NEW d \in Nat, d >= 1, NEW i \in 0 .. 2 * d - 1
  PROVE  i % d = IF i < d THEN i ELSE i - d
  OBVIOUS

LEMMA ModSlot ==
  ASSUME NEW q \in Queue, NEW a \in Slots(q), NEW k \in Slots(q)
  PROVE  /\ (a + k) % Depth(q) = Slot(q, a + k)
         /\ (a + 1) % Depth(q) = Slot(q, a + 1)
         /\ Slot(q, a + k) \in Slots(q) /\ Slot(q, a + 1) \in Slots(q)
  <1>1. Depth(q) \in Nat /\ Depth(q) >= 2
    BY DepthType
  <1>2. a + k \in 0 .. 2 * Depth(q) - 1 /\ a + 1 \in 0 .. 2 * Depth(q) - 1
    BY <1>1 DEF Slots
  <1>3. \A i \in 0 .. 2 * Depth(q) - 1 : i % Depth(q) = Slot(q, i)
    <2> DEFINE d == Depth(q)
    <2> HIDE DEF d
    <2>1. d \in Nat /\ d >= 1
      BY <1>1 DEF d
    <2>2. ASSUME NEW i \in 0 .. 2 * d - 1
          PROVE  i % d = IF i < d THEN i ELSE i - d
      BY <2>1, Modulo
    <2> QED
      BY <2>2 DEF d, Slot
  <1>4. Slot(q, a + k) \in Slots(q) /\ Slot(q, a + 1) \in Slots(q)
    BY <1>1 DEF Slot, Slots
  <1> QED
    BY <1>2, <1>3, <1>4

LEMMA NextSlot ==
  ASSUME NEW q \in Queue, NEW a \in Slots(q)
  PROVE  (a + 1) % Depth(q) = Slot(q, a + 1) /\ Slot(q, a + 1) \in Slots(q)
  <1>1. 1 \in Slots(q)
    BY DepthType DEF Slots
  <1> QED
    BY <1>1, ModSlot

LEMMA DistType ==
  ASSUME NEW q \in Queue, NEW a \in Slots(q), NEW b \in Slots(q)
  PROVE  /\ Dist(q, a, b) \in Slots(q) /\ Dist(q, a, b) \in Nat
         /\ Dist(q, a, b) = 0 <=> a = b
         /\ Slot(q, a + Dist(q, a, b)) = b
  BY DepthType DEF Dist, Slot, Slots

LEMMA DistWrap ==
  ASSUME NEW q \in Queue, NEW a \in Slots(q), NEW b \in Slots(q)
  PROVE  a + Dist(q, a, b) < Depth(q) <=> a <= b
  BY DepthType DEF Dist, Slots

LEMMA DistStart ==
  ASSUME NEW q \in Queue, NEW a \in Slots(q), NEW b \in Slots(q), a # b
  PROVE  Dist(q, Slot(q, a + 1), b) = Dist(q, a, b) - 1
  BY DepthType DEF Dist, Slot, Slots

LEMMA DistEnd ==
  ASSUME NEW q \in Queue, NEW a \in Slots(q), NEW b \in Slots(q),
         Dist(q, a, b) + 1 < Depth(q)
  PROVE  Dist(q, a, Slot(q, b + 1)) = Dist(q, a, b) + 1
  BY DepthType DEF Dist, Slot, Slots

LEMMA DistInjective ==
  ASSUME NEW q \in Queue, NEW a \in Slots(q), NEW b \in Slots(q), NEW c \in Slots(q),
         Dist(q, a, b) = Dist(q, a, c)
  PROVE  b = c
  BY DepthType DEF Dist, Slots

LEMMA SlotNext ==
  ASSUME NEW q \in Queue, NEW a \in Slots(q), NEW k \in Nat, k + 1 < Depth(q)
  PROVE  Slot(q, Slot(q, a + 1) + k) = Slot(q, a + (k + 1))
  BY DepthType DEF Slot, Slots

LEMMA SlotBack ==
  ASSUME NEW q \in Queue, NEW a \in Slots(q), NEW b \in Slots(q), NEW k \in Slots(q),
         Slot(q, a + k) = b
  PROVE  k = Dist(q, a, b)
  BY DepthType DEF Slot, Dist, Slots

LEMMA EndPhase ==
  ASSUME NEW q \in Queue, NEW a \in Slots(q), NEW b \in Slots(q), NEW p \in {0, 1},
         NEW r \in {0, 1}, Dist(q, a, b) + 1 < Depth(q),
         r = IF a <= b THEN p ELSE 1 - p
  PROVE  (IF b + 1 = Depth(q) THEN 1 - r ELSE r)
            = IF a <= Slot(q, b + 1) THEN p ELSE 1 - p
  BY DepthType DEF Dist, Slot, Slots

-----------------------------------------------------------------------------
(* Steps on one queue *)

LEMMA HostFields ==
  ASSUME NEW q \in Queue, NEW h \in HostType(q)
  PROVE  /\ h.gen \in Nat /\ h.tail \in Slots(q) /\ h.rung \in Slots(q) /\ h.head \in Slots(q)
         /\ h.phase \in {0, 1} /\ h.out \in Seq(Cmd) /\ h.isr \in BOOLEAN
         /\ Len(h.out) \in Nat /\ DOMAIN h.out = 1 .. Len(h.out)
  BY DEF HostType

(* The command at the emulator's head is the oldest one not yet answered.   *)
LEMMA NextCommand ==
  ASSUME NEW q \in Queue, NEW h \in HostType(q), NEW r \in QueueState, NEW c0,
         InStep(q, h, r, 0, c0), r.sqHead # r.sqTail
  PROVE  LET m == Dist(q, h.head, r.cqTail)
             n == Dist(q, r.sqHead, h.tail)
             next == Slot(q, r.sqHead + 1)
         IN  /\ m \in Nat /\ n \in Nat /\ n >= 1 /\ m + n = Len(h.out)
             /\ m \in Slots(q) /\ n \in Slots(q)
             /\ r.sqHead # h.tail
             /\ (r.sqHead + 1) % r.sqSize = next /\ next \in Slots(q)
             /\ Dist(q, next, h.tail) = n - 1
             /\ Dist(q, next, h.rung) = Dist(q, r.sqHead, h.rung) - 1
             /\ Dist(q, next, r.sqTail) = Dist(q, r.sqHead, r.sqTail) - 1
             /\ Dist(q, r.sqHead, r.sqTail) \in Nat /\ Dist(q, r.sqHead, h.rung) \in Nat
             /\ h.sq[r.sqHead] = h.out[m + 1] /\ m + 1 \in DOMAIN h.out
             /\ m + 1 = Len(h.out) <=> next = h.tail
  <1> DEFINE m == Dist(q, h.head, r.cqTail)
             n == Dist(q, r.sqHead, h.tail)
             next == Slot(q, r.sqHead + 1)
  <1>0. /\ h.tail \in Slots(q) /\ h.rung \in Slots(q) /\ h.head \in Slots(q)
        /\ r.sqHead \in Slots(q) /\ r.sqTail \in Slots(q) /\ r.cqTail \in Slots(q)
        /\ Depth(q) \in Nat /\ Depth(q) >= 2 /\ r.sqSize = Depth(q)
    BY HostFields, DepthType DEF InStep
  <1>1. m \in Slots(q) /\ n \in Slots(q) /\ m \in Nat /\ n \in Nat
    BY <1>0, DistType
  <1>2. (r.sqHead + 1) % r.sqSize = next /\ next \in Slots(q)
    BY <1>0, NextSlot
  <1>4. /\ Dist(q, r.sqHead, r.sqTail) \in Nat \ {0}
        /\ Dist(q, r.sqHead, r.sqTail) <= Dist(q, r.sqHead, h.rung)
        /\ Dist(q, r.sqHead, h.rung) <= n /\ Dist(q, r.sqHead, h.rung) \in Nat
    <2>1. /\ Dist(q, r.sqHead, r.sqTail) \in Nat /\ Dist(q, r.sqHead, h.rung) \in Nat
          /\ Dist(q, r.sqHead, r.sqTail) # 0
      BY <1>0, DistType
    <2> QED
      BY <2>1 DEF InStep
  <1>5. r.sqHead # h.tail /\ r.sqHead # h.rung /\ n >= 1
    BY <1>0, <1>1, <1>4, DistType
  <1>6. /\ Dist(q, next, h.tail) = n - 1
        /\ Dist(q, next, h.rung) = Dist(q, r.sqHead, h.rung) - 1
        /\ Dist(q, next, r.sqTail) = Dist(q, r.sqHead, r.sqTail) - 1
    BY <1>0, <1>2, <1>5, DistStart
  <1>7. m + n = Len(h.out) /\ Len(h.out) \in Nat
    BY <1>1, HostFields DEF InStep
  <1>8. h.sq[r.sqHead] = h.out[m + 1]
    <2>1. 0 \in 0 .. n - 1 /\ Slot(q, r.sqHead + 0) = r.sqHead
      BY <1>0, <1>1, <1>5 DEF Slot, Slots
    <2>2. h.sq[Slot(q, r.sqHead + 0)] = h.out[m + 0 + 0 + 1]
      BY <2>1 DEF InStep
    <2> QED
      BY <1>1, <2>1, <2>2
  <1>9. m + 1 \in DOMAIN h.out
    BY <1>1, <1>5, <1>7, HostFields
  <1>10. m + 1 = Len(h.out) <=> next = h.tail
    <2>1. m + 1 = Len(h.out) <=> n - 1 = 0
      BY <1>1, <1>7
    <2>2. Dist(q, next, h.tail) = 0 <=> next = h.tail
      BY <1>0, <1>2, DistType
    <2> QED
      BY <1>6, <2>1, <2>2
  <1> HIDE DEF m, n, next
  <1>11. /\ m \in Nat /\ n \in Nat /\ n >= 1 /\ m + n = Len(h.out)
         /\ m \in Slots(q) /\ n \in Slots(q)
         /\ r.sqHead # h.tail
         /\ (r.sqHead + 1) % r.sqSize = next /\ next \in Slots(q)
         /\ Dist(q, next, h.tail) = n - 1
         /\ Dist(q, next, h.rung) = Dist(q, r.sqHead, h.rung) - 1
         /\ Dist(q, next, r.sqTail) = Dist(q, r.sqHead, r.sqTail) - 1
         /\ Dist(q, r.sqHead, r.sqTail) \in Nat /\ Dist(q, r.sqHead, h.rung) \in Nat
         /\ h.sq[r.sqHead] = h.out[m + 1] /\ m + 1 \in DOMAIN h.out
         /\ m + 1 = Len(h.out) <=> next = h.tail
    BY <1>1, <1>2, <1>4, <1>5, <1>6, <1>7, <1>8, <1>9, <1>10
  <1> QED
    BY <1>11 DEF m, n, next

(* The emulator takes the command at its head.                              *)
LEMMA ExecStep ==
  ASSUME NEW q \in Queue, NEW h \in HostType(q), NEW r \in QueueState, NEW c0,
         NEW c \in CqEntry, InStep(q, h, r, 0, c0), r.sqHead # r.sqTail,
         Answers(c, h.sq[r.sqHead])
  PROVE  LET s == [r EXCEPT !.sqHead = (@ + 1) % r.sqSize]
         IN  /\ s \in QueueState /\ InStep(q, h, s, 1, c)
             /\ s = [r EXCEPT !.sqHead = Slot(q, r.sqHead + 1)]
             /\ s.sqHead = Slot(q, r.sqHead + 1)
  <1> DEFINE m == Dist(q, h.head, r.cqTail)
             n == Dist(q, r.sqHead, h.tail)
             s == [r EXCEPT !.sqHead = (@ + 1) % r.sqSize]
             next == Slot(q, r.sqHead + 1)
  <1>0. /\ h.tail \in Slots(q) /\ h.rung \in Slots(q) /\ h.head \in Slots(q)
        /\ r.sqHead \in Slots(q) /\ r.sqTail \in Slots(q) /\ r.cqTail \in Slots(q)
        /\ Depth(q) \in Nat /\ Depth(q) >= 2 /\ r.sqSize = Depth(q)
        /\ Slots(q) \subseteq Nat
    BY HostFields, DepthType DEF InStep, Slots
  <1>1. /\ m \in Nat /\ n \in Nat /\ n >= 1 /\ m + n = Len(h.out)
        /\ m \in Slots(q) /\ n \in Slots(q)
        /\ (r.sqHead + 1) % r.sqSize = next /\ next \in Slots(q)
        /\ Dist(q, next, h.tail) = n - 1
        /\ Dist(q, next, h.rung) = Dist(q, r.sqHead, h.rung) - 1
        /\ Dist(q, next, r.sqTail) = Dist(q, r.sqHead, r.sqTail) - 1
        /\ Dist(q, r.sqHead, r.sqTail) \in Nat /\ Dist(q, r.sqHead, h.rung) \in Nat
        /\ h.sq[r.sqHead] = h.out[m + 1]
    BY NextCommand
  <1>2. s = [r EXCEPT !.sqHead = next]
    BY <1>1 DEF QueueState
  <1> HIDE DEF m, n, next, s
  <1>3. /\ s.sqHead = next /\ s \in QueueState
        /\ s.cqTail = r.cqTail /\ s.sqTail = r.sqTail /\ s.phase = r.phase
        /\ s.sqAddr = r.sqAddr /\ s.cqAddr = r.cqAddr /\ s.sqSize = r.sqSize
        /\ s.cqSize = r.cqSize
    BY <1>0, <1>1, <1>2 DEF QueueState
  <1>a. m \in Nat /\ n \in Nat /\ n >= 1 /\ m + n = Len(h.out)
    BY <1>1
  <1>b. Depth(q) \in Nat /\ n < Depth(q)
    BY <1>0, <1>1 DEF Slots
  <1>4. \A k \in 0 .. n - 2 : h.sq[Slot(q, next + k)] = h.out[m + 1 + k + 1]
    <2> TAKE k \in 0 .. n - 2
    <2>1. k + 1 \in 0 .. n - 1 /\ k \in Nat /\ k + 1 < Depth(q)
      BY <1>a, <1>b
    <2>2. Slot(q, next + k) = Slot(q, r.sqHead + (k + 1))
      BY <1>0, <2>1, SlotNext DEF next
    <2>3. h.sq[Slot(q, r.sqHead + (k + 1))] = h.out[m + 0 + (k + 1) + 1]
      BY <2>1 DEF InStep, m, n
    <2>4. m + 0 + (k + 1) + 1 = m + 1 + k + 1
      BY <1>a, <2>1
    <2> QED
      BY <2>2, <2>3, <2>4
  <1>5. (n - 1) - 1 = n - 2 /\ m + 1 + (n - 1) = Len(h.out)
    BY <1>a
  <1>6. /\ h.gen # 0 /\ r.sqAddr = h.gen /\ r.cqAddr = h.gen
        /\ r.sqSize = Depth(q) /\ r.cqSize = Depth(q)
        /\ r.phase = IF h.head <= r.cqTail THEN h.phase ELSE 1 - h.phase
        /\ Posted(q, h, m)
        /\ Dist(q, r.sqHead, r.sqTail) <= Dist(q, r.sqHead, h.rung)
        /\ Dist(q, r.sqHead, h.rung) <= n
    BY DEF InStep, m, n
  <1>7. /\ Dist(q, next, r.sqTail) <= Dist(q, next, h.rung)
        /\ Dist(q, next, h.rung) <= n - 1
    <2>1. \A i, j \in Nat : i <= j => i - 1 <= j - 1
      OBVIOUS
    <2>2. /\ Dist(q, r.sqHead, r.sqTail) \in Nat /\ Dist(q, r.sqHead, h.rung) \in Nat
      BY <1>1
    <2>3. /\ Dist(q, r.sqHead, r.sqTail) - 1 <= Dist(q, r.sqHead, h.rung) - 1
          /\ Dist(q, r.sqHead, h.rung) - 1 <= n - 1
      BY <1>a, <1>6, <2>1, <2>2
    <2> QED
      BY <1>1, <2>3
  <1>8. Answers(c, h.out[m + 1])
    BY <1>1
  <1>9. m = Dist(q, h.head, r.cqTail)
    BY DEF m
  <1>10. InStep(q, h, s, 1, c)
    BY <1>0, <1>1, <1>3, <1>4, <1>5, <1>6, <1>7, <1>8, <1>9 DEF InStep
  <1> QED
    BY <1>2, <1>3, <1>10 DEF s, next

LEMMA ExecChain ==
  ASSUME NEW q \in Queue, NEW h \in HostType(q), NEW r \in QueueState, NEW c, NEW x,
         NEW evs \in Seq(EventType), evs # <<>>, IsBell(evs[1], q),
         InStep(q, h, r, x, c), Chain(q, h, r, evs, TRUE), r.sqHead # r.sqTail
  PROVE  Chain(q, h, [r EXCEPT !.sqHead = Slot(q, r.sqHead + 1)], evs, TRUE)
  <1> DEFINE s == [r EXCEPT !.sqHead = Slot(q, r.sqHead + 1)]
             D(v) == Dist(q, r.sqHead, v)
  <1>1. /\ h.rung \in Slots(q) /\ r.sqHead \in Slots(q) /\ r.sqTail \in Slots(q)
        /\ Slots(q) \subseteq Nat
    BY HostFields DEF InStep, Slots
  <1>2. s.sqHead = Slot(q, r.sqHead + 1) /\ s.sqTail = r.sqTail
    BY DEF QueueState
  <1>3. \A v \in Slots(q) : D(v) \in Nat /\ (v # r.sqHead => Dist(q, s.sqHead, v) = D(v) - 1)
    <2> TAKE v \in Slots(q)
    <2>1. D(v) \in Nat
      BY <1>1, DistType
    <2>2. ASSUME v # r.sqHead PROVE Dist(q, s.sqHead, v) = D(v) - 1
      BY <1>1, <1>2, <2>2, DistStart
    <2> QED
      BY <2>1, <2>2
  <1>4. D(r.sqTail) >= 1 /\ D(r.sqTail) <= D(h.rung)
    <2>1. D(r.sqTail) \in Nat /\ D(r.sqTail) # 0
      BY <1>1, DistType
    <2> QED
      BY <2>1 DEF InStep
  <1>5. D(r.sqHead) = 0
    BY <1>1, DistType
  <1>6. \A v \in Slots(q) : D(v) >= D(r.sqTail) => Dist(q, s.sqHead, v) = D(v) - 1
    BY <1>1, <1>3, <1>4, <1>5
  <1>7. \A i \in DOMAIN evs : IsBell(evs[i], q) =>
           evs[i].val \in Slots(q) /\ D(evs[i].val) >= D(r.sqTail)
    BY <1>1, <1>3 DEF Chain
  <1> HIDE DEF s, D
  <1>8. \A i \in DOMAIN evs : IsBell(evs[i], q) =>
           Dist(q, s.sqHead, evs[i].val) = D(evs[i].val) - 1
    BY <1>6, <1>7
  <1>9. /\ Dist(q, s.sqHead, h.rung) = D(h.rung) - 1
        /\ Dist(q, s.sqHead, r.sqTail) = D(r.sqTail) - 1
    BY <1>1, <1>3, <1>4, <1>6
  <1>10. \A v \in Slots(q) : D(v) \in Nat
    BY <1>3
  <1>11. \A i \in DOMAIN evs :
          IsBell(evs[i], q) =>
            /\ evs[i].val \in Slots(q)
            /\ D(evs[i].val) <= D(h.rung)
            /\ IF i = 1 THEN evs[i].val = r.sqTail ELSE D(r.sqTail) < D(evs[i].val)
    BY DEF Chain, D
  <1>12. \A i, j \in DOMAIN evs :
          i < j /\ IsBell(evs[i], q) /\ IsBell(evs[j], q) => D(evs[i].val) < D(evs[j].val)
    BY DEF Chain, D
  <1>13. Chain(q, h, s, evs, TRUE)
    <2>1. ASSUME NEW i \in DOMAIN evs, IsBell(evs[i], q)
          PROVE  /\ evs[i].val \in Slots(q)
                 /\ Dist(q, s.sqHead, evs[i].val) <= Dist(q, s.sqHead, h.rung)
                 /\ IF i = 1 THEN evs[i].val = s.sqTail
                    ELSE Dist(q, s.sqHead, s.sqTail) < Dist(q, s.sqHead, evs[i].val)
      <3>1. /\ evs[i].val \in Slots(q) /\ D(evs[i].val) <= D(h.rung)
            /\ IF i = 1 THEN evs[i].val = r.sqTail ELSE D(r.sqTail) < D(evs[i].val)
        BY <1>11, <2>1
      <3>2. D(evs[i].val) \in Nat /\ D(h.rung) \in Nat /\ D(r.sqTail) \in Nat
        BY <1>1, <1>10, <3>1
      <3> QED
        BY <1>2, <1>8, <1>9, <2>1, <3>1, <3>2
    <2>2. ASSUME NEW i \in DOMAIN evs, NEW j \in DOMAIN evs,
                 i < j, IsBell(evs[i], q), IsBell(evs[j], q)
          PROVE  Dist(q, s.sqHead, evs[i].val) < Dist(q, s.sqHead, evs[j].val)
      <3>1. D(evs[i].val) < D(evs[j].val)
        BY <1>12, <2>2
      <3>2. D(evs[i].val) \in Nat /\ D(evs[j].val) \in Nat
        BY <1>10, <1>11, <2>2
      <3> QED
        BY <1>8, <2>2, <3>1, <3>2
    <2> QED
      BY <2>1, <2>2 DEF Chain
  <1> QED
    BY <1>13 DEF s

(* The completion is in the entry at the emulator's tail.                   *)
LEMMA PostStep ==
  ASSUME NEW q \in Queue, NEW h \in HostType(q), NEW r \in QueueState, NEW c \in CqEntry,
         NEW c0, HostOK(q, h), InStep(q, h, r, 1, c)
  PROVE  LET g == [h EXCEPT !.cq[r.cqTail] = [c EXCEPT !.phase = r.phase]]
         IN  /\ g \in HostType(q) /\ AdvanceCq(r) \in QueueState
             /\ HostOK(q, g) /\ InStep(q, g, AdvanceCq(r), 0, c0)
             /\ g.out = h.out /\ g.tail = h.tail /\ g.rung = h.rung /\ g.gen = h.gen
             /\ AdvanceCq(r).sqHead = r.sqHead /\ AdvanceCq(r).sqTail = r.sqTail
  <1> DEFINE m == Dist(q, h.head, r.cqTail)
             n == Dist(q, r.sqHead, h.tail)
             s == AdvanceCq(r)
             e == [c EXCEPT !.phase = r.phase]
             g == [h EXCEPT !.cq[r.cqTail] = e]
  <1>0. /\ h.tail \in Slots(q) /\ h.rung \in Slots(q) /\ h.head \in Slots(q)
        /\ r.sqHead \in Slots(q) /\ r.sqTail \in Slots(q) /\ r.cqTail \in Slots(q)
        /\ Depth(q) \in Nat /\ Depth(q) >= 2 /\ r.cqSize = Depth(q) /\ h.gen # 0
        /\ r.phase \in {0, 1} /\ h.phase \in {0, 1}
    BY HostFields, DepthType DEF InStep, QueueState
  <1>1. m \in Slots(q) /\ n \in Slots(q) /\ m \in Nat /\ n \in Nat
    BY <1>0, DistType
  <1>2. /\ m + 1 + n = Len(h.out) /\ Len(h.out) < Depth(q) /\ Len(h.out) \in Nat
        /\ m + 1 < Depth(q)
    BY <1>0, <1>1, HostFields DEF InStep, HostOK
  <1>3. /\ s \in QueueState
        /\ s.cqTail = Slot(q, r.cqTail + 1)
        /\ s.phase = (IF r.cqTail + 1 = Depth(q) THEN 1 - r.phase ELSE r.phase)
        /\ s.sqHead = r.sqHead /\ s.sqTail = r.sqTail /\ s.sqAddr = r.sqAddr
        /\ s.cqAddr = r.cqAddr /\ s.sqSize = r.sqSize /\ s.cqSize = r.cqSize
    <2>1. Slot(q, r.cqTail + 1) = IF r.cqTail + 1 = Depth(q) THEN 0 ELSE r.cqTail + 1
      BY <1>0 DEF Slot, Slots
    <2>2. CASE r.cqTail + 1 = Depth(q)
      <3> DEFINE p == 1 - r.phase
      <3>1. s = [r EXCEPT !.cqTail = 0, !.phase = p] /\ p \in {0, 1} /\ 0 \in Nat
        BY <1>0, <2>2 DEF AdvanceCq
      <3> HIDE DEF p
      <3>2. s \in QueueState /\ s.cqTail = 0 /\ s.phase = p
        BY <3>1 DEF QueueState
      <3>3. /\ s.sqHead = r.sqHead /\ s.sqTail = r.sqTail /\ s.sqAddr = r.sqAddr
            /\ s.cqAddr = r.cqAddr /\ s.sqSize = r.sqSize /\ s.cqSize = r.cqSize
        BY <3>1 DEF QueueState
      <3> QED
        BY <2>1, <2>2, <3>2, <3>3 DEF p
    <2>3. CASE r.cqTail + 1 # Depth(q)
      BY <1>0, <2>1, <2>3 DEF AdvanceCq, QueueState, Slots
    <2> QED
      BY <2>2, <2>3
  <1>4. s.cqTail \in Slots(q) /\ Dist(q, h.head, s.cqTail) = m + 1
    BY <1>0, <1>1, <1>2, <1>3, DistEnd, NextSlot
  <1>5. e \in CqEntry /\ e.phase = r.phase /\ e.cid = c.cid /\ e.status = c.status
    BY <1>0 DEF CqEntry
  <1>6. h.cq \in [Slots(q) -> CqEntry] /\ h.sq \in [Slots(q) -> Cmd]
    BY <1>0 DEF HostOK
  <1>7. /\ g.cq = [h.cq EXCEPT ![r.cqTail] = e] /\ g.gen = h.gen /\ g.sq = h.sq
        /\ g.tail = h.tail /\ g.rung = h.rung /\ g.head = h.head /\ g.phase = h.phase
        /\ g.out = h.out /\ g.isr = h.isr
    BY DEF HostType
  <1>8. g.cq \in [Slots(q) -> CqEntry]
    BY <1>0, <1>5, <1>6, <1>7
  <1>9. g \in HostType(q)
    BY <1>7, <1>8 DEF HostType
  <1> HIDE DEF g, e, s
  <1>10. Posted(q, g, m + 1)
    <2> SUFFICES ASSUME NEW k \in Slots(q)
                 PROVE  IF k < m + 1
                        THEN /\ g.cq[Slot(q, g.head + k)].phase = NewPhase(q, g, k)
                             /\ Answers(g.cq[Slot(q, g.head + k)], g.out[k + 1])
                        ELSE g.cq[Slot(q, g.head + k)].phase # NewPhase(q, g, k)
      BY DEF Posted
    <2>0. NewPhase(q, g, k) = NewPhase(q, h, k) /\ Slot(q, h.head + k) \in Slots(q) /\ k \in Nat
      <3>1. NewPhase(q, g, k) = NewPhase(q, h, k)
        BY <1>7 DEF NewPhase
      <3>2. Slot(q, h.head + k) \in Slots(q)
        BY <1>0, ModSlot
      <3> QED
        BY <3>1, <3>2 DEF Slots
    <2>1. CASE k = m
      <3>1. Slot(q, h.head + k) = r.cqTail
        BY <1>0, <2>1, DistType
      <3>2. g.cq[Slot(q, h.head + k)] = e
        BY <1>0, <1>6, <1>7, <3>1
      <3>3. r.phase = NewPhase(q, h, k)
        <4>1. h.head + k < Depth(q) <=> h.head <= r.cqTail
          BY <1>0, <2>1, DistWrap
        <4>2. r.phase = IF h.head <= r.cqTail THEN h.phase ELSE 1 - h.phase
          BY DEF InStep
        <4> QED
          BY <4>1, <4>2 DEF NewPhase
      <3>4. Answers(c, h.out[m + 1])
        BY DEF InStep
      <3>5. Answers(e, h.out[m + 1])
        BY <1>5, <3>4 DEF Answers
      <3> QED
        BY <1>1, <1>5, <1>7, <2>0, <2>1, <3>2, <3>3, <3>5
    <2>2. CASE k # m
      <3>1. Slot(q, h.head + k) # r.cqTail
        BY <1>0, <2>2, SlotBack
      <3>2. g.cq[Slot(q, h.head + k)] = h.cq[Slot(q, h.head + k)]
        BY <1>6, <1>7, <2>0, <3>1
      <3>3. IF k < m THEN /\ h.cq[Slot(q, h.head + k)].phase = NewPhase(q, h, k)
                          /\ Answers(h.cq[Slot(q, h.head + k)], h.out[k + 1])
                     ELSE h.cq[Slot(q, h.head + k)].phase # NewPhase(q, h, k)
        BY DEF InStep, Posted
      <3>4. k < m + 1 <=> k < m
        BY <1>1, <2>0, <2>2
      <3> QED
        BY <1>7, <2>0, <3>2, <3>3, <3>4
    <2> QED
      BY <2>1, <2>2
  <1>11. s.phase = IF h.head <= s.cqTail THEN h.phase ELSE 1 - h.phase
    <2>1. r.phase = IF h.head <= r.cqTail THEN h.phase ELSE 1 - h.phase
      BY DEF InStep
    <2> QED
      BY <1>0, <1>2, <1>3, <2>1, EndPhase
  <1>12. HostOK(q, g)
    <2>1. m + 1 \in 0 .. Len(g.out)
      BY <1>1, <1>2, <1>7
    <2> QED
      BY <1>0, <1>6, <1>7, <1>8, <1>10, <2>1 DEF HostOK
  <1>13. InStep(q, g, s, 0, c0)
    <2>1. /\ r.sqAddr = h.gen /\ r.cqAddr = h.gen
          /\ r.sqSize = Depth(q) /\ r.cqSize = Depth(q)
          /\ \A k \in 0 .. n - 1 : h.sq[Slot(q, r.sqHead + k)] = h.out[m + 1 + k + 1]
          /\ Dist(q, r.sqHead, r.sqTail) <= Dist(q, r.sqHead, h.rung)
          /\ Dist(q, r.sqHead, h.rung) <= n
      BY DEF InStep
    <2>2. (m + 1) + 0 + n = Len(h.out) /\ \A k : m + 1 + 0 + k + 1 = m + 1 + k + 1
      BY <1>1, <1>2
    <2> HIDE DEF n, m
    <2> QED
      BY <1>0, <1>3, <1>4, <1>7, <1>10, <1>11, <2>1, <2>2 DEF InStep, n
  <1> QED
    BY <1>3, <1>7, <1>9, <1>12, <1>13 DEF g, e, s

(* The doorbells only depend on the emulator's place and on what was rung.  *)
LEMMA ChainSame ==
  ASSUME NEW q, NEW h, NEW g, NEW r, NEW s, NEW evs, NEW busy,
         g.rung = h.rung, s.sqHead = r.sqHead, s.sqTail = r.sqTail,
         Chain(q, h, r, evs, busy)
  PROVE  Chain(q, g, s, evs, busy)
  BY DEF Chain

(* With fewer commands than tags there is a tag that no command has.        *)
LEMMA FreeTagIsFree ==
  ASSUME NEW q \in Queue, NEW h \in HostType(q), Len(h.out) < Depth(q)
  PROVE  /\ FreeTag(h, q) \in 1 .. Depth(q)
         /\ \A i \in DOMAIN h.out : h.out[i].cid # FreeTag(h, q)
  <1> DEFINE f == [i \in DOMAIN h.out |-> h.out[i].cid]
             T == {f[i] : i \in DOMAIN h.out}
             n == Len(h.out)
  <1>1. n \in Nat /\ DOMAIN h.out = 1 .. n /\ Depth(q) \in Nat /\ n < Depth(q)
    BY HostFields, DepthType
  <1>2. SUFFICES ASSUME \A t \in 1 .. Depth(q) : \E i \in DOMAIN h.out : h.out[i].cid = t
                 PROVE  FALSE
    BY DEF FreeTag
  <1> HIDE DEF n
  <1>3. IsFiniteSet(1 .. n) /\ Cardinality(1 .. n) = n
    BY <1>1, FS_Interval
  <1>4. f \in Surjection(1 .. n, T)
    BY <1>1 DEF Surjection
  <1> HIDE DEF f
  <1>5. IsFiniteSet(T) /\ Cardinality(T) <= n
    <2> HIDE DEF T
    <2> QED
      BY <1>3, <1>4, FS_Surjection
  <1>6. 1 .. Depth(q) \in SUBSET T
    BY <1>2 DEF f
  <1>7. Cardinality(1 .. Depth(q)) <= Cardinality(T) /\ Cardinality(T) \in Nat
    <2> HIDE DEF T
    <2> QED
      BY <1>5, <1>6, FS_Subset, FS_CardinalityType
  <1>8. Cardinality(1 .. Depth(q)) = Depth(q)
    BY <1>1, FS_Interval
  <1> QED
    BY <1>1, <1>5, <1>7, <1>8

(* g is h with the command c, in an entry e, behind the others.             *)
Submits(h, q, c, g, e) ==
    /\ g = Queued(h, q, c)
    /\ e = [cid |-> FreeTag(h, q), op |-> c[1], args |-> c[2]]

(* The driver puts a command behind the others.                             *)
LEMMA SubmitStep ==
  ASSUME NEW q \in Queue, NEW h \in HostType(q), HostOK(q, h), h.gen # 0,
         Len(h.out) < Depth(q) - 1, NEW c, c[1] \in Ops, c[2] \in Seq(Nat),
         NEW g, NEW e, Submits(h, q, c, g, e)
  PROVE  /\ g \in HostType(q) /\ HostOK(q, g)
         /\ g.gen = h.gen /\ g.rung = h.rung /\ g.head = h.head
         /\ g.phase = h.phase /\ g.cq = h.cq /\ g.tail = Slot(q, h.tail + 1)
         /\ e \in Cmd /\ e.op = c[1] /\ e.args = c[2]
         /\ g.out = Append(h.out, e) /\ g.sq = [h.sq EXCEPT ![h.tail] = e]
  <1>0. /\ g = Queued(h, q, c)
        /\ e = [cid |-> FreeTag(h, q), op |-> c[1], args |-> c[2]]
    BY DEF Submits
  <1>1. /\ Depth(q) \in Nat /\ h.tail \in Slots(q) /\ h.out \in Seq(Cmd) /\ Len(h.out) \in Nat
        /\ DOMAIN h.out = 1 .. Len(h.out)
    BY HostFields, DepthType
  <1>2. /\ FreeTag(h, q) \in 1 .. Depth(q)
        /\ \A i \in DOMAIN h.out : h.out[i].cid # FreeTag(h, q)
    BY <1>1, FreeTagIsFree
  <1>3. e \in Cmd
    BY <1>0, <1>1, <1>2 DEF Cmd
  <1>4. (h.tail + 1) % Depth(q) = Slot(q, h.tail + 1) /\ Slot(q, h.tail + 1) \in Slots(q)
    BY <1>1, NextSlot
  <1>5. e.cid = FreeTag(h, q) /\ e.op = c[1] /\ e.args = c[2]
    BY <1>0
  <1>6. h.sq \in [Slots(q) -> Cmd] /\ h.cq \in [Slots(q) -> CqEntry]
    BY DEF HostOK
  <1>7. g = [h EXCEPT !.sq = [h.sq EXCEPT ![h.tail] = e], !.tail = (h.tail + 1) % Depth(q),
                      !.out = Append(h.out, e)]
    BY <1>0 DEF Queued, HostType
  <1>8. /\ Append(h.out, e) \in Seq(Cmd) /\ Len(Append(h.out, e)) = Len(h.out) + 1
        /\ \A i \in 1 .. Len(h.out) : Append(h.out, e)[i] = h.out[i]
        /\ Append(h.out, e)[Len(h.out) + 1] = e
        /\ DOMAIN Append(h.out, e) = 1 .. Len(h.out) + 1
    BY <1>1, <1>3, AppendProperties
  <1>9. [h.sq EXCEPT ![h.tail] = e] \in [Slots(q) -> Cmd]
    BY <1>3, <1>6
  <1>10. /\ g.sq = [h.sq EXCEPT ![h.tail] = e] /\ g.tail = Slot(q, h.tail + 1)
         /\ g.out = Append(h.out, e) /\ g.gen = h.gen /\ g.rung = h.rung
         /\ g.head = h.head /\ g.phase = h.phase /\ g.cq = h.cq
    BY <1>4, <1>7 DEF HostType
  <1>11. g \in HostType(q)
    <2> DEFINE u == [h.sq EXCEPT ![h.tail] = e]
               t == (h.tail + 1) % Depth(q)
               o == Append(h.out, e)
    <2>1. u \in [Slots(q) -> Cmd] /\ t \in Slots(q) /\ o \in Seq(Cmd)
          /\ g = [h EXCEPT !.sq = u, !.tail = t, !.out = o]
      BY <1>4, <1>7, <1>8, <1>9
    <2> HIDE DEF u, t, o
    <2> QED
      BY <2>1 DEF HostType
  <1>12. \A i, j \in DOMAIN g.out : g.out[i].cid = g.out[j].cid => i = j
    <2> SUFFICES ASSUME NEW i \in 1 .. Len(h.out) + 1, NEW j \in 1 .. Len(h.out) + 1,
                        g.out[i].cid = g.out[j].cid
                 PROVE  i = j
      BY <1>8, <1>10
    <2>1. \A k \in 1 .. Len(h.out) : g.out[k] = h.out[k] /\ h.out[k].cid # e.cid
      BY <1>1, <1>2, <1>5, <1>8, <1>10
    <2>2. g.out[Len(h.out) + 1] = e
      BY <1>8, <1>10
    <2>3. \A k, l \in 1 .. Len(h.out) : h.out[k].cid = h.out[l].cid => k = l
      BY <1>1 DEF HostOK
    <2>4. \A k \in 1 .. Len(h.out) + 1 : k \in 1 .. Len(h.out) \/ k = Len(h.out) + 1
      <3> DEFINE l == Len(h.out)
      <3>1. l \in Nat
        BY <1>1
      <3> HIDE DEF l
      <3>2. \A k \in 1 .. l + 1 : k \in 1 .. l \/ k = l + 1
        BY <3>1
      <3> QED
        BY <3>2 DEF l
    <2>5. CASE i = Len(h.out) + 1 \/ j = Len(h.out) + 1
      <3> QED
        BY <2>1, <2>2, <2>4, <2>5
    <2>6. CASE i \in 1 .. Len(h.out) /\ j \in 1 .. Len(h.out)
      BY <2>1, <2>3, <2>6
    <2> QED
      BY <2>4, <2>5, <2>6
  <1>13. \E m \in 0 .. Len(g.out) : Posted(q, g, m)
    <2>1. PICK m \in 0 .. Len(h.out) : Posted(q, h, m)
      BY DEF HostOK
    <2>2. m \in 0 .. Len(g.out)
      BY <1>1, <1>8, <1>10, <2>1
    <2>3. \A k \in Slots(q) : k < m => g.out[k + 1] = h.out[k + 1]
      <3> SUFFICES ASSUME NEW k \in Slots(q), k < m PROVE g.out[k + 1] = h.out[k + 1]
        OBVIOUS
      <3>1. k + 1 \in 1 .. Len(h.out)
        BY <1>1, <2>1 DEF Slots
      <3> QED
        BY <1>8, <1>10, <3>1
    <2>4. Posted(q, g, m)
      BY <1>10, <2>1, <2>3 DEF Posted, NewPhase
    <2> QED
      BY <2>2, <2>4
  <1>14. HostOK(q, g)
    <2>1. Len(g.out) < Depth(q)
      BY <1>1, <1>8, <1>10
    <2> QED
      BY <1>6, <1>9, <1>10, <1>12, <1>13, <2>1 DEF HostOK
  <1> QED
    BY <1>3, <1>5, <1>10, <1>11, <1>14

(* The emulator's queue is in step with one command more.                   *)
LEMMA SubmitInStep ==
  ASSUME NEW q \in Queue, NEW h \in HostType(q), NEW g \in HostType(q), NEW r \in QueueState,
         NEW x \in {0, 1}, NEW c0, NEW e \in Cmd, InStep(q, h, r, x, c0),
         Len(h.out) < Depth(q) - 1, HostOK(q, h),
         g.out = Append(h.out, e), g.gen = h.gen, g.rung = h.rung, g.head = h.head,
         g.phase = h.phase, g.cq = h.cq,
         g.tail = Slot(q, h.tail + 1), g.sq = [h.sq EXCEPT ![h.tail] = e]
  PROVE  InStep(q, g, r, x, c0) /\ r.sqHead # g.tail
  <1> DEFINE m == Dist(q, h.head, r.cqTail)
             n == Dist(q, r.sqHead, h.tail)
  <1>0. /\ h.tail \in Slots(q) /\ h.rung \in Slots(q) /\ h.head \in Slots(q)
        /\ r.sqHead \in Slots(q) /\ r.sqTail \in Slots(q) /\ r.cqTail \in Slots(q)
        /\ Depth(q) \in Nat /\ Depth(q) >= 2 /\ h.out \in Seq(Cmd) /\ Len(h.out) \in Nat
        /\ h.gen # 0 /\ Slots(q) \subseteq Nat
    BY HostFields, DepthType DEF InStep, Slots
  <1>1. m \in Slots(q) /\ n \in Slots(q) /\ m \in Nat /\ n \in Nat
    BY <1>0, DistType
  <1>2. m + x + n = Len(h.out) /\ x \in Nat
    BY DEF InStep
  <1> HIDE DEF m, n
  <1>3. n + 1 < Depth(q)
    BY <1>0, <1>1, <1>2
  <1>4. Dist(q, r.sqHead, g.tail) = n + 1
    BY <1>0, <1>3, DistEnd DEF n
  <1>5. g.tail \in Slots(q) /\ r.sqHead # g.tail
    <2>1. g.tail \in Slots(q)
      BY <1>0, NextSlot
    <2> QED
      BY <1>0, <1>1, <1>4, <2>1, DistType
  <1>6. /\ Len(g.out) = Len(h.out) + 1
        /\ \A i \in 1 .. Len(h.out) : g.out[i] = h.out[i]
        /\ g.out[Len(h.out) + 1] = e
    BY <1>0, AppendProperties
  <1>7. h.sq \in [Slots(q) -> Cmd]
    BY <1>0 DEF HostOK
  <1>8. Posted(q, g, m)
    <2>1. Posted(q, h, m)
      BY DEF InStep, m
    <2>2. \A k \in Slots(q) : k < m => g.out[k + 1] = h.out[k + 1]
      <3> SUFFICES ASSUME NEW k \in Slots(q), k < m PROVE g.out[k + 1] = h.out[k + 1]
        OBVIOUS
      <3>1. k \in Nat
        BY <1>0
      <3>2. k + 1 \in 1 .. Len(h.out)
        BY <1>0, <1>1, <1>2, <3>1
      <3> QED
        BY <1>6, <3>2
    <2> QED
      BY <2>1, <2>2 DEF Posted, NewPhase
  <1>9. x = 1 => Answers(c0, g.out[m + 1])
    <2>1. x = 1 => m + 1 \in 1 .. Len(h.out)
      BY <1>0, <1>1, <1>2
    <2> QED
      BY <1>6, <2>1 DEF InStep, m
  <1>10. \A k \in 0 .. n : g.sq[Slot(q, r.sqHead + k)] = g.out[m + x + k + 1]
    <2> TAKE k \in 0 .. n
    <2>1. k \in Slots(q) /\ k \in Nat
      BY <1>0, <1>1, <1>3 DEF Slots
    <2>2. Slot(q, r.sqHead + k) \in Slots(q)
      BY <1>0, <2>1, ModSlot
    <2>3. CASE k = n
      <3>1. Slot(q, r.sqHead + k) = h.tail
        BY <1>0, <2>3, DistType DEF n
      <3>2. m + x + k + 1 = Len(h.out) + 1
        BY <1>0, <1>1, <1>2, <2>3
      <3> QED
        BY <1>0, <1>6, <1>7, <3>1, <3>2
    <2>4. CASE k # n
      <3>1. Slot(q, r.sqHead + k) # h.tail
        BY <1>0, <2>1, <2>4, SlotBack DEF n
      <3>2. k \in 0 .. n - 1
        BY <1>1, <2>1, <2>4
      <3>3. h.sq[Slot(q, r.sqHead + k)] = h.out[m + x + k + 1]
        BY <3>2 DEF InStep, m, n
      <3>4. m + x + k + 1 \in 1 .. Len(h.out)
        BY <1>0, <1>1, <1>2, <2>1, <3>2
      <3> QED
        BY <1>6, <1>7, <2>2, <3>1, <3>3, <3>4
    <2> QED
      BY <2>3, <2>4
  <1>11. /\ m + x + (n + 1) = Len(g.out) /\ (n + 1) - 1 = n
         /\ Dist(q, r.sqHead, h.rung) <= n + 1
    <2>1. Dist(q, r.sqHead, h.rung) \in Nat /\ Dist(q, r.sqHead, h.rung) <= n
      BY <1>0, DistType DEF InStep, n
    <2>2. m + x + (n + 1) = Len(g.out)
      <3>1. PICK l \in Nat : l = Len(h.out)
        BY <1>0, Zenon
      <3>2. Len(g.out) = l + 1 /\ m + x + n = l
        BY <1>2, <1>6, <3>1
      <3>3. m + x + (n + 1) = l + 1
        BY <1>1, <1>2, <3>2
      <3> QED
        BY <3>2, <3>3
    <2> QED
      BY <1>1, <2>1, <2>2
  <1>12. /\ r.sqAddr = h.gen /\ r.cqAddr = h.gen
         /\ r.sqSize = Depth(q) /\ r.cqSize = Depth(q)
         /\ r.phase = IF h.head <= r.cqTail THEN h.phase ELSE 1 - h.phase
         /\ Dist(q, r.sqHead, r.sqTail) <= Dist(q, r.sqHead, h.rung)
    BY DEF InStep
  <1>13. m = Dist(q, g.head, r.cqTail)
    BY DEF m
  <1> QED
    BY <1>0, <1>4, <1>5, <1>8, <1>9, <1>10, <1>11, <1>12, <1>13 DEF InStep

(* The driver rings for all that it has queued.                             *)
LEMMA RingStep ==
  ASSUME NEW q \in Queue, NEW h \in HostType(q), HostOK(q, h), h.rung # h.tail
  PROVE  LET g == [h EXCEPT !.rung = h.tail]
         IN  /\ g \in HostType(q) /\ HostOK(q, g) /\ h.gen # 0
             /\ g.out = h.out /\ g.tail = h.tail /\ g.rung = h.tail /\ g.gen = h.gen
             /\ \A r, x, c0 : r \in QueueState /\ InStep(q, h, r, x, c0) => InStep(q, g, r, x, c0)
  <1> DEFINE g == [h EXCEPT !.rung = h.tail]
  <1>1. /\ g.sq = h.sq /\ g.cq = h.cq /\ g.gen = h.gen /\ g.out = h.out /\ g.tail = h.tail
        /\ g.head = h.head /\ g.phase = h.phase /\ g.rung = h.tail /\ g \in HostType(q)
    BY DEF HostType
  <1> HIDE DEF g
  <1>2. h.gen # 0
    BY DEF HostOK
  <1>3. \A m : Posted(q, h, m) => Posted(q, g, m)
    BY <1>1 DEF Posted, NewPhase
  <1>4. HostOK(q, g)
    BY <1>1, <1>2, <1>3 DEF HostOK
  <1>5. ASSUME NEW r \in QueueState, NEW x, NEW c0, InStep(q, h, r, x, c0)
        PROVE  InStep(q, g, r, x, c0)
    <2> DEFINE m == Dist(q, h.head, r.cqTail)
               n == Dist(q, r.sqHead, h.tail)
    <2>1. h.tail \in Slots(q) /\ h.rung \in Slots(q) /\ r.sqHead \in Slots(q)
          /\ r.sqTail \in Slots(q)
      BY <1>5, HostFields DEF InStep
    <2>2. /\ n \in Nat /\ Dist(q, r.sqHead, h.rung) \in Nat
          /\ Dist(q, r.sqHead, r.sqTail) \in Nat
      BY <2>1, DistType
    <2>3. Dist(q, r.sqHead, r.sqTail) <= n /\ n <= n
      BY <1>5, <2>2 DEF InStep
    <2>4. /\ h.gen # 0 /\ r.sqAddr = h.gen /\ r.cqAddr = h.gen
          /\ r.sqSize = Depth(q) /\ r.cqSize = Depth(q)
          /\ r.sqHead \in Slots(q) /\ r.sqTail \in Slots(q) /\ r.cqTail \in Slots(q)
          /\ r.phase = IF h.head <= r.cqTail THEN h.phase ELSE 1 - h.phase
          /\ m + x + n = Len(h.out)
          /\ Posted(q, h, m)
          /\ x = 1 => Answers(c0, h.out[m + 1])
          /\ \A k \in 0 .. n - 1 : h.sq[Slot(q, r.sqHead + k)] = h.out[m + x + k + 1]
      BY <1>5 DEF InStep
    <2>5. m = Dist(q, g.head, r.cqTail) /\ n = Dist(q, r.sqHead, g.tail)
          /\ n = Dist(q, r.sqHead, g.rung)
      BY <1>1
    <2> HIDE DEF m, n
    <2> QED
      BY <1>1, <1>3, <2>3, <2>4, <2>5 DEF InStep
  <1> QED
    BY <1>1, <1>2, <1>4, <1>5 DEF g

LEMMA RingChain ==
  ASSUME NEW q \in Queue, NEW h \in HostType(q), NEW g \in HostType(q), NEW r \in QueueState,
         NEW evs \in Seq(EventType), NEW busy, NEW x, NEW c0,
         InStep(q, h, r, x, c0), Chain(q, h, r, evs, busy),
         h.rung # h.tail, g.rung = h.tail, busy => evs # <<>>
  PROVE  Chain(q, g, r, Append(evs, Event("sqdb", q, h.tail)), busy)
  <1> DEFINE b == Event("sqdb", q, h.tail)
             D(v) == Dist(q, r.sqHead, v)
             new == Append(evs, b)
             l == Len(evs)
  <1>1. /\ h.tail \in Slots(q) /\ h.rung \in Slots(q) /\ r.sqHead \in Slots(q)
        /\ r.sqTail \in Slots(q) /\ Slots(q) \subseteq Nat /\ l \in Nat
        /\ DOMAIN evs = 1 .. l /\ (busy => l # 0)
    BY HostFields, DepthType, LenProperties, EmptySeq DEF InStep, Slots
  <1>2. \A v \in Slots(q) : D(v) \in Nat
    BY <1>1, DistType
  <1>3. D(r.sqTail) <= D(h.rung) /\ D(h.rung) <= D(h.tail)
    BY DEF InStep
  <1>4. D(h.rung) # D(h.tail)
    BY <1>1, DistInjective
  <1>5. b \in EventType /\ b.reg = "sqdb" /\ b.q = q /\ b.val = h.tail
    BY <1>1 DEF Event, EventType
  <1> HIDE DEF b
  <1>6. /\ DOMAIN new = 1 .. l + 1 /\ new[l + 1] = b
        /\ \A i \in 1 .. l : new[i] = evs[i]
    BY <1>5, AppendProperties
  <1>7. \A i \in 1 .. l :
          IsBell(evs[i], q) =>
            /\ evs[i].val \in Slots(q)
            /\ D(evs[i].val) <= D(h.rung)
            /\ IF busy /\ i = 1 THEN evs[i].val = r.sqTail
               ELSE D(r.sqTail) < D(evs[i].val)
    BY <1>1 DEF Chain
  <1>8. \A i, j \in 1 .. l :
          i < j /\ IsBell(evs[i], q) /\ IsBell(evs[j], q) => D(evs[i].val) < D(evs[j].val)
    BY <1>1 DEF Chain
  <1> HIDE DEF D, new, l
  <1>9. \A i \in 1 .. l + 1 : i \in 1 .. l \/ i = l + 1
    BY <1>1
  <1>10. D(r.sqTail) < D(h.tail) /\ D(h.rung) < D(h.tail)
    <2>1. D(r.sqTail) \in Nat /\ D(h.tail) \in Nat /\ D(h.rung) \in Nat
      BY <1>1, <1>2
    <2> QED
      BY <1>3, <1>4, <2>1
  <1>11. \A v \in Slots(q) : D(v) <= D(h.rung) => D(v) < D(h.tail)
    <2> TAKE v \in Slots(q)
    <2>1. D(v) \in Nat /\ D(h.tail) \in Nat /\ D(h.rung) \in Nat
      BY <1>1, <1>2
    <2> QED
      BY <1>10, <2>1
  <1>12. ASSUME NEW i \in DOMAIN new, IsBell(new[i], q)
         PROVE  /\ new[i].val \in Slots(q)
                /\ D(new[i].val) <= D(g.rung)
                /\ IF busy /\ i = 1 THEN new[i].val = r.sqTail
                   ELSE D(r.sqTail) < D(new[i].val)
    <2>1. CASE i = l + 1
      <3>1. new[i].val = h.tail /\ D(h.tail) \in Nat
        BY <1>1, <1>2, <1>5, <1>6, <2>1
      <3>2. ~(busy /\ i = 1)
        BY <1>1, <2>1
      <3> QED
        BY <1>1, <1>10, <3>1, <3>2
    <2>2. CASE i \in 1 .. l
      <3>1. new[i] = evs[i] /\ IsBell(evs[i], q)
        BY <1>6, <1>12, <2>2
      <3>2. D(evs[i].val) < D(h.tail)
        BY <1>7, <1>11, <2>2, <3>1
      <3>3. D(evs[i].val) \in Nat /\ D(h.tail) \in Nat
        BY <1>1, <1>2, <1>7, <2>2, <3>1
      <3> QED
        BY <1>7, <2>2, <3>1, <3>2, <3>3
    <2> QED
      BY <1>6, <1>9, <2>1, <2>2
  <1>13. ASSUME NEW i \in DOMAIN new, NEW j \in DOMAIN new,
                i < j, IsBell(new[i], q), IsBell(new[j], q)
         PROVE  D(new[i].val) < D(new[j].val)
    <2>1. i \in 1 .. l
      BY <1>1, <1>6, <1>13
    <2>2. new[i] = evs[i]
      BY <1>6, <2>1
    <2>3. CASE j = l + 1
      BY <1>5, <1>6, <1>7, <1>11, <1>13, <2>1, <2>2, <2>3
    <2>4. CASE j \in 1 .. l
      BY <1>6, <1>8, <1>13, <2>1, <2>2, <2>4
    <2> QED
      BY <1>6, <1>9, <2>3, <2>4
  <1> QED
    BY <1>12, <1>13 DEF Chain, D, new, b

(* Any other event leaves a queue's doorbells as they are.                  *)
LEMMA ChainAppend ==
  ASSUME NEW q, NEW h, NEW r, NEW evs \in Seq(EventType), NEW busy, NEW e \in EventType,
         ~IsBell(e, q), Chain(q, h, r, evs, busy)
  PROVE  Chain(q, h, r, Append(evs, e), busy)
  <1> DEFINE new == Append(evs, e)
             l == Len(evs)
  <1>1. l \in Nat /\ DOMAIN evs = 1 .. l /\ DOMAIN new = 1 .. l + 1
        /\ new[l + 1] = e /\ \A i \in 1 .. l : new[i] = evs[i]
    BY AppendProperties, LenProperties
  <1> HIDE DEF new, l
  <1>2. \A i \in DOMAIN new : IsBell(new[i], q) => i \in DOMAIN evs /\ new[i] = evs[i]
    <2>1. \A i \in 1 .. l + 1 : i \in 1 .. l \/ i = l + 1
      BY <1>1
    <2> QED
      BY <1>1, <2>1
  <1>3. Chain(q, h, r, new, busy)
    <2>1. ASSUME NEW i \in DOMAIN new, IsBell(new[i], q)
          PROVE  /\ new[i].val \in Slots(q)
                 /\ Dist(q, r.sqHead, new[i].val) <= Dist(q, r.sqHead, h.rung)
                 /\ IF busy /\ i = 1 THEN new[i].val = r.sqTail
                    ELSE Dist(q, r.sqHead, r.sqTail) < Dist(q, r.sqHead, new[i].val)
      BY <1>2, <2>1 DEF Chain
    <2>2. ASSUME NEW i \in DOMAIN new, NEW j \in DOMAIN new,
                 i < j, IsBell(new[i], q), IsBell(new[j], q)
          PROVE  Dist(q, r.sqHead, new[i].val) < Dist(q, r.sqHead, new[j].val)
      BY <1>2, <2>2 DEF Chain
    <2> QED
      BY <2>1, <2>2 DEF Chain
  <1> QED
    BY <1>3 DEF new

LEMMA NoBellAppend ==
  ASSUME NEW q, NEW evs \in Seq(EventType), NEW e \in EventType, ~IsBell(e, q), NoBell(q, evs)
  PROVE  NoBell(q, Append(evs, e))
  <1> DEFINE new == Append(evs, e)
             l == Len(evs)
  <1>1. l \in Nat /\ DOMAIN evs = 1 .. l /\ DOMAIN new = 1 .. l + 1
        /\ new[l + 1] = e /\ \A i \in 1 .. l : new[i] = evs[i]
    BY AppendProperties, LenProperties
  <1> HIDE DEF new, l
  <1>2. \A i \in 1 .. l + 1 : i \in 1 .. l \/ i = l + 1
    BY <1>1
  <1> QED
    BY <1>1, <1>2 DEF NoBell, new

(* The first event goes.                                                    *)
LEMMA TailEvents ==
  ASSUME NEW evs \in Seq(EventType), evs # <<>>
  PROVE  /\ Tail(evs) \in Seq(EventType) /\ Len(Tail(evs)) = Len(evs) - 1
         /\ Len(evs) \in Nat /\ Len(evs) >= 1
         /\ Head(evs) = evs[1] /\ 1 \in DOMAIN evs /\ evs[1] \in EventType
         /\ DOMAIN Tail(evs) = 1 .. Len(evs) - 1 /\ DOMAIN evs = 1 .. Len(evs)
         /\ \A i \in DOMAIN Tail(evs) : i + 1 \in DOMAIN evs /\ Tail(evs)[i] = evs[i + 1]
         /\ Len(evs) = 1 => Tail(evs) = <<>>
  <1>1. Len(evs) \in Nat /\ Len(evs) >= 1 /\ DOMAIN evs = 1 .. Len(evs)
    BY LenProperties, EmptySeq
  <1>2. /\ Tail(evs) \in Seq(EventType) /\ Len(Tail(evs)) = Len(evs) - 1
        /\ \A i \in 1 .. Len(Tail(evs)) : Tail(evs)[i] = evs[i + 1]
    BY HeadTailProperties
  <1>3. DOMAIN Tail(evs) = 1 .. Len(evs) - 1
    BY <1>2, LenProperties
  <1>4. Head(evs) = evs[1] /\ 1 \in DOMAIN evs /\ evs[1] \in EventType
    BY <1>1, HeadTailProperties
  <1>5. Len(evs) = 1 => Tail(evs) = <<>>
    <2> DEFINE t == Tail(evs)
    <2>1. t \in Seq(EventType) /\ (Len(evs) = 1 => Len(t) = 0)
      BY <1>1, <1>2
    <2> HIDE DEF t
    <2>2. Len(t) = 0 => t = <<>>
      BY <2>1, EmptySeq
    <2> QED
      BY <2>1, <2>2 DEF t
  <1>6. \A i \in DOMAIN Tail(evs) : i + 1 \in DOMAIN evs /\ Tail(evs)[i] = evs[i + 1]
    BY <1>1, <1>2, <1>3
  <1> QED
    BY <1>1, <1>2, <1>3, <1>4, <1>5, <1>6

LEMMA ChainTail ==
  ASSUME NEW q, NEW h, NEW r, NEW evs \in Seq(EventType), evs # <<>>,
         Chain(q, h, r, evs, TRUE)
  PROVE  Chain(q, h, r, Tail(evs), FALSE)
  <1> DEFINE new == Tail(evs)
  <1>1. \A i \in DOMAIN new : i \in Nat \ {0} /\ i + 1 \in DOMAIN evs /\ new[i] = evs[i + 1]
    BY TailEvents
  <1> HIDE DEF new
  <1>2. ASSUME NEW i \in DOMAIN new, IsBell(new[i], q)
        PROVE  /\ new[i].val \in Slots(q)
               /\ Dist(q, r.sqHead, new[i].val) <= Dist(q, r.sqHead, h.rung)
               /\ Dist(q, r.sqHead, r.sqTail) < Dist(q, r.sqHead, new[i].val)
    <2>1. i + 1 \in DOMAIN evs /\ new[i] = evs[i + 1] /\ i + 1 # 1
      BY <1>1
    <2> QED
      BY <1>2, <2>1 DEF Chain
  <1>3. ASSUME NEW i \in DOMAIN new, NEW j \in DOMAIN new,
               i < j, IsBell(new[i], q), IsBell(new[j], q)
        PROVE  Dist(q, r.sqHead, new[i].val) < Dist(q, r.sqHead, new[j].val)
    <2>1. /\ i + 1 \in DOMAIN evs /\ new[i] = evs[i + 1]
          /\ j + 1 \in DOMAIN evs /\ new[j] = evs[j + 1] /\ i + 1 < j + 1
      BY <1>1, <1>3
    <2> QED
      BY <1>3, <2>1 DEF Chain
  <1>4. Chain(q, h, r, new, FALSE)
    BY <1>2, <1>3 DEF Chain
  <1> QED
    BY <1>4 DEF new

LEMMA NoBellTail ==
  ASSUME NEW q, NEW evs \in Seq(EventType), evs # <<>>, NoBell(q, evs)
  PROVE  NoBell(q, Tail(evs))
  BY TailEvents DEF NoBell

(* The emulator begins with the first doorbell.                             *)
LEMMA BeginStep ==
  ASSUME NEW q \in Queue, NEW h \in HostType(q), NEW r \in QueueState, NEW x, NEW c0,
         NEW evs \in Seq(EventType), evs # <<>>, IsBell(evs[1], q),
         InStep(q, h, r, x, c0), Chain(q, h, r, evs, FALSE)
  PROVE  LET s == [r EXCEPT !.sqTail = evs[1].val]
         IN  s \in QueueState /\ s.sqHead = r.sqHead /\ InStep(q, h, s, x, c0)
             /\ Chain(q, h, s, evs, TRUE)
  <1> DEFINE s == [r EXCEPT !.sqTail = evs[1].val]
  <1>1. 1 \in DOMAIN evs /\ DOMAIN evs = 1 .. Len(evs) /\ Len(evs) \in Nat
    BY TailEvents
  <1>2. /\ evs[1].val \in Slots(q)
        /\ Dist(q, r.sqHead, evs[1].val) <= Dist(q, r.sqHead, h.rung)
    BY <1>1 DEF Chain
  <1>3. evs[1].val \in Nat
    BY <1>2 DEF Slots
  <1>4. /\ s.sqTail = evs[1].val /\ s.sqHead = r.sqHead /\ s.cqTail = r.cqTail
        /\ s.phase = r.phase /\ s.sqAddr = r.sqAddr /\ s.cqAddr = r.cqAddr
        /\ s.sqSize = r.sqSize /\ s.cqSize = r.cqSize /\ s \in QueueState
    BY <1>3 DEF QueueState
  <1> HIDE DEF s
  <1>5. InStep(q, h, s, x, c0)
    BY <1>2, <1>4 DEF InStep
  <1>6. Chain(q, h, s, evs, TRUE)
    <2>1. \A i \in DOMAIN evs : i # 1 /\ IsBell(evs[i], q) =>
             Dist(q, r.sqHead, evs[1].val) < Dist(q, r.sqHead, evs[i].val)
      <3> SUFFICES ASSUME NEW i \in DOMAIN evs, i # 1, IsBell(evs[i], q)
                   PROVE  Dist(q, r.sqHead, evs[1].val) < Dist(q, r.sqHead, evs[i].val)
        OBVIOUS
      <3>1. 1 < i
        BY <1>1
      <3> QED
        BY <1>1, <3>1 DEF Chain
    <2> QED
      BY <1>4, <2>1 DEF Chain
  <1> QED
    BY <1>4, <1>5, <1>6 DEF s

LEMMA ChainOther ==
  ASSUME NEW q, NEW h, NEW r, NEW evs, ~IsBell(evs[1], q), Chain(q, h, r, evs, FALSE)
  PROVE  Chain(q, h, r, evs, TRUE)
  BY DEF Chain

(* The places after the driver's head, before and after it moves.           *)
LEMMA HeadMoves ==
  ASSUME NEW q \in Queue, NEW a \in Slots(q), NEW k \in Slots(q), NEW b, NEW t \in {0, 1},
         NEW p, b = Slot(q, a + 1), p = (IF a + 1 = Depth(q) THEN 1 - t ELSE t)
  PROVE  IF k + 1 < Depth(q)
         THEN /\ Slot(q, b + k) = Slot(q, a + (k + 1))
              /\ (IF b + k < Depth(q) THEN p ELSE 1 - p)
                   = IF a + (k + 1) < Depth(q) THEN t ELSE 1 - t
         ELSE /\ k = Depth(q) - 1 /\ Slot(q, b + k) = a
              /\ (IF b + k < Depth(q) THEN p ELSE 1 - p) # t
  BY DepthType DEF Slot, Slots

(* The driver takes the answer at its head: to its oldest command.          *)
LEMMA ReapStep ==
  ASSUME NEW q \in Queue, NEW h \in HostType(q), HostOK(q, h), IsNew(h, q, 0)
  PROVE  LET g == Consumed(h, q)
         IN  /\ h.gen # 0 /\ Len(h.out) >= 1 /\ Answered(h, q) = {1}
             /\ g \in HostType(q) /\ HostOK(q, g)
             /\ g.gen = h.gen /\ g.sq = h.sq /\ g.cq = h.cq /\ g.tail = h.tail
             /\ g.rung = h.rung /\ g.head = Slot(q, h.head + 1)
             /\ Len(g.out) = Len(h.out) - 1
             /\ \A i \in 1 .. Len(h.out) - 1 : g.out[i] = h.out[i + 1]
             /\ \A m \in 0 .. Len(h.out) : Posted(q, h, m) => m >= 1 /\ Posted(q, g, m - 1)
             /\ g.phase = (IF h.head + 1 = Depth(q) THEN 1 - h.phase ELSE h.phase)
  <1> DEFINE g == Consumed(h, q)
             D == Depth(q)
             l == Len(h.out)
             o == [j \in 1 .. l - 1 |-> h.out[j + 1]]
             p == IF h.head + 1 = D THEN 1 - h.phase ELSE h.phase
  <1>1. /\ D \in Nat /\ D >= 2 /\ h.head \in Slots(q) /\ h.out \in Seq(Cmd) /\ l \in Nat
        /\ DOMAIN h.out = 1 .. l /\ l < D /\ h.gen # 0 /\ h.phase \in {0, 1}
        /\ h.head \in Nat /\ h.head < D /\ Slots(q) = 0 .. D - 1
    BY HostFields, DepthType DEF HostOK, IsNew, Slots
  <1>2. Entry(h, q, 0) = h.cq[h.head]
    <2>1. (h.head + 0) % D = h.head
      <3>1. 0 \in Slots(q) /\ h.head + 0 = h.head
        BY <1>1
      <3>2. (h.head + 0) % D = Slot(q, h.head + 0)
        BY <3>1, <1>1, ModSlot
      <3> QED
        BY <1>1, <3>1, <3>2 DEF Slot
    <2> QED
      BY <2>1 DEF Entry
  <1>3. h.cq[h.head].phase = h.phase
    BY <1>1, <1>2 DEF IsNew
  <1>4. ASSUME NEW m \in 0 .. l, Posted(q, h, m)
        PROVE  m >= 1 /\ Answers(h.cq[h.head], h.out[1])
    <2>1. 0 \in Slots(q) /\ Slot(q, h.head + 0) = h.head
      BY <1>1 DEF Slot
    <2>2. NewPhase(q, h, 0) = h.phase
      BY <1>1 DEF NewPhase
    <2>3. LET e == h.cq[Slot(q, h.head + 0)] IN
            IF 0 < m THEN e.phase = NewPhase(q, h, 0) /\ Answers(e, h.out[0 + 1])
                     ELSE e.phase # NewPhase(q, h, 0)
      BY <1>4, <2>1 DEF Posted
    <2> QED
      BY <1>1, <1>3, <2>1, <2>2, <2>3
  <1>5. PICK m0 \in 0 .. l : Posted(q, h, m0)
    BY <1>1 DEF HostOK
  <1>6. l >= 1 /\ h.cq[h.head].cid = h.out[1].cid
    BY <1>1, <1>4, <1>5 DEF Answers
  <1>7. Answered(h, q) = {1}
    <2>1. \A i \in DOMAIN h.out : h.out[i].cid = h.out[1].cid => i = 1
      BY <1>1, <1>6 DEF HostOK
    <2> QED
      BY <1>1, <1>2, <1>6, <2>1 DEF Answered
  <1>8. Without(h.out, 1) = o
    <2>1. \A j \in 1 .. l - 1 : ~(j < 1)
      BY <1>1
    <2> QED
      BY <2>1 DEF Without
  <1>9. o \in Seq(Cmd) /\ Len(o) = l - 1 /\ DOMAIN o = 1 .. l - 1
    <2>1. \A j \in 1 .. l - 1 : h.out[j + 1] \in Cmd
      <3> SUFFICES ASSUME NEW j \in 1 .. l - 1 PROVE h.out[j + 1] \in Cmd
        OBVIOUS
      <3>1. j + 1 \in DOMAIN h.out
        BY <1>1
      <3> QED
        BY <1>1, <3>1, ElementOfSeq
    <2> HIDE DEF l
    <2>2. l - 1 \in Nat
      BY <1>1, <1>6
    <2>3. o \in [1 .. l - 1 -> Cmd]
      BY <2>1
    <2>4. o \in Seq(Cmd)
      BY <2>2, <2>3, IsASeq
    <2>5. DOMAIN o = 1 .. l - 1
      OBVIOUS
    <2> QED
      BY <2>2, <2>4, <2>5, LenProperties
  <1>10. (h.head + 1) % D = Slot(q, h.head + 1) /\ Slot(q, h.head + 1) \in Slots(q)
    BY <1>1, NextSlot
  <1>11. g = [h EXCEPT !.head = (h.head + 1) % D, !.phase = p, !.out = o]
    <2>1. (CHOOSE i \in {1} : TRUE) = 1
      OBVIOUS
    <2> QED
      BY <1>7, <1>8, <2>1 DEF Consumed, HostType
  <1>12. p \in {0, 1}
    BY <1>1
  <1> DEFINE hd == (h.head + 1) % D
  <1>13. hd \in Slots(q) /\ hd = Slot(q, h.head + 1)
    BY <1>10
  <1> HIDE DEF o, p, hd, g
  <1>14. g = [h EXCEPT !.head = hd, !.phase = p, !.out = o]
    BY <1>11 DEF hd
  <1>15. /\ g.gen = h.gen /\ g.sq = h.sq /\ g.cq = h.cq /\ g.tail = h.tail
         /\ g.rung = h.rung /\ g.head = hd /\ g.phase = p /\ g.out = o
         /\ g \in HostType(q)
    BY <1>9, <1>12, <1>13, <1>14 DEF HostType
  <1>16. \A i \in 1 .. l - 1 : g.out[i] = h.out[i + 1]
    BY <1>15 DEF o
  <1>17. ASSUME NEW m \in 0 .. l, Posted(q, h, m)
         PROVE  m >= 1 /\ Posted(q, g, m - 1)
    <2>0. m >= 1 /\ m \in Nat
      BY <1>1, <1>4, <1>17
    <2> SUFFICES ASSUME NEW k \in Slots(q)
                 PROVE  LET e == g.cq[Slot(q, g.head + k)] IN
                        IF k < m - 1
                        THEN e.phase = NewPhase(q, g, k) /\ Answers(e, g.out[k + 1])
                        ELSE e.phase # NewPhase(q, g, k)
      BY <2>0 DEF Posted
    <2>a. h.head \in Slots(q) /\ h.phase \in {0, 1} /\ g.head = Slot(q, h.head + 1)
          /\ g.phase = (IF h.head + 1 = Depth(q) THEN 1 - h.phase ELSE h.phase)
      BY <1>1, <1>13, <1>15 DEF p
    <2>b. IF k + 1 < Depth(q)
          THEN /\ Slot(q, g.head + k) = Slot(q, h.head + (k + 1))
               /\ NewPhase(q, g, k) = NewPhase(q, h, k + 1)
          ELSE /\ k = Depth(q) - 1 /\ Slot(q, g.head + k) = h.head
               /\ NewPhase(q, g, k) # h.phase
      BY <2>a, HeadMoves DEF NewPhase
    <2>1. CASE k + 1 < D
      <3>1. k + 1 \in Slots(q) /\ k \in Nat
        BY <1>1, <2>1
      <3>2. /\ Slot(q, g.head + k) = Slot(q, h.head + (k + 1))
            /\ NewPhase(q, g, k) = NewPhase(q, h, k + 1)
        BY <2>1, <2>b
      <3>4. LET e == h.cq[Slot(q, h.head + (k + 1))] IN
              IF k + 1 < m
              THEN e.phase = NewPhase(q, h, k + 1) /\ Answers(e, h.out[(k + 1) + 1])
              ELSE e.phase # NewPhase(q, h, k + 1)
        BY <1>17, <3>1 DEF Posted
      <3>5. k + 1 < m <=> k < m - 1
        BY <2>0, <3>1
      <3>6. k < m - 1 => g.out[k + 1] = h.out[(k + 1) + 1]
        <4>1. k < m - 1 => k + 1 \in 1 .. l - 1
          BY <1>1, <2>0, <3>1
        <4> QED
          BY <1>16, <4>1
      <3> QED
        BY <1>15, <3>2, <3>4, <3>5, <3>6
    <2>2. CASE ~(k + 1 < D)
      <3>1. /\ k = D - 1 /\ Slot(q, g.head + k) = h.head
            /\ NewPhase(q, g, k) # h.phase
        BY <2>2, <2>b
      <3>2. ~(k < m - 1)
        BY <1>1, <2>0, <3>1
      <3> QED
        BY <1>3, <1>15, <3>1, <3>2
    <2> QED
      BY <2>1, <2>2
  <1>18. HostOK(q, g)
    <2>1. m0 >= 1 /\ Posted(q, g, m0 - 1)
      BY <1>5, <1>17
    <2>2. m0 - 1 \in 0 .. Len(g.out)
      BY <1>1, <1>5, <1>9, <1>15, <2>1
    <2>3. Len(g.out) < Depth(q)
      BY <1>1, <1>9, <1>15
    <2>4. \A i, j \in DOMAIN g.out : g.out[i].cid = g.out[j].cid => i = j
      <3> SUFFICES ASSUME NEW i \in 1 .. l - 1, NEW j \in 1 .. l - 1,
                          g.out[i].cid = g.out[j].cid
                   PROVE  i = j
        BY <1>9, <1>15
      <3>1. /\ i + 1 \in DOMAIN h.out /\ j + 1 \in DOMAIN h.out
            /\ h.out[i + 1].cid = h.out[j + 1].cid
        BY <1>1, <1>16
      <3>2. i + 1 = j + 1
        BY <3>1 DEF HostOK
      <3> QED
        BY <3>2
    <2>5. g.gen # 0 /\ g.sq \in [Slots(q) -> Cmd] /\ g.cq \in [Slots(q) -> CqEntry]
      BY <1>1, <1>15 DEF HostOK
    <2> QED
      BY <2>1, <2>2, <2>3, <2>4, <2>5 DEF HostOK
  <1> QED
    BY <1>1, <1>6, <1>7, <1>9, <1>13, <1>15, <1>16, <1>17, <1>18 DEF g, p, l

LEMMA ReapInStep ==
  ASSUME NEW q \in Queue, NEW h \in HostType(q), HostOK(q, h), IsNew(h, q, 0),
         NEW r \in QueueState, NEW x \in {0, 1}, NEW c0, InStep(q, h, r, x, c0)
  PROVE  /\ InStep(q, Consumed(h, q), r, x, c0)
         /\ Len(h.out) = 1 => r.sqHead = h.tail
  <1> DEFINE g == Consumed(h, q)
             m == Dist(q, h.head, r.cqTail)
             n == Dist(q, r.sqHead, h.tail)
             l == Len(h.out)
  <1>1. /\ g \in HostType(q)
        /\ g.gen = h.gen /\ g.sq = h.sq /\ g.cq = h.cq /\ g.tail = h.tail
        /\ g.rung = h.rung /\ g.head = Slot(q, h.head + 1)
        /\ Len(g.out) = l - 1 /\ l >= 1
        /\ \A i \in 1 .. l - 1 : g.out[i] = h.out[i + 1]
        /\ \A k \in 0 .. l : Posted(q, h, k) => k >= 1 /\ Posted(q, g, k - 1)
        /\ g.phase = (IF h.head + 1 = Depth(q) THEN 1 - h.phase ELSE h.phase)
    BY ReapStep
  <1> HIDE DEF g
  <1>2. /\ h.head \in Slots(q) /\ r.cqTail \in Slots(q) /\ r.sqHead \in Slots(q)
        /\ h.tail \in Slots(q) /\ h.rung \in Slots(q) /\ l \in Nat /\ x \in Nat
        /\ Depth(q) \in Nat /\ Depth(q) >= 2 /\ h.phase \in {0, 1} /\ h.gen # 0
    BY HostFields, DepthType DEF InStep
  <1>3. m \in Nat /\ n \in Nat /\ m + x + n = l /\ Posted(q, h, m)
    <2>1. m \in Nat /\ n \in Nat
      BY <1>2, DistType
    <2> QED
      BY <2>1 DEF InStep
  <1> HIDE DEF m, n, l
  <1>4. m \in 0 .. l
    BY <1>2, <1>3
  <1>5. m >= 1 /\ Posted(q, g, m - 1)
    BY <1>1, <1>3, <1>4
  <1>6. h.head # r.cqTail
    BY <1>2, <1>5, DistType DEF m
  <1>7. Dist(q, g.head, r.cqTail) = m - 1
    BY <1>1, <1>2, <1>6, DistStart DEF m
  <1>8. r.phase = IF g.head <= r.cqTail THEN g.phase ELSE 1 - g.phase
    <2>1. r.phase = IF h.head <= r.cqTail THEN h.phase ELSE 1 - h.phase
      BY DEF InStep
    <2> QED
      BY <1>1, <1>2, <1>6, <2>1 DEF Slot, Slots
  <1>9. x = 1 => Answers(c0, g.out[(m - 1) + 1])
    <2>1. x = 1 => m \in 1 .. l - 1 /\ (m - 1) + 1 = m
      BY <1>2, <1>3, <1>5
    <2>2. x = 1 => Answers(c0, h.out[m + 1])
      BY DEF InStep, m
    <2> QED
      BY <1>1, <2>1, <2>2
  <1>10. \A k \in 0 .. n - 1 : g.sq[Slot(q, r.sqHead + k)] = g.out[(m - 1) + x + k + 1]
    <2> TAKE k \in 0 .. n - 1
    <2>1. /\ (m - 1) + x + k + 1 \in 1 .. l - 1
          /\ ((m - 1) + x + k + 1) + 1 = m + x + k + 1
      BY <1>2, <1>3, <1>5
    <2>2. h.sq[Slot(q, r.sqHead + k)] = h.out[m + x + k + 1]
      BY DEF InStep, m, n
    <2> QED
      BY <1>1, <2>1, <2>2
  <1>11. (m - 1) + x + n = Len(g.out)
    BY <1>1, <1>2, <1>3
  <1>12. /\ r.sqAddr = h.gen /\ r.cqAddr = h.gen
         /\ r.sqSize = Depth(q) /\ r.cqSize = Depth(q)
         /\ r.sqTail \in Slots(q)
         /\ Dist(q, r.sqHead, r.sqTail) <= Dist(q, r.sqHead, h.rung)
         /\ Dist(q, r.sqHead, h.rung) <= n
    BY DEF InStep, n
  <1>13. l = 1 => r.sqHead = h.tail
    <2>1. l = 1 => n = 0
      BY <1>2, <1>3, <1>5
    <2> QED
      BY <1>2, <2>1, DistType DEF n
  <1>14. InStep(q, g, r, x, c0)
    <2>1. n = Dist(q, r.sqHead, g.tail)
      BY <1>1 DEF n
    <2> QED
      BY <1>1, <1>2, <1>5, <1>7, <1>8, <1>9, <1>10, <1>11, <1>12, <2>1 DEF InStep
  <1> QED
    BY <1>13, <1>14 DEF g, l

(* The interrupt handler's flag is in none of this.                         *)
LEMMA IsrStep ==
  ASSUME NEW q \in Queue, NEW h \in HostType(q), NEW b \in BOOLEAN
  PROVE  LET g == [h EXCEPT !.isr = b]
         IN  /\ g \in HostType(q) /\ g.gen = h.gen /\ g.out = h.out /\ g.tail = h.tail
             /\ g.rung = h.rung /\ g.head = h.head /\ g.phase = h.phase /\ g.cq = h.cq
             /\ g.sq = h.sq
             /\ HostOK(q, h) => HostOK(q, g)
             /\ \A r, x, c0 : InStep(q, h, r, x, c0) => InStep(q, g, r, x, c0)
             /\ Pristine(q, h) => Pristine(q, g)
  <1> DEFINE g == [h EXCEPT !.isr = b]
  <1>1. /\ g \in HostType(q) /\ g.gen = h.gen /\ g.out = h.out /\ g.tail = h.tail
        /\ g.rung = h.rung /\ g.head = h.head /\ g.phase = h.phase /\ g.cq = h.cq
        /\ g.sq = h.sq
    BY DEF HostType
  <1> HIDE DEF g
  <1>2. \A m : Posted(q, h, m) => Posted(q, g, m)
    BY <1>1 DEF Posted, NewPhase
  <1>3. HostOK(q, h) => HostOK(q, g)
    BY <1>1, <1>2 DEF HostOK
  <1>4. \A r, x, c0 : InStep(q, h, r, x, c0) => InStep(q, g, r, x, c0)
    BY <1>1, <1>2 DEF InStep
  <1>5. Pristine(q, h) => Pristine(q, g)
    BY <1>1 DEF Pristine
  <1> QED
    BY <1>1, <1>3, <1>4, <1>5 DEF g

-----------------------------------------------------------------------------
(* What a command ends with and what it does to the queues                  *)

LEMMA QueryAnswer ==
  ASSUME NEW c \in Cmd, IsQuery(c), NEW qs
  PROVE  /\ AdminStatus(c) \subseteq Expected(c) /\ AdminStatus(c) \subseteq Statuses
         /\ AfterAdmin(qs, c) = qs
         /\ c.op \in {"identify", "log", "features"}
  <1>1. \/ c.op = "identify" /\ c.args \in Nat \X Nat
        \/ c.op \in {"log", "features"}
    BY CommandsAssumption DEF IsQuery
  <1>2. CASE c.op = "identify" /\ c.args \in Nat \X Nat
    <2>1. PICK i \in Nat, j \in Nat : c.args = <<i, j>>
      BY <1>2
    <2>2. c.args[1] = i /\ c.args[2] = j
      BY <2>1
    <2>3. AdminStatus(c) = Identify(i, j)
      BY <1>2, <2>2 DEF AdminStatus
    <2>4. Expected(c) = IF <<i, j>> \in ValidIdentify THEN Transfer
                        ELSE {"invalid_ns", "invalid_field"}
      BY <1>2, <2>1 DEF Expected
    <2>5. Identify(i, j) \subseteq Statuses
      BY <2>1 DEF Identify, Transfer, Statuses
    <2>6. Identify(i, j) \subseteq Expected(c)
      <3>1. <<i, j>> \in ValidIdentify <=> \/ i \in {0, 3} /\ j = 1
                                           \/ i \in {1, 2, 3} /\ j = 0
        BY DEF ValidIdentify
      <3> QED
        BY <2>1, <2>4, <3>1 DEF Identify, Transfer
    <2> QED
      BY <1>2, <2>3, <2>5, <2>6 DEF AfterAdmin
  <1>3. CASE c.op \in {"log", "features"}
    <2>1. AdminStatus(c) \subseteq {"success", "invalid_field"}
      BY <1>3 DEF AdminStatus, GetLogPage, SetFeatures
    <2>2. Expected(c) = {"success", "invalid_field"}
      BY <1>3 DEF Expected
    <2> QED
      BY <1>3, <2>1, <2>2 DEF AfterAdmin, Statuses
  <1> QED
    BY <1>1, <1>2, <1>3

LEMMA SentAnswer ==
  ASSUME NEW c, NEW d \in Sent, c.op = SentOp(d), c.args = SentArgs(d)
  PROVE  /\ AdminStatus(c) = {"success"} /\ Expected(c) = {"success"} /\ c.args[1] = 1
  <1>1. c.op \in {"create_cq", "create_sq", "delete"} /\ c.args[1] = 1
    BY DEF Sent, SentOp, SentArgs
  <1>2. CreateStatus(1) = {"success"}
    BY NvmeAssumption DEF CreateStatus
  <1> QED
    BY <1>1, <1>2 DEF AdminStatus, Expected

LEMMA SentEffect ==
  ASSUME NEW c, NEW d \in Sent, c.op = SentOp(d), c.args = SentArgs(d), NEW qs
  PROVE  AfterAdmin(qs, c) =
           [qs EXCEPT ![1] =
              CASE d = "cq_sent" -> CreateCq(@, IoDepth - 1, host[1].gen, 1)
                [] d = "sq_sent" -> CreateSq(@, IoDepth - 1, host[1].gen)
                [] d \in {"sq_del", "cq_del"} -> ResetQueue]
  <1>1. c.op \in {"create_cq", "create_sq", "delete"} /\ c.args[1] = 1
    BY DEF Sent, SentOp, SentArgs
  <1>2. CASE d = "cq_sent"
    <2>1. c.op = "create_cq" /\ c.args[2] = IoDepth - 1 /\ c.args[3] = host[1].gen
          /\ c.args[4] = 1
      BY <1>2 DEF SentOp, SentArgs
    <2> QED
      BY <1>1, <1>2, <2>1 DEF AfterAdmin, Queue
  <1>3. CASE d = "sq_sent"
    <2>1. c.op = "create_sq" /\ c.args[2] = IoDepth - 1 /\ c.args[3] = host[1].gen
      BY <1>3 DEF SentOp, SentArgs
    <2> QED
      BY <1>1, <1>3, <2>1 DEF AfterAdmin, Queue
  <1>4. CASE d \in {"sq_del", "cq_del"}
    <2>1. c.op = "delete"
      BY <1>4 DEF SentOp
    <2> QED
      BY <1>1, <1>4, <2>1 DEF AfterAdmin, Queue
  <1> QED
    BY <1>2, <1>3, <1>4 DEF Sent

LEMMA IoAnswer ==
  ASSUME NEW c \in Cmd, IsIo(c)
  PROVE  IoStatus(c) \subseteq Expected(c) /\ IoStatus(c) \subseteq Statuses
  <1>1. \/ c.op = "flush"
        \/ c.op \in {"read", "write"} /\ c.args \in Seq(Nat) \ {<<>>}
    BY CommandsAssumption DEF IsIo
  <1>2. CASE c.op = "flush"
    BY <1>2 DEF IoStatus, Expected, Statuses
  <1>3. CASE c.op \in {"read", "write"} /\ c.args \in Seq(Nat) \ {<<>>}
    <2>1. c.args[1] \in Nat
      BY <1>3, LenProperties, EmptySeq
    <2>2. IoStatus(c) = ReadWrite(c.args[1])
      BY <1>3 DEF IoStatus
    <2>3. Expected(c) = IF c.args[1] < Sectors THEN Transfer ELSE {"invalid_field"}
      BY <1>3 DEF Expected
    <2> QED
      BY <2>1, <2>2, <2>3, NvmeAssumption DEF ReadWrite, Transfer, Statuses
  <1> QED
    BY <1>1, <1>2, <1>3

(* What the driver submits is a command.                                    *)
LEMMA QueryIsCommand ==
  ASSUME NEW c \in Queries
  PROVE  c[1] \in Ops /\ c[2] \in Seq(Nat) /\ c = <<c[1], c[2]>>
  <1>1. \A i, j \in Nat : <<i, j>> \in Seq(Nat)
    OBVIOUS
  <1>2. \/ c \in {"identify"} \X (Nat \X Nat)
        \/ c \in {"log", "features"} \X (Seq(Nat) \ {<<>>})
    BY CommandsAssumption
  <1>3. CASE c \in {"identify"} \X (Nat \X Nat)
    <2>1. PICK i \in Nat, j \in Nat : c = <<"identify", <<i, j>>>>
      BY <1>3
    <2>2. c[1] = "identify" /\ c[2] = <<i, j>>
      BY <2>1
    <2> QED
      BY <1>1, <2>1, <2>2 DEF Ops
  <1>4. CASE c \in {"log", "features"} \X (Seq(Nat) \ {<<>>})
    BY <1>4 DEF Ops
  <1> QED
    BY <1>2, <1>3, <1>4

LEMMA IoIsCommand ==
  ASSUME NEW c \in IoCommands
  PROVE  c[1] \in Ops /\ c[2] \in Seq(Nat) /\ c = <<c[1], c[2]>>
  BY CommandsAssumption DEF Ops

(* A new I/O queue, before its first command.                               *)
LEMMA FreshIsPristine ==
  ASSUME NEW q \in Queue, NEW g \in Nat \ {0}
  PROVE  /\ Fresh(q, g) \in HostType(q) /\ HostOK(q, Fresh(q, g)) /\ Pristine(q, Fresh(q, g))
         /\ Fresh(q, g).gen = g
  <1> DEFINE h == Fresh(q, g)
  <1>1. Depth(q) \in Nat /\ Depth(q) >= 2 /\ 0 \in Slots(q)
    BY DepthType DEF Slots
  <1>2. NoCommand \in Cmd /\ NoEntry \in CqEntry
    BY DEF NoCommand, NoEntry, Cmd, CqEntry, Ops, Statuses
  <1>3. /\ h.gen = g /\ h.sq = [i \in Slots(q) |-> NoCommand]
        /\ h.cq = [i \in Slots(q) |-> NoEntry]
        /\ h.tail = 0 /\ h.rung = 0 /\ h.head = 0 /\ h.phase = 1 /\ h.out = <<>>
        /\ h.isr = FALSE
    BY DEF Fresh, Unused, Slots
  <1>4. h \in HostType(q)
    <2> DEFINE u == [i \in Slots(q) |-> NoCommand]
               v == [i \in Slots(q) |-> NoEntry]
    <2>1. u \in [Slots(q) -> Cmd] /\ v \in [Slots(q) -> CqEntry]
      BY <1>2
    <2>2. h = [Unused EXCEPT !.gen = g, !.sq = u, !.cq = v]
      BY DEF Fresh, Slots
    <2> HIDE DEF u, v
    <2>3. Unused \in HostType(q)
      BY <1>1 DEF Unused, HostType
    <2> QED
      BY <2>1, <2>2, <2>3 DEF HostType
  <1> HIDE DEF h
  <1>5. \A k \in Slots(q) : Slot(q, h.head + k) = k /\ NewPhase(q, h, k) = 1 /\ h.cq[k].phase = 0
    BY <1>1, <1>3 DEF Slot, NewPhase, NoEntry, Slots
  <1>6. Posted(q, h, 0)
    <2>1. \A k \in Slots(q) : ~(k < 0)
      BY DEF Slots
    <2> QED
      BY <1>5, <2>1 DEF Posted
  <1>7. HostOK(q, h)
    <2>1. Len(h.out) = 0 /\ DOMAIN h.out = {}
      BY <1>3, EmptySeq
    <2>2. 0 \in 0 .. Len(h.out)
      BY <2>1
    <2> QED
      BY <1>1, <1>2, <1>3, <1>6, <2>1, <2>2 DEF HostOK
  <1>8. Pristine(q, h)
    BY <1>3, <1>5 DEF Pristine
  <1> QED
    BY <1>3, <1>4, <1>7, <1>8 DEF h

LEMMA UnusedIsOK ==
  ASSUME NEW q \in Queue
  PROVE  Unused \in HostType(q) /\ HostOK(q, Unused) /\ Unused.gen = 0
  <1>1. Depth(q) \in Nat /\ Depth(q) >= 2 /\ 0 \in Slots(q)
    BY DepthType DEF Slots
  <1>2. Unused \in HostType(q)
    BY <1>1 DEF Unused, HostType
  <1>3. /\ Unused.gen = 0 /\ Unused.out = <<>> /\ Unused.rung = Unused.tail
    BY DEF Unused
  <1>4. Len(<<>>) = 0 /\ DOMAIN <<>> = {}
    BY EmptySeq
  <1> QED
    BY <1>1, <1>2, <1>3, <1>4 DEF HostOK

(* An empty queue that both sides begin with is in step.                    *)
LEMMA PristineInStep ==
  ASSUME NEW q \in Queue, NEW h \in HostType(q), Pristine(q, h), HostOK(q, h), NEW r, NEW c,
         r.sqAddr = h.gen, r.cqAddr = h.gen, r.sqSize = Depth(q), r.cqSize = Depth(q),
         r.sqHead = 0, r.sqTail = 0, r.cqTail = 0, r.phase = 1,
         NEW evs, NoBell(q, evs), NEW busy
  PROVE  InStep(q, h, r, 0, c) /\ Chain(q, h, r, evs, busy)
  <1>1. Depth(q) \in Nat /\ Depth(q) >= 2 /\ 0 \in Slots(q)
    BY DepthType DEF Slots
  <1>2. Dist(q, 0, 0) = 0
    BY <1>1 DEF Dist
  <1>3. /\ h.gen # 0 /\ h.tail = 0 /\ h.rung = 0 /\ h.head = 0 /\ h.phase = 1
        /\ h.out = <<>> /\ Len(h.out) = 0
    BY EmptySeq DEF Pristine
  <1>4. Posted(q, h, 0)
    <2>1. \A k \in Slots(q) : Slot(q, h.head + k) = k /\ NewPhase(q, h, k) = 1 /\ ~(k < 0)
      BY <1>1, <1>3 DEF Slot, NewPhase, Slots
    <2> QED
      BY <2>1 DEF Posted, Pristine
  <1>5. \A k : k \notin 0 .. 0 - 1
    OBVIOUS
  <1>6. InStep(q, h, r, 0, c)
    BY <1>1, <1>2, <1>3, <1>4, <1>5 DEF InStep
  <1>7. Chain(q, h, r, evs, busy)
    BY DEF Chain, NoBell
  <1> QED
    BY <1>6, <1>7

(* In an empty queue nothing is to be rung for, or was.                     *)
LEMMA EmptyInStep ==
  ASSUME NEW q \in Queue, NEW h \in HostType(q), NEW r, NEW x \in {0, 1}, NEW c,
         InStep(q, h, r, x, c), h.out = <<>>, NEW evs \in Seq(EventType), NEW busy,
         Chain(q, h, r, evs, busy)
  PROVE  /\ h.rung = h.tail /\ x = 0
         /\ (busy /\ evs # <<>> => ~IsBell(evs[1], q)) => NoBell(q, evs)
  <1> DEFINE m == Dist(q, h.head, r.cqTail)
             n == Dist(q, r.sqHead, h.tail)
  <1>1. /\ h.head \in Slots(q) /\ h.tail \in Slots(q) /\ h.rung \in Slots(q)
        /\ r.sqHead \in Slots(q) /\ r.sqTail \in Slots(q) /\ r.cqTail \in Slots(q)
    BY HostFields DEF InStep
  <1>2. m \in Nat /\ n \in Nat /\ m + x + n = 0
    <2>1. m \in Nat /\ n \in Nat
      BY <1>1, DistType
    <2> QED
      BY <2>1, EmptySeq DEF InStep
  <1> HIDE DEF m
  <1>3. x = 0 /\ n = 0
    BY <1>2
  <1>4. /\ Dist(q, r.sqHead, h.rung) = 0
        /\ Dist(q, r.sqHead, r.sqTail) = 0
    <2>1. Dist(q, r.sqHead, h.rung) \in Nat /\ Dist(q, r.sqHead, r.sqTail) \in Nat
      BY <1>1, DistType
    <2> QED
      BY <1>3, <2>1 DEF InStep
  <1>5. h.rung = h.tail
    BY <1>1, <1>3, <1>4, DistInjective
  <1>6. ASSUME busy /\ evs # <<>> => ~IsBell(evs[1], q)
        PROVE  NoBell(q, evs)
    <2> SUFFICES ASSUME NEW i \in DOMAIN evs, IsBell(evs[i], q) PROVE FALSE
      BY DEF NoBell
    <2>1. evs # <<>>
      BY EmptySeq
    <2>2. ~(busy /\ i = 1)
      BY <1>6, <2>1
    <2>3. /\ evs[i].val \in Slots(q)
          /\ Dist(q, r.sqHead, evs[i].val) <= 0 /\ 0 < Dist(q, r.sqHead, evs[i].val)
      BY <1>4, <2>2 DEF Chain
    <2>4. Dist(q, r.sqHead, evs[i].val) \in Nat
      BY <1>1, <2>3, DistType
    <2> QED
      BY <2>3, <2>4
  <1> QED
    BY <1>3, <1>5, <1>6

LEMMA CurMoot ==
  ASSUME NEW q, NEW h, NEW r, NEW c, NEW e, InStep(q, h, r, 0, c)
  PROVE  InStep(q, h, r, 0, e)
  BY DEF InStep

-----------------------------------------------------------------------------
(* The emulator's steps.  Each keeps the invariant.                         *)

LEMMA OnFacts ==
  ASSUME IInv, dev.enabled
  PROVE  /\ drv \in Up \cup {"enabling", "disabling", "shutting"}
         /\ \E d \in Up : Where(d) /\ Stage(d)
         /\ pc # "shut"
         /\ events # <<>> => drv # "enabling"
         /\ bar.csts.shst # "complete"
  BY DEF IInv, OnInv, Where, OffInv, PcInv

LEMMA BellOf ==
  ASSUME TypeInv, events # <<>>, events[1].reg = "sqdb"
  PROVE  Head(events) = events[1] /\ Ringing \in Queue /\ IsBell(events[1], Ringing)
         /\ \A q \in Queue : IsBell(events[1], q) => q = Ringing
  <1>1. events \in Seq(EventType) /\ Head(events) = events[1] /\ events[1] \in EventType
    BY TailEvents DEF TypeInv
  <1> QED
    BY <1>1 DEF EventType, Ringing, IsBell, Queue

(* A doorbell under way belongs to a queue that is in step.                 *)
LEMMA BellJoined ==
  ASSUME TypeInv, events # <<>>, events[1].reg = "sqdb", NEW d, Stage(d)
  PROVE  Joined(Ringing) /\ (Ringing = 1 => BothMade(d))
  <1>1. Ringing \in Queue /\ IsBell(events[1], Ringing)
    BY BellOf
  <1>2. 1 \in DOMAIN events
    BY TailEvents DEF TypeInv
  <1>3. Ringing = 1 => BothMade(d)
    BY <1>1, <1>2 DEF Stage, IoQueue, NoBell
  <1> QED
    BY <1>1, <1>3 DEF Stage, IoQueue, Queue

LEMMA BusyFacts ==
  ASSUME IInv, Busy
  PROVE  /\ dev.enabled /\ events # <<>> /\ Head(events) = events[1]
         /\ IsBell(events[1], Ringing) /\ Ringing \in Queue
         /\ \A q \in Queue : IsBell(events[1], q) => q = Ringing
         /\ drv \in Up \cup {"disabling", "shutting"}
         /\ pc # "shut"
         /\ \E d \in Up : Where(d) /\ Stage(d)
  <1>1. dev.enabled /\ events # <<>> /\ events[1].reg = "sqdb"
    BY DEF IInv, PcInv
  <1> QED
    BY <1>1, OnFacts, BellOf DEF IInv

(* While the controller stays enabled, most of the invariant is about what  *)
(* the driver does.                                                         *)
LEMMA StaysOn ==
  ASSUME IInv, dev.enabled, dev'.enabled, drv' = drv, drv # "enabling", pc' # "shut",
         bar'.csts = bar.csts, Busy' => events' # <<>> /\ events'[1].reg = "sqdb"
  PROVE  OffInv' /\ PcInv'
  <1>1. drv \in Up \cup {"disabling", "shutting"}
    BY OnFacts
  <1>2. OffInv'
    BY <1>1 DEF OffInv, Up, Setup
  <1>3. PcInv'
    BY OnFacts DEF PcInv, IInv
  <1> QED
    BY <1>2, <1>3

LEMMA HostStays ==
  ASSUME HostInv, host' = host, drv' = drv, gen' = gen, bar'.aqa = bar.aqa,
         bar'.asq = bar.asq, bar'.acq = bar.acq
  PROVE  HostInv'
  BY DEF HostInv

LEMMA WhereStays ==
  ASSUME NEW d, Where(d), drv' = drv, events' = events
  PROVE  Where(d)'
  BY DEF Where, Bells, BellsThen

LEMMA AdminOutStays ==
  ASSUME NEW d, AdminOut(d), host'[0].out = host[0].out, host'[1].gen = host[1].gen
  PROVE  AdminOut(d)'
  BY DEF AdminOut, SentArgs

LEMMA IoQueueStays ==
  ASSUME NEW d \in Up, IoQueue(d), dev'.q[1] = dev.q[1], host'[1] = host[1],
         CqMade(d)' <=> CqMade(d), BothMade(d)' <=> BothMade(d),
         BothMade(d) => Joined(1)', NoBell(1, events) => NoBell(1, events')
  PROVE  IoQueue(d)'
  BY DEF IoQueue

LEMMA MadeStays ==
  ASSUME NEW d, AllDone' <=> AllDone
  PROVE  (CqMade(d)' <=> CqMade(d)) /\ (BothMade(d)' <=> BothMade(d))
  BY DEF CqMade, BothMade

LEMMA CreateType ==
  ASSUME NEW u \in QueueState, NEW n \in Nat, NEW g \in Nat
  PROVE  CreateCq(u, n, g, 1) \in QueueState /\ CreateSq(u, n, g) \in QueueState
  <1>1. n + 1 \in Nat
    OBVIOUS
  <1> QED
    BY <1>1 DEF CreateCq, CreateSq, QueueState

LEMMA ExecuteKeeps ==
  ASSUME IInv, Execute
  PROVE  IInv'
  <1>1. PICK d \in Up : Where(d) /\ Stage(d)
    <2>1. pc = "submission"
      BY DEF Execute
    <2> QED
      BY <2>1, BusyFacts DEF Busy
  <1>2. PICK q \in Queue : q = Ringing
    <2>1. pc = "submission"
      BY DEF Execute
    <2> QED
      BY <2>1, BusyFacts DEF Busy
  <1>3. /\ events # <<>> /\ IsBell(events[1], q) /\ Busy /\ pc = "submission"
        /\ dev.enabled /\ drv \in Up \cup {"disabling", "shutting"}
    <2>1. pc = "submission"
      BY DEF Execute
    <2> QED
      BY <1>2, <2>1, BusyFacts DEF Busy
  <1>4. Joined(q) /\ (q = 1 => BothMade(d))
    BY <1>1, <1>2, <1>3, BellJoined DEF IInv, IsBell
  <1>5. PICK r \in QueueState : r = dev.q[q]
    BY DEF IInv, TypeInv
  <1>6. PICK h \in HostType(q) : h = host[q]
    BY DEF IInv, TypeInv
  <1>7. InStep(q, h, r, 0, cur) /\ Chain(q, h, r, events, TRUE)
    BY <1>3, <1>4, <1>5, <1>6 DEF Joined, Completing
  <1>8. h.sq \in [Slots(q) -> Cmd] /\ r.sqHead \in Slots(q)
    <2>1. HostOK(q, h)
      BY <1>6 DEF IInv, HostInv
    <2> QED
      BY <1>7, <2>1 DEF HostOK, InStep
  <1>9. PICK c \in Cmd : c = h.sq[r.sqHead]
    BY <1>8
  <1>10. r.sqHead # r.sqTail
    BY <1>2, <1>5 DEF Execute
  <1>11. PICK popped : popped = [dev.q EXCEPT ![q] = [r EXCEPT !.sqHead = (@ + 1) % r.sqSize]]
    OBVIOUS
  <1>12. dev' = [dev EXCEPT !.q = IF q = 0 THEN AfterAdmin(popped, c) ELSE popped]
    <2>1. popped = [dev.q EXCEPT ![q].sqHead = (@ + 1) % r.sqSize]
      BY <1>5, <1>11
    <2> QED
      BY <1>2, <1>5, <1>6, <1>9, <2>1 DEF Execute
  <1>13. PICK t : /\ IF q = 0 THEN t \in AdminStatus(c) ELSE t \in IoStatus(c)
                  /\ cur' = [NoEntry EXCEPT !.cid = c.cid, !.status = t]
    <2>1. \E u \in IF Ringing = 0
                  THEN AdminStatus(host[Ringing].sq[dev.q[Ringing].sqHead])
                  ELSE IoStatus(host[Ringing].sq[dev.q[Ringing].sqHead]) :
             cur' = [NoEntry EXCEPT !.cid = host[Ringing].sq[dev.q[Ringing].sqHead].cid,
                                    !.status = u]
      BY Zenon DEF Execute
    <2>2. c = host[Ringing].sq[dev.q[Ringing].sqHead]
      BY <1>2, <1>5, <1>6, <1>9
    <2>3. \E u \in IF Ringing = 0 THEN AdminStatus(c) ELSE IoStatus(c) :
             cur' = [NoEntry EXCEPT !.cid = c.cid, !.status = u]
      BY <2>1, <2>2, Zenon
    <2>4. PICK u \in IF Ringing = 0 THEN AdminStatus(c) ELSE IoStatus(c) :
             cur' = [NoEntry EXCEPT !.cid = c.cid, !.status = u]
      BY <2>3, Zenon
    <2>5. IF q = 0 THEN u \in AdminStatus(c) ELSE u \in IoStatus(c)
      BY <1>2, <2>4, Zenon
    <2> QED
      BY <2>4, <2>5, Zenon
  <1>14. PICK j \in DOMAIN h.out :
            /\ c = h.out[j] /\ r.sqHead # h.tail
            /\ j = Len(h.out) <=> Slot(q, r.sqHead + 1) = h.tail
    <2>1. LET m == Dist(q, h.head, r.cqTail)
          IN  /\ r.sqHead # h.tail
              /\ h.sq[r.sqHead] = h.out[m + 1] /\ m + 1 \in DOMAIN h.out
              /\ m + 1 = Len(h.out) <=> Slot(q, r.sqHead + 1) = h.tail
      BY <1>7, <1>10, NextCommand
    <2> QED
      BY <1>9, <2>1
  <1>15. /\ pc' = "complete" /\ events' = events /\ bar' = bar /\ drv' = drv
         /\ host' = host /\ gen' = gen
    BY DEF Execute
  <1>16. /\ AdminOut(d) /\ IoQueue(d) /\ Joined(0)
         /\ \A i \in DOMAIN host[1].out : IsIo(host[1].out[i])
    BY <1>1 DEF Stage, IInv, HostInv
  <1>17. /\ Ringing' = q /\ Busy' /\ Completing(q)' = 1
         /\ \A p \in Queue : p # q => Completing(p)' = 0 /\ Completing(p) = 0
    BY <1>2, <1>3, <1>15 DEF Ringing, Busy, Completing
  (* The answer that the command gets.                                      *)
  <1>18. cur' \in CqEntry /\ Answers(cur', c)
    <2>1. t \in Expected(c) /\ t \in Statuses
      <3>1. CASE q = 0 /\ IsQuery(c)
        BY <1>13, <3>1, QueryAnswer
      <3>2. CASE q = 0 /\ ~IsQuery(c)
        <4>1. d \in Sent /\ c.op = SentOp(d) /\ c.args = SentArgs(d)
          BY <1>5, <1>6, <1>14, <1>16, <3>2 DEF AdminOut
        <4> QED
          BY <1>13, <3>2, <4>1, SentAnswer DEF Statuses
      <3>3. CASE q # 0
        <4>1. q = 1 /\ IsIo(c)
          BY <1>6, <1>14, <1>16, <3>3 DEF Queue
        <4> QED
          BY <1>13, <3>3, <4>1, IoAnswer
      <3> QED
        BY <3>1, <3>2, <3>3
    <2>2. cur' = [cid |-> c.cid, phase |-> 0, status |-> t]
      BY <1>13 DEF NoEntry
    <2>3. c.cid \in Nat
      BY DEF Cmd
    <2> QED
      BY <2>1, <2>2, <2>3 DEF CqEntry, Answers
  <1>19. PICK e \in CqEntry : e = cur'
    BY <1>18
  <1>20. PICK s \in QueueState :
            /\ s = [r EXCEPT !.sqHead = (@ + 1) % r.sqSize]
            /\ InStep(q, h, s, 1, e) /\ Chain(q, h, s, events, TRUE)
            /\ s.sqHead = Slot(q, r.sqHead + 1)
    <2>1. Answers(e, h.sq[r.sqHead])
      BY <1>9, <1>18, <1>19
    <2>2. LET u == [r EXCEPT !.sqHead = (@ + 1) % r.sqSize]
          IN  /\ u \in QueueState /\ InStep(q, h, u, 1, e)
              /\ u = [r EXCEPT !.sqHead = Slot(q, r.sqHead + 1)]
              /\ u.sqHead = Slot(q, r.sqHead + 1)
      BY <1>7, <1>10, <2>1, ExecStep
    <2>3. events \in Seq(EventType)
      BY DEF IInv, TypeInv
    <2>4. Chain(q, h, [r EXCEPT !.sqHead = Slot(q, r.sqHead + 1)], events, TRUE)
      BY <1>3, <1>7, <1>10, <2>3, ExecChain
    <2> QED
      BY <2>2, <2>4
  <1>21. popped \in [Queue -> QueueState] /\ popped[q] = s
         /\ \A p \in Queue : p # q => popped[p] = dev.q[p]
    BY <1>11, <1>20 DEF IInv, TypeInv
  (* An admin command.                                                      *)
  <1>22. ASSUME q = 0
         PROVE  Stage(d)' /\ dev'.enabled
                /\ dev' \in [enabled : BOOLEAN, running : BOOLEAN, csts : CstsType,
                             q : [Queue -> QueueState]]
    <2> DEFINE last == d \in Sent /\ j = Len(h.out)
    <2>1. h = host[0] /\ r = dev.q[0] /\ 1 \in Queue
      BY <1>5, <1>6, <1>22 DEF Queue
    <2>2. /\ ~last => IsQuery(c)
          /\ last => c.op = SentOp(d) /\ c.args = SentArgs(d)
      BY <1>14, <1>16, <2>1 DEF AdminOut
    <2>3. /\ dev'.q[0] = s /\ dev'.enabled /\ dev'.csts = dev.csts
          /\ ~last => dev'.q[1] = dev.q[1]
          /\ last => dev'.q[1] =
               CASE d = "cq_sent" -> CreateCq(dev.q[1], IoDepth - 1, host[1].gen, 1)
                 [] d = "sq_sent" -> CreateSq(dev.q[1], IoDepth - 1, host[1].gen)
                 [] d \in {"sq_del", "cq_del"} -> ResetQueue
          /\ dev' \in [enabled : BOOLEAN, running : BOOLEAN, csts : CstsType,
                       q : [Queue -> QueueState]]
      <3>1. dev'.q = AfterAdmin(popped, c) /\ dev'.enabled = dev.enabled
            /\ dev'.csts = dev.csts /\ dev'.running = dev.running
            /\ dev' = [dev EXCEPT !.q = AfterAdmin(popped, c)]
        BY <1>12, <1>22 DEF IInv, TypeInv
      <3>2. popped[0] = s /\ popped[1] = dev.q[1]
        BY <1>21, <1>22, <2>1
      <3>3. CASE ~last
        BY <1>3, <1>21, <2>2, <3>1, <3>2, <3>3, QueryAnswer DEF IInv, TypeInv
      <3>4. CASE last
        <4> DEFINE new == CASE d = "cq_sent" -> CreateCq(dev.q[1], IoDepth - 1, host[1].gen, 1)
                           [] d = "sq_sent" -> CreateSq(dev.q[1], IoDepth - 1, host[1].gen)
                           [] d \in {"sq_del", "cq_del"} -> ResetQueue
        <4>1. d \in Sent
          BY <3>4
        <4>2. AfterAdmin(popped, c) = [popped EXCEPT ![1] = new]
          <5>1. AfterAdmin(popped, c) =
                  [popped EXCEPT ![1] =
                      CASE d = "cq_sent" -> CreateCq(@, IoDepth - 1, host[1].gen, 1)
                        [] d = "sq_sent" -> CreateSq(@, IoDepth - 1, host[1].gen)
                        [] d \in {"sq_del", "cq_del"} -> ResetQueue]
            BY <2>2, <3>4, SentEffect
          <5> QED
            BY <3>2, <5>1
        <4>3. new \in QueueState
          <5>1. dev.q[1] \in QueueState /\ host[1].gen \in Nat /\ IoDepth - 1 \in Nat
            BY <2>1, HostFields, NvmeAssumption DEF IInv, TypeInv
          <5>2. ResetQueue \in QueueState
            BY DEF ResetQueue, Zeroed, QueueState
          <5>3. \A u \in QueueState, n, g \in Nat :
                   CreateCq(u, n, g, 1) \in QueueState /\ CreateSq(u, n, g) \in QueueState
            BY CreateType
          <5>4. /\ CreateCq(dev.q[1], IoDepth - 1, host[1].gen, 1) \in QueueState
                /\ CreateSq(dev.q[1], IoDepth - 1, host[1].gen) \in QueueState
            BY <5>1, <5>3
          <5> QED
            BY <4>1, <5>2, <5>3, <5>4 DEF Sent
        <4> HIDE DEF new
        <4>4. AfterAdmin(popped, c)[1] = new /\ AfterAdmin(popped, c)[0] = s
              /\ AfterAdmin(popped, c) \in [Queue -> QueueState]
          BY <1>21, <2>1, <3>2, <4>2, <4>3
        <4>5. dev'.q[1] = new /\ dev'.q[0] = s
          BY <3>1, <4>4
        <4>6. dev' \in [enabled : BOOLEAN, running : BOOLEAN, csts : CstsType,
                        q : [Queue -> QueueState]]
          BY <3>1, <4>4 DEF IInv, TypeInv
        <4> QED
          BY <1>3, <3>1, <3>4, <4>5, <4>6 DEF new
      <3> QED
        BY <3>3, <3>4
    <2>4. ~AllDone /\ (AllDone' <=> j = Len(h.out))
      BY <1>14, <1>15, <1>20, <2>1, <2>3 DEF AllDone
    <2>5. Joined(0)'
      BY <1>15, <1>17, <1>19, <1>20, <1>22, <2>1, <2>3 DEF Joined
    <2>6. AdminOut(d)'
      BY <1>15, <1>16, AdminOutStays
    <2>7. BothMade(d) => InStep(1, host[1], dev.q[1], 0, cur)
                         /\ Chain(1, host[1], dev.q[1], events, TRUE)
      <3>1. Completing(1) = 0 /\ Busy = TRUE
        BY <1>3, <1>17, <1>22, <2>1
      <3>2. BothMade(d) => Joined(1)
        BY <1>16 DEF IoQueue
      <3> QED
        BY <3>1, <3>2 DEF Joined
    <2>8. IoQueue(d)'
      <3>1. CASE ~last
        <4>1. (CqMade(d)' <=> CqMade(d)) /\ (BothMade(d)' <=> BothMade(d))
          <5>1. CASE d \in Sent
            BY <2>4, <3>1, <5>1, MadeStays
          <5>2. CASE d \notin Sent
            BY <5>2 DEF Sent, CqMade, BothMade
          <5> QED
            BY <5>1, <5>2
        <4>2. BothMade(d) => Joined(1)'
          <5>1. Completing(1)' = 0 /\ Busy' = TRUE
            BY <1>17, <1>22, <2>1
          <5>2. BothMade(d) => InStep(1, host[1], dev.q[1], 0, e)
            BY <2>7, CurMoot
          <5> QED
            BY <1>15, <1>19, <2>3, <2>7, <3>1, <5>1, <5>2 DEF Joined
        <4> QED
          BY <1>15, <1>16, <2>3, <3>1, <4>1, <4>2, IoQueueStays
      <3>2. CASE last /\ d = "cq_sent"
        BY <1>15, <1>16, <2>3, <2>4, <3>2 DEF IoQueue, CqMade, BothMade
      <3>3. CASE last /\ d = "sq_sent"
        <4>1. CqMade(d) /\ ~BothMade(d) /\ ~CqMade(d)' /\ BothMade(d)'
          BY <2>4, <3>3 DEF CqMade, BothMade
        <4>2. /\ Pristine(1, host[1]) /\ NoBell(1, events)
              /\ dev.q[1] = CreateCq(ResetQueue, IoDepth - 1, host[1].gen, 1)
          BY <1>16, <4>1 DEF IoQueue
        <4>3. dev'.q[1] = CreateSq(dev.q[1], IoDepth - 1, host[1].gen)
          BY <2>3, <3>3
        <4>4. PICK u : u = dev'.q[1]
          OBVIOUS
        <4>5. /\ u.sqAddr = host[1].gen /\ u.cqAddr = host[1].gen
              /\ u.sqSize = Depth(1) /\ u.cqSize = Depth(1)
              /\ u.sqHead = 0 /\ u.sqTail = 0 /\ u.cqTail = 0 /\ u.phase = 1
          BY <4>2, <4>3, <4>4, NvmeAssumption
             DEF CreateCq, CreateSq, ResetQueue, Zeroed, Depth
        <4>6. PICK g \in HostType(1) : g = host[1] /\ HostOK(1, g)
          BY <2>1 DEF IInv, TypeInv, HostInv
        <4>7. InStep(1, g, u, 0, e) /\ Chain(1, g, u, events, TRUE)
          BY <2>1, <4>2, <4>5, <4>6, PristineInStep
        <4>8. Joined(1)'
          BY <1>15, <1>17, <1>19, <1>22, <2>1, <4>4, <4>6, <4>7 DEF Joined
        <4> QED
          BY <1>15, <1>16, <3>3, <4>1, <4>8 DEF IoQueue
      <3>4. CASE last /\ d = "sq_del"
        <4>1. ~CqMade(d)' /\ ~BothMade(d)' /\ BothMade(d) /\ ~CqMade(d)
          BY <2>4, <3>4 DEF CqMade, BothMade
        <4>2. NoBell(1, events)
          <5>1. host[1] \in HostType(1) /\ host[1].out = <<>> /\ events \in Seq(EventType)
            BY <1>16, <2>1, <3>4 DEF IInv, TypeInv, IoQueue
          <5>2. ~IsBell(events[1], 1)
            BY <1>3, <1>22 DEF IsBell
          <5> QED
            BY <2>1, <2>7, <4>1, <5>1, <5>2, EmptyInStep
        <4> QED
          BY <1>15, <1>16, <2>3, <3>4, <4>1, <4>2 DEF IoQueue
      <3>5. CASE last /\ d = "cq_del"
        <4>1. ~CqMade(d)' /\ ~BothMade(d)' /\ ~BothMade(d) /\ ~CqMade(d)
          BY <2>4, <3>5 DEF CqMade, BothMade
        <4> QED
          BY <1>15, <1>16, <2>3, <3>5, <4>1 DEF IoQueue
      <3> QED
        BY <3>1, <3>2, <3>3, <3>4, <3>5 DEF Sent
    <2> QED
      BY <2>3, <2>5, <2>6, <2>8 DEF Stage
  (* An I/O command.                                                        *)
  <1>23. ASSUME q # 0
         PROVE  Stage(d)' /\ dev'.enabled
                /\ dev' \in [enabled : BOOLEAN, running : BOOLEAN, csts : CstsType,
                             q : [Queue -> QueueState]]
    <2>1. q = 1 /\ h = host[1] /\ r = dev.q[1] /\ 0 \in Queue /\ BothMade(d)
      BY <1>4, <1>5, <1>6, <1>23 DEF Queue
    <2>2. dev' = [dev EXCEPT !.q = popped]
      BY <1>12, <1>23
    <2>3. /\ dev'.q[1] = s /\ dev'.q[0] = dev.q[0] /\ dev'.enabled
          /\ dev' \in [enabled : BOOLEAN, running : BOOLEAN, csts : CstsType,
                       q : [Queue -> QueueState]]
      BY <1>3, <1>21, <2>1, <2>2 DEF IInv, TypeInv
    <2>4. Joined(1)'
      BY <1>15, <1>17, <1>19, <1>20, <2>1, <2>3 DEF Joined
    <2>5. Joined(0)'
      <3>1. Completing(0) = 0 /\ Busy = TRUE /\ Completing(0)' = 0 /\ Busy' = TRUE
        BY <1>3, <1>17, <2>1
      <3>2. InStep(0, host[0], dev.q[0], 0, e) /\ Chain(0, host[0], dev.q[0], events, TRUE)
        BY <1>16, <3>1, CurMoot DEF Joined
      <3> QED
        BY <1>15, <1>19, <2>3, <3>1, <3>2 DEF Joined
    <2>6. AllDone' <=> AllDone
      BY <1>15, <2>3 DEF AllDone
    <2>7. (CqMade(d)' <=> CqMade(d)) /\ (BothMade(d)' <=> BothMade(d))
      BY <2>6, MadeStays
    <2>8. ~CqMade(d) /\ d # "cq_sent"
      BY <2>1 DEF BothMade, CqMade
    <2>9. IoQueue(d)'
      BY <1>15, <1>16, <2>1, <2>4, <2>7, <2>8 DEF IoQueue
    <2>10. AdminOut(d)'
      BY <1>15, <1>16, AdminOutStays
    <2> QED
      BY <2>3, <2>5, <2>9, <2>10 DEF Stage
  <1>24. Stage(d)' /\ dev'.enabled
         /\ dev' \in [enabled : BOOLEAN, running : BOOLEAN, csts : CstsType,
                      q : [Queue -> QueueState]]
    BY <1>22, <1>23
  <1>25. TypeInv'
    BY <1>15, <1>18, <1>24 DEF IInv, TypeInv
  <1>26. OnInv'
    <2>1. Where(d)'
      BY <1>1, <1>15, WhereStays
    <2> QED
      BY <1>24, <2>1 DEF OnInv
  <1>27. OffInv' /\ PcInv'
    <2>1. pc' # "shut" /\ events' # <<>> /\ events'[1].reg = "sqdb" /\ drv # "enabling"
      BY <1>3, <1>15 DEF IsBell, Up
    <2> QED
      BY <1>3, <1>15, <1>24, <2>1, StaysOn
  <1>28. HostInv'
    BY <1>15, HostStays DEF IInv
  <1> QED
    BY <1>25, <1>26, <1>27, <1>28 DEF IInv

(* A stage stays when neither what is made nor the commands outstanding     *)
(* change.                                                                  *)
LEMMA StageStays ==
  ASSUME NEW d \in Up, Stage(d), Joined(0)', AdminOut(d)',
         CqMade(d)' <=> CqMade(d), BothMade(d)' <=> BothMade(d),
         BothMade(d) => Joined(1)',
         ~BothMade(d) => /\ dev'.q[1] = dev.q[1]
                         /\ NoBell(1, events) => NoBell(1, events')
                         /\ Pristine(1, host[1]) => Pristine(1, host'[1]),
         host'[1].gen = host[1].gen,
         d # "io" /\ host[1].out = <<>> /\ host[1].rung = host[1].tail
            => host'[1].out = <<>> /\ host'[1].rung = host'[1].tail
  PROVE  Stage(d)'
  <1>1. IoQueue(d)
    BY DEF Stage
  <1>2. CqMade(d) \/ d = "cq_sent" => ~BothMade(d)
    BY DEF CqMade, BothMade
  <1>3. IoQueue(d)'
    BY <1>1, <1>2 DEF IoQueue
  <1> QED
    BY <1>3 DEF Stage

(* A queue that the step does not touch stays in step.                      *)
LEMMA JoinedStays ==
  ASSUME NEW q \in Queue, Joined(q), host'[q] = host[q], dev'.q[q] = dev.q[q],
         events' = events, Busy' = Busy, Completing(q)' = Completing(q),
         Completing(q) = 0 \/ cur' = cur
  PROVE  Joined(q)'
  <1>1. InStep(q, host[q], dev.q[q], Completing(q), cur')
    <2>1. CASE Completing(q) = 0
      BY <2>1, CurMoot DEF Joined
    <2>2. CASE cur' = cur
      BY <2>2 DEF Joined
    <2> QED
      BY <2>1, <2>2
  <1> QED
    BY <1>1 DEF Joined

(* Steps that the invariant does not see.                                   *)
LEMMA FrameKeeps ==
  ASSUME IInv, UNCHANGED <<cur, events, drv, host, gen>>,
         dev'.enabled = dev.enabled, dev'.q = dev.q,
         dev' \in [enabled : BOOLEAN, running : BOOLEAN, csts : CstsType,
                   q : [Queue -> QueueState]],
         bar' \in [cap : BOOLEAN, csts : CstsType, aqa : Nat \X Nat, asq : Nat, acq : Nat],
         bar'.csts = bar.csts, bar'.aqa = bar.aqa, bar'.asq = bar.asq, bar'.acq = bar.acq,
         pc' \in {"closed", "registered", "ready", "poll", "submission", "exited"},
         pc # "shut", pc # "complete", Busy' = Busy
  PROVE  IInv'
  <1>1. TypeInv'
    BY DEF IInv, TypeInv
  <1>2. HostInv'
    BY HostStays DEF IInv
  <1>3. OffInv'
    BY DEF IInv, OffInv, Blank, Written, Script
  <1>4. PcInv'
    BY DEF IInv, PcInv
  <1>5. OnInv'
    <2> SUFFICES ASSUME dev.enabled PROVE \E d \in Up : Where(d)' /\ Stage(d)'
      BY DEF OnInv
    <2>1. PICK d \in Up : Where(d) /\ Stage(d)
      BY OnFacts
    <2>2. \A q \in Queue : Completing(q) = 0 /\ Completing(q)' = 0
      BY DEF Completing
    <2>3. \A q \in Queue : Joined(q) => Joined(q)'
      BY <2>2, JoinedStays
    <2>4. AllDone' <=> AllDone
      BY DEF AllDone
    <2>5. AdminOut(d)'
      BY <2>1, AdminOutStays DEF Stage
    <2>6. Stage(d)'
      <3>1. (CqMade(d)' <=> CqMade(d)) /\ (BothMade(d)' <=> BothMade(d))
        BY <2>4, MadeStays
      <3>2. Joined(0)' /\ (BothMade(d) => Joined(1)')
        BY <2>1, <2>3 DEF Stage, IoQueue, Queue
      <3> QED
        BY <2>1, <2>5, <3>1, <3>2, StageStays
    <2> QED
      BY <2>1, <2>6, WhereStays
  <1> QED
    BY <1>1, <1>2, <1>3, <1>4, <1>5 DEF IInv

LEMMA StartUpKeeps ==
  ASSUME IInv, Register \/ AllocResources \/ Start \/ Exit \/ InjectIrq
  PROVE  IInv'
  <1>1. TypeInv
    BY DEF IInv
  <1>2. CASE Register
    BY <1>1, <1>2, FrameKeeps DEF Register, Busy, TypeInv
  <1>3. CASE AllocResources
    <2>1. /\ bar' \in [cap : BOOLEAN, csts : CstsType, aqa : Nat \X Nat, asq : Nat, acq : Nat]
          /\ bar'.csts = bar.csts /\ bar'.aqa = bar.aqa
          /\ bar'.asq = bar.asq /\ bar'.acq = bar.acq
      BY <1>1, <1>3 DEF AllocResources, TypeInv
    <2>2. /\ UNCHANGED <<dev, cur, events, drv, host, gen>>
          /\ pc = "registered" /\ pc' \in {"ready", "exited"}
      BY <1>3 DEF AllocResources
    <2>3. Busy' = Busy /\ dev' \in [enabled : BOOLEAN, running : BOOLEAN, csts : CstsType,
                                    q : [Queue -> QueueState]]
      BY <1>1, <2>2 DEF Busy, TypeInv
    <2> QED
      BY <2>1, <2>2, <2>3, FrameKeeps
  <1>4. CASE Start
    <2>1. /\ dev' \in [enabled : BOOLEAN, running : BOOLEAN, csts : CstsType,
                       q : [Queue -> QueueState]]
          /\ dev'.enabled = dev.enabled /\ dev'.q = dev.q
      BY <1>1, <1>4 DEF Start, TypeInv
    <2>2. UNCHANGED <<cur, events, bar, drv, host, gen>> /\ pc = "ready" /\ pc' = "poll"
      BY <1>4 DEF Start
    <2>3. Busy' = Busy
      BY <2>2 DEF Busy
    <2> QED
      BY <1>1, <2>1, <2>2, <2>3, FrameKeeps DEF TypeInv
  <1>5. CASE Exit
    BY <1>1, <1>5, FrameKeeps DEF Exit, Busy, TypeInv
  <1>6. CASE InjectIrq
    BY <1>1, <1>6, FrameKeeps DEF InjectIrq, Busy, TypeInv
  <1> QED
    BY <1>2, <1>3, <1>4, <1>5, <1>6

LEMMA PostKeeps ==
  ASSUME IInv, PostCompletion
  PROVE  IInv'
  <1>1. pc = "complete" /\ pc' = "interrupt" /\ Busy /\ Busy' /\ cur' = NoEntry
        /\ UNCHANGED <<events, bar, drv, gen>>
    BY DEF PostCompletion, Busy
  <1>2. PICK d \in Up : Where(d) /\ Stage(d)
    BY <1>1, BusyFacts
  <1>3. PICK q \in Queue : q = Ringing
    BY <1>1, BusyFacts
  <1>4. /\ events # <<>> /\ events[1].reg = "sqdb" /\ dev.enabled
        /\ drv \in Up \cup {"disabling", "shutting"}
    BY <1>1, BusyFacts DEF IsBell
  <1>5. Joined(q) /\ (q = 1 => BothMade(d))
    BY <1>2, <1>3, <1>4, BellJoined DEF IInv
  <1>6. PICK r \in QueueState : r = dev.q[q]
    BY DEF IInv, TypeInv
  <1>7. PICK h \in HostType(q) : h = host[q]
    BY DEF IInv, TypeInv
  <1>8. PICK c \in CqEntry : c = cur
    BY DEF IInv, TypeInv
  <1>9. Completing(q) = 1 /\ \A p \in Queue : Completing(p)' = 0 /\ (p # q => Completing(p) = 0)
    BY <1>1, <1>3 DEF Completing
  <1>10. Busy = TRUE /\ Busy' = TRUE
    BY <1>1
  <1>11. InStep(q, h, r, 1, c) /\ Chain(q, h, r, events, TRUE) /\ HostOK(q, h)
    BY <1>5, <1>6, <1>7, <1>8, <1>9, <1>10 DEF Joined, IInv, HostInv
  <1>12. PICK g : g = [h EXCEPT !.cq[r.cqTail] = [c EXCEPT !.phase = r.phase]]
    OBVIOUS
  <1>13. PICK s : s = AdvanceCq(r)
    OBVIOUS
  <1>14. /\ g \in HostType(q) /\ s \in QueueState
         /\ HostOK(q, g) /\ InStep(q, g, s, 0, cur')
         /\ g.out = h.out /\ g.tail = h.tail /\ g.rung = h.rung /\ g.gen = h.gen
         /\ s.sqHead = r.sqHead /\ s.sqTail = r.sqTail
    BY <1>11, <1>12, <1>13, PostStep
  <1>15. Chain(q, g, s, events, TRUE)
    BY <1>11, <1>14, ChainSame
  <1>16. Mapped(q, r.cqAddr)
    BY <1>7, <1>11 DEF InStep, Mapped
  <1>17. host' = [host EXCEPT ![q] = g]
    <2>1. host' = [host EXCEPT ![q].cq[r.cqTail] = [c EXCEPT !.phase = r.phase]]
      BY <1>3, <1>6, <1>8, <1>16 DEF PostCompletion
    <2> QED
      BY <1>7, <1>12, <2>1
  <1>18. dev' = [dev EXCEPT !.q[q] = s]
    <2>1. dev' = [dev EXCEPT !.q[q] = AdvanceCq(@)]
      BY <1>3 DEF PostCompletion
    <2> QED
      BY <1>6, <1>13, <2>1
  <1>19. /\ host'[q] = g /\ \A p \in Queue : p # q => host'[p] = host[p]
         /\ DOMAIN host' = Queue
    BY <1>17 DEF IInv, TypeInv
  <1>20. /\ dev'.q[q] = s /\ \A p \in Queue : p # q => dev'.q[p] = dev.q[p]
         /\ dev'.enabled
         /\ dev' \in [enabled : BOOLEAN, running : BOOLEAN, csts : CstsType,
                      q : [Queue -> QueueState]]
    BY <1>4, <1>14, <1>18 DEF IInv, TypeInv
  <1>21. \A p \in Queue :
            /\ host'[p] \in HostType(p) /\ HostOK(p, host'[p])
            /\ host'[p].out = host[p].out /\ host'[p].gen = host[p].gen
            /\ host'[p].tail = host[p].tail /\ host'[p].rung = host[p].rung
            /\ dev'.q[p].sqHead = dev.q[p].sqHead
    BY <1>6, <1>7, <1>14, <1>19, <1>20 DEF IInv, TypeInv, HostInv
  <1>22. \A p \in Queue : Joined(p) => Joined(p)'
    <2>1. Joined(q)'
      BY <1>1, <1>9, <1>10, <1>14, <1>15, <1>19, <1>20 DEF Joined
    <2>2. \A p \in Queue : p # q /\ Joined(p) => Joined(p)'
      BY <1>1, <1>9, <1>10, <1>19, <1>20, JoinedStays
    <2> QED
      BY <2>1, <2>2
  <1>23. 0 \in Queue /\ 1 \in Queue
    BY DEF Queue
  <1>24. Stage(d)'
    <2>1. AllDone' <=> AllDone
      BY <1>21, <1>23 DEF AllDone
    <2>2. (CqMade(d)' <=> CqMade(d)) /\ (BothMade(d)' <=> BothMade(d))
      BY <2>1, MadeStays
    <2>3. AdminOut(d)'
      BY <1>2, <1>21, <1>23, AdminOutStays DEF Stage
    <2>4. Joined(0)' /\ (BothMade(d) => Joined(1)')
      BY <1>2, <1>22, <1>23 DEF Stage, IoQueue
    <2>5. ~BothMade(d) => dev'.q[1] = dev.q[1] /\ host'[1] = host[1]
      BY <1>5, <1>19, <1>20, <1>23
    <2> QED
      BY <1>1, <1>2, <1>21, <1>23, <2>2, <2>3, <2>4, <2>5, StageStays
  <1>25. TypeInv'
    <2>1. cur' \in CqEntry
      BY <1>1 DEF NoEntry, CqEntry, Statuses
    <2> QED
      BY <1>1, <1>19, <1>20, <1>21, <2>1 DEF IInv, TypeInv
  <1>26. HostInv'
    BY <1>1, <1>4, <1>21, <1>23 DEF IInv, HostInv, Up
  <1>27. OnInv'
    BY <1>1, <1>2, <1>24, WhereStays DEF OnInv
  <1>28. OffInv' /\ PcInv'
    <2>1. drv # "enabling"
      BY <1>4 DEF Up
    <2> QED
      BY <1>1, <1>4, <1>20, <2>1, StaysOn
  <1> QED
    BY <1>25, <1>26, <1>27, <1>28 DEF IInv

(* The event that is over was not the last of a reset.                      *)
LEMMA WhereTail ==
  ASSUME TypeInv, NEW d, Where(d), events # <<>>, events[1].reg = "sqdb",
         drv' = drv, events' = Tail(events)
  PROVE  Where(d)'
  <1>1. /\ Len(events') = Len(events) - 1 /\ Len(events) \in Nat /\ Len(events) >= 1
        /\ DOMAIN events = 1 .. Len(events) /\ DOMAIN events' = 1 .. Len(events) - 1
        /\ \A i \in DOMAIN events' : i + 1 \in DOMAIN events /\ events'[i] = events[i + 1]
    BY TailEvents DEF TypeInv
  <1>2. Bells => Bells'
    BY <1>1 DEF Bells
  <1>3. ASSUME NEW e, e.reg = "cc", BellsThen(e) PROVE BellsThen(e)'
    <2>1. Len(events) # 1 /\ events[Len(events)] = e
          /\ \A i \in 1 .. Len(events) - 1 : events[i].reg = "sqdb"
      BY <1>3 DEF BellsThen
    <2>2. Len(events') \in DOMAIN events' /\ Len(events') + 1 = Len(events)
      BY <1>1, <2>1
    <2>3. events'[Len(events')] = e /\ events' # <<>>
      <3>1. events'[Len(events')] = events[Len(events') + 1]
        BY <1>1, <2>2
      <3>2. events' # <<>>
        <4>1. Len(events') # 0
          BY <1>1, <2>1
        <4>2. Len(<<>>) = 0
          OBVIOUS
        <4> QED
          BY <4>1, <4>2, Zenon
      <3> QED
        BY <2>1, <2>2, <3>1, <3>2
    <2>4. \A i \in 1 .. Len(events') - 1 : events'[i].reg = "sqdb"
      BY <1>1, <2>1
    <2> QED
      BY <2>3, <2>4 DEF BellsThen
  <1>4. Event("cc", 0, "disable").reg = "cc" /\ Event("cc", 0, "shutdown").reg = "cc"
    BY DEF Event
  <1> QED
    BY <1>2, <1>3, <1>4 DEF Where

LEMMA EndKeeps ==
  ASSUME IInv, EndSubmission
  PROVE  IInv'
  <1>1. /\ pc = "submission" /\ pc' = "poll" /\ Busy /\ ~Busy' /\ events' = Tail(events)
        /\ UNCHANGED <<dev, cur, bar, drv, host, gen>>
    BY DEF EndSubmission, Busy
  <1>2. PICK d \in Up : Where(d) /\ Stage(d)
    BY <1>1, BusyFacts
  <1>3. /\ events # <<>> /\ events[1].reg = "sqdb" /\ dev.enabled
        /\ drv \in Up \cup {"disabling", "shutting"} /\ events \in Seq(EventType)
    BY <1>1, BusyFacts DEF IsBell, IInv, TypeInv
  <1>4. \A q \in Queue : Joined(q) => Joined(q)'
    <2>1. \A q \in Queue : Completing(q) = 0 /\ Completing(q)' = 0
      BY <1>1 DEF Completing
    <2>2. Busy = TRUE /\ Busy' = FALSE
      BY <1>1
    <2> QED
      BY <1>1, <1>3, <2>1, <2>2, ChainTail DEF Joined
  <1>5. 0 \in Queue /\ 1 \in Queue
    BY DEF Queue
  <1>6. Stage(d)'
    <2>1. AllDone' <=> AllDone
      BY <1>1 DEF AllDone
    <2>2. (CqMade(d)' <=> CqMade(d)) /\ (BothMade(d)' <=> BothMade(d))
      BY <2>1, MadeStays
    <2>3. AdminOut(d)'
      BY <1>1, <1>2, AdminOutStays DEF Stage
    <2>4. Joined(0)' /\ (BothMade(d) => Joined(1)')
      BY <1>2, <1>4, <1>5 DEF Stage, IoQueue
    <2>5. NoBell(1, events) => NoBell(1, events')
      BY <1>1, <1>3, NoBellTail
    <2> QED
      BY <1>1, <1>2, <2>2, <2>3, <2>4, <2>5, StageStays
  <1>7. OnInv'
    BY <1>1, <1>2, <1>3, <1>6, WhereTail DEF OnInv, IInv
  <1>8. OffInv' /\ PcInv'
    <2>1. drv # "enabling"
      BY <1>3 DEF Up
    <2> QED
      BY <1>1, <1>3, <2>1, StaysOn
  <1>9. HostInv'
    BY <1>1, HostStays DEF IInv
  <1>10. TypeInv'
    BY <1>1, <1>3, TailEvents DEF IInv, TypeInv
  <1> QED
    BY <1>7, <1>8, <1>9, <1>10 DEF IInv

LEMMA SetupStates ==
  /\ Setup \cap Up = {}
  /\ "shutting" \notin Setup /\ "unbound" \notin Setup /\ "down" \notin Setup
  /\ drv \in Setup => Written \in {1, 4, 5}
  /\ drv \in Setup /\ Written = 5 => drv = "enabling"
  /\ drv = "enabling" => Written = 5
  /\ drv \in Setup /\ Written > 1 => drv \in {"programmed", "enabling"}
  BY DEF Setup, Up, Written

(* While the controller is disabled, the emulator takes the rest of what    *)
(* brings it up, in order.                                                  *)
LEMMA OffEvents ==
  ASSUME IInv, ~dev.enabled, events # <<>>, pc = "poll"
  PROVE  /\ drv \in Setup /\ Len(events) \in 1 .. Written
         /\ Head(events) = Script((Written - Len(events)) + 1)
         /\ Len(events) < Written => Blank
         /\ Len(Tail(events)) = Len(events) - 1
         /\ \A i \in DOMAIN Tail(events) :
               Tail(events)[i] = Script((Written - Len(Tail(events))) + i)
  <1>1. drv \in Setup
    BY DEF IInv, OffInv, PcInv, TypeInv, DrvStates, Setup
  <1>2. /\ Len(Tail(events)) = Len(events) - 1 /\ Len(events) \in Nat /\ Len(events) >= 1
        /\ Head(events) = events[1] /\ 1 \in DOMAIN events
        /\ DOMAIN Tail(events) = 1 .. Len(events) - 1
        /\ \A i \in DOMAIN Tail(events) : i + 1 \in DOMAIN events /\ Tail(events)[i] = events[i + 1]
    BY TailEvents DEF IInv, TypeInv
  <1>3. Written \in {1, 4, 5}
    BY <1>1, SetupStates
  <1>4. /\ Len(events) <= Written
        /\ \A i \in DOMAIN events : events[i] = Script((Written - Len(events)) + i)
        /\ Len(events) < Written => Blank
    BY <1>1 DEF IInv, OffInv
  <1>5. ASSUME NEW i \in DOMAIN Tail(events)
        PROVE  Tail(events)[i] = Script((Written - Len(Tail(events))) + i)
    <2>1. Tail(events)[i] = Script((Written - Len(events)) + (i + 1)) /\ i \in Nat
      BY <1>2, <1>4
    <2>2. (Written - Len(events)) + (i + 1) = (Written - Len(Tail(events))) + i
      BY <1>2, <1>3, <2>1
    <2> QED
      BY <2>1, <2>2
  <1> QED
    BY <1>1, <1>2, <1>3, <1>4, <1>5

LEMMA ScriptFields ==
  /\ Script(1).reg = "cc" /\ Script(1).val = "disable"
  /\ Script(2).reg = "aqa" /\ Script(2).val = <<AdminDepth - 1, AdminDepth - 1>>
  /\ Script(3).reg = "asq" /\ Script(3).val = gen
  /\ Script(4).reg = "acq" /\ Script(4).val = gen
  /\ Script(5).reg = "cc" /\ Script(5).val = "enable"
  BY DEF Script, Event

(* Any of these but the last leaves the controller disabled.                *)
LEMMA OffStep ==
  ASSUME IInv, ~dev.enabled, events # <<>>, pc = "poll", pc' = "poll",
         Head(events) # Script(5), events' = Tail(events),
         UNCHANGED <<cur, drv, host, gen>>, ~dev'.enabled, Blank',
         dev' \in [enabled : BOOLEAN, running : BOOLEAN, csts : CstsType,
                   q : [Queue -> QueueState]],
         bar' \in [cap : BOOLEAN, csts : CstsType, aqa : Nat \X Nat, asq : Nat, acq : Nat],
         bar'.csts.rdy = 0, bar'.csts.shst # "complete",
         drv \in {"programmed", "enabling"} =>
            bar'.aqa = bar.aqa /\ bar'.asq = bar.asq /\ bar'.acq = bar.acq
  PROVE  IInv'
  <1>1. /\ drv \in Setup /\ Len(events) \in 1 .. Written
        /\ Head(events) = Script((Written - Len(events)) + 1)
        /\ Len(events') = Len(events) - 1
        /\ \A i \in DOMAIN events' : events'[i] = Script((Written - Len(events')) + i)
    BY OffEvents
  <1>2. Written \in {1, 4, 5} /\ Written' = Written /\ (drv = "enabling" => Written = 5)
    BY SetupStates, <1>1 DEF Written
  <1>3. TypeInv'
    BY TailEvents DEF IInv, TypeInv
  <1>4. HostInv'
    BY DEF IInv, HostInv
  <1>5. drv = "enabling" => events' # <<>>
    <2> SUFFICES ASSUME drv = "enabling", events' = <<>> PROVE FALSE
      OBVIOUS
    <2>1. PICK n \in Nat : n = Len(events)
      BY TailEvents DEF IInv, TypeInv
    <2>2. n - 1 = 0
      BY <1>1, <2>1
    <2>3. n = 1 /\ (5 - 1) + 1 = 5
      BY <2>2
    <2>4. Written = 5
      BY <1>2
    <2>5. Head(events) = Script((5 - 1) + 1)
      BY <1>1, <2>1, <2>3, <2>4, Zenon
    <2> QED
      BY <2>3, <2>5, Zenon
  <1>6. OffInv'
    <2>1. drv' \in Setup /\ drv' \notin {"unbound", "down", "shutting"}
      BY <1>1, SetupStates
    <2>2. Len(events') <= Written'
      BY <1>1, <1>2
    <2>4. \A i \in DOMAIN events' : events'[i] = Script((Written - Len(events)) + i)'
      BY <1>1, <1>2 DEF Script
    <2> QED
      BY <1>5, <2>1, <2>2, <2>4 DEF OffInv
  <1>7. PcInv'
    BY <1>1, SetupStates DEF PcInv, Busy
  <1>8. OnInv'
    BY DEF OnInv
  <1> QED
    BY <1>3, <1>4, <1>6, <1>7, <1>8 DEF IInv

LEMMA DevTypes ==
  ASSUME TypeInv
  PROVE  /\ dev.enabled \in BOOLEAN /\ dev.running \in BOOLEAN /\ dev.csts \in CstsType
         /\ dev.q \in [Queue -> QueueState] /\ dev.q[0] \in QueueState /\ dev.q[1] \in QueueState
         /\ bar.cap \in BOOLEAN /\ bar.csts \in CstsType /\ bar.aqa \in Nat \X Nat
         /\ bar.asq \in Nat /\ bar.acq \in Nat
         /\ ResetQueue \in QueueState /\ AllReset \in [Queue -> QueueState]
  BY DEF TypeInv, ResetQueue, Zeroed, AllReset, QueueState, Queue

(* What nvme_disable() and nvme_shutdown() leave.                           *)
LEMMA Cleared ==
  ASSUME TypeInv, NEW v \in {"normal", "progress"},
         SetCsts(Csts(0, v), [dev EXCEPT !.enabled = FALSE, !.q = AllReset])
  PROVE  /\ ~dev'.enabled /\ Blank'
         /\ dev' \in [enabled : BOOLEAN, running : BOOLEAN, csts : CstsType,
                      q : [Queue -> QueueState]]
         /\ bar' \in [cap : BOOLEAN, csts : CstsType, aqa : Nat \X Nat, asq : Nat, acq : Nat]
         /\ bar'.csts.rdy = 0 /\ bar'.csts.shst = v
         /\ bar'.aqa = bar.aqa /\ bar'.asq = bar.asq /\ bar'.acq = bar.acq
  <1>1. PICK c \in CstsType : c = Csts(0, v) /\ c.rdy = 0 /\ c.shst = v
    BY DEF Csts, CstsType
  <1>2. dev' = [[dev EXCEPT !.enabled = FALSE, !.q = AllReset] EXCEPT !.csts = c]
        /\ bar' = [bar EXCEPT !.csts = c]
    BY <1>1 DEF SetCsts
  <1>3. /\ ~dev'.enabled /\ dev'.q = AllReset
        /\ dev' \in [enabled : BOOLEAN, running : BOOLEAN, csts : CstsType,
                     q : [Queue -> QueueState]]
    BY <1>2, DevTypes DEF TypeInv
  <1>4. /\ bar' \in [cap : BOOLEAN, csts : CstsType, aqa : Nat \X Nat, asq : Nat, acq : Nat]
        /\ bar'.csts = c
        /\ bar'.aqa = bar.aqa /\ bar'.asq = bar.asq /\ bar'.acq = bar.acq
    BY <1>2 DEF TypeInv
  <1>5. Blank'
    <2>1. dev'.q[0] = ResetQueue /\ dev'.q[1] = ResetQueue
      BY <1>3 DEF AllReset, Queue
    <2>2. ResetQueue.sqHead = 0 /\ ResetQueue.sqTail = 0 /\ ResetQueue.cqTail = 0
          /\ ResetQueue.phase = 1
      BY DEF ResetQueue, Zeroed
    <2> QED
      BY <2>1, <2>2 DEF Blank
  <1> QED
    BY <1>1, <1>3, <1>4, <1>5

(* A write to CC that the emulator finds while the controller is enabled is *)
(* the driver's last.                                                       *)
LEMMA LastWrite ==
  ASSUME IInv, dev.enabled, events # <<>>, events[1].reg # "sqdb"
  PROVE  /\ Len(events) = 1 /\ Head(events) = events[1] /\ Tail(events) = <<>>
         /\ \/ drv = "disabling" /\ events[1] = Event("cc", 0, "disable")
            \/ drv = "shutting" /\ events[1] = Event("cc", 0, "shutdown")
  <1>1. PICK d \in Up : Where(d) /\ Stage(d)
    BY OnFacts
  <1>2. /\ Len(events) \in Nat /\ Len(events) >= 1 /\ Head(events) = events[1]
        /\ Len(events) = 1 => Tail(events) = <<>>
        /\ 1 \in DOMAIN events
    BY TailEvents DEF IInv, TypeInv
  <1>3. ~Bells
    BY <1>2 DEF Bells
  <1>4. \/ drv = "disabling" /\ BellsThen(Event("cc", 0, "disable"))
        \/ drv = "shutting" /\ BellsThen(Event("cc", 0, "shutdown"))
    BY <1>1, <1>3 DEF Where
  <1>5. \A e : BellsThen(e) => Len(events) = 1 /\ events[1] = e
    <2> SUFFICES ASSUME NEW e, BellsThen(e) PROVE Len(events) = 1 /\ events[1] = e
      OBVIOUS
    <2>1. events[Len(events)] = e /\ \A i \in 1 .. Len(events) - 1 : events[i].reg = "sqdb"
      BY DEF BellsThen
    <2>2. PICK n \in Nat : n = Len(events) /\ n >= 1
      BY <1>2
    <2>3. n # 1 => 1 \in 1 .. n - 1
      BY <2>2
    <2>4. n = 1
      BY <2>1, <2>2, <2>3
    <2> QED
      BY <2>1, <2>2, <2>4
  <1> QED
    BY <1>2, <1>4, <1>5

LEMMA CcWriteKeeps ==
  ASSUME IInv, HandleWrite, CcWrite(Head(events))
  PROVE  IInv'
  <1>1. PICK e : e = Head(events) /\ e = events[1]
    BY TailEvents DEF IInv, TypeInv, HandleWrite
  <1>2. /\ pc = "poll" /\ events # <<>> /\ UNCHANGED <<cur, irq, drv, host, gen, work, resets>>
        /\ e.reg = "cc" /\ e \in EventType
    BY <1>1, TailEvents DEF HandleWrite, CcWrite, IInv, TypeInv
  <1>3. e.val \in {"disable", "enable", "shutdown"}
    BY <1>2 DEF EventType
  <1>4. CASE e.val = "disable"
    <2>1. /\ SetCsts(Csts(0, "normal"), [dev EXCEPT !.enabled = FALSE, !.q = AllReset])
          /\ events' = Tail(events) /\ pc' = "poll"
      BY <1>1, <1>2, <1>4 DEF CcWrite
    <2>2. /\ ~dev'.enabled /\ Blank'
          /\ dev' \in [enabled : BOOLEAN, running : BOOLEAN, csts : CstsType,
                       q : [Queue -> QueueState]]
          /\ bar' \in [cap : BOOLEAN, csts : CstsType, aqa : Nat \X Nat, asq : Nat, acq : Nat]
          /\ bar'.csts.rdy = 0 /\ bar'.csts.shst = "normal"
          /\ bar'.aqa = bar.aqa /\ bar'.asq = bar.asq /\ bar'.acq = bar.acq
      BY <2>1, Cleared DEF IInv
    <2>3. CASE dev.enabled
      <3>1. drv = "disabling" /\ Tail(events) = <<>>
        BY <1>1, <1>2, <1>4, <2>3, LastWrite DEF Event
      <3>2. TypeInv'
        BY <1>2, <2>1, <2>2, <3>1 DEF IInv, TypeInv
      <3>3. HostInv'
        BY <1>2, <2>2, HostStays DEF IInv
      <3>4. OffInv'
        <4>1. events' = <<>> /\ Len(events') = 0 /\ DOMAIN events' = {}
          <5>1. Len(<<>>) = 0 /\ DOMAIN <<>> = {}
            OBVIOUS
          <5> QED
            BY <2>1, <3>1, <5>1, Zenon
        <4>2. drv' = "disabling" /\ Written' = 1
          BY <1>2, <3>1 DEF Written
        <4> QED
          BY <2>2, <4>1, <4>2 DEF OffInv
      <3>5. PcInv' /\ OnInv'
        BY <1>2, <2>1, <2>2, <3>1 DEF PcInv, OnInv, Busy, Up
      <3> QED
        BY <3>2, <3>3, <3>4, <3>5 DEF IInv
    <2>4. CASE ~dev.enabled
      <3>1. e # Script(5)
        BY <1>4, ScriptFields
      <3> QED
        BY <1>1, <1>2, <2>1, <2>2, <2>4, <3>1, OffStep
    <2> QED
      BY <2>3, <2>4
  <1>5. CASE e.val = "shutdown"
    <2>1. /\ SetCsts(Csts(0, "progress"), [dev EXCEPT !.enabled = FALSE, !.q = AllReset])
          /\ events' = events /\ pc' = "shut"
      BY <1>1, <1>2, <1>5 DEF CcWrite
    <2>2. /\ ~dev'.enabled
          /\ dev' \in [enabled : BOOLEAN, running : BOOLEAN, csts : CstsType,
                       q : [Queue -> QueueState]]
          /\ bar' \in [cap : BOOLEAN, csts : CstsType, aqa : Nat \X Nat, asq : Nat, acq : Nat]
          /\ bar'.csts.rdy = 0 /\ bar'.csts.shst = "progress"
          /\ bar'.aqa = bar.aqa /\ bar'.asq = bar.asq /\ bar'.acq = bar.acq
      BY <2>1, Cleared DEF IInv
    <2>3. dev.enabled
      <3> SUFFICES ASSUME ~dev.enabled PROVE FALSE
        BY DevTypes DEF IInv
      <3>1. drv \in Setup /\ Len(events) \in 1 .. Written
            /\ e = Script((Written - Len(events)) + 1)
        BY <1>1, <1>2, OffEvents
      <3>2. Written \in {1, 4, 5}
        BY <3>1, SetupStates
      <3>3. (Written - Len(events)) + 1 \in 1 .. 5
        BY <3>1, <3>2
      <3> QED
        BY <1>2, <1>5, <3>1, <3>3, ScriptFields
    <2>4. drv = "shutting" /\ events = <<Event("cc", 0, "shutdown")>>
      <3>1. drv = "shutting" /\ events[1] = Event("cc", 0, "shutdown") /\ Len(events) = 1
        BY <1>1, <1>2, <1>5, <2>3, LastWrite DEF Event
      <3> QED
        BY <3>1 DEF IInv, TypeInv
    <2>5. TypeInv'
      BY <1>2, <2>1, <2>2 DEF IInv, TypeInv
    <2>6. HostInv'
      BY <1>2, <2>2, HostStays DEF IInv
    <2>7. OffInv'
      BY <1>2, <2>1, <2>2, <2>4 DEF OffInv, Setup
    <2>8. PcInv' /\ OnInv'
      BY <1>2, <2>1, <2>2, <2>4 DEF PcInv, OnInv, Busy, Up
    <2> QED
      BY <2>5, <2>6, <2>7, <2>8 DEF IInv
  <1>6. CASE e.val = "enable"
    <2>1. /\ SetCsts(Csts(1, "normal"), [dev EXCEPT !.enabled = TRUE, !.q[0] = Enable(@)])
          /\ events' = Tail(events) /\ pc' = "poll"
      BY <1>1, <1>2, <1>6 DEF CcWrite
    <2>2. ~dev.enabled
      <3> SUFFICES ASSUME dev.enabled PROVE FALSE
        OBVIOUS
      <3> QED
        BY <1>1, <1>2, <1>6, LastWrite DEF Event
    <2>3. /\ drv \in Setup /\ Len(events) \in 1 .. Written
          /\ e = Script((Written - Len(events)) + 1)
          /\ Len(events) < Written => Blank
          /\ Len(Tail(events)) = Len(events) - 1
      BY <1>1, <1>2, <2>2, OffEvents
    <2>4. Written = 5 /\ Len(events) = 1
      <3>1. Written \in {1, 4, 5}
        BY <2>3, SetupStates
      <3>2. PICK k \in 1 .. 5 : k = (Written - Len(events)) + 1
        BY <2>3, <3>1
      <3>3. k = 5
        BY <1>2, <1>6, <2>3, <3>2, ScriptFields
      <3>4. PICK n \in Nat, w \in {1, 4, 5} : n = Len(events) /\ w = Written
        BY <2>3, <3>1
      <3>5. n \in 1 .. w /\ (w - n) + 1 = 5
        BY <2>3, <3>2, <3>3, <3>4
      <3>6. n = 1 /\ w = 5
        BY <3>5
      <3> QED
        BY <3>4, <3>6
    <2>5. drv = "enabling" /\ events' = <<>> /\ Blank
      <3>1. Len(events) = 1 => Tail(events) = <<>>
        BY <1>2, TailEvents DEF IInv, TypeInv
      <3> QED
        BY <2>1, <2>3, <2>4, <3>1, SetupStates
    <2>6. PICK r \in QueueState : r = dev.q[0]
      BY DevTypes DEF IInv
    <2>7. PICK s : s = Enable(r)
      OBVIOUS
    <2>8. /\ host[0].gen = gen /\ Pristine(0, host[0]) /\ host[1].gen = 0
          /\ bar.aqa = <<AdminDepth - 1, AdminDepth - 1>>
          /\ bar.asq = gen /\ bar.acq = gen
      BY <2>5 DEF IInv, HostInv
    <2>9. /\ s \in QueueState
          /\ s.sqAddr = gen /\ s.cqAddr = gen
          /\ s.sqSize = AdminDepth /\ s.cqSize = AdminDepth
          /\ s.sqHead = 0 /\ s.sqTail = 0 /\ s.cqTail = 0 /\ s.phase = 1
      <3>1. bar.aqa[1] + 1 = AdminDepth /\ bar.aqa[2] + 1 = AdminDepth /\ AdminDepth \in Nat
            /\ gen \in Nat
        BY <2>8, NvmeAssumption DEF IInv, TypeInv
      <3>2. r.sqHead = 0 /\ r.sqTail = 0 /\ r.cqTail = 0 /\ r.phase = 1
        BY <2>5, <2>6 DEF Blank
      <3>3. s = [r EXCEPT !.sqSize = AdminDepth, !.cqSize = AdminDepth,
                          !.sqAddr = gen, !.cqAddr = gen]
        BY <2>7, <2>8, <3>1 DEF Enable
      <3> QED
        BY <3>1, <3>2, <3>3 DEF QueueState
    <2>10. PICK c \in CstsType : c = Csts(1, "normal") /\ c.rdy = 1 /\ c.shst = "normal"
      <3>1. [rdy |-> 1, shst |-> "normal"] \in CstsType
        BY DEF CstsType
      <3> QED
        BY <3>1 DEF Csts
    <2>11. /\ dev'.enabled /\ dev'.q[0] = s /\ dev'.q[1] = dev.q[1]
           /\ dev' \in [enabled : BOOLEAN, running : BOOLEAN, csts : CstsType,
                        q : [Queue -> QueueState]]
      <3>1. dev' = [[dev EXCEPT !.enabled = TRUE, !.q[0] = s] EXCEPT !.csts = c]
        BY <2>1, <2>6, <2>7, <2>10 DEF SetCsts
      <3>2. [dev.q EXCEPT ![0] = s] \in [Queue -> QueueState]
        BY <2>9, DevTypes DEF IInv
      <3>3. dev' = [dev EXCEPT !.enabled = TRUE, !.q = [dev.q EXCEPT ![0] = s], !.csts = c]
        BY <3>1 DEF IInv, TypeInv
      <3>4. dev'.q = [dev.q EXCEPT ![0] = s] /\ dev'.enabled
            /\ dev' \in [enabled : BOOLEAN, running : BOOLEAN, csts : CstsType,
                         q : [Queue -> QueueState]]
        BY <3>2, <3>3 DEF IInv, TypeInv
      <3> QED
        BY <3>4, DevTypes DEF IInv, Queue
    <2>12. /\ bar' \in [cap : BOOLEAN, csts : CstsType, aqa : Nat \X Nat, asq : Nat, acq : Nat]
           /\ bar'.csts.rdy = 1 /\ bar'.csts.shst = "normal"
           /\ bar'.aqa = bar.aqa /\ bar'.asq = bar.asq /\ bar'.acq = bar.acq
      BY <2>1, <2>10 DEF SetCsts, IInv, TypeInv
    <2>13. 0 \in Queue /\ 1 \in Queue
      BY DEF Queue
    <2>14. Joined(0)'
      <3>1. Depth(0) = AdminDepth /\ NoBell(0, <<>>)
        BY DEF Depth, NoBell
      <3>2. PICK h \in HostType(0) : h = host[0] /\ HostOK(0, h)
        BY <2>13 DEF IInv, TypeInv, HostInv
      <3>3. InStep(0, h, s, 0, cur) /\ Chain(0, h, s, <<>>, Busy')
        BY <2>8, <2>9, <2>13, <3>1, <3>2, PristineInStep
      <3>4. Completing(0)' = 0
        BY <2>1 DEF Completing
      <3> QED
        BY <1>2, <2>5, <2>11, <3>2, <3>3, <3>4 DEF Joined
    <2>15. AdminOut("live")' /\ IoQueue("live")'
      <3>1. host[0].out = <<>>
        BY <2>8 DEF Pristine
      <3>2. host[1].out = <<>> /\ host[1].rung = host[1].tail
        BY <2>8, <2>13 DEF IInv, HostInv, HostOK
      <3>3. dev.q[1] = ResetQueue
        BY <2>5 DEF Blank
      <3>4. ~CqMade("live")' /\ ~BothMade("live")'
        BY DEF CqMade, BothMade
      <3>5. NoBell(1, events')
        BY <2>5 DEF NoBell
      <3>6. AdminOut("live")'
        BY <1>2, <3>1 DEF AdminOut, Sent
      <3>7. IoQueue("live")'
        BY <1>2, <2>11, <3>2, <3>3, <3>4, <3>5 DEF IoQueue
      <3> QED
        BY <3>6, <3>7
    <2>16. OnInv'
      <3>1. Where("live")' /\ "live" \in Up
        BY <1>2, <2>5 DEF Where, Up
      <3> QED
        BY <2>14, <2>15, <3>1 DEF OnInv, Stage
    <2>17. TypeInv'
      BY <1>2, <2>1, <2>5, <2>11, <2>12 DEF IInv, TypeInv
    <2>18. HostInv'
      BY <1>2, <2>12, HostStays DEF IInv
    <2>19. OffInv' /\ PcInv'
      BY <1>2, <2>1, <2>5, <2>11, <2>12 DEF OffInv, PcInv, Busy, Up
    <2> QED
      BY <2>16, <2>17, <2>18, <2>19 DEF IInv
  <1> QED
    BY <1>3, <1>4, <1>5, <1>6

LEMMA AdminRegKeeps ==
  ASSUME IInv, HandleWrite, AdminRegWrite(Head(events))
  PROVE  IInv'
  <1>1. PICK e : e = Head(events) /\ e = events[1]
    BY TailEvents DEF IInv, TypeInv, HandleWrite
  <1>2. /\ pc = "poll" /\ pc' = "poll" /\ events # <<>> /\ events' = Tail(events)
        /\ UNCHANGED <<cur, irq, drv, host, gen, work, resets>>
        /\ e.reg \in {"aqa", "asq", "acq"}
    BY <1>1 DEF HandleWrite, AdminRegWrite
  <1>3. ~dev.enabled
    <2> SUFFICES ASSUME dev.enabled PROVE FALSE
      OBVIOUS
    <2> QED
      BY <1>1, <1>2, LastWrite DEF Event
  <1>4. /\ drv \in Setup /\ Len(events) \in 1 .. Written
        /\ e = Script((Written - Len(events)) + 1)
        /\ Len(events) < Written => Blank
    BY <1>1, <1>2, <1>3, OffEvents
  <1>5. PICK n \in Nat, w \in {1, 4, 5} : n = Len(events) /\ w = Written /\ n \in 1 .. w
    BY <1>4, SetupStates
  <1>6. PICK k \in 1 .. 5 : k = (w - n) + 1 /\ e = Script(k)
    <2>1. (w - n) + 1 \in 1 .. 5
      BY <1>5
    <2>2. e = Script((w - n) + 1)
      BY <1>4, <1>5, Zenon
    <2> QED
      BY <2>1, <2>2, Zenon
  <1>7. k \in {2, 3, 4}
    BY <1>2, <1>6, ScriptFields
  <1>8. n < w /\ w > 1
    BY <1>5, <1>6, <1>7
  <1>9. Blank /\ drv \in {"programmed", "enabling"}
    BY <1>4, <1>5, <1>8, SetupStates
  <1>10. /\ bar.aqa = <<AdminDepth - 1, AdminDepth - 1>> /\ bar.asq = gen /\ bar.acq = gen
    BY <1>9 DEF IInv, HostInv
  <1>11. /\ bar' = [bar EXCEPT ![e.reg] = e.val]
         /\ dev' = [dev EXCEPT !.q[0] =
              CASE e.reg = "aqa" -> [@ EXCEPT !.sqSize = e.val[1] + 1,
                                              !.cqSize = e.val[2] + 1]
                [] e.reg = "asq" -> [@ EXCEPT !.sqAddr = e.val]
                [] e.reg = "acq" -> [@ EXCEPT !.cqAddr = e.val]]
    BY <1>1, <1>3 DEF AdminRegWrite
  <1>12. PICK r \in QueueState : r = dev.q[0]
    BY DevTypes DEF IInv
  <1>13. PICK s \in QueueState :
            /\ dev' = [dev EXCEPT !.q[0] = s]
            /\ s.sqHead = r.sqHead /\ s.sqTail = r.sqTail /\ s.cqTail = r.cqTail
            /\ s.phase = r.phase
    <2>1. gen \in Nat /\ AdminDepth - 1 \in Nat
      BY NvmeAssumption DEF IInv, TypeInv
    <2>2. CASE k = 2
      <3>1. e.reg = "aqa" /\ e.val[1] \in Nat /\ e.val[2] \in Nat
        BY <1>6, <2>1, <2>2, ScriptFields
      <3>2. PICK s : s = [r EXCEPT !.sqSize = e.val[1] + 1, !.cqSize = e.val[2] + 1]
        OBVIOUS
      <3>3. e.val[1] + 1 \in Nat /\ e.val[2] + 1 \in Nat
        BY <3>1
      <3>4. dev' = [dev EXCEPT !.q[0] = s]
        BY <1>11, <1>12, <3>1, <3>2
      <3>5. /\ s \in QueueState /\ s.sqHead = r.sqHead /\ s.sqTail = r.sqTail
            /\ s.cqTail = r.cqTail /\ s.phase = r.phase
        BY <3>2, <3>3 DEF QueueState
      <3> QED
        BY <3>4, <3>5
    <2>3. CASE k = 3
      <3>1. e.reg = "asq" /\ e.val \in Nat
        BY <1>6, <2>1, <2>3, ScriptFields
      <3>2. PICK s : s = [r EXCEPT !.sqAddr = e.val]
        OBVIOUS
      <3>3. dev' = [dev EXCEPT !.q[0] = s]
        BY <1>11, <1>12, <3>1, <3>2
      <3>4. /\ s \in QueueState /\ s.sqHead = r.sqHead /\ s.sqTail = r.sqTail
            /\ s.cqTail = r.cqTail /\ s.phase = r.phase
        BY <3>1, <3>2 DEF QueueState
      <3> QED
        BY <3>3, <3>4
    <2>4. CASE k = 4
      <3>1. e.reg = "acq" /\ e.val \in Nat
        BY <1>6, <2>1, <2>4, ScriptFields
      <3>2. PICK s : s = [r EXCEPT !.cqAddr = e.val]
        OBVIOUS
      <3>3. dev' = [dev EXCEPT !.q[0] = s]
        BY <1>11, <1>12, <3>1, <3>2
      <3>4. /\ s \in QueueState /\ s.sqHead = r.sqHead /\ s.sqTail = r.sqTail
            /\ s.cqTail = r.cqTail /\ s.phase = r.phase
        BY <3>1, <3>2 DEF QueueState
      <3> QED
        BY <3>3, <3>4
    <2> QED
      BY <1>7, <2>2, <2>3, <2>4
  <1>14. /\ ~dev'.enabled /\ dev'.q[0] = s /\ dev'.q[1] = dev.q[1]
         /\ dev' \in [enabled : BOOLEAN, running : BOOLEAN, csts : CstsType,
                      q : [Queue -> QueueState]]
    <2>1. [dev.q EXCEPT ![0] = s] \in [Queue -> QueueState]
      BY DevTypes DEF IInv
    <2>2. dev' = [dev EXCEPT !.q = [dev.q EXCEPT ![0] = s]]
      BY <1>13 DEF IInv, TypeInv
    <2>3. dev'.q = [dev.q EXCEPT ![0] = s] /\ ~dev'.enabled
          /\ dev' \in [enabled : BOOLEAN, running : BOOLEAN, csts : CstsType,
                       q : [Queue -> QueueState]]
      BY <1>3, <2>1, <2>2 DEF IInv, TypeInv
    <2> QED
      BY <2>3, DevTypes DEF IInv, Queue
  <1>15. Blank'
    BY <1>9, <1>12, <1>13, <1>14 DEF Blank
  <1>16. bar' = bar
    <2>1. \A f \in DOMAIN bar : bar[f] = e.val /\ f = e.reg => bar' = bar
      BY <1>11 DEF IInv, TypeInv
    <2>2. bar[e.reg] = e.val /\ e.reg \in DOMAIN bar
      BY <1>2, <1>6, <1>7, <1>10, ScriptFields DEF IInv, TypeInv
    <2> QED
      BY <2>1, <2>2
  <1>17. /\ bar.csts.rdy = 0 /\ bar.csts.shst # "complete"
         /\ bar \in [cap : BOOLEAN, csts : CstsType, aqa : Nat \X Nat, asq : Nat, acq : Nat]
    BY <1>2, <1>3 DEF IInv, PcInv, TypeInv
  <1>18. Head(events) # Script(5)
    BY <1>1, <1>2, ScriptFields
  <1> QED
    BY <1>2, <1>3, <1>14, <1>15, <1>16, <1>17, <1>18, OffStep

LEMMA DoorbellKeeps ==
  ASSUME IInv, HandleWrite, Doorbell(Head(events))
  PROVE  IInv'
  <1>1. PICK e \in EventType : e = Head(events) /\ e = events[1]
    BY TailEvents DEF IInv, TypeInv, HandleWrite
  <1>2. /\ pc = "poll" /\ events # <<>> /\ events \in Seq(EventType)
        /\ UNCHANGED <<cur, irq, drv, host, gen, work, resets, bar>> /\ e.reg = "sqdb"
    BY <1>1 DEF HandleWrite, Doorbell, IInv, TypeInv
  <1>3. dev.enabled
    <2> SUFFICES ASSUME ~dev.enabled PROVE FALSE
      BY DevTypes DEF IInv
    <2>1. drv \in Setup /\ Len(events) \in 1 .. Written
          /\ e = Script((Written - Len(events)) + 1)
      BY <1>1, <1>2, OffEvents
    <2>2. PICK n \in Nat, w \in {1, 4, 5} : n = Len(events) /\ w = Written /\ n \in 1 .. w
      BY <2>1, SetupStates
    <2>3. PICK k \in 1 .. 5 : e = Script(k)
      <3>1. (w - n) + 1 \in 1 .. 5
        BY <2>2
      <3>2. e = Script((w - n) + 1)
        BY <2>1, <2>2, Zenon
      <3> QED
        BY <3>1, <3>2, Zenon
    <2> QED
      BY <1>2, <2>3, ScriptFields
  <1>4. PICK q \in Queue : q = e.q /\ IsBell(e, q)
        /\ \A p \in Queue : p # q => ~IsBell(e, p)
    BY <1>2 DEF EventType, IsBell, Queue
  <1>5. /\ dev' = [dev EXCEPT !.q[q].sqTail = e.val] /\ pc' = "submission" /\ events' = events
    BY <1>1, <1>3, <1>4 DEF Doorbell
  <1>6. PICK d \in Up : Where(d) /\ Stage(d)
    BY <1>3, OnFacts
  <1>7. Joined(q) /\ (q = 1 => BothMade(d))
    <2>1. Ringing = q
      BY <1>1, <1>4 DEF Ringing
    <2> QED
      BY <1>1, <1>2, <1>6, <2>1, BellJoined DEF IInv
  <1>8. PICK r \in QueueState : r = dev.q[q]
    BY DEF IInv, TypeInv
  <1>9. PICK h \in HostType(q) : h = host[q]
    BY DEF IInv, TypeInv
  <1>10. /\ \A p \in Queue : Completing(p) = 0 /\ Completing(p)' = 0
         /\ Busy = FALSE /\ Busy' = TRUE
    BY <1>2, <1>5 DEF Completing, Busy
  <1>11. InStep(q, h, r, 0, cur) /\ Chain(q, h, r, events, FALSE)
    BY <1>7, <1>8, <1>9, <1>10 DEF Joined
  <1>12. PICK s \in QueueState :
            /\ s = [r EXCEPT !.sqTail = e.val] /\ s.sqHead = r.sqHead
            /\ InStep(q, h, s, 0, cur) /\ Chain(q, h, s, events, TRUE)
    <2>1. IsBell(events[1], q) /\ e.val = events[1].val
      BY <1>1, <1>4
    <2>2. LET u == [r EXCEPT !.sqTail = events[1].val]
          IN  /\ u \in QueueState /\ u.sqHead = r.sqHead /\ InStep(q, h, u, 0, cur)
              /\ Chain(q, h, u, events, TRUE)
      BY <1>2, <1>11, <2>1, BeginStep
    <2> QED
      BY <2>1, <2>2
  <1>13. /\ dev'.enabled /\ dev'.q[q] = s /\ \A p \in Queue : p # q => dev'.q[p] = dev.q[p]
         /\ dev' \in [enabled : BOOLEAN, running : BOOLEAN, csts : CstsType,
                      q : [Queue -> QueueState]]
    <2>1. [dev.q EXCEPT ![q] = s] \in [Queue -> QueueState]
      BY DevTypes DEF IInv
    <2>2. dev' = [dev EXCEPT !.q = [dev.q EXCEPT ![q] = s]]
      BY <1>5, <1>8, <1>12 DEF IInv, TypeInv
    <2>3. dev'.q = [dev.q EXCEPT ![q] = s] /\ dev'.enabled
          /\ dev' \in [enabled : BOOLEAN, running : BOOLEAN, csts : CstsType,
                       q : [Queue -> QueueState]]
      BY <1>3, <2>1, <2>2 DEF IInv, TypeInv
    <2> QED
      BY <2>3, DevTypes DEF IInv
  <1>14. \A p \in Queue : Joined(p) => Joined(p)'
    <2>1. Joined(q)'
      BY <1>2, <1>5, <1>9, <1>10, <1>12, <1>13 DEF Joined
    <2>2. ASSUME NEW p \in Queue, p # q, Joined(p) PROVE Joined(p)'
      <3>1. InStep(p, host[p], dev.q[p], 0, cur) /\ Chain(p, host[p], dev.q[p], events, FALSE)
        BY <1>10, <2>2 DEF Joined
      <3>2. Chain(p, host[p], dev.q[p], events, TRUE)
        BY <1>1, <1>4, <2>2, <3>1, ChainOther
      <3> QED
        BY <1>2, <1>5, <1>10, <1>13, <2>2, <3>1, <3>2 DEF Joined
    <2> QED
      BY <2>1, <2>2
  <1>15. 0 \in Queue /\ 1 \in Queue
    BY DEF Queue
  <1>16. Stage(d)'
    <2>1. AllDone' <=> AllDone
      BY <1>2, <1>8, <1>12, <1>13, <1>15 DEF AllDone
    <2>2. (CqMade(d)' <=> CqMade(d)) /\ (BothMade(d)' <=> BothMade(d))
      BY <2>1, MadeStays
    <2>3. AdminOut(d)'
      BY <1>2, <1>6, AdminOutStays DEF Stage
    <2>4. Joined(0)' /\ (BothMade(d) => Joined(1)')
      BY <1>6, <1>14, <1>15 DEF Stage, IoQueue
    <2>5. ~BothMade(d) => dev'.q[1] = dev.q[1]
      BY <1>7, <1>13, <1>15
    <2> QED
      BY <1>2, <1>5, <1>6, <2>2, <2>3, <2>4, <2>5, StageStays
  <1>17. TypeInv'
    BY <1>2, <1>5, <1>13 DEF IInv, TypeInv
  <1>18. HostInv'
    BY <1>2, HostStays DEF IInv
  <1>19. OnInv'
    BY <1>2, <1>5, <1>6, <1>16, WhereStays DEF OnInv
  <1>20. OffInv' /\ PcInv'
    <2>1. drv # "enabling"
      BY <1>2, <1>3, OnFacts
    <2> QED
      BY <1>1, <1>2, <1>3, <1>5, <1>13, <2>1, StaysOn
  <1> QED
    BY <1>17, <1>18, <1>19, <1>20 DEF IInv

LEMMA ShutCompleteKeeps ==
  ASSUME IInv, ShutComplete
  PROVE  IInv'
  <1>1. /\ pc = "shut" /\ pc' = "poll" /\ events' = Tail(events)
        /\ UNCHANGED <<cur, drv, host, gen>>
    BY DEF ShutComplete
  <1>2. drv = "shutting" /\ ~dev.enabled /\ events = <<Event("cc", 0, "shutdown")>>
    BY <1>1 DEF IInv, PcInv, OffInv
  <1>3. events' = <<>>
    <2>1. Len(events) = 1 /\ events # <<>>
      BY <1>2
    <2> QED
      BY <1>1, <2>1, TailEvents DEF IInv, TypeInv
  <1>4. PICK c \in CstsType : c = Csts(0, "complete") /\ c.rdy = 0
    <2>1. [rdy |-> 0, shst |-> "complete"] \in CstsType
      BY DEF CstsType
    <2> QED
      BY <2>1 DEF Csts
  <1>5. dev' = [[dev EXCEPT !.running = FALSE] EXCEPT !.csts = c]
        /\ bar' = [bar EXCEPT !.csts = c]
    BY <1>4 DEF ShutComplete, SetCsts
  <1>6. /\ ~dev'.enabled
        /\ dev' \in [enabled : BOOLEAN, running : BOOLEAN, csts : CstsType,
                     q : [Queue -> QueueState]]
        /\ bar' \in [cap : BOOLEAN, csts : CstsType, aqa : Nat \X Nat, asq : Nat, acq : Nat]
        /\ bar'.csts = c
        /\ bar'.aqa = bar.aqa /\ bar'.asq = bar.asq /\ bar'.acq = bar.acq
    BY <1>2, <1>5 DEF IInv, TypeInv
  <1>7. TypeInv'
    <2>1. events' \in Seq(EventType)
      BY <1>2, <1>1, TailEvents DEF IInv, TypeInv
    <2>2. pc' \in {"closed", "registered", "ready", "poll", "shut", "submission", "complete",
                   "interrupt", "exited"}
      BY <1>1
    <2> QED
      BY <1>1, <1>6, <2>1, <2>2 DEF IInv, TypeInv
  <1>8. HostInv'
    BY <1>1, <1>6, HostStays DEF IInv
  <1>9. OffInv' /\ OnInv' /\ PcInv'
    BY <1>1, <1>2, <1>3, <1>4, <1>6 DEF OffInv, OnInv, PcInv, Setup, Up, Busy
  <1> QED
    BY <1>7, <1>8, <1>9 DEF IInv

LEMMA DevNextKeeps ==
  ASSUME IInv, DevNext
  PROVE  IInv'
  <1>1. HandleWrite => CcWrite(Head(events)) \/ AdminRegWrite(Head(events))
                       \/ Doorbell(Head(events))
    BY DEF HandleWrite
  <1> QED
    BY <1>1, StartUpKeeps, CcWriteKeeps, AdminRegKeeps, DoorbellKeeps, ShutCompleteKeeps,
       ExecuteKeeps, PostKeeps, EndKeeps DEF DevNext

-----------------------------------------------------------------------------
(* The driver's steps: registers.                                           *)

LEMMA EventTypes ==
  /\ Event("cc", 0, "disable") \in EventType /\ Event("cc", 0, "enable") \in EventType
  /\ Event("cc", 0, "shutdown") \in EventType
  /\ \A n \in Nat : /\ Event("asq", 0, n) \in EventType /\ Event("acq", 0, n) \in EventType
                    /\ Event("aqa", 0, <<n, n>>) \in EventType
  /\ \A q \in Queue, n \in Nat : Event("sqdb", q, n) \in EventType
  /\ \A q, n : IsBell(Event("sqdb", q, n), q)
  /\ \A p, q, n : p # q => ~IsBell(Event("sqdb", q, n), p)
  BY DEF Event, EventType, IsBell

LEMMA Appending ==
  ASSUME NEW evs \in Seq(EventType), NEW e \in EventType
  PROVE  /\ Append(evs, e) \in Seq(EventType) /\ Append(evs, e) # <<>>
         /\ Len(Append(evs, e)) = Len(evs) + 1 /\ Len(evs) \in Nat
         /\ DOMAIN Append(evs, e) = 1 .. Len(evs) + 1 /\ DOMAIN evs = 1 .. Len(evs)
         /\ Append(evs, e)[Len(evs) + 1] = e
         /\ \A i \in 1 .. Len(evs) : Append(evs, e)[i] = evs[i]
         /\ evs # <<>> => Head(Append(evs, e)) = Head(evs) /\ Append(evs, e)[1] = evs[1]
  <1>1. /\ Append(evs, e) \in Seq(EventType) /\ Len(Append(evs, e)) = Len(evs) + 1
        /\ Append(evs, e)[Len(evs) + 1] = e
        /\ \A i \in 1 .. Len(evs) : Append(evs, e)[i] = evs[i]
    BY AppendProperties
  <1>2. Len(evs) \in Nat /\ DOMAIN evs = 1 .. Len(evs)
        /\ DOMAIN Append(evs, e) = 1 .. Len(evs) + 1
    BY <1>1, LenProperties
  <1>3. Append(evs, e) # <<>>
    BY <1>1, <1>2, EmptySeq
  <1>4. ASSUME evs # <<>>
        PROVE  Head(Append(evs, e)) = Head(evs) /\ Append(evs, e)[1] = evs[1]
    <2>1. 1 \in 1 .. Len(evs) /\ Head(evs) = evs[1]
      BY <1>2, <1>4, TailEvents
    <2>2. Head(Append(evs, e)) = Append(evs, e)[1]
      BY <1>1, <1>3, TailEvents
    <2> QED
      BY <1>1, <2>1, <2>2
  <1> QED
    BY <1>1, <1>2, <1>3, <1>4

(* An event that is no doorbell leaves the stage as it is.                  *)
LEMMA StageAppend ==
  ASSUME IInv, NEW d \in Up, Stage(d), NEW e \in EventType, e.reg # "sqdb",
         events' = Append(events, e), UNCHANGED <<dev, pc, cur, host>>
  PROVE  Stage(d)'
  <1>1. events \in Seq(EventType)
    BY DEF IInv, TypeInv
  <1>2. \A q : ~IsBell(e, q)
    BY DEF IsBell
  <1>3. Busy' = Busy /\ (Busy => events # <<>>)
    BY DEF Busy, IInv, PcInv
  <1>4. \A q : Completing(q)' = Completing(q)
    <2>1. CASE pc = "complete"
      <3>1. Head(events') = Head(events)
        BY <1>1, <1>3, <2>1, Appending DEF Busy
      <3> QED
        BY <3>1 DEF Completing, Ringing
    <2>2. CASE pc # "complete"
      BY <2>2 DEF Completing
    <2> QED
      BY <2>1, <2>2
  <1>5. \A q \in Queue : Joined(q) => Joined(q)'
    BY <1>1, <1>2, <1>3, <1>4, ChainAppend DEF Joined
  <1>6. (CqMade(d)' <=> CqMade(d)) /\ (BothMade(d)' <=> BothMade(d))
    BY MadeStays DEF AllDone
  <1>7. AdminOut(d)'
    BY AdminOutStays DEF Stage
  <1>8. Joined(0)' /\ (BothMade(d) => Joined(1)')
    BY <1>5 DEF Stage, IoQueue, Queue
  <1>9. NoBell(1, events) => NoBell(1, events')
    BY <1>1, <1>2, NoBellAppend
  <1> QED
    BY <1>6, <1>7, <1>8, <1>9, StageStays

(* The driver's doorbells, and then the write that ends its stage.          *)
LEMMA BellsAppend ==
  ASSUME TypeInv, Bells, NEW e \in EventType, events' = Append(events, e)
  PROVE  BellsThen(e)'
  <1>1. /\ events' # <<>> /\ Len(events') = Len(events) + 1 /\ Len(events) \in Nat
        /\ events'[Len(events) + 1] = e /\ DOMAIN events = 1 .. Len(events)
        /\ \A i \in 1 .. Len(events) : events'[i] = events[i]
    BY Appending DEF TypeInv
  <1>2. PICK n \in Nat : n = Len(events)
    BY <1>1, Zenon
  <1>3. Len(events') = n + 1
    BY <1>1, <1>2
  <1>4. 1 .. (n + 1) - 1 = 1 .. n
    OBVIOUS
  <1> QED
    BY <1>1, <1>2, <1>3, <1>4 DEF Bells, BellsThen

(* A driver that is up resets the controller, or shuts it down.             *)
LEMMA LeaveKeeps ==
  ASSUME IInv, drv \in Up, NEW v \in {"disable", "shutdown"},
         events' = Append(events, Event("cc", 0, v)),
         UNCHANGED <<dev, pc, cur, bar, host, gen>>,
         \/ v = "disable" /\ drv' = "disabling"
         \/ v = "shutdown" /\ drv = "live" /\ drv' = "shutting"
  PROVE  IInv'
  <1>1. PICK e \in EventType : e = Event("cc", 0, v) /\ e.reg # "sqdb"
    BY EventTypes DEF Event
  <1>2. dev.enabled /\ events \in Seq(EventType)
    BY DEF IInv, PcInv, TypeInv
  <1>3. PICK d \in Up : Where(d) /\ Stage(d)
    BY <1>2, OnFacts
  <1>4. drv = d /\ Bells
    BY <1>3 DEF Where, Up
  <1>5. BellsThen(e)'
    BY <1>1, <1>4, BellsAppend DEF IInv
  <1>6. Where(d)' /\ Stage(d)'
    BY <1>1, <1>3, <1>4, <1>5, StageAppend DEF Where
  <1>7. events' \in Seq(EventType) /\ events' # <<>>
        /\ (events # <<>> => events'[1] = events[1])
    BY <1>1, <1>2, Appending
  <1>8. TypeInv'
    BY <1>7 DEF IInv, TypeInv, DrvStates
  <1>9. HostInv'
    BY DEF IInv, HostInv
  <1>10. OffInv'
    BY <1>2 DEF OffInv
  <1>11. drv # "shutting" /\ drv # "down"
    BY DEF Up
  <1>12. PcInv'
    BY <1>2, <1>7, <1>11 DEF IInv, PcInv, Busy, Up
  <1> QED
    BY <1>6, <1>8, <1>9, <1>10, <1>12 DEF IInv, OnInv

LEMMA DisableKeeps ==
  ASSUME ~Hasty, IInv, Disable
  PROVE  IInv'
  <1>1. /\ drv' = "disabling" /\ events' = Append(events, Event("cc", 0, "disable"))
        /\ UNCHANGED <<dev, pc, cur, bar, host, gen>>
    BY DEF Disable
  <1>2. CASE drv \in Up
    BY <1>1, <1>2, LeaveKeeps
  <1>3. CASE drv = "unbound"
    <2>1. events = <<>> /\ ~dev.enabled
      BY <1>3 DEF IInv, OffInv
    <2>2. events' \in Seq(EventType) /\ events' # <<>> /\ Len(events') = 1
          /\ events'[1] = Event("cc", 0, "disable") /\ DOMAIN events' = {1}
      <3>1. events' = <<Event("cc", 0, "disable")>>
        BY <1>1, <2>1
      <3> QED
        BY <3>1, EventTypes
    <2>3. TypeInv'
      BY <1>1, <2>2 DEF IInv, TypeInv, DrvStates
    <2>4. HostInv'
      BY <1>1 DEF IInv, HostInv
    <2>5. Written' = 1 /\ Script(1)' = Event("cc", 0, "disable")
      BY <1>1 DEF Written, Script
    <2>6. OffInv'
      BY <1>1, <2>1, <2>2, <2>5 DEF OffInv, Script
    <2>7. PcInv' /\ OnInv'
      BY <1>1, <1>3, <2>1 DEF IInv, PcInv, OnInv, Busy, Up
    <2> QED
      BY <2>3, <2>4, <2>6, <2>7 DEF IInv
  <1> QED
    BY <1>2, <1>3 DEF Disable

LEMMA ShutdownKeeps == ASSUME IInv, Shutdown PROVE IInv'
  <1>1. "live" \in Up
    BY DEF Up
  <1> QED
    BY <1>1, LeaveKeeps DEF Shutdown

LEMMA DisabledKeeps == ASSUME IInv, Disabled PROVE IInv'
  <1>1. /\ drv = "disabling" /\ drv' = "disabled" /\ bar.csts.rdy = 0
        /\ host' = [q \in Queue |-> Unused]
        /\ UNCHANGED <<dev, pc, cur, events, bar, gen>>
    BY DEF Disabled
  <1>2. ~dev.enabled
    BY <1>1 DEF IInv, PcInv
  <1>3. DOMAIN host' = Queue /\ \A q \in Queue : host'[q] = Unused
    BY <1>1
  <1>4. TypeInv'
    BY <1>1, <1>3, UnusedIsOK DEF IInv, TypeInv, DrvStates
  <1>5. HostInv'
    <2>1. Unused.out = <<>> /\ DOMAIN <<>> = {} /\ 1 \in Queue
      BY DEF Unused, Queue
    <2> QED
      BY <1>1, <1>3, <2>1, UnusedIsOK DEF HostInv
  <1>6. OffInv'
    <2>1. Written = 1 /\ Written' = 1 /\ drv \in Setup
      BY <1>1 DEF Written, Setup
    <2> QED
      BY <1>1, <1>2, <2>1 DEF IInv, OffInv, Blank, Script
  <1>7. PcInv' /\ OnInv'
    BY <1>1, <1>2 DEF IInv, PcInv, OnInv, Busy, Up
  <1> QED
    BY <1>4, <1>5, <1>6, <1>7 DEF IInv

LEMMA ShutDownKeeps == ASSUME IInv, ShutDown PROVE IInv'
  <1>1. /\ drv = "shutting" /\ drv' = "down" /\ bar.csts.shst = "complete"
        /\ host' = [q \in Queue |-> Unused]
        /\ UNCHANGED <<dev, pc, cur, events, bar, gen>>
    BY DEF ShutDown
  <1>2. ~dev.enabled /\ events = <<>>
    BY <1>1 DEF IInv, PcInv
  <1>3. DOMAIN host' = Queue /\ \A q \in Queue : host'[q] = Unused
    BY <1>1
  <1>4. pc # "shut"
    BY <1>1, <1>2 DEF IInv, OffInv
  <1>5. TypeInv'
    BY <1>1, <1>3, UnusedIsOK DEF IInv, TypeInv, DrvStates
  <1>6. HostInv'
    <2>1. Unused.out = <<>> /\ DOMAIN <<>> = {} /\ 1 \in Queue
      BY DEF Unused, Queue
    <2> QED
      BY <1>1, <1>3, <2>1, UnusedIsOK DEF HostInv
  <1>7. OffInv' /\ PcInv' /\ OnInv'
    BY <1>1, <1>2, <1>4 DEF IInv, OffInv, PcInv, OnInv, Busy, Up, Setup
  <1> QED
    BY <1>5, <1>6, <1>7 DEF IInv

(* Queue memory for the admin queue, and its registers.                     *)
LEMMA ProgramKeeps == ASSUME IInv, Program PROVE IInv'
  <1>1. /\ drv = "disabled" /\ drv' = "programmed" /\ gen' = gen + 1
        /\ host' = [host EXCEPT ![0] = Fresh(0, gen')]
        /\ UNCHANGED <<dev, pc, cur>>
        /\ bar' = [bar EXCEPT !.aqa = <<AdminDepth - 1, AdminDepth - 1>>,
                              !.asq = gen', !.acq = gen']
    BY DEF Program
  <1>2. PICK g \in Nat \ {0} : g = gen'
    BY <1>1 DEF IInv, TypeInv
  <1>3. PICK a, b, c \in EventType :
           /\ a = Event("aqa", 0, <<AdminDepth - 1, AdminDepth - 1>>)
           /\ b = Event("asq", 0, g) /\ c = Event("acq", 0, g)
           /\ events' = events \o <<a, b, c>>
    <2>1. AdminDepth - 1 \in Nat
      BY NvmeAssumption
    <2> QED
      BY <1>2, <2>1, EventTypes DEF Program
  <1>4. 0 \in Queue /\ 1 \in Queue
    BY DEF Queue
  <1>5. /\ ~dev.enabled /\ Len(events) <= 1 /\ events \in Seq(EventType)
        /\ \A i \in DOMAIN events : events[i] = Script((1 - Len(events)) + i)
        /\ Len(events) < 1 => Blank
    <2>1. Written = 1 /\ drv \in Setup
      BY <1>1 DEF Written, Setup
    <2> QED
      BY <1>1, <2>1 DEF IInv, OffInv, TypeInv
  <1>6. PICK n \in {0, 1} : n = Len(events) /\ DOMAIN events = 1 .. n
    <2>1. Len(events) \in Nat /\ DOMAIN events = 1 .. Len(events)
      BY <1>5, LenProperties
    <2>2. PICK n \in Nat : n = Len(events)
      BY <2>1, Zenon
    <2>3. n <= 1
      BY <1>5, <2>2
    <2>4. n \in {0, 1}
      BY <2>3
    <2> QED
      BY <2>1, <2>2, <2>4, Zenon
  <1>7. /\ events' \in Seq(EventType) /\ Len(events') = n + 3 /\ DOMAIN events' = 1 .. n + 3
        /\ \A i \in 1 .. n : events'[i] = events[i]
        /\ events'[n + 1] = a /\ events'[n + 2] = b /\ events'[n + 3] = c
    BY <1>3, <1>5, <1>6
  <1>8. /\ host'[0] = Fresh(0, g) /\ host'[1] = host[1] /\ DOMAIN host' = Queue
    BY <1>1, <1>2, <1>4 DEF IInv, TypeInv
  <1>9. \A q \in Queue : host'[q] \in HostType(q) /\ HostOK(q, host'[q])
    BY <1>4, <1>8, FreshIsPristine DEF IInv, TypeInv, HostInv, Queue
  <1>10. /\ bar' \in [cap : BOOLEAN, csts : CstsType, aqa : Nat \X Nat, asq : Nat, acq : Nat]
         /\ bar'.csts = bar.csts /\ bar'.aqa = <<AdminDepth - 1, AdminDepth - 1>>
         /\ bar'.asq = g /\ bar'.acq = g
    <2>1. AdminDepth - 1 \in Nat
      BY NvmeAssumption
    <2> QED
      BY <1>1, <1>2, <2>1 DEF IInv, TypeInv
  <1>11. TypeInv'
    BY <1>1, <1>2, <1>7, <1>8, <1>9, <1>10 DEF IInv, TypeInv, DrvStates
  <1>12. HostInv'
    <2>1. host[1].gen = 0
      BY <1>1, <1>4 DEF IInv, HostInv
    <2>2. host'[0].gen = gen' /\ Pristine(0, host'[0])
      BY <1>2, <1>4, <1>8, FreshIsPristine
    <2>3. \A j \in DOMAIN host'[1].out : IsIo(host'[1].out[j])
      BY <1>8 DEF IInv, HostInv
    <2> QED
      BY <1>1, <1>2, <1>8, <1>9, <1>10, <2>1, <2>2, <2>3 DEF HostInv
  <1>13. OffInv'
    <2>1. Written' = 4 /\ drv' \in Setup
      BY <1>1 DEF Written, Setup
    <2>2. /\ Script(1)' = Script(1) /\ Script(2)' = a /\ Script(3)' = b /\ Script(4)' = c
      BY <1>2, <1>3 DEF Script
    <2>3. n = 1 => events'[1] = Script(1)'
      <3>1. n = 1 => 1 \in DOMAIN events /\ 1 \in 1 .. n
        BY <1>6
      <3>2. n = 1 => events[1] = Script((1 - 1) + 1)
        BY <1>5, <1>6, <3>1, Zenon
      <3>3. (1 - 1) + 1 = 1
        OBVIOUS
      <3> QED
        BY <1>7, <2>2, <3>1, <3>2, <3>3, Zenon
    <2>4. \A i \in DOMAIN events' : events'[i] = Script((4 - (n + 3)) + i)'
      <3>1. CASE n = 0
        <4>1. DOMAIN events' = {1, 2, 3} /\ events'[1] = a /\ events'[2] = b /\ events'[3] = c
          BY <1>7, <3>1
        <4>2. /\ (4 - (0 + 3)) + 1 = 2 /\ (4 - (0 + 3)) + 2 = 3
              /\ (4 - (0 + 3)) + 3 = 4
          OBVIOUS
        <4>3. /\ a = Script((4 - (0 + 3)) + 1)' /\ b = Script((4 - (0 + 3)) + 2)'
              /\ c = Script((4 - (0 + 3)) + 3)'
          BY <1>2, <1>3, <4>2 DEF Script
        <4> QED
          BY <3>1, <4>1, <4>3
      <3>2. CASE n = 1
        <4>1. /\ DOMAIN events' = {1, 2, 3, 4}
              /\ events'[2] = a /\ events'[3] = b /\ events'[4] = c
          BY <1>7, <3>2
        <4> QED
          BY <1>2, <1>3, <2>3, <3>2, <4>1 DEF Script
      <3> QED
        BY <3>1, <3>2
    <2>5. Len(events') < 4 => Blank'
      BY <1>1, <1>5, <1>6, <1>7 DEF Blank
    <2>6. Len(events') <= 4
      BY <1>6, <1>7
    <2> QED
      BY <1>1, <1>5, <1>7, <2>1, <2>4, <2>5, <2>6 DEF OffInv
  <1>14. PcInv' /\ OnInv'
    BY <1>1, <1>5, <1>10 DEF IInv, PcInv, OnInv, Busy, Up
  <1> QED
    BY <1>11, <1>12, <1>13, <1>14 DEF IInv

LEMMA EnableKeeps == ASSUME IInv, EnableController PROVE IInv'
  <1>1. /\ drv = "programmed" /\ drv' = "enabling"
        /\ events' = Append(events, Event("cc", 0, "enable"))
        /\ UNCHANGED <<dev, pc, cur, bar, host, gen>>
    BY DEF EnableController
  <1>2. /\ ~dev.enabled /\ Len(events) <= 4 /\ events \in Seq(EventType)
        /\ \A i \in DOMAIN events : events[i] = Script((4 - Len(events)) + i)
        /\ Len(events) < 4 => Blank
    <2>1. Written = 4 /\ drv \in Setup
      BY <1>1 DEF Written, Setup
    <2> QED
      BY <1>1, <2>1 DEF IInv, OffInv, TypeInv
  <1>3. PICK n \in 0 .. 4 : n = Len(events)
    <2>1. Len(events) \in Nat
      BY <1>2, LenProperties
    <2>2. PICK n \in Nat : n = Len(events)
      BY <2>1, Zenon
    <2>a. n <= 4
      BY <1>2, <2>2
    <2>3. n \in 0 .. 4
      BY <2>a
    <2> QED
      BY <2>2, <2>3, Zenon
  <1>4. PICK e \in EventType : e = Event("cc", 0, "enable") /\ e = Script(5)
    BY EventTypes DEF Script
  <1>5. /\ events' \in Seq(EventType) /\ events' # <<>> /\ Len(events') = n + 1
        /\ DOMAIN events' = 1 .. n + 1 /\ DOMAIN events = 1 .. n
        /\ events'[n + 1] = e /\ \A i \in 1 .. n : events'[i] = events[i]
    BY <1>1, <1>2, <1>3, <1>4, Appending
  <1>6. TypeInv'
    BY <1>1, <1>5 DEF IInv, TypeInv, DrvStates
  <1>7. HostInv'
    BY <1>1 DEF IInv, HostInv
  <1>8. OffInv'
    <2>1. Written' = 5 /\ drv' \in Setup
      BY <1>1 DEF Written, Setup
    <2>2. \A i \in 1 .. 5 : Script(i)' = Script(i)
      BY <1>1 DEF Script
    <2>3. \A i \in DOMAIN events' : events'[i] = Script((5 - (n + 1)) + i)
      <3>1. ASSUME NEW i \in 1 .. n PROVE events'[i] = Script((5 - (n + 1)) + i)
        <4>1. (5 - (n + 1)) + i = (4 - n) + i /\ i \in DOMAIN events
          BY <1>5
        <4> QED
          BY <1>2, <1>3, <1>5, <4>1
      <3>2. events'[n + 1] = Script((5 - (n + 1)) + (n + 1))
        <4>1. (5 - (n + 1)) + (n + 1) = 5
          OBVIOUS
        <4> QED
          BY <1>4, <1>5, <4>1
      <3> QED
        BY <1>5, <3>1, <3>2
    <2>4. \A i \in DOMAIN events' : events'[i] = Script((5 - (n + 1)) + i)'
      BY <1>1, <2>3 DEF Script
    <2>5. Len(events') < 5 => Blank'
      BY <1>1, <1>2, <1>3, <1>5 DEF Blank
    <2> QED
      BY <1>1, <1>2, <1>5, <2>1, <2>4, <2>5 DEF OffInv
  <1>9. PcInv' /\ OnInv'
    BY <1>1, <1>2 DEF IInv, PcInv, OnInv, Busy, Up
  <1> QED
    BY <1>6, <1>7, <1>8, <1>9 DEF IInv

LEMMA ReadyKeeps == ASSUME IInv, Ready PROVE IInv'
  <1>1. /\ drv = "enabling" /\ drv' = "live" /\ bar.csts.rdy = 1
        /\ UNCHANGED <<dev, pc, cur, events, bar, host, gen>>
    BY DEF Ready
  <1>2. dev.enabled /\ events = <<>>
    BY <1>1 DEF IInv, PcInv, OffInv
  <1>3. PICK d \in Up : Where(d) /\ Stage(d)
    BY <1>2, OnFacts
  <1>4. d = "live"
    BY <1>1, <1>3 DEF Where, Up
  <1>5. Where("live")'
    BY <1>1, <1>2 DEF Where, Bells
  <1>6. Stage("live")'
    <2>1. \A q : Completing(q)' = Completing(q)
      BY <1>1 DEF Completing, Ringing
    <2>2. Busy' = Busy
      BY <1>1 DEF Busy
    <2>3. \A q \in Queue : Joined(q) => Joined(q)'
      BY <1>1, <2>1, <2>2, JoinedStays
    <2>4. (CqMade(d)' <=> CqMade(d)) /\ (BothMade(d)' <=> BothMade(d))
      BY <1>1, MadeStays DEF AllDone
    <2>5. AdminOut(d)'
      BY <1>1, <1>3, AdminOutStays DEF Stage
    <2>6. Joined(0)' /\ (BothMade(d) => Joined(1)')
      BY <1>3, <2>3 DEF Stage, IoQueue, Queue
    <2> QED
      BY <1>1, <1>3, <1>4, <2>4, <2>5, <2>6, StageStays
  <1>7. TypeInv' /\ HostInv'
    BY <1>1 DEF IInv, TypeInv, HostInv, DrvStates, Up
  <1>8. OffInv' /\ PcInv'
    BY <1>1, <1>2 DEF IInv, OffInv, PcInv, Busy, Up, Setup
  <1>9. OnInv'
    BY <1>4, <1>5, <1>6 DEF OnInv, Up
  <1> QED
    BY <1>7, <1>8, <1>9 DEF IInv

-----------------------------------------------------------------------------
(* The driver's steps: queues.                                              *)

(* The driver moves on in one queue and the emulator does nothing.          *)
LEMMA JoinedHost ==
  ASSUME NEW q \in Queue, Joined(q), UNCHANGED <<dev, pc, cur, events>>,
         InStep(q, host'[q], dev.q[q], Completing(q), cur), host'[q].rung = host[q].rung
  PROVE  Joined(q)'
  <1>1. Completing(q)' = Completing(q) /\ Busy' = Busy
    BY DEF Completing, Ringing, Busy
  <1>2. Chain(q, host'[q], dev.q[q], events, Busy)
    BY ChainSame DEF Joined
  <1> QED
    BY <1>1, <1>2 DEF Joined

LEMMA CompletingType == \A q : Completing(q) \in {0, 1}
  BY DEF Completing

(* What a step of the driver on its queues has to see to.                   *)
LEMMA HostKeeps ==
  ASSUME IInv, UNCHANGED <<dev, pc, cur, events, bar>>, gen' \in Nat,
         DOMAIN host' = Queue,
         \A q \in Queue : host'[q] \in HostType(q) /\ HostOK(q, host'[q]),
         \A j \in DOMAIN host'[1].out : IsIo(host'[1].out[j]),
         drv' = drv \/ (drv \in Up /\ drv' \in Up),
         drv \notin Up => gen' = gen,
         drv \in {"unbound", "disabled", "down"} =>
            \A q \in Queue : host'[q].gen = host[q].gen,
         drv \in {"programmed", "enabling"} =>
            /\ host'[0].gen = host[0].gen /\ Pristine(0, host'[0])
            /\ host'[1].gen = host[1].gen,
         dev.enabled => \E d \in Up : Where(d)' /\ Stage(d)'
  PROVE  IInv'
  <1>1. TypeInv'
    BY DEF IInv, TypeInv, DrvStates
  <1>2. HostInv'
    <2>1. CASE drv \in Up /\ drv' \in Up
      BY <2>1 DEF HostInv, Up
    <2>2. CASE drv' = drv /\ drv \notin Up
      BY <2>2 DEF IInv, HostInv, Up
    <2> QED
      BY <2>1, <2>2
  <1>3. OffInv'
    <2>1. CASE drv \in Up /\ drv' \in Up
      BY <2>1 DEF OffInv, Up, Setup
    <2>2. CASE drv' = drv /\ drv \notin Up
      <3>1. gen' = gen
        BY <2>2
      <3>2. Written' = Written
        BY <2>2 DEF Written
      <3>3. OffInv
        BY DEF IInv
      <3>4. Blank' <=> Blank
        BY DEF Blank
      <3>5. (\A i \in DOMAIN events : events[i] = Script((Written - Len(events)) + i))
              => (\A i \in DOMAIN events : events[i] = Script((Written - Len(events)) + i))'
        BY <3>1, <3>2 DEF Script
      <3> QED
        BY <2>2, <3>2, <3>3, <3>4, <3>5 DEF OffInv
    <2> QED
      BY <2>1, <2>2
  <1>4. PcInv'
    <2>1. drv \in Up => drv \notin {"shutting", "down"}
      BY DEF Up
    <2> QED
      BY <2>1 DEF IInv, PcInv, Busy
  <1>5. OnInv'
    BY DEF OnInv
  <1> QED
    BY <1>1, <1>2, <1>3, <1>4, <1>5 DEF IInv

LEMMA UpIsStage ==
  ASSUME IInv, drv \in Up
  PROVE  dev.enabled /\ Bells /\ Stage(drv)
  <1>1. dev.enabled
    BY DEF IInv, PcInv
  <1>2. PICK d \in Up : Where(d) /\ Stage(d)
    BY <1>1, OnFacts
  <1>3. d = drv /\ Bells
    BY <1>2 DEF Where, Up
  <1> QED
    BY <1>1, <1>2, <1>3

(* Entering and leaving the interrupt handler.                              *)
LEMMA IsrKeeps ==
  ASSUME IInv, UNCHANGED <<dev, pc, cur, events, bar, drv, gen>>, DOMAIN host' = Queue,
         \A q \in Queue : \E b \in BOOLEAN :
            host'[q] = host[q] \/ host'[q] = [host[q] EXCEPT !.isr = b]
  PROVE  IInv'
  <1>1. ASSUME NEW q \in Queue
        PROVE  /\ host'[q] \in HostType(q) /\ HostOK(q, host'[q])
               /\ host'[q].gen = host[q].gen /\ host'[q].out = host[q].out
               /\ host'[q].tail = host[q].tail /\ host'[q].rung = host[q].rung
               /\ Pristine(q, host[q]) => Pristine(q, host'[q])
               /\ \A r, x, c0 : InStep(q, host[q], r, x, c0) => InStep(q, host'[q], r, x, c0)
    <2>1. host[q] \in HostType(q) /\ HostOK(q, host[q])
      BY DEF IInv, TypeInv, HostInv
    <2>2. PICK b \in BOOLEAN : host'[q] = host[q] \/ host'[q] = [host[q] EXCEPT !.isr = b]
      BY <1>1
    <2>3. CASE host'[q] = host[q]
      BY <2>1, <2>3
    <2>4. CASE host'[q] = [host[q] EXCEPT !.isr = b]
      BY <2>1, <2>4, IsrStep
    <2> QED
      BY <2>2, <2>3, <2>4
  <1>2. 0 \in Queue /\ 1 \in Queue
    BY DEF Queue
  <1>3. \A q \in Queue : Joined(q) => Joined(q)'
    BY <1>1, JoinedHost DEF Joined
  <1>4. ASSUME dev.enabled PROVE \E d \in Up : Where(d)' /\ Stage(d)'
    <2>1. PICK d \in Up : Where(d) /\ Stage(d)
      BY <1>4, OnFacts
    <2>2. Where(d)'
      BY <2>1, WhereStays
    <2>3. (CqMade(d)' <=> CqMade(d)) /\ (BothMade(d)' <=> BothMade(d))
      BY <1>1, <1>2, MadeStays DEF AllDone
    <2>4. AdminOut(d)'
      BY <1>1, <1>2, <2>1, AdminOutStays DEF Stage
    <2>5. Joined(0)' /\ (BothMade(d) => Joined(1)')
      BY <1>2, <1>3, <2>1 DEF Stage, IoQueue
    <2>6. Stage(d)'
      BY <1>1, <1>2, <2>1, <2>3, <2>4, <2>5, StageStays
    <2> QED
      BY <2>2, <2>6
  <1>5. gen' \in Nat /\ \A j \in DOMAIN host'[1].out : IsIo(host'[1].out[j])
    BY <1>1, <1>2 DEF IInv, TypeInv, HostInv
  <1>6. drv \in {"programmed", "enabling"} => Pristine(0, host'[0])
    BY <1>1, <1>2 DEF IInv, HostInv
  <1> QED
    BY <1>1, <1>2, <1>4, <1>5, <1>6, HostKeeps

LEMMA InterruptKeeps ==
  ASSUME IInv, NEW q \in Queue, IsrEnter(Vector(q)) \/ IsrExit(q)
  PROVE  IInv'
  <1>1. DOMAIN host = Queue
    BY DEF IInv, TypeInv
  <1>2. CASE IsrEnter(Vector(q))
    <2>1. /\ UNCHANGED <<dev, pc, cur, events, bar, drv, gen>>
          /\ host' = [p \in Queue |-> IF Vector(p) = Vector(q) /\ host[p].gen # 0
                                      THEN [host[p] EXCEPT !.isr = TRUE] ELSE host[p]]
      BY <1>2 DEF IsrEnter
    <2> QED
      BY <2>1, IsrKeeps
  <1>3. CASE IsrExit(q)
    <2>1. /\ UNCHANGED <<dev, pc, cur, events, bar, drv, gen>>
          /\ host' = [host EXCEPT ![q].isr = FALSE]
      BY <1>3 DEF IsrExit
    <2> QED
      BY <1>1, <2>1, IsrKeeps
  <1> QED
    BY <1>2, <1>3

(* A command more in a queue that is in step.                               *)
LEMMA SubmitJoined ==
  ASSUME IInv, NEW q \in Queue, Joined(q), HasRoom(q), UNCHANGED <<dev, pc, cur, events>>,
         NEW c, c[1] \in Ops, c[2] \in Seq(Nat), host'[q] = Queued(host[q], q, c)
  PROVE  /\ host'[q] \in HostType(q) /\ HostOK(q, host'[q]) /\ Joined(q)'
         /\ host'[q].gen = host[q].gen /\ dev.q[q].sqHead # host'[q].tail
         /\ \E e \in Cmd : host'[q].out = Append(host[q].out, e)
                           /\ e.op = c[1] /\ e.args = c[2]
  <1>1. PICK h \in HostType(q), r \in QueueState, x \in {0, 1} :
           h = host[q] /\ r = dev.q[q] /\ x = Completing(q)
    <2>1. host[q] \in HostType(q) /\ dev.q[q] \in QueueState
      BY DEF IInv, TypeInv
    <2>2. Completing(q) \in {0, 1}
      BY CompletingType
    <2> QED
      BY <2>1, <2>2, Zenon
  <1>2. HostOK(q, h) /\ InStep(q, h, r, x, cur)
    BY <1>1 DEF Joined, IInv, HostInv
  <1>3. Len(h.out) < Depth(q) - 1 /\ h.gen # 0
    BY <1>1, <1>2 DEF HasRoom, InStep
  <1>4. PICK g, e : g = host'[q] /\ Submits(h, q, c, g, e)
    <2>1. PICK e : e = [cid |-> FreeTag(h, q), op |-> c[1], args |-> c[2]]
      OBVIOUS
    <2> QED
      BY <1>1, <2>1 DEF Submits
  <1>5. /\ g \in HostType(q) /\ HostOK(q, g)
        /\ g.gen = h.gen /\ g.rung = h.rung /\ g.head = h.head
        /\ g.phase = h.phase /\ g.cq = h.cq /\ g.tail = Slot(q, h.tail + 1)
        /\ e \in Cmd /\ e.op = c[1] /\ e.args = c[2]
        /\ g.out = Append(h.out, e) /\ g.sq = [h.sq EXCEPT ![h.tail] = e]
    BY <1>2, <1>3, <1>4, SubmitStep
  <1>6. InStep(q, g, r, x, cur) /\ r.sqHead # g.tail
    BY <1>2, <1>3, <1>5, SubmitInStep
  <1>7. Joined(q)'
    BY <1>1, <1>4, <1>5, <1>6, JoinedHost
  <1> QED
    BY <1>1, <1>4, <1>5, <1>6, <1>7

LEMMA Appended ==
  ASSUME NEW s \in Seq(Cmd), NEW e \in Cmd
  PROVE  /\ Append(s, e) # <<>> /\ Len(s) \in Nat /\ DOMAIN s = 1 .. Len(s)
         /\ Len(Append(s, e)) = Len(s) + 1 /\ Append(s, e)[Len(s) + 1] = e
         /\ \A j \in DOMAIN Append(s, e) :
               \/ j \in DOMAIN s /\ Append(s, e)[j] = s[j]
               \/ j = Len(s) + 1 /\ j = Len(Append(s, e)) /\ Append(s, e)[j] = e
  <1>1. /\ Append(s, e) \in Seq(Cmd) /\ Len(Append(s, e)) = Len(s) + 1
        /\ Append(s, e)[Len(s) + 1] = e
        /\ \A i \in 1 .. Len(s) : Append(s, e)[i] = s[i]
    BY AppendProperties
  <1>2. PICK n \in Nat : n = Len(s) /\ DOMAIN s = 1 .. n
    BY LenProperties
  <1>3. DOMAIN Append(s, e) = 1 .. n + 1
    BY <1>1, <1>2, LenProperties
  <1>4. \A j \in 1 .. n + 1 : j \in 1 .. n \/ j = n + 1
    BY <1>2
  <1>5. Append(s, e) # <<>>
    BY <1>1, <1>2, EmptySeq
  <1> QED
    BY <1>1, <1>2, <1>3, <1>4, <1>5

LEMMA SubmitQueryKeeps ==
  ASSUME IInv, NEW c \in Queries, SubmitQuery(c)
  PROVE  IInv'
  <1>1. /\ drv = "live" /\ HasRoom(0) /\ host' = [host EXCEPT ![0] = Queued(@, 0, c)]
        /\ UNCHANGED <<dev, pc, cur, events, bar, drv, gen>>
    BY DEF SubmitQuery
  <1>2. 0 \in Queue /\ 1 \in Queue /\ DOMAIN host = Queue /\ gen \in Nat
    BY DEF Queue, IInv, TypeInv
  <1>3. /\ host'[0] = Queued(host[0], 0, c) /\ host'[1] = host[1] /\ DOMAIN host' = Queue
    BY <1>1, <1>2
  <1>4. dev.enabled /\ Bells /\ Stage("live") /\ drv \in Up
    BY <1>1, UpIsStage DEF Up
  <1>5. Joined(0) /\ AdminOut("live")
    BY <1>4 DEF Stage
  <1>6. c[1] \in Ops /\ c[2] \in Seq(Nat) /\ c = <<c[1], c[2]>>
    BY QueryIsCommand
  <1>7. /\ host'[0] \in HostType(0) /\ HostOK(0, host'[0]) /\ Joined(0)'
        /\ \E e \in Cmd : host'[0].out = Append(host[0].out, e)
                          /\ e.op = c[1] /\ e.args = c[2]
    BY <1>1, <1>2, <1>3, <1>5, <1>6, SubmitJoined
  <1>8. AdminOut("live")'
    <2>1. PICK e \in Cmd : /\ host'[0].out = Append(host[0].out, e)
                           /\ e.op = c[1] /\ e.args = c[2]
      BY <1>7
    <2>2. IsQuery(e)
      BY <1>6, <2>1 DEF IsQuery
    <2>3. host[0].out \in Seq(Cmd)
      BY <1>2, HostFields DEF IInv, TypeInv
    <2>4. \A j \in DOMAIN host[0].out : IsQuery(host[0].out[j])
      BY <1>5 DEF AdminOut, Sent
    <2>5. \A j \in DOMAIN host'[0].out : IsQuery(host'[0].out[j])
      BY <2>1, <2>2, <2>3, <2>4, Appended
    <2> QED
      BY <2>5 DEF AdminOut, Sent, IsQuery
  <1>9. Stage("live")'
    <2>1. ~CqMade("live") /\ ~BothMade("live") /\ ~CqMade("live")' /\ ~BothMade("live")'
      BY DEF CqMade, BothMade
    <2>2. "live" \in Up
      BY DEF Up
    <2> QED
      BY <1>1, <1>3, <1>4, <1>7, <1>8, <2>1, <2>2, StageStays
  <1>10. Where("live")'
    BY <1>1, <1>4 DEF Where, Bells
  <1>11. \A q \in Queue : host'[q] \in HostType(q) /\ HostOK(q, host'[q])
    BY <1>2, <1>3, <1>7 DEF IInv, TypeInv, HostInv, Queue
  <1>12. \A j \in DOMAIN host'[1].out : IsIo(host'[1].out[j])
    BY <1>3 DEF IInv, HostInv
  <1>13. drv \notin {"unbound", "disabled", "down", "programmed", "enabling"}
    BY <1>1
  <1> QED
    BY <1>1, <1>2, <1>3, <1>4, <1>9, <1>10, <1>11, <1>12, <1>13, HostKeeps

LEMMA SubmitIoKeeps ==
  ASSUME IInv, NEW c \in IoCommands, SubmitIo(c)
  PROVE  IInv'
  <1>1. /\ drv = "io" /\ HasRoom(1) /\ host' = [host EXCEPT ![1] = Queued(@, 1, c)]
        /\ UNCHANGED <<dev, pc, cur, events, bar, drv, gen>>
    BY DEF SubmitIo
  <1>2. 0 \in Queue /\ 1 \in Queue /\ DOMAIN host = Queue /\ gen \in Nat
    BY DEF Queue, IInv, TypeInv
  <1>3. /\ host'[1] = Queued(host[1], 1, c) /\ host'[0] = host[0] /\ DOMAIN host' = Queue
    BY <1>1, <1>2
  <1>4. dev.enabled /\ Bells /\ Stage("io") /\ drv \in Up
    BY <1>1, UpIsStage DEF Up
  <1>5. Joined(0) /\ Joined(1) /\ AdminOut("io")
    BY <1>4 DEF Stage, IoQueue, BothMade
  <1>6. c[1] \in Ops /\ c[2] \in Seq(Nat) /\ c = <<c[1], c[2]>>
    BY IoIsCommand
  <1>7. /\ host'[1] \in HostType(1) /\ HostOK(1, host'[1]) /\ Joined(1)'
        /\ host'[1].gen = host[1].gen
        /\ \E e \in Cmd : host'[1].out = Append(host[1].out, e)
                          /\ e.op = c[1] /\ e.args = c[2]
    BY <1>1, <1>2, <1>3, <1>5, <1>6, SubmitJoined
  <1>8. \A j \in DOMAIN host'[1].out : IsIo(host'[1].out[j])
    <2>1. PICK e \in Cmd : /\ host'[1].out = Append(host[1].out, e)
                           /\ e.op = c[1] /\ e.args = c[2]
      BY <1>7
    <2>2. IsIo(e)
      BY <1>6, <2>1 DEF IsIo
    <2>3. host[1].out \in Seq(Cmd)
      BY <1>2, HostFields DEF IInv, TypeInv
    <2>4. \A j \in DOMAIN host[1].out : IsIo(host[1].out[j])
      BY DEF IInv, HostInv
    <2> QED
      BY <2>1, <2>2, <2>3, <2>4, Appended
  <1>9. Stage("io")'
    <2>1. ~CqMade("io") /\ BothMade("io") /\ ~CqMade("io")' /\ BothMade("io")'
      BY DEF CqMade, BothMade
    <2>2. "io" \in Up
      BY DEF Up
    <2>3. Joined(0)'
      <3>1. InStep(0, host'[0], dev.q[0], Completing(0), cur)
        BY <1>3, <1>5 DEF Joined
      <3> QED
        BY <1>1, <1>2, <1>3, <1>5, <3>1, JoinedHost
    <2>4. AdminOut("io")'
      BY <1>3, <1>5, <1>7, AdminOutStays
    <2> QED
      BY <1>1, <1>4, <1>7, <2>1, <2>2, <2>3, <2>4, StageStays
  <1>10. Where("io")'
    BY <1>1, <1>4 DEF Where, Bells
  <1>11. \A q \in Queue : host'[q] \in HostType(q) /\ HostOK(q, host'[q])
    BY <1>2, <1>3, <1>7 DEF IInv, TypeInv, HostInv, Queue
  <1>12. drv \notin {"unbound", "disabled", "down", "programmed", "enabling"}
    BY <1>1
  <1> QED
    BY <1>1, <1>2, <1>3, <1>4, <1>8, <1>9, <1>10, <1>11, <1>12, HostKeeps

(* A command that changes a queue, behind the queries.                      *)
LEMMA AdminSent ==
  ASSUME NEW d \in Up \ Sent, NEW n \in Sent, AdminOut(d), host[0].out \in Seq(Cmd),
         NEW e \in Cmd, host'[0].out = Append(host[0].out, e),
         e.op = SentOp(n), e.args = SentArgs(n)'
  PROVE  AdminOut(n)'
  <1>1. \A j \in DOMAIN host[0].out : IsQuery(host[0].out[j])
    BY DEF AdminOut
  <1>2. /\ host'[0].out # <<>> /\ host'[0].out[Len(host'[0].out)] = e
        /\ \A j \in DOMAIN host'[0].out : \/ j = Len(host'[0].out)
                                          \/ IsQuery(host'[0].out[j])
    BY <1>1, Appended
  <1>3. \A j : IsQuery(host'[0].out[j]) <=> IsQuery(host[0].out[j])'
    BY DEF IsQuery
  <1> QED
    BY <1>2, <1>3 DEF AdminOut

LEMMA SentCommand ==
  ASSUME NEW g \in Nat
  PROVE  /\ <<1, IoDepth - 1, g, 1>> \in Seq(Nat) /\ <<1, IoDepth - 1, g>> \in Seq(Nat)
         /\ <<1>> \in Seq(Nat)
  <1>1. PICK n \in Nat : n = IoDepth - 1
    BY NvmeAssumption
  <1>2. <<1, n, g, 1>> \in Seq(Nat) /\ <<1, n, g>> \in Seq(Nat) /\ <<1>> \in Seq(Nat)
    OBVIOUS
  <1> QED
    BY <1>1, <1>2

(* The driver at stage d sends the command of stage n.                      *)
LEMMA SendKeeps ==
  ASSUME IInv, HasRoom(0), UNCHANGED <<dev, pc, cur, events, bar>>, DOMAIN host' = Queue,
         NEW n \in Sent, drv \in Up \ Sent, drv' = n, gen' \in Nat,
         NEW c, c[1] = SentOp(n), c[1] \in Ops, c[2] = SentArgs(n)', c[2] \in Seq(Nat),
         host'[0] = Queued(host[0], 0, c),
         host'[1] \in HostType(1), HostOK(1, host'[1]),
         \A j \in DOMAIN host'[1].out : IsIo(host'[1].out[j]),
         dev.q[0].sqHead # host'[0].tail => IoQueue(n)'
  PROVE  IInv'
  <1>1. 0 \in Queue /\ 1 \in Queue
    BY DEF Queue
  <1>2. dev.enabled /\ Bells /\ Stage(drv)
    BY UpIsStage
  <1>3. Joined(0) /\ AdminOut(drv)
    BY <1>2 DEF Stage
  <1>4. /\ host'[0] \in HostType(0) /\ HostOK(0, host'[0]) /\ Joined(0)'
        /\ dev.q[0].sqHead # host'[0].tail
        /\ \E e \in Cmd : host'[0].out = Append(host[0].out, e)
                          /\ e.op = c[1] /\ e.args = c[2]
    BY <1>1, <1>3, SubmitJoined
  <1>5. host[0].out \in Seq(Cmd)
    BY <1>1, HostFields DEF IInv, TypeInv
  <1>6. AdminOut(n)'
    BY <1>3, <1>4, <1>5, AdminSent
  <1>7. n \in Up
    BY DEF Sent, Up
  <1>8. Stage(n)' /\ Where(n)'
    BY <1>2, <1>4, <1>6 DEF Stage, Where, Bells
  <1>9. \A q \in Queue : host'[q] \in HostType(q) /\ HostOK(q, host'[q])
    BY <1>4 DEF Queue
  <1>10. drv \notin {"unbound", "disabled", "down", "programmed", "enabling"}
    BY DEF Up
  <1> QED
    BY <1>7, <1>8, <1>9, <1>10, HostKeeps

LEMMA SubmitQueueCommandKeeps ==
  ASSUME IInv, SubmitQueueCommand
  PROVE  IInv'
  <1>1. HasRoom(0) /\ UNCHANGED <<dev, pc, cur, events, bar>>
    BY DEF SubmitQueueCommand
  <1>2. /\ 0 \in Queue /\ 1 \in Queue /\ DOMAIN host = Queue /\ gen \in Nat
        /\ host[1] \in HostType(1) /\ HostOK(1, host[1]) /\ host[1].gen \in Nat
        /\ \A j \in DOMAIN host[1].out : IsIo(host[1].out[j])
    <2>1. 0 \in Queue /\ 1 \in Queue
      BY DEF Queue
    <2> QED
      BY <2>1, HostFields DEF IInv, TypeInv, HostInv
  <1>3. drv \in Up => IoQueue(drv) /\ Joined(0)
    BY UpIsStage DEF Stage
  <1>4. CASE /\ drv = "live"
             /\ gen' = gen + 1
             /\ host' = [host EXCEPT
                   ![1] = Fresh(1, gen'),
                   ![0] = Queued(@, 0, <<"create_cq", <<1, IoDepth - 1, gen', Vector(1)>>>>)]
             /\ drv' = "cq_sent"
    <2>1. PICK g \in Nat \ {0} : g = gen'
      BY <1>2, <1>4
    <2>2. PICK c : c = <<"create_cq", <<1, IoDepth - 1, g, 1>>>>
      OBVIOUS
    <2>3. /\ host'[1] = Fresh(1, g) /\ host'[0] = Queued(host[0], 0, c)
          /\ DOMAIN host' = Queue
      BY <1>2, <1>4, <2>1, <2>2 DEF Vector
    <2>4. /\ Fresh(1, g) \in HostType(1) /\ HostOK(1, Fresh(1, g))
          /\ Pristine(1, Fresh(1, g)) /\ Fresh(1, g).gen = g
      BY <1>2, FreshIsPristine
    <2>5. c[1] = SentOp("cq_sent") /\ c[2] = SentArgs("cq_sent")' /\ c[1] \in Ops
          /\ c[2] \in Seq(Nat)
      BY <2>1, <2>2, <2>3, <2>4, SentCommand DEF SentOp, SentArgs, Ops
    <2>6. /\ NoBell(1, events) /\ dev.q[1] = ResetQueue
      BY <1>3, <1>4 DEF IoQueue, CqMade, BothMade, Up
    <2>7. host'[1].out = <<>> /\ host'[1].rung = 0 /\ host'[1].tail = 0
      BY <2>3, <2>4 DEF Pristine
    <2>8. dev.q[0].sqHead # host'[0].tail => IoQueue("cq_sent")'
      <3>1. ~BothMade("cq_sent")'
        BY DEF BothMade
      <3>2. dev.q[0].sqHead # host'[0].tail => ~CqMade("cq_sent")'
        BY <1>1 DEF CqMade, AllDone
      <3> QED
        BY <1>1, <2>3, <2>4, <2>6, <2>7, <3>1, <3>2 DEF IoQueue
    <2>9. \A j \in DOMAIN host'[1].out : IsIo(host'[1].out[j])
      BY <2>7, EmptySeq
    <2>10. drv \in Up \ Sent /\ "cq_sent" \in Sent /\ gen' \in Nat
      BY <1>4, <2>1 DEF Up, Sent
    <2> QED
      BY <1>1, <1>4, <2>3, <2>4, <2>5, <2>8, <2>9, <2>10, SendKeeps
  <1>5. ASSUME NEW n \in Sent, drv \in Up \ Sent, NEW c, Send(c, n),
               c[1] = SentOp(n), c[2] = SentArgs(n),
               dev.q[0].sqHead # host'[0].tail => IoQueue(n)'
        PROVE  IInv'
    <2>1. /\ host' = [host EXCEPT ![0] = Queued(@, 0, c)] /\ drv' = n /\ gen' = gen
      BY <1>5 DEF Send
    <2>2. /\ host'[1] = host[1] /\ host'[0] = Queued(host[0], 0, c) /\ DOMAIN host' = Queue
      BY <1>2, <2>1
    <2>3. SentArgs(n)' = SentArgs(n)
      BY <2>2 DEF SentArgs
    <2>4. c[1] \in Ops /\ c[2] \in Seq(Nat)
      BY <1>2, <1>5, SentCommand DEF SentArgs, SentOp, Ops, Sent
    <2> QED
      BY <1>1, <1>2, <1>5, <2>1, <2>2, <2>3, <2>4, SendKeeps
  <1>6. ASSUME NEW n \in Sent, NEW c, Send(c, n), UNCHANGED dev
        PROVE  host'[1] = host[1] /\ (dev.q[0].sqHead # host'[0].tail => ~AllDone')
    BY <1>2, <1>6 DEF Send, AllDone
  <1>7. CASE drv = "cq_made" /\ Send(<<"create_sq", <<1, IoDepth - 1, host[1].gen>>>>, "sq_sent")
    <2>1. IoQueue("cq_made") /\ drv \in Up \ Sent /\ "sq_sent" \in Sent
      BY <1>3, <1>7 DEF Up, Sent
    <2>2. /\ host[1].out = <<>> /\ host[1].rung = host[1].tail /\ Pristine(1, host[1])
          /\ NoBell(1, events) /\ dev.q[1] = CreateCq(ResetQueue, IoDepth - 1, host[1].gen, 1)
      BY <2>1 DEF IoQueue, CqMade, BothMade
    <2>3. dev.q[0].sqHead # host'[0].tail => IoQueue("sq_sent")'
      BY <1>1, <1>6, <1>7, <2>1, <2>2 DEF IoQueue, CqMade, BothMade
    <2> QED
      BY <1>5, <1>7, <2>1, <2>3 DEF SentOp, SentArgs
  <1>8. CASE /\ drv = "io" /\ host[1].out = <<>>
             /\ Send(<<"delete", <<1>>>>, "sq_del")
    <2>1. IoQueue("io") /\ drv \in Up \ Sent /\ "sq_del" \in Sent /\ Bells /\ dev.enabled
      BY <1>3, <1>8, UpIsStage DEF Up, Sent
    <2>2. Joined(1)
      BY <2>1 DEF IoQueue, BothMade
    <2>3. host[1].rung = host[1].tail
      <3>1. events \in Seq(EventType) /\ Completing(1) \in {0, 1}
        BY CompletingType DEF IInv, TypeInv
      <3>2. /\ InStep(1, host[1], dev.q[1], Completing(1), cur)
            /\ Chain(1, host[1], dev.q[1], events, Busy)
        BY <2>2 DEF Joined
      <3> QED
        BY <1>2, <1>8, <3>1, <3>2, EmptyInStep
    <2>4. ASSUME dev.q[0].sqHead # host'[0].tail PROVE IoQueue("sq_del")'
      <3>1. host'[1] = host[1] /\ ~AllDone'
        BY <1>1, <1>6, <1>8, <2>1, <2>4
      <3>2. Joined(1)'
        BY <1>1, <1>2, <2>2, <3>1, JoinedHost DEF Joined
      <3> QED
        BY <1>8, <2>3, <3>1, <3>2 DEF IoQueue, CqMade, BothMade
    <2> QED
      BY <1>5, <1>8, <2>1, <2>4 DEF SentOp, SentArgs
  <1>9. CASE drv = "sq_gone" /\ Send(<<"delete", <<1>>>>, "cq_del")
    <2>1. IoQueue("sq_gone") /\ drv \in Up \ Sent /\ "cq_del" \in Sent
      BY <1>3, <1>9 DEF Up, Sent
    <2>2. /\ host[1].out = <<>> /\ host[1].rung = host[1].tail
          /\ NoBell(1, events) /\ dev.q[1] = ResetQueue
      BY <2>1 DEF IoQueue, CqMade, BothMade
    <2>3. dev.q[0].sqHead # host'[0].tail => IoQueue("cq_del")'
      BY <1>1, <1>6, <1>9, <2>1, <2>2 DEF IoQueue, CqMade, BothMade
    <2> QED
      BY <1>5, <1>9, <2>1, <2>3 DEF SentOp, SentArgs
  <1> QED
    BY <1>4, <1>7, <1>8, <1>9 DEF SubmitQueueCommand

(* The driver rings for what it has queued.                                 *)
LEMMA RingKeeps ==
  ASSUME IInv, NEW q \in Queue, RingDoorbell(q)
  PROVE  IInv'
  <1>1. /\ drv \in Up /\ host[q].rung # host[q].tail
        /\ events' = Append(events, Event("sqdb", q, host[q].tail))
        /\ host' = [host EXCEPT ![q].rung = host[q].tail]
        /\ UNCHANGED <<dev, pc, cur, bar, drv, gen>>
    BY DEF RingDoorbell
  <1>2. PICK d \in Up : d = drv
    BY <1>1
  <1>3. dev.enabled /\ Bells /\ Stage(d) /\ events \in Seq(EventType)
    BY <1>1, <1>2, UpIsStage DEF IInv, TypeInv
  <1>4. /\ 0 \in Queue /\ 1 \in Queue /\ DOMAIN host = Queue
        /\ \A p \in Queue : /\ host[p] \in HostType(p) /\ HostOK(p, host[p])
                            /\ dev.q[p] \in QueueState /\ host[p].tail \in Nat
    <2>1. \A p \in Queue : host[p] \in HostType(p) => host[p].tail \in Nat
      BY HostFields DEF Slots
    <2> QED
      BY <2>1 DEF Queue, IInv, TypeInv, HostInv
  <1>5. q = 1 => d = "io" /\ BothMade(d)
    BY <1>1, <1>3 DEF Stage, IoQueue, BothMade
  <1>6. Joined(q)
    BY <1>3, <1>5 DEF Stage, IoQueue, Queue
  <1> DEFINE bell == [host[q] EXCEPT !.rung = host[q].tail]
  <1>7. PICK h \in HostType(q), r \in QueueState, x \in {0, 1}, g \in {bell} :
           /\ h = host[q] /\ r = dev.q[q] /\ x = Completing(q)
           /\ g = [h EXCEPT !.rung = h.tail]
    <2>1. Completing(q) \in {0, 1}
      BY CompletingType
    <2> QED
      BY <1>4, <2>1, Zenon
  <1> HIDE DEF bell
  <1>8. host'[q] = g /\ \A p \in Queue : p # q => host'[p] = host[p]
    BY <1>1, <1>4, <1>7
  <1>9. /\ g \in HostType(q) /\ HostOK(q, g) /\ g.out = h.out /\ g.tail = h.tail
        /\ g.rung = h.tail /\ g.gen = h.gen /\ InStep(q, g, r, x, cur)
    <2>1. InStep(q, h, r, x, cur) /\ HostOK(q, h) /\ h.rung # h.tail
      BY <1>1, <1>4, <1>6, <1>7 DEF Joined
    <2> QED
      BY <1>7, <2>1, RingStep
  <1>10. PICK e \in EventType : /\ e = Event("sqdb", q, h.tail) /\ e.reg = "sqdb"
                                /\ \A p : p # q => ~IsBell(e, p)
    <2>1. h.tail \in Nat
      BY <1>4, <1>7
    <2> QED
      BY <2>1, EventTypes DEF Event
  <1>11. events' = Append(events, e)
    BY <1>1, <1>7, <1>10
  <1>12. /\ events' \in Seq(EventType) /\ events' # <<>>
         /\ events # <<>> => Head(events') = Head(events) /\ events'[1] = events[1]
    BY <1>3, <1>11, Appending
  <1>13. Busy' = Busy /\ (Busy => events # <<>> /\ events[1].reg = "sqdb")
    BY <1>1 DEF Busy, IInv, PcInv
  <1>14. \A p : Completing(p)' = Completing(p)
    BY <1>1, <1>12, <1>13 DEF Completing, Ringing, Busy
  <1>15. Joined(q)'
    <2>1. Chain(q, h, r, events, Busy) /\ InStep(q, h, r, x, cur)
      BY <1>6, <1>7 DEF Joined
    <2>2. Chain(q, g, r, events', Busy)
      <3>1. /\ h.rung # h.tail /\ g.rung = h.tail /\ g \in HostType(q)
            /\ events \in Seq(EventType) /\ (Busy => events # <<>>)
            /\ events' = Append(events, Event("sqdb", q, h.tail))
        BY <1>1, <1>3, <1>7, <1>9, <1>10, <1>11, <1>13
      <3>2. Chain(q, g, r, Append(events, Event("sqdb", q, h.tail)), Busy)
        BY <2>1, <3>1, RingChain
      <3> QED
        BY <3>1, <3>2
    <2> QED
      BY <1>1, <1>7, <1>8, <1>9, <1>13, <1>14, <2>2 DEF Joined
  <1>16. ASSUME NEW p \in Queue, p # q, Joined(p) PROVE Joined(p)'
    <2>1. Chain(p, host[p], dev.q[p], events', Busy)
      BY <1>3, <1>10, <1>11, <1>16, ChainAppend DEF Joined
    <2> QED
      BY <1>1, <1>8, <1>13, <1>14, <1>16, <2>1 DEF Joined
  <1>17. \A p \in Queue : host'[p].out = host[p].out /\ host'[p].tail = host[p].tail
                          /\ host'[p].gen = host[p].gen
    BY <1>7, <1>8, <1>9
  <1>18. Stage(d)'
    <2>1. (CqMade(d)' <=> CqMade(d)) /\ (BothMade(d)' <=> BothMade(d))
      BY <1>1, <1>4, <1>17, MadeStays DEF AllDone
    <2>2. AdminOut(d)'
      BY <1>3, <1>4, <1>17, AdminOutStays DEF Stage
    <2>3. Joined(0)' /\ (BothMade(d) => Joined(1)')
      BY <1>3, <1>4, <1>15, <1>16 DEF Stage, IoQueue, Queue
    <2>4. CASE q = 0
      <3>1. host'[1] = host[1] /\ (NoBell(1, events) => NoBell(1, events'))
        BY <1>3, <1>4, <1>8, <1>10, <1>11, <2>4, NoBellAppend
      <3> QED
        BY <1>1, <1>3, <2>1, <2>2, <2>3, <3>1, StageStays
    <2>5. CASE q = 1
      <3>1. d = "io" /\ BothMade(d) /\ host'[1].gen = host[1].gen
        BY <1>4, <1>5, <1>17, <2>5
      <3> QED
        BY <1>3, <2>1, <2>2, <2>3, <3>1, StageStays
    <2> QED
      BY <2>4, <2>5 DEF Queue
  <1>19. Where(d)'
    <2>1. Bells'
      <3>1. \A i \in DOMAIN events' : i \in DOMAIN events \/ i = Len(events) + 1
        <4>1. PICK n \in Nat : n = Len(events)
          BY <1>3, LenProperties
        <4>2. DOMAIN events' = 1 .. n + 1 /\ DOMAIN events = 1 .. n
          BY <1>3, <1>11, <4>1, Appending
        <4>3. \A i \in 1 .. n + 1 : i \in 1 .. n \/ i = n + 1
          BY <4>1
        <4> QED
          BY <4>1, <4>2, <4>3
      <3>2. /\ events'[Len(events) + 1] = e
            /\ \A i \in DOMAIN events : events'[i] = events[i]
        BY <1>3, <1>11, Appending
      <3> QED
        BY <1>3, <1>10, <3>1, <3>2 DEF Bells
    <2> QED
      BY <1>1, <1>2, <2>1 DEF Where
  <1>20. TypeInv'
    <2>1. DOMAIN host' = Queue /\ \A p \in Queue : host'[p] \in HostType(p)
      BY <1>1, <1>4, <1>8, <1>9
    <2> QED
      BY <1>1, <1>12, <2>1 DEF IInv, TypeInv
  <1>21. HostInv'
    <2>1. \A p \in Queue : HostOK(p, host'[p])
      BY <1>4, <1>8, <1>9
    <2>2. \A j \in DOMAIN host'[1].out : IsIo(host'[1].out[j])
      BY <1>4, <1>17 DEF IInv, HostInv
    <2> QED
      BY <1>1, <2>1, <2>2 DEF HostInv, Up
  <1>22. OffInv' /\ PcInv'
    BY <1>1, <1>3, <1>12, <1>13 DEF IInv, OffInv, PcInv, Up, Setup
  <1> QED
    BY <1>1, <1>18, <1>19, <1>20, <1>21, <1>22 DEF IInv, OnInv

(* What follows a stage that waits, once its command is answered.           *)
NextOf(d) == CASE d = "cq_sent" -> "cq_made" [] d = "sq_sent" -> "io"
               [] d = "sq_del" -> "sq_gone" [] d = "cq_del" -> "live"

LEMMA AdvancedSent ==
  ASSUME NEW d \in Sent
  PROVE  /\ NextOf(d) \in Up \ Sent
         /\ drv = d => Advanced(SentOp(d)) = NextOf(d)
         /\ drv \notin Sent => Advanced(SentOp(d)) = drv
  BY DEF Sent, Up, NextOf, SentOp, Advanced

LEMMA AdvancedQuery ==
  ASSUME NEW op \in {"identify", "log", "features"}
  PROVE  Advanced(op) = drv
  BY DEF Advanced

(* An answer is taken: what Reap does to the queue it is about.             *)
LEMMA ReapQueue ==
  ASSUME IInv, NEW q \in Queue, Reap(q)
  PROVE  /\ IsNew(host[q], q, 0) /\ host'[q] = Consumed(host[q], q)
         /\ host'[1 - q] = (IF drv = "cq_del" /\ drv' = "live" THEN Unused ELSE host[1 - q])
         /\ drv' = (IF q = 0 THEN Advanced(host[0].out[1].op) ELSE drv)
         /\ UNCHANGED <<dev, pc, cur, events, bar, gen>> /\ DOMAIN host' = Queue
         /\ host[q].gen # 0 /\ Len(host[q].out) >= 1 /\ Len(host[q].out) \in Nat
         /\ host'[q] \in HostType(q) /\ HostOK(q, host'[q])
         /\ host'[q].gen = host[q].gen /\ host'[q].tail = host[q].tail
         /\ host'[q].rung = host[q].rung
         /\ Len(host'[q].out) = Len(host[q].out) - 1
         /\ DOMAIN host'[q].out = 1 .. Len(host[q].out) - 1
         /\ \A i \in 1 .. Len(host[q].out) - 1 : host'[q].out[i] = host[q].out[i + 1]
         /\ Joined(q) => /\ Joined(q)'
                         /\ Len(host[q].out) = 1 => dev.q[q].sqHead = host[q].tail
  <1>1. /\ DOMAIN host = Queue /\ host[q] \in HostType(q) /\ HostOK(q, host[q])
        /\ dev.q[q] \in QueueState
    BY DEF IInv, TypeInv, HostInv
  <1>2. PICK h \in HostType(q) : h = host[q] /\ HostOK(q, h)
    BY <1>1
  <1>3. IsNew(h, q, 0)
    BY <1>2 DEF Reap
  <1>4. PICK g : g = Consumed(h, q)
    OBVIOUS
  <1>5. /\ h.gen # 0 /\ Len(h.out) >= 1 /\ Answered(h, q) = {1}
        /\ g \in HostType(q) /\ HostOK(q, g)
        /\ g.gen = h.gen /\ g.tail = h.tail /\ g.rung = h.rung
        /\ Len(g.out) = Len(h.out) - 1
        /\ \A i \in 1 .. Len(h.out) - 1 : g.out[i] = h.out[i + 1]
    BY <1>2, <1>3, <1>4, ReapStep
  <1>6. Len(h.out) \in Nat /\ DOMAIN g.out = 1 .. Len(h.out) - 1
    BY <1>2, <1>5, HostFields
  <1>7. (CHOOSE i \in Answered(h, q) : TRUE) = 1 /\ Answered(h, q) # {}
    BY <1>5
  <1>8. 1 - q \in Queue /\ 1 - q # q
    BY DEF Queue
  <1>9. /\ host'[q] = g
        /\ host'[1 - q] = (IF drv = "cq_del" /\ drv' = "live" THEN Unused ELSE host[1 - q])
        /\ UNCHANGED <<dev, pc, cur, events, bar, gen>> /\ DOMAIN host' = Queue
    BY <1>1, <1>2, <1>4, <1>8 DEF Reap
  <1>10. drv' = (IF q = 0 THEN Advanced(host[0].out[1].op) ELSE drv)
    <2>1. drv' = IF q = 0 /\ Answered(h, q) # {}
                 THEN Advanced(h.out[CHOOSE i \in Answered(h, q) : TRUE].op) ELSE drv
      BY <1>2 DEF Reap
    <2>2. drv' = IF q = 0 THEN Advanced(h.out[1].op) ELSE drv
      <3> DEFINE a == CHOOSE i \in Answered(h, q) : TRUE
      <3>1. a = 1
        BY <1>7
      <3>2. drv' = IF q = 0 /\ Answered(h, q) # {} THEN Advanced(h.out[a].op) ELSE drv
        BY <2>1
      <3> HIDE DEF a
      <3> QED
        BY <1>7, <3>1, <3>2
    <2>3. q = 0 => h = host[0]
      BY <1>2
    <2> QED
      BY <2>2, <2>3
  <1>11. ASSUME Joined(q)
         PROVE  Joined(q)' /\ (Len(h.out) = 1 => dev.q[q].sqHead = h.tail)
    <2>1. PICK r \in QueueState, x \in {0, 1} : r = dev.q[q] /\ x = Completing(q)
      <3>1. Completing(q) \in {0, 1}
        BY CompletingType
      <3> QED
        BY <1>1, <3>1, Zenon
    <2>2. InStep(q, h, r, x, cur)
      BY <1>2, <1>11, <2>1 DEF Joined
    <2>3. InStep(q, g, r, x, cur) /\ (Len(h.out) = 1 => r.sqHead = h.tail)
      BY <1>2, <1>3, <1>4, <2>2, ReapInStep
    <2> QED
      BY <1>2, <1>5, <1>9, <1>11, <2>1, <2>3, JoinedHost
  <1> QED
    BY <1>2, <1>3, <1>4, <1>5, <1>6, <1>9, <1>10, <1>11

(* Where the driver takes answers at all.                                   *)
LEMMA ReapWhere ==
  ASSUME IInv, NEW q \in Queue, Reap(q)
  PROVE  drv \in Up \cup {"disabling", "shutting"}
  <1>1. IsNew(host[q], q, 0) /\ host[q].gen # 0 /\ drv \in DrvStates
    BY ReapQueue DEF IInv, TypeInv
  <1>2. drv \notin {"unbound", "disabled", "down"}
    BY <1>1 DEF IInv, HostInv
  <1>3. ASSUME drv \in {"programmed", "enabling"} PROVE FALSE
    <2>1. q = 0 /\ Pristine(0, host[0])
      BY <1>1, <1>3 DEF IInv, HostInv, Queue
    <2>2. Depth(0) \in Nat /\ Depth(0) >= 2 /\ 0 \in Slots(0)
      BY DepthType DEF Queue, Slots
    <2>3. (0 + 0) % Depth(0) = 0 /\ 0 + 0 < Depth(0)
      BY <2>2
    <2>4. /\ host[0].head = 0 /\ host[0].phase = 1 /\ host[0].cq[0].phase = 0
      BY <2>1, <2>2 DEF Pristine
    <2> QED
      BY <1>1, <2>1, <2>3, <2>4 DEF IsNew, Entry
  <1> QED
    BY <1>1, <1>2, <1>3 DEF DrvStates

(* An I/O command's answer.                                                 *)
LEMMA ReapIo ==
  ASSUME IInv, Reap(1)
  PROVE  IInv'
  <1>1. 0 \in Queue /\ 1 \in Queue /\ 1 - 1 = 0
    BY DEF Queue
  <1>2. drv' = drv /\ UNCHANGED <<dev, pc, cur, events, bar, gen>> /\ DOMAIN host' = Queue
    BY <1>1, ReapQueue
  <1>3. PICK n \in Nat : /\ n = Len(host[1].out) /\ n >= 1
                         /\ DOMAIN host'[1].out = 1 .. n - 1
                         /\ \A i \in 1 .. n - 1 : host'[1].out[i] = host[1].out[i + 1]
    <2>1. /\ Len(host[1].out) >= 1 /\ Len(host[1].out) \in Nat
          /\ DOMAIN host'[1].out = 1 .. Len(host[1].out) - 1
          /\ \A i \in 1 .. Len(host[1].out) - 1 : host'[1].out[i] = host[1].out[i + 1]
      BY <1>1, ReapQueue
    <2>2. PICK n \in Nat : n = Len(host[1].out)
      BY <2>1, Zenon
    <2> QED
      BY <2>1, <2>2
  <1>4. /\ host'[1] \in HostType(1) /\ HostOK(1, host'[1]) /\ host'[1].gen = host[1].gen
        /\ host'[1].tail = host[1].tail /\ host'[1].rung = host[1].rung
    BY <1>1, ReapQueue
  <1>5. host'[0] = host[0]
    <2>1. host'[0] = (IF drv = "cq_del" /\ drv' = "live" THEN Unused ELSE host[0])
      BY <1>1, ReapQueue
    <2> QED
      BY <1>2, <2>1
  <1>6. Joined(1) => Joined(1)'
    BY <1>1, ReapQueue
  <1>7. DOMAIN host[1].out = 1 .. n /\ host[1].out # <<>>
    <2>1. host[1] \in HostType(1)
      BY <1>1 DEF IInv, TypeInv
    <2>2. DOMAIN host[1].out = 1 .. n
      BY <1>1, <1>3, <2>1, HostFields
    <2> QED
      BY <1>3, <2>2, EmptySeq
  <1>8. \A j \in DOMAIN host'[1].out : IsIo(host'[1].out[j])
    <2>1. \A j \in 1 .. n - 1 : j + 1 \in 1 .. n
      BY <1>3
    <2> QED
      BY <1>3, <1>7, <2>1 DEF IInv, HostInv
  <1>9. ASSUME dev.enabled PROVE \E d \in Up : Where(d)' /\ Stage(d)'
    <2>1. PICK d \in Up : Where(d) /\ Stage(d)
      BY <1>9, OnFacts
    <2>2. d = "io" /\ Joined(0) /\ AdminOut(d)
      BY <1>7, <2>1 DEF Stage, IoQueue
    <2>3. BothMade(d) /\ ~CqMade(d) /\ BothMade(d)' /\ ~CqMade(d)' /\ Joined(1)'
      BY <1>6, <2>1, <2>2 DEF BothMade, CqMade, Stage, IoQueue
    <2>4. Joined(0)'
      BY <1>1, <1>2, <1>5, <2>2, JoinedHost DEF Joined
    <2>5. AdminOut(d)'
      BY <1>4, <1>5, <2>2, AdminOutStays
    <2>6. Stage(d)'
      BY <1>4, <2>1, <2>2, <2>3, <2>4, <2>5, StageStays
    <2> QED
      BY <1>2, <2>1, <2>6, WhereStays
  <1>10. \A q \in Queue : host'[q] \in HostType(q) /\ HostOK(q, host'[q])
    BY <1>4, <1>5 DEF Queue, IInv, TypeInv, HostInv
  <1>11. drv \notin {"unbound", "disabled", "down", "programmed", "enabling"}
    BY <1>1, ReapWhere DEF Up
  <1>12. gen' \in Nat
    BY <1>2 DEF IInv, TypeInv
  <1> QED
    BY <1>2, <1>8, <1>9, <1>10, <1>11, <1>12, HostKeeps

(* An admin command's answer: at a stage that waits, the last one leads on  *)
(* to the next stage.                                                       *)
LEMMA ReapAdmin ==
  ASSUME IInv, Reap(0)
  PROVE  IInv'
  <1>1. 0 \in Queue /\ 1 \in Queue /\ 1 - 0 = 1
    BY DEF Queue
  <1>2. /\ UNCHANGED <<dev, pc, cur, events, bar, gen>> /\ DOMAIN host' = Queue
        /\ drv' = Advanced(host[0].out[1].op)
        /\ host'[1] = (IF drv = "cq_del" /\ drv' = "live" THEN Unused ELSE host[1])
    BY <1>1, ReapQueue
  <1>3. PICK n \in Nat : /\ n = Len(host[0].out) /\ n >= 1
                         /\ DOMAIN host'[0].out = 1 .. n - 1 /\ Len(host'[0].out) = n - 1
                         /\ \A i \in 1 .. n - 1 : host'[0].out[i] = host[0].out[i + 1]
    <2>1. /\ Len(host[0].out) >= 1 /\ Len(host[0].out) \in Nat
          /\ DOMAIN host'[0].out = 1 .. Len(host[0].out) - 1
          /\ Len(host'[0].out) = Len(host[0].out) - 1
          /\ \A i \in 1 .. Len(host[0].out) - 1 : host'[0].out[i] = host[0].out[i + 1]
      BY <1>1, ReapQueue
    <2>2. PICK n \in Nat : n = Len(host[0].out)
      BY <2>1, Zenon
    <2> QED
      BY <2>1, <2>2
  <1>4. /\ host'[0] \in HostType(0) /\ HostOK(0, host'[0]) /\ host'[0].tail = host[0].tail
        /\ Joined(0) => /\ Joined(0)'
                        /\ n = 1 => dev.q[0].sqHead = host[0].tail
    BY <1>1, <1>3, ReapQueue
  <1>5. /\ DOMAIN host[0].out = 1 .. n /\ host[0].out \in Seq(Cmd)
        /\ \A j \in 1 .. n : host[0].out[j] \in Cmd
    <2>1. host[0] \in HostType(0)
      BY <1>1 DEF IInv, TypeInv
    <2>2. DOMAIN host[0].out = 1 .. n /\ host[0].out \in Seq(Cmd)
      BY <1>1, <1>3, <2>1, HostFields
    <2> QED
      BY <1>3, <2>2, ElementOfSeq
  <1>6. drv \in Up \cup {"disabling", "shutting"}
    BY <1>1, ReapWhere
  <1>7. Unused.out = <<>> /\ Unused.rung = Unused.tail
    BY DEF Unused
  <1>8. \A q \in Queue : host'[q] \in HostType(q) /\ HostOK(q, host'[q])
    <2>1. host'[1] = Unused \/ host'[1] = host[1]
      BY <1>2
    <2>2. host'[1] \in HostType(1) /\ HostOK(1, host'[1])
      BY <1>1, <2>1, UnusedIsOK DEF IInv, TypeInv, HostInv
    <2> QED
      BY <1>4, <2>2 DEF Queue
  <1>9. \A j \in DOMAIN host'[1].out : IsIo(host'[1].out[j])
    <2>1. host'[1].out = <<>> \/ host'[1] = host[1]
      BY <1>2, <1>7
    <2> QED
      BY <2>1, EmptySeq DEF IInv, HostInv
  <1>10. (AllDone' <=> AllDone)
    BY <1>2, <1>4 DEF AllDone
  <1>11. drv \in {"disabling", "shutting"} => drv' = drv
    BY <1>2 DEF Advanced
  <1>12. drv' = drv \/ (drv \in Up /\ drv' \in Up)
    BY <1>2 DEF Advanced, Up
  <1>13. ASSUME NEW d \in Up, Where(d), Stage(d), d \in Sent, n = 1
         PROVE  \E f \in Up : Where(f)' /\ Stage(f)'
    <2>1. Joined(0) /\ AdminOut(d) /\ IoQueue(d)
      BY <1>13 DEF Stage
    <2>2. host[0].out[1].op = SentOp(d)
      BY <1>3, <1>13, <2>1 DEF AdminOut
    <2>3. PICK f \in Up : f = NextOf(d) /\ f \notin Sent
      BY <1>13, AdvancedSent
    <2>4. d # "live"
      BY <1>13 DEF Sent
    <2>5. drv = d \/ (drv = "disabling" /\ BellsThen(Event("cc", 0, "disable")))
      BY <1>6, <1>13, <2>4 DEF Where
    <2>6. drv' = (IF drv = d THEN f ELSE drv)
      BY <1>2, <1>11, <1>13, <2>2, <2>3, <2>5, AdvancedSent
    <2>7. Where(f)'
      <3>1. drv = d => Bells
        BY <1>13 DEF Where, Up
      <3> QED
        BY <1>2, <2>5, <2>6, <3>1 DEF Where, Bells, BellsThen
    <2>8. AllDone /\ AllDone' /\ Joined(0)'
      BY <1>4, <1>10, <1>13, <2>1 DEF AllDone
    <2>9. AdminOut(f)'
      <3>1. DOMAIN host'[0].out = {}
        BY <1>3, <1>13
      <3> QED
        BY <2>3, <3>1 DEF AdminOut
    <2>10. host[1].out = <<>> /\ host[1].rung = host[1].tail
      BY <1>13, <2>1 DEF IoQueue, Sent
    <2>11. host'[1].out = <<>> /\ host'[1].rung = host'[1].tail
      BY <1>2, <1>7, <2>10
    <2>12. f # "live" => host'[1] = host[1]
      BY <1>2, <2>5, <2>6
    <2>13. IoQueue(f)'
      <3>1. CASE d = "cq_sent"
        <4>1. f = "cq_made"
          BY <2>3, <3>1 DEF NextOf
        <4>2. CqMade(d) /\ ~BothMade(d) /\ CqMade(f)' /\ ~BothMade(f)'
          BY <2>8, <3>1, <4>1 DEF CqMade, BothMade
        <4> QED
          BY <1>2, <2>1, <2>11, <2>12, <4>1, <4>2 DEF IoQueue
      <3>2. CASE d = "sq_sent"
        <4>1. f = "io"
          BY <2>3, <3>2 DEF NextOf
        <4>2. BothMade(d) /\ ~CqMade(f)' /\ BothMade(f)'
          BY <2>8, <3>2, <4>1 DEF CqMade, BothMade
        <4>3. Joined(1)'
          BY <1>1, <1>2, <2>1, <2>12, <4>1, <4>2, JoinedHost DEF IoQueue, Joined
        <4> QED
          BY <4>1, <4>2, <4>3 DEF IoQueue
      <3>3. CASE d \in {"sq_del", "cq_del"}
        <4>1. f \in {"sq_gone", "live"}
          BY <2>3, <3>3 DEF NextOf
        <4>2. ~CqMade(d) /\ ~BothMade(d) /\ ~CqMade(f)' /\ ~BothMade(f)'
          BY <2>8, <3>3, <4>1 DEF CqMade, BothMade
        <4> QED
          BY <1>2, <2>1, <2>11, <4>1, <4>2 DEF IoQueue
      <3> QED
        BY <1>13, <3>1, <3>2, <3>3 DEF Sent
    <2> QED
      BY <2>7, <2>8, <2>9, <2>13 DEF Stage
  <1>14. ASSUME NEW d \in Up, Where(d), Stage(d), ~(d \in Sent /\ n = 1)
         PROVE  Where(d)' /\ Stage(d)'
    <2>1. Joined(0) /\ AdminOut(d) /\ IoQueue(d)
      BY <1>14 DEF Stage
    <2>2. /\ \A j \in 1 .. n : IsQuery(host[0].out[j]) \/ (j = n /\ d \in Sent)
          /\ d \in Sent => /\ host[0].out[n].op = SentOp(d)
                           /\ host[0].out[n].args = SentArgs(d)
      BY <1>3, <1>5, <2>1 DEF AdminOut
    <2>3. IsQuery(host[0].out[1]) /\ host[0].out[1] \in Cmd
      <3>1. 1 \in 1 .. n
        BY <1>3
      <3> QED
        BY <1>5, <1>14, <2>2, <3>1
    <2>4. drv' = drv
      BY <1>2, <2>3, QueryAnswer, AdvancedQuery
    <2>5. host'[1] = host[1]
      BY <1>2, <2>4
    <2>6. AdminOut(d)'
      <3>1. ASSUME NEW j \in 1 .. n - 1
            PROVE  IsQuery(host'[0].out[j]) \/ (j = n - 1 /\ d \in Sent)
        <4>1. j + 1 \in 1 .. n /\ (j + 1 = n <=> j = n - 1)
          BY <1>3
        <4> QED
          BY <1>3, <2>2, <4>1
      <3>2. ASSUME d \in Sent
            PROVE  /\ host'[0].out # <<>>
                   /\ host'[0].out[n - 1].op = SentOp(d)
                   /\ host'[0].out[n - 1].args = SentArgs(d)
        <4>1. n - 1 \in 1 .. n - 1 /\ (n - 1) + 1 = n
          <5>1. n # 1
            BY <1>14, <3>2
          <5>2. n >= 1
            BY <1>3
          <5> QED
            BY <5>1, <5>2
        <4>2. host'[0].out[n - 1] = host[0].out[n]
          BY <1>3, <4>1
        <4>3. host'[0].out # <<>>
          BY <1>3, <4>1, EmptySeq
        <4> QED
          BY <2>2, <3>2, <4>2, <4>3
      <3>3. SentArgs(d)' = SentArgs(d)
        BY <2>5 DEF SentArgs
      <3>4. \A j : IsQuery(host'[0].out[j]) <=> IsQuery(host[0].out[j])'
        BY DEF IsQuery
      <3> QED
        BY <1>3, <3>1, <3>2, <3>3, <3>4 DEF AdminOut
    <2>7. (CqMade(d)' <=> CqMade(d)) /\ (BothMade(d)' <=> BothMade(d))
      BY <1>10, MadeStays
    <2>8. Joined(0)' /\ (BothMade(d) => Joined(1)')
      BY <1>1, <1>2, <1>4, <2>1, <2>5, JoinedHost DEF IoQueue, Joined
    <2>9. Stage(d)'
      BY <1>2, <1>14, <2>5, <2>6, <2>7, <2>8, StageStays
    <2> QED
      BY <1>2, <1>14, <2>4, <2>9, WhereStays
  <1>15. dev.enabled => \E d \in Up : Where(d)' /\ Stage(d)'
    BY <1>13, <1>14, OnFacts
  <1>16. drv \notin {"unbound", "disabled", "down", "programmed", "enabling"}
    BY <1>6 DEF Up
  <1>17. gen' \in Nat /\ (drv \notin Up => gen' = gen)
    BY <1>2 DEF IInv, TypeInv
  <1> QED
    BY <1>2, <1>8, <1>9, <1>12, <1>15, <1>16, <1>17, HostKeeps

-----------------------------------------------------------------------------
(* The theorems                                                             *)

LEMMA InitIInv == Init => IInv
  <1> SUFFICES ASSUME Init PROVE IInv
    OBVIOUS
  <1>1. /\ dev = [enabled |-> FALSE, running |-> FALSE, csts |-> Csts(0, "normal"),
                  q |-> [q \in Queue |-> Zeroed]]
        /\ pc = "closed" /\ cur = NoEntry /\ events = <<>> /\ drv = "unbound" /\ gen = 0
        /\ bar = [cap |-> FALSE, csts |-> Csts(0, "normal"),
                  aqa |-> <<0, 0>>, asq |-> 0, acq |-> 0]
        /\ host = [q \in Queue |-> Unused]
    BY DEF Init
  <1>2. Zeroed \in QueueState /\ Csts(0, "normal") \in CstsType /\ NoEntry \in CqEntry
    BY DEF Zeroed, QueueState, Csts, CstsType, NoEntry, CqEntry, Statuses
  <1>3. DOMAIN host = Queue /\ \A q \in Queue : host[q] = Unused
    BY <1>1
  <1>4. 1 \in Queue /\ Unused.out = <<>> /\ DOMAIN <<>> = {}
    BY DEF Queue, Unused
  <1>5. TypeInv
    <2>1. dev \in [enabled : BOOLEAN, running : BOOLEAN, csts : CstsType,
                   q : [Queue -> QueueState]]
      BY <1>1, <1>2
    <2>2. bar \in [cap : BOOLEAN, csts : CstsType, aqa : Nat \X Nat, asq : Nat, acq : Nat]
      BY <1>1, <1>2
    <2> QED
      BY <1>1, <1>2, <1>3, <2>1, <2>2, UnusedIsOK DEF TypeInv, DrvStates
  <1>6. HostInv
    BY <1>1, <1>3, <1>4, UnusedIsOK DEF HostInv
  <1>7. OffInv /\ OnInv /\ PcInv
    BY <1>1 DEF OffInv, OnInv, PcInv, Setup, Up, Busy, Csts
  <1> QED
    BY <1>5, <1>6, <1>7 DEF IInv

LEMMA DrvNextKeeps == ASSUME ~Hasty, IInv, DrvNext PROVE IInv'
  <1>1. CASE Disable \/ Disabled \/ Program \/ EnableController \/ Ready \/ Shutdown \/ ShutDown
    BY <1>1, DisableKeeps, DisabledKeeps, ProgramKeeps, EnableKeeps, ReadyKeeps,
       ShutdownKeeps, ShutDownKeeps
  <1>2. CASE SubmitQueueCommand
    BY <1>2, SubmitQueueCommandKeeps
  <1>3. CASE (\E c \in Queries : SubmitQuery(c)) \/ (\E c \in IoCommands : SubmitIo(c))
    BY <1>3, SubmitQueryKeeps, SubmitIoKeeps
  <1>4. ASSUME NEW q \in Queue, RingDoorbell(q) \/ IsrEnter(Vector(q)) \/ Reap(q) \/ IsrExit(q)
        PROVE  IInv'
    <2>1. CASE Reap(q)
      <3>1. q = 0 \/ q = 1
        BY DEF Queue
      <3> QED
        BY <2>1, <3>1, ReapAdmin, ReapIo
    <2> QED
      BY <1>4, <2>1, RingKeeps, InterruptKeeps
  <1> QED
    BY <1>1, <1>2, <1>3, <1>4 DEF DrvNext

LEMMA StutterKeeps == ASSUME IInv, UNCHANGED vars PROVE IInv'
  <1>1. UNCHANGED <<dev, pc, cur, events, bar, drv, host, gen>>
    BY DEF vars
  <1>2. DOMAIN host' = Queue
    BY <1>1 DEF IInv, TypeInv
  <1> QED
    BY <1>1, <1>2, IsrKeeps

LEMMA LoopFromInv == IInv => LoopOnDriversQueue
  <1> SUFFICES ASSUME IInv, pc \in {"submission", "complete"}
               PROVE  LET r == dev.q[Ringing] IN
                      /\ host[Ringing].gen # 0
                      /\ {r.sqAddr, r.cqAddr} = {host[Ringing].gen}
                      /\ r.sqSize = Depth(Ringing) /\ r.cqSize = Depth(Ringing)
                      /\ r.sqTail < r.sqSize
    BY DEF LoopOnDriversQueue
  <1>1. PICK d \in Up : Stage(d)
    BY BusyFacts DEF Busy
  <1>2. events # <<>> /\ events[1].reg = "sqdb"
    BY DEF IInv, PcInv, Busy
  <1>3. Joined(Ringing) /\ Ringing \in Queue
    BY <1>1, <1>2, BellJoined, BellOf DEF IInv
  <1>4. PICK p \in Queue : p = Ringing
    BY <1>3
  <1>5. /\ host[p].gen # 0 /\ dev.q[p].sqAddr = host[p].gen /\ dev.q[p].cqAddr = host[p].gen
        /\ dev.q[p].sqSize = Depth(p) /\ dev.q[p].cqSize = Depth(p)
        /\ dev.q[p].sqTail \in Slots(p)
    BY <1>3, <1>4 DEF Joined, InStep
  <1>6. dev.q[p].sqTail < Depth(p)
    BY <1>5, DepthType DEF Slots
  <1> QED
    BY <1>4, <1>5, <1>6

LEMMA NewFromInv == IInv => NewEntriesAnswer
  <1> SUFFICES ASSUME IInv, NEW q \in Queue, NEW n \in Slots(q),
                      \A k \in 0 .. n : IsNew(host[q], q, k)
               PROVE  /\ n < Len(host[q].out)
                      /\ Entry(host[q], q, n).cid = host[q].out[n + 1].cid
                      /\ Entry(host[q], q, n).status \in Expected(host[q].out[n + 1])
    BY DEF NewEntriesAnswer, Slots
  <1>1. PICK h \in HostType(q) : h = host[q] /\ HostOK(q, h)
    BY DEF IInv, TypeInv, HostInv
  <1>2. n \in Nat /\ n \in 0 .. n
    BY DEF Slots
  <1>3. IsNew(h, q, n)
    BY <1>1, <1>2
  <1>4. Entry(h, q, n) = h.cq[Slot(q, h.head + n)]
    <2>1. h.head \in Slots(q)
      BY HostFields
    <2> QED
      BY <2>1, ModSlot DEF Entry
  <1>5. h.gen # 0 /\ Entry(h, q, n).phase = NewPhase(q, h, n)
    BY <1>3 DEF IsNew, NewPhase
  <1>6. PICK m \in 0 .. Len(h.out) : Posted(q, h, m)
    BY <1>1, <1>5 DEF HostOK
  <1>7. n < m /\ Answers(Entry(h, q, n), h.out[n + 1])
    BY <1>4, <1>5, <1>6 DEF Posted
  <1>8. n < Len(h.out)
    <2>1. Len(h.out) \in Nat
      BY HostFields
    <2> QED
      BY <1>2, <1>6, <1>7, <2>1
  <1> QED
    BY <1>1, <1>7, <1>8 DEF Answers

(* The invariant, for a driver that waits for RDY before it clears CC.EN    *)
(* again: types, the two queues in step, what the driver wrote last.        *)
THEOREM InStepAlways == ASSUME ~Hasty PROVE Spec => []IInv
  <1>1. Init => IInv
    BY InitIInv
  <1>2. IInv /\ [Next]_vars => IInv'
    BY DevNextKeeps, DrvNextKeeps, StutterKeeps DEF Next
  <1> QED
    BY <1>1, <1>2, PTL DEF Spec

(* nvme_handle_doorbell_write() works on the memory the driver has behind   *)
(* the queue, and its loop ends: NVME_REG_CC, AQA, ASQ and ACQ arrive after *)
(* they were written, the controller is reset in between, queues go and     *)
(* come back.                                                               *)
THEOREM LoopOnDriversQueueHolds == ASSUME ~Hasty PROVE Spec => []LoopOnDriversQueue
  <1>1. IInv => LoopOnDriversQueue
    BY LoopFromInv
  <1> QED
    BY <1>1, InStepAlways, PTL

(* nvme_execute_command(): what the driver's phase bit tells it is new is   *)
(* the answers to its oldest commands, in their order, whatever the depth   *)
(* of the queues, across wraps, deletions and resets.                       *)
THEOREM NewEntriesAnswerHolds == ASSUME ~Hasty PROVE Spec => []NewEntriesAnswer
  <1>1. IInv => NewEntriesAnswer
    BY NewFromInv
  <1> QED
    BY <1>1, InStepAlways, PTL

=============================================================================
