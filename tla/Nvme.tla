-------------------------------- MODULE Nvme --------------------------------
(***************************************************************************)
(* The emulated NVMe controller (examples/nvme/nvme_card.c) and the driver *)
(* on the other side of its BAR: the driver programs and enables the       *)
(* controller, creates the I/O queue pair with admin commands, submits     *)
(* commands by doorbell, takes completions by their phase bit when an      *)
(* interrupt arrives, and resets or shuts the controller down.  Each write *)
(* of a register lands in the BAR at once and reaches the emulator as an   *)
(* event, later; the emulator writes registers back.                       *)
(*                                                                         *)
(* Queue 0 is the admin queue and queue 1 the only I/O queue.  An address  *)
(* is the number of the allocation it points into, 0 when it is null; both *)
(* halves of a 64-bit register are written as one.  The doorbells' own     *)
(* shadows, q->created and q->cq_head, which nothing reads, are left out,  *)
(* and with cq_head the doorbell that does nothing but set it.  EventRing  *)
(* models the ring the events travel in.                                   *)
(***************************************************************************)
EXTENDS Naturals, Sequences

CONSTANTS
    MaxQueues,      \* MAX_QUEUES
    AdminDepth,     \* entries of each admin queue
    IoDepth,        \* entries of each I/O queue
    Sectors,        \* NVME_TOTAL_SECTORS
    Queries,        \* admin commands that change no queue, <<op, args>>
    IoCommands,     \* I/O commands, <<op, args>>
    MaxCommands,    \* bound: queries and I/O commands submitted
    MaxGen,         \* bound: allocations of queue memory
    Hasty,          \* may the driver reset before the controller is ready?
    MaxResets,      \* bound: resets by the driver
    RingRoom        \* bound: events in flight

ASSUME NvmeAssumption ==
    /\ MaxQueues \in Nat \ {0, 1} /\ AdminDepth \in Nat \ {0, 1}
    /\ IoDepth \in Nat \ {0, 1} /\ Sectors \in Nat \ {0}
    /\ Hasty \in BOOLEAN
    /\ RingRoom \in Nat \ {0, 1, 2}
ASSUME CommandsAssumption ==
    LET Args == Seq(Nat) \ {<<>>} IN
    /\ Queries \subseteq ({"identify"} \X (Nat \X Nat)) \cup ({"log", "features"} \X Args)
    /\ IoCommands \subseteq ({"flush"} \X Seq(Nat)) \cup ({"read", "write"} \X Args)

VARIABLES
    dev,       \* struct nvme_device: enabled, running, csts, queues
    pc,        \* where the emulator is
    cur,       \* the completion in the making
    events,    \* writes the emulator has not finished with
    bar,       \* registers as the BAR's memory holds them
    irq,       \* vectors that are pending at the driver
    drv,       \* the driver's progress
    host,      \* queue memory and the driver's record of each queue
    gen,       \* allocations made
    work,      \* commands submitted
    resets,    \* resets begun
    lost       \* queues whose last interrupt was lost (history)

vars == <<dev, pc, cur, events, bar, irq, drv, host, gen, work, resets, lost>>

Queue == {0, 1}
Vector(q) == q
Depth(q) == IF q = 0 THEN AdminDepth ELSE IoDepth

Zeroed == [sqSize |-> 0, cqSize |-> 0, sqAddr |-> 0, cqAddr |-> 0, sqTail |-> 0,
           sqHead |-> 0, cqTail |-> 0, phase |-> 0, vector |-> 0]

ResetQueue == [Zeroed EXCEPT !.phase = 1]

Csts(rdy, shst) == [rdy |-> rdy, shst |-> shst]

NoEntry == [cid |-> 0, phase |-> 0, status |-> "none"]
NoCommand == [cid |-> 0, op |-> "none", args |-> <<0>>]
Unused == [gen |-> 0, sq |-> <<>>, cq |-> <<>>, tail |-> 0, rung |-> 0,
           head |-> 0, phase |-> 1, out |-> <<>>, isr |-> FALSE]
Fresh(q, g) ==
    [Unused EXCEPT !.gen = g,
                   !.sq = [i \in 0 .. Depth(q) - 1 |-> NoCommand],
                   !.cq = [i \in 0 .. Depth(q) - 1 |-> NoEntry]]

Init ==
    /\ dev = [enabled |-> FALSE, running |-> FALSE, csts |-> Csts(0, "normal"),
              q |-> [q \in Queue |-> Zeroed]]
    /\ pc = "closed"
    /\ cur = NoEntry
    /\ events = <<>>
    /\ bar = [cap |-> FALSE, csts |-> Csts(0, "normal"),
              aqa |-> <<0, 0>>, asq |-> 0, acq |-> 0]
    /\ irq = {}
    /\ drv = "unbound"
    /\ host = [q \in Queue |-> Unused]
    /\ gen = 0
    /\ work = 0
    /\ resets = 0
    /\ lost = {}

-----------------------------------------------------------------------------
(* Status of a command.  Each operator yields the statuses the command may *)
(* end with: a transfer that fails makes it NVME_INTERNAL.                 *)

Transfer == {"success", "internal"}

Identify(cns, nsid) ==
    CASE cns = 0 -> IF nsid # 1 THEN {"invalid_ns"} ELSE Transfer
      [] cns \in {1, 2} -> IF nsid # 0 THEN {"invalid_ns"} ELSE Transfer
      [] cns = 3 -> IF nsid > 1 THEN {"invalid_ns"} ELSE Transfer
      [] OTHER -> {"invalid_field"}

GetLogPage(lid) == IF lid \in {1, 2} THEN {"success"} ELSE {"invalid_field"}

(* Features the controller accepts without keeping them. *)
Accepted == {1, 2} \cup 4 .. 11 \cup 17 .. 20
SetFeatures(fid) == IF fid \in Accepted THEN {"success"} ELSE {"invalid_field"}

(* Mutant: the first sector past the end is accepted. *)
ReadWriteOffByOne(slba) == IF slba > Sectors THEN {"invalid_field"} ELSE Transfer
ReadWrite(slba) == IF slba >= Sectors THEN {"invalid_field"} ELSE Transfer

CreateStatus(qid) == IF qid < MaxQueues THEN {"success"} ELSE {"bad_queue"}

AdminStatus(c) ==
    CASE c.op = "identify" -> Identify(c.args[1], c.args[2])
      [] c.op = "log" -> GetLogPage(c.args[1])
      [] c.op = "features" -> SetFeatures(c.args[1])
      [] c.op \in {"create_cq", "create_sq", "delete"} -> CreateStatus(c.args[1])
      [] OTHER -> {"invalid_field"}

IoStatus(c) ==
    CASE c.op = "flush" -> {"success"}
      [] c.op \in {"read", "write"} -> ReadWrite(c.args[1])
      [] OTHER -> {"invalid_field"}

(* Mutant: the vector is not stored. *)
CreateCqNoVector(r, size, addr, v) == [r EXCEPT !.cqAddr = addr, !.cqSize = size + 1]
CreateCq(r, size, addr, v) ==
    [r EXCEPT !.cqAddr = addr, !.cqSize = size + 1, !.vector = v]

(* Mutant: the size, which is zero-based, is taken as it is. *)
CreateSqZeroBased(r, size, addr) == [r EXCEPT !.sqAddr = addr, !.sqSize = size]
CreateSq(r, size, addr) == [r EXCEPT !.sqAddr = addr, !.sqSize = size + 1]

(* The queues after an admin command.  A delete of either kind resets both *)
(* queues of the pair.  Queues the model does not have are left alone.     *)
AfterAdmin(qs, c) ==
    LET i == c.args[1] IN
    IF c.op \notin {"create_cq", "create_sq", "delete"} \/ i \notin Queue
    THEN qs
    ELSE [qs EXCEPT ![i] =
            CASE c.op = "create_cq" -> CreateCq(@, c.args[2], c.args[3], c.args[4])
              [] c.op = "create_sq" -> CreateSq(@, c.args[2], c.args[3])
              [] c.op = "delete" -> ResetQueue]

-----------------------------------------------------------------------------
(* The emulator: start-up, registers *)

Register ==
    /\ pc = "closed"
    /\ \/ pc' = "registered"
       \/ pc' = "exited"
    /\ UNCHANGED <<dev, cur, events, bar, irq, drv, host, gen, work, resets, lost>>

AllocResources ==
    /\ pc = "registered"
    /\ \/ /\ pc' = "ready"
          /\ bar' = [bar EXCEPT !.cap = TRUE]
       \/ pc' = "exited" /\ UNCHANGED bar
    /\ UNCHANGED <<dev, cur, events, irq, drv, host, gen, work, resets, lost>>

Start ==
    /\ pc = "ready"
    /\ pc' = "poll"
    /\ dev' = [dev EXCEPT !.running = TRUE]
    /\ UNCHANGED <<cur, events, bar, irq, drv, host, gen, work, resets, lost>>

(* nvme_enable(): the admin queue as the BAR has it now. *)
Enable(r) ==
    [r EXCEPT !.sqSize = bar.aqa[1] + 1, !.cqSize = bar.aqa[2] + 1,
              !.sqAddr = bar.asq, !.cqAddr = bar.acq]

AllReset == [q \in Queue |-> ResetQueue]

SetCsts(c, d) == /\ dev' = [d EXCEPT !.csts = c]
                 /\ bar' = [bar EXCEPT !.csts = c]

CcWrite(e) ==
    /\ e.reg = "cc"
    /\ CASE e.val = "shutdown" ->
              /\ SetCsts(Csts(0, "progress"),
                         [dev EXCEPT !.enabled = FALSE, !.q = AllReset])
              /\ pc' = "shut"
              /\ UNCHANGED events
         [] e.val = "enable" ->
              /\ SetCsts(Csts(1, "normal"),
                         [dev EXCEPT !.enabled = TRUE, !.q[0] = Enable(@)])
              /\ events' = Tail(events)
              /\ UNCHANGED pc
         [] e.val = "disable" ->
              /\ SetCsts(Csts(0, "normal"),
                         [dev EXCEPT !.enabled = FALSE, !.q = AllReset])
              /\ events' = Tail(events)
              /\ UNCHANGED pc

ShutComplete ==
    /\ pc = "shut"
    /\ SetCsts(Csts(0, "complete"), [dev EXCEPT !.running = FALSE])
    /\ pc' = "poll"
    /\ events' = Tail(events)
    /\ UNCHANGED <<cur, irq, drv, host, gen, work, resets, lost>>

(* AQA, ASQ and ACQ: ignored while the controller is enabled, written back *)
(* to the BAR otherwise.                                                   *)
AdminRegWrite(e) ==
    /\ e.reg \in {"aqa", "asq", "acq"}
    /\ IF dev.enabled THEN UNCHANGED <<dev, bar>>
       ELSE /\ bar' = [bar EXCEPT ![e.reg] = e.val]
            /\ dev' = [dev EXCEPT !.q[0] =
                 CASE e.reg = "aqa" -> [@ EXCEPT !.sqSize = e.val[1] + 1,
                                                 !.cqSize = e.val[2] + 1]
                   [] e.reg = "asq" -> [@ EXCEPT !.sqAddr = e.val]
                   [] e.reg = "acq" -> [@ EXCEPT !.cqAddr = e.val]]
    /\ events' = Tail(events)
    /\ UNCHANGED pc

(* The doorbell of a submission queue starts the loop over its entries. *)
Doorbell(e) ==
    /\ e.reg = "sqdb"
    /\ IF ~dev.enabled
       THEN events' = Tail(events) /\ UNCHANGED <<dev, pc>>
       ELSE /\ dev' = [dev EXCEPT !.q[e.q].sqTail = e.val]
            /\ pc' = "submission"
            /\ UNCHANGED events
    /\ UNCHANGED bar

HandleWrite ==
    /\ pc = "poll"
    /\ events # <<>>
    /\ LET e == Head(events) IN CcWrite(e) \/ AdminRegWrite(e) \/ Doorbell(e)
    /\ UNCHANGED <<cur, irq, drv, host, gen, work, resets, lost>>

(* running is only tested once the ring is empty *)
Exit ==
    /\ pc = "poll"
    /\ events = <<>>
    /\ ~dev.running
    /\ pc' = "exited"
    /\ UNCHANGED <<dev, cur, events, bar, irq, drv, host, gen, work, resets, lost>>

-----------------------------------------------------------------------------
(* The emulator: commands.  The event of the doorbell stays at the head of *)
(* the ring until the loop ends.                                           *)

Ringing == Head(events).q
Mapped(q, addr) == addr # 0 /\ addr = host[q].gen

(* An entry is read and executed; while the read fails the loop tries again. *)
Execute ==
    /\ pc = "submission"
    /\ LET q == Ringing
           r == dev.q[q]
           c == host[q].sq[r.sqHead]
           popped == [dev.q EXCEPT ![q].sqHead = (@ + 1) % r.sqSize]
       IN /\ r.sqHead # r.sqTail
          /\ Mapped(q, r.sqAddr)
          /\ dev' = [dev EXCEPT !.q = IF q = 0 THEN AfterAdmin(popped, c) ELSE popped]
          /\ \E s \in IF q = 0 THEN AdminStatus(c) ELSE IoStatus(c) :
                cur' = [NoEntry EXCEPT !.cid = c.cid, !.status = s]
    /\ pc' = "complete"
    /\ UNCHANGED <<events, bar, irq, drv, host, gen, work, resets, lost>>

(* Mutant: the phase bit keeps its value when the tail wraps. *)
AdvanceNoFlip(r) == [r EXCEPT !.cqTail = IF r.cqTail + 1 = r.cqSize THEN 0 ELSE @ + 1]
AdvanceCq(r) ==
    IF r.cqTail + 1 = r.cqSize
    THEN [r EXCEPT !.cqTail = 0, !.phase = 1 - @]
    ELSE [r EXCEPT !.cqTail = @ + 1]

(* The completion is written; a failure is only logged. *)
PostCompletion ==
    /\ pc = "complete"
    /\ LET q == Ringing
           r == dev.q[q]
       IN /\ host' = IF Mapped(q, r.cqAddr)
                     THEN [host EXCEPT ![q].cq[r.cqTail] = [cur EXCEPT !.phase = r.phase]]
                     ELSE host
          /\ dev' = [dev EXCEPT !.q[q] = AdvanceCq(@)]
    /\ cur' = NoEntry
    /\ pc' = "interrupt"
    /\ UNCHANGED <<events, bar, irq, drv, gen, work, resets, lost>>

(* The completion's interrupt.  The function number in INJECT_IRQ's         *)
(* argument is not set, so that it may name another function or none; the   *)
(* driver may have no vector yet; and a vector that is injected before the  *)
(* irq_work of this one has run takes its place.  Failures are only logged. *)
InjectIrq ==
    /\ pc = "interrupt"
    /\ \/ /\ irq' = irq \cup {dev.q[Ringing].vector}
          /\ lost' = lost \ {Ringing}
       \/ /\ lost' = lost \cup {Ringing}
          /\ UNCHANGED irq
    /\ pc' = "submission"
    /\ UNCHANGED <<dev, cur, events, bar, drv, host, gen, work, resets>>

EndSubmission ==
    /\ pc = "submission"
    /\ dev.q[Ringing].sqHead = dev.q[Ringing].sqTail
    /\ pc' = "poll"
    /\ events' = Tail(events)
    /\ UNCHANGED <<dev, cur, bar, irq, drv, host, gen, work, resets, lost>>

-----------------------------------------------------------------------------
(* The driver (external): registers *)

Started == pc \notin {"closed", "registered", "ready", "exited"}

Event(reg, q, v) == [reg |-> reg, q |-> q, val |-> v]
Room(n) == Len(events) + n <= RingRoom

Up == {"live", "cq_sent", "cq_made", "sq_sent", "io", "sq_del", "sq_gone", "cq_del"}

(* The first thing a driver does is to disable the controller. Between     *)
(* setting CC.EN and seeing CSTS.RDY it must not clear CC.EN again (NVMe,  *)
(* 3.1.5); a hasty one, which gives up waiting, does.                      *)
Disable ==
    /\ Room(1)
    /\ \/ drv = "unbound" /\ Started /\ UNCHANGED resets
       \/ /\ drv \in Up \cup (IF Hasty THEN {"enabling"} ELSE {})
          /\ resets < MaxResets
          /\ resets' = resets + 1
    /\ drv' = "disabling"
    /\ events' = Append(events, Event("cc", 0, "disable"))
    /\ UNCHANGED <<dev, pc, cur, bar, irq, host, gen, work, lost>>

Disabled ==
    /\ drv = "disabling"
    /\ bar.csts.rdy = 0
    /\ drv' = "disabled"
    /\ host' = [q \in Queue |-> Unused]
    /\ irq' = {} /\ lost' = {}
    /\ UNCHANGED <<dev, pc, cur, events, bar, gen, work, resets>>

Program ==
    LET n == AdminDepth - 1 IN
    /\ drv = "disabled"
    /\ Room(3) /\ gen < MaxGen
    /\ gen' = gen + 1
    /\ host' = [host EXCEPT ![0] = Fresh(0, gen')]
    /\ bar' = [bar EXCEPT !.aqa = <<n, n>>, !.asq = gen', !.acq = gen']
    /\ events' = events \o <<Event("aqa", 0, <<n, n>>), Event("asq", 0, gen'),
                             Event("acq", 0, gen')>>
    /\ drv' = "programmed"
    /\ UNCHANGED <<dev, pc, cur, irq, work, resets, lost>>

EnableController ==
    /\ drv = "programmed"
    /\ Room(1)
    /\ events' = Append(events, Event("cc", 0, "enable"))
    /\ drv' = "enabling"
    /\ UNCHANGED <<dev, pc, cur, bar, irq, host, gen, work, resets, lost>>

Ready ==
    /\ drv = "enabling"
    /\ bar.csts.rdy = 1
    /\ drv' = "live"
    /\ UNCHANGED <<dev, pc, cur, events, bar, irq, host, gen, work, resets, lost>>

Shutdown ==
    /\ drv = "live" /\ host[0].out = <<>>
    /\ Room(1)
    /\ events' = Append(events, Event("cc", 0, "shutdown"))
    /\ drv' = "shutting"
    /\ UNCHANGED <<dev, pc, cur, bar, irq, host, gen, work, resets, lost>>

ShutDown ==
    /\ drv = "shutting"
    /\ bar.csts.shst = "complete"
    /\ drv' = "down"
    /\ host' = [q \in Queue |-> Unused]
    /\ UNCHANGED <<dev, pc, cur, events, bar, irq, gen, work, resets, lost>>

-----------------------------------------------------------------------------
(* The driver (external): queues *)

FreeTag(h, q) == CHOOSE t \in 1 .. Depth(q) : \A i \in DOMAIN h.out : h.out[i].cid # t

(* q's memory with a command more *)
Queued(h, q, c) ==
    LET entry == [cid |-> FreeTag(h, q), op |-> c[1], args |-> c[2]] IN
    [h EXCEPT !.sq[h.tail] = entry, !.tail = (@ + 1) % Depth(q),
              !.out = Append(@, entry)]
HasRoom(q) == Len(host[q].out) < Depth(q) - 1

SubmitQuery(c) ==
    /\ drv = "live" /\ HasRoom(0)
    /\ work < MaxCommands
    /\ work' = work + 1
    /\ host' = [host EXCEPT ![0] = Queued(@, 0, c)]
    /\ UNCHANGED <<dev, pc, cur, events, bar, irq, drv, gen, resets, lost>>

SubmitIo(c) ==
    /\ drv = "io" /\ HasRoom(1)
    /\ work < MaxCommands
    /\ work' = work + 1
    /\ host' = [host EXCEPT ![1] = Queued(@, 1, c)]
    /\ UNCHANGED <<dev, pc, cur, events, bar, irq, drv, gen, resets, lost>>

(* The I/O queues come and go by admin commands, one at a time. *)
Send(c, next) ==
    /\ host' = [host EXCEPT ![0] = Queued(@, 0, c)]
    /\ drv' = next
    /\ UNCHANGED gen

SubmitQueueCommand ==
    /\ HasRoom(0)
    /\ \/ /\ drv = "live" /\ gen < MaxGen
          /\ gen' = gen + 1
          /\ host' = [host EXCEPT
                ![1] = Fresh(1, gen'),
                ![0] = Queued(@, 0, <<"create_cq",
                                      <<1, IoDepth - 1, gen', Vector(1)>>>>)]
          /\ drv' = "cq_sent"
       \/ /\ drv = "cq_made"
          /\ Send(<<"create_sq", <<1, IoDepth - 1, host[1].gen>>>>, "sq_sent")
       \/ /\ drv = "io" /\ host[1].out = <<>>
          /\ Send(<<"delete", <<1>>>>, "sq_del")
       \/ /\ drv = "sq_gone"
          /\ Send(<<"delete", <<1>>>>, "cq_del")
    /\ UNCHANGED <<dev, pc, cur, events, bar, irq, work, resets, lost>>

RingDoorbell(q) ==
    /\ drv \in Up /\ Room(1)
    /\ host[q].rung # host[q].tail
    /\ events' = Append(events, Event("sqdb", q, host[q].tail))
    /\ host' = [host EXCEPT ![q].rung = host[q].tail]
    /\ UNCHANGED <<dev, pc, cur, bar, irq, drv, gen, work, resets, lost>>

IsrEnter(v) ==
    /\ v \in irq
    /\ irq' = irq \ {v}
    /\ host' = [q \in Queue |-> IF Vector(q) = v /\ host[q].gen # 0
                                THEN [host[q] EXCEPT !.isr = TRUE] ELSE host[q]]
    /\ UNCHANGED <<dev, pc, cur, events, bar, drv, gen, work, resets, lost>>

(* The entry n places after the driver's head, and whether it is new. *)
Entry(h, q, n) == h.cq[(h.head + n) % Depth(q)]
IsNew(h, q, n) ==
    /\ h.gen # 0
    /\ Entry(h, q, n).phase = IF h.head + n < Depth(q) THEN h.phase ELSE 1 - h.phase

(* Where the command is that the entry at the driver's head answers. *)
Answered(h, q) == {i \in DOMAIN h.out : h.out[i].cid = Entry(h, q, 0).cid}

Without(s, i) == [j \in 1 .. Len(s) - 1 |-> s[IF j < i THEN j ELSE j + 1]]

Consumed(h, q) ==
    [h EXCEPT !.head = (@ + 1) % Depth(q),
              !.phase = IF h.head + 1 = Depth(q) THEN 1 - @ ELSE @,
              !.out = IF Answered(h, q) = {} THEN @
                      ELSE Without(@, CHOOSE i \in Answered(h, q) : TRUE)]

(* What the driver does next once the command op of queue 0 has succeeded. *)
Advanced(op) ==
    CASE op = "create_cq" /\ drv = "cq_sent" -> "cq_made"
      [] op = "create_sq" /\ drv = "sq_sent" -> "io"
      [] op = "delete" /\ drv = "sq_del" -> "sq_gone"
      [] op = "delete" /\ drv = "cq_del" -> "live"
      [] OTHER -> drv

Reap(q) ==
    LET h == host[q]
        done == Answered(h, q)
    IN  /\ h.isr /\ IsNew(h, q, 0)
        /\ drv' = IF q = 0 /\ done # {}
                  THEN Advanced(h.out[CHOOSE i \in done : TRUE].op) ELSE drv
        /\ host' = [host EXCEPT ![q] = Consumed(@, q),
                        ![1 - q] = IF drv = "cq_del" /\ drv' = "live" THEN Unused ELSE @]
        /\ UNCHANGED <<dev, pc, cur, events, bar, irq, gen, work, resets, lost>>

IsrExit(q) ==
    LET h == host[q] IN
    /\ h.isr /\ ~IsNew(h, q, 0)
    /\ host' = [host EXCEPT ![q].isr = FALSE]
    /\ UNCHANGED <<dev, pc, cur, events, bar, irq, drv, gen, work, resets, lost>>

-----------------------------------------------------------------------------
DevNext ==
    \/ Register \/ AllocResources \/ Start
    \/ HandleWrite \/ ShutComplete \/ Exit
    \/ Execute \/ PostCompletion \/ InjectIrq \/ EndSubmission

DrvNext ==
    \/ Disable \/ Disabled \/ Program \/ EnableController \/ Ready
    \/ Shutdown \/ ShutDown \/ SubmitQueueCommand
    \/ \E c \in Queries : SubmitQuery(c)
    \/ \E c \in IoCommands : SubmitIo(c)
    \/ \E q \in Queue : RingDoorbell(q) \/ IsrEnter(Vector(q)) \/ Reap(q) \/ IsrExit(q)

Next == DevNext \/ DrvNext

(* The emulator's loop runs; the driver rings for what it has queued, goes *)
(* on with a reset or a shutdown it has begun, and handles its interrupts. *)
Fairness ==
    /\ WF_vars(DevNext)
    /\ WF_vars(Disabled) /\ WF_vars(Ready) /\ WF_vars(ShutDown)
    /\ \A q \in Queue : /\ WF_vars(RingDoorbell(q)) /\ WF_vars(IsrEnter(Vector(q)))
                        /\ WF_vars(Reap(q)) /\ WF_vars(IsrExit(q))

Spec == Init /\ [][Next]_vars /\ Fairness

-----------------------------------------------------------------------------
(* Answers the driver may expect: the table of CNS and NSID above          *)
(* nvme_identify() and the capacity the controller reports.                *)
ValidIdentify == {<<0, 1>>, <<1, 0>>, <<2, 0>>, <<3, 0>>, <<3, 1>>}
Expected(c) ==
    CASE c.op = "identify" ->
            IF c.args \in ValidIdentify THEN Transfer
            ELSE {"invalid_ns", "invalid_field"}
      [] c.op \in {"read", "write"} ->
            IF c.args[1] < Sectors THEN Transfer ELSE {"invalid_field"}
      [] c.op \in {"log", "features"} -> {"success", "invalid_field"}
      [] OTHER -> {"success"}

(* nvme_execute_command(): what the driver's phase bit tells it is new is  *)
(* exactly the answers to its oldest commands, in their order, across      *)
(* wraps of the queue, deletions of queues and resets.                     *)
NewEntriesAnswer ==
    \A q \in Queue : \A n \in 0 .. Depth(q) - 1 :
        (\A k \in 0 .. n : IsNew(host[q], q, k)) =>
            LET e == Entry(host[q], q, n) IN
            /\ n < Len(host[q].out)
            /\ e.cid = host[q].out[n + 1].cid
            /\ e.status \in Expected(host[q].out[n + 1])

(* nvme_handle_doorbell_write(): while the emulator works on a queue, the  *)
(* addresses and sizes it uses are those of the memory the driver has      *)
(* behind that queue now, and the tail lies inside it, or the loop would   *)
(* never end.                                                              *)
LoopOnDriversQueue ==
    pc \in {"submission", "complete"} =>
        LET r == dev.q[Ringing] IN
        /\ host[Ringing].gen # 0
        /\ {r.sqAddr, r.cqAddr} = {host[Ringing].gen}
        /\ r.sqSize = Depth(Ringing) /\ r.cqSize = Depth(Ringing)
        /\ r.sqTail < r.sqSize

(* dev_event_loop(): the driver's waits for RDY and for the end of a        *)
(* shutdown end, and every command is answered or cancelled by a reset,     *)
(* save those of a queue whose last interrupt was lost: an interrupt that   *)
(* is not lost brings what earlier ones did not.  (The commands and the     *)
(* resets are bounded, so the driver comes to rest.)                        *)
Unanswered == {q \in Queue : host[q].out # <<>>}
InWait == drv \in {"disabling", "enabling", "shutting"}
EverythingEnds == []<>(~InWait /\ Unanswered \subseteq lost)

(* The same however many interrupts are lost. It is false: nobody injects a *)
(* lost one again.                                                          *)
AllAnswered == []<>(Unanswered = {})

=============================================================================
