----------------------------- MODULE I2cDriver -----------------------------
(***************************************************************************)
(* The I2C driver of src/sensors/esp32-hal-i2c.c at work: a task that      *)
(* queues transfers and processes them (i2cWrite, i2cRead, i2cProcQueue),  *)
(* the interrupt handler that feeds the controller, the FreeRTOS daemon    *)
(* that sets the event bits the handler asks for, and the controller.      *)
(*                                                                         *)
(* One pass of the handler's loop is one step.  The record i2c holds both  *)
(* the driver's i2c_t and the registers i2c->dev.  Data bytes are their    *)
(* own positions (Token), so that a byte in the wrong place is seen.       *)
(***************************************************************************)
EXTENDS I2cCommands, FiniteSets

CONSTANTS
  TXCAP,      (* bytes fillTxFifo puts in the FIFO: 31                     *)
  TXTHR,      (* most bytes left when TX_EMPTY is raised                   *)
  RXCAP,      (* bytes the receive FIFO holds: 32                          *)
  RXTHR,      (* bytes that raise RXFIFO_FULL: 30                          *)
  MaxQueue,   (* most transfers in a queue                                 *)
  MaxLength,  (* most data bytes of a transfer                             *)
  Faults      (* what may go wrong around the driver:                      *)
              (*  "nak"        a device does not acknowledge               *)
              (*  "lost"       arbitration is lost                         *)
              (*  "timeout"    the wait ends before the transfer does      *)
              (*  "held"       another device holds the bus between calls  *)
              (*  "seized"     ... or stops it before the first byte       *)
              (*  "slowISR"    a byte moves before the last was counted    *)
              (*  "lateDaemon" the daemon sets bits when the task has gone *)
              (*               on to the next transaction                  *)
              (*  "oldGroup"   event groups that were used before are used *)
              (*               again                                       *)

ASSUME DriverAssumption ==
  /\ TXCAP \in Nat \ {0} /\ TXTHR \in 0 .. TXCAP - 1
  /\ RXTHR \in Nat \ {0} /\ RXCAP \in Nat /\ RXCAP >= RXTHR
  /\ MaxQueue \in Nat \ {0} /\ MaxLength \in Nat
  /\ Faults \subseteq {"nak", "lost", "timeout", "held", "seized", "slowISR",
                       "lateDaemon", "oldGroup"}

VARIABLES
  i2c,      (* the driver's state and the controller's registers           *)
  pc,       (* where the task is                                           *)
  call,     (* the call in progress: its API, tries, whether the wait ran  *)
            (* out, and the reason and eBits it ends with                  *)
  event,    (* i2c_event has the bit DONE                                  *)
  posted,   (* the daemon has been asked to set it                         *)
  groups,   (* the bits of the event groups given with the queue's         *)
            (* transfers                                                   *)
  queue,    (* history: the transfers of the transaction                   *)
  bus       (* history: what crossed the bus of it until it was given up   *)

vars == <<i2c, pc, call, event, posted, groups, queue, bus>>

Wires == INSTANCE I2cBus

AllInts == {"ACK_ERR", "TRANS_START", "TRANS_COMPLETE", "TRAN_COMP",
            "ARBITRATION", "END_DETECT", "TX_EMPTY", "RX_FULL"}

(* The registers i2cInit leaves behind *)
ResetRegisters(s) ==
  [s EXCEPT !.cmd = <<>>, !.tx = <<>>, !.rx = <<>>, !.int = {}, !.ena = {},
            !.go = FALSE, !.own = FALSE, !.held = FALSE]

NoCall == [api |-> "wire", tries |-> 0, waited |-> FALSE, reason |-> "OK", eBits |-> {}]

Init ==
  /\ i2c = [dq |-> <<>>, queuePos |-> 1, byteCnt |-> 0, stage |-> "DONE",
            error |-> "OK", exitCode |-> {}, cmd |-> <<>>, tx |-> <<>>, rx |-> <<>>,
            int |-> {}, ena |-> {}, go |-> FALSE, own |-> FALSE, held |-> FALSE]
  /\ pc = "idle"
  /\ call = NoCall
  /\ event = FALSE /\ posted = FALSE
  /\ groups = [q \in 1 .. MaxQueue |-> {}]
  /\ queue = <<>> /\ bus = <<>>

-----------------------------------------------------------------------------
(***************************************************************************)
(* The interrupt handler.                                                  *)
(***************************************************************************)
Min(a, b) == IF a < b THEN a ELSE b

(* Interrupts raised by a state of the FIFOs rather than by what happened  *)
Levels(s) == (IF Len(s.tx) <= TXTHR THEN {"TX_EMPTY"} ELSE {})
             \union (IF Len(s.rx) >= RXTHR THEN {"RX_FULL"} ELSE {})

Active(s) == (s.int \union Levels(s)) \intersect s.ena

OnTransStart(s) ==
  [s EXCEPT !.stage = IF @ = "STARTUP" THEN "RUNNING" ELSE @, !.int = @ \ {"TRANS_START"}]

(* fillTxFifo: the next byte is the first that the queue has not yet put   *)
(* in the FIFO, addresses included, from the entry being executed on       *)
Unloaded(e) == e.addrSent < e.addrReq \/ (e.mode = 0 /\ e.position < e.length)

OverFull(s) == Len(s.tx) > TXCAP   \* defect: one byte too many
TxFull(s) == Len(s.tx) >= TXCAP

LoadByte(s) ==
  LET waiting == {q \in s.queuePos .. Len(s.dq) : Unloaded(s.dq[q])}
      a == CHOOSE q \in waiting : \A p \in waiting : q <= p
      e == s.dq[a]
  IN IF TxFull(s) \/ waiting = {} THEN s
     ELSE IF e.addrSent < e.addrReq
     THEN [s EXCEPT !.tx = Append(@, Token("addr", a, e.addrSent + 1)), !.dq[a].addrSent = @ + 1]
     ELSE [s EXCEPT !.tx = Append(@, Token("write", a, e.position + 1)), !.dq[a].position = @ + 1]

OnceFilled(s) == s.ena \ {"TX_EMPTY"}   \* defect: disabled although bytes are left
Refillable(s) == IF Len(s.tx) < TXCAP THEN s.ena \ {"TX_EMPTY"} ELSE s.ena

FillTxFifo(s) == LET t == Repeat(LoadByte, s, TXCAP + 1) IN [t EXCEPT !.ena = Refillable(t)]

(* emptyRxFifo: what belongs to the entry being executed *)
EmptyRxFifo(s) ==
  LET e == s.dq[s.queuePos]
      n == Min(Len(s.rx), e.length - e.position)
  IN IF e.mode = 0 THEN s
     ELSE [s EXCEPT !.rx = SubSeq(@, n + 1, Len(@)),
                    !.dq[s.queuePos].data = @ \o SubSeq(s.rx, 1, n),
                    !.dq[s.queuePos].position = @ + n]

OnRxFull(s) == [EmptyRxFifo(s) EXCEPT !.ena = @ \union {"RX_FULL"}]

(* A byte was moved: the first byte past an entry's is the next entry's *)
EntryPassed(e, n) == n > queueLength(e)

LeftBytes(s) == s    \* defect: the last bytes read are left for the next entry
LastBytes(s) ==
  IF s.dq[s.queuePos].mode = 1 THEN OnRxFull(s) ELSE s

OnTranComp(s) ==
  LET n == s.byteCnt + 1
      e == s.dq[s.queuePos]
      t == [s EXCEPT !.int = @ \ {"TRAN_COMP"}, !.byteCnt = n]
  IN IF ~EntryPassed(e, n) THEN t
     ELSE [LastBytes(t) EXCEPT !.byteCnt = n - queueLength(e), !.queuePos = @ + 1,
             !.ena = IF s.queuePos < Len(s.dq) THEN @ \union {"TX_EMPTY"} ELSE @]

IsrExit(s, code, error) ==
  [(IF s.dq[s.queuePos].mode = 1 THEN EmptyRxFifo(s) ELSE s)
     EXCEPT !.ena = {}, !.int = {}, !.stage = "DONE", !.error = error,
            !.exitCode = {"DONE"} \union code]

NakAtOne(s) == s.byteCnt = 1   \* defect: the second address byte is taken for data
AddressNaked(s) == \/ s.byteCnt = 1
                   \/ s.byteCnt = 2 /\ s.dq[s.queuePos].addrReq = 2

OnAckErr(s) ==
  IF AddressNaked(s) THEN IsrExit(s, {"NAK", "ERROR"}, "ADDR_NAK")
                     ELSE IsrExit(s, {"DATA_NAK", "ERROR"}, "DATA_NAK")

EndUnserved(ops) ==   \* defect: END is served only once
  (IF "READ" \in ops THEN {"RX_FULL"} ELSE {}) \union (IF "WRITE" \in ops THEN {"TX_EMPTY"} ELSE {})
NeededInts(ops) ==
  {int \in {"END_DETECT", "RX_FULL", "TX_EMPTY"} :
     \/ int = "END_DETECT" /\ "END" \in ops
     \/ int = "RX_FULL" /\ "READ" \in ops
     \/ int = "TX_EMPTY" /\ "WRITE" \in ops}

(* fillCmdQueue(i2c, true) and trans_start *)
OnEndDetect(s) ==
  LET filled == FillCmdQueue(s.dq, s.queuePos)
      ops == {filled.cmd[k].op : k \in 1 .. Len(filled.cmd)}
  IN [s EXCEPT !.dq = filled.dq, !.cmd = filled.cmd, !.go = TRUE,
               !.int = (@ \ {"END_DETECT"}) \union {"TRANS_START"},
               !.ena = (@ \ {"END_DETECT"}) \union NeededInts(ops)]

(* The part of a pass before anything that ends it, in the code's order *)
Served(s, active) ==
  LET s1 == IF "TRANS_START" \in active THEN OnTransStart(s) ELSE s
      s2 == IF "TX_EMPTY" \in active THEN FillTxFifo(s1) ELSE s1
      s3 == IF "RX_FULL" \in active THEN OnRxFull(s2) ELSE s2
  IN IF "TRAN_COMP" \in active THEN OnTranComp(s3) ELSE s3

IsrEject ==
  /\ i2c.stage = "DONE" /\ Active(i2c) # {}
  /\ i2c' = [i2c EXCEPT !.ena = {}, !.int = @ \ Active(i2c)]
  /\ UNCHANGED <<pc, call, event, posted, groups, queue, bus>>

Fatal == {"ACK_ERR", "TRANS_COMPLETE", "ARBITRATION"}

IsrPass ==
  /\ i2c.stage # "DONE" /\ Active(i2c) # {} /\ Active(i2c) \intersect Fatal = {}
  /\ LET s == Served(i2c, Active(i2c))
     IN i2c' = IF "END_DETECT" \in Active(i2c) THEN OnEndDetect(s) ELSE s
  /\ UNCHANGED <<pc, call, event, posted, groups, queue, bus>>

(* i2cIsrExit; xEventGroupSetBitsFromISR may be refused *)
IsrFinish ==
  /\ i2c.stage # "DONE" /\ Active(i2c) \intersect Fatal # {}
  /\ LET s == Served(i2c, Active(i2c))
     IN i2c' = IF "ACK_ERR" \in Active(i2c) THEN OnAckErr(s)
               ELSE IF "TRANS_COMPLETE" \in Active(i2c) THEN IsrExit(s, {}, "OK")
               ELSE IsrExit(s, {"ARBITRATION", "ERROR"}, "ARBITRATION")
  /\ posted' \in (IF "timeout" \in Faults THEN {posted, TRUE} ELSE {TRUE})
  /\ UNCHANGED <<pc, call, event, groups, queue, bus>>

Daemon ==
  /\ posted /\ posted' = FALSE /\ event' = TRUE
  /\ UNCHANGED <<i2c, pc, call, groups, queue, bus>>

Isr == IsrEject \/ IsrPass \/ IsrFinish

-----------------------------------------------------------------------------
(***************************************************************************)
(* The controller, as the driver's comments describe it.  A handler that   *)
(* is not slow has run before the controller goes on.                      *)
(***************************************************************************)
Runs(op) ==
  /\ i2c.stage # "DONE"
  /\ i2c.go /\ i2c.cmd # <<>> /\ Head(i2c.cmd).op = op
  /\ \/ Active(i2c) = {}
     \/ "slowISR" \in Faults /\ Active(i2c) = {"TRAN_COMP"}

OnBus(token) == bus' = Append(bus, token)

OneLess(cmd) ==
  IF cmd[1].n > 1 THEN [cmd EXCEPT ![1].n = @ - 1] ELSE Tail(cmd)

Outcomes == {"ok"} \union (Faults \intersect {"nak", "lost"})

(* A byte's end, and what makes the controller stop there *)
ByteDone(s, outcome) ==
  [s EXCEPT !.cmd = OneLess(@), !.go = outcome = "ok", !.own = outcome = "ok",
            !.int = @ \union {"TRAN_COMP"}
                      \union (IF outcome = "nak" THEN {"ACK_ERR"} ELSE {})
                      \union (IF outcome = "lost" THEN {"ARBITRATION"} ELSE {})]

HwWrite ==
  /\ Runs("WRITE") /\ Head(i2c.cmd).n > 0
  /\ \E outcome \in Outcomes :
       i2c' = [ByteDone(i2c, outcome) EXCEPT !.tx = IF @ = <<>> THEN @ ELSE Tail(@)]
  /\ OnBus(IF i2c.tx = <<>> THEN Token("bogus", 0, 0) ELSE Head(i2c.tx))
  /\ UNCHANGED <<pc, call, event, posted, groups, queue>>

Moved(q) == Cardinality({k \in 1 .. Len(bus) : bus[k].q = q /\ bus[k].kind # "start"})

HwRead ==
  /\ Runs("READ") /\ Head(i2c.cmd).n > 0
  /\ LET c == Head(i2c.cmd)
         byte == ByteToken(queue[c.q], c.q, Moved(c.q) + 1, c.nak)
     IN /\ i2c' = [ByteDone(i2c, "ok") EXCEPT !.rx = IF Len(@) < RXCAP THEN Append(@, byte) ELSE @]
        /\ OnBus(byte)
  /\ UNCHANGED <<pc, call, event, posted, groups, queue>>

(* A READ or WRITE of no bytes, as Stretch makes them *)
HwNothing ==
  /\ Runs("READ") \/ Runs("WRITE")
  /\ Head(i2c.cmd).n = 0
  /\ i2c' = [i2c EXCEPT !.cmd = Tail(@)]
  /\ UNCHANGED <<pc, call, event, posted, groups, queue, bus>>

HwStart ==
  /\ Runs("RSTART") /\ ~i2c.held
  /\ i2c' = [i2c EXCEPT !.cmd = Tail(@), !.own = TRUE]
  /\ OnBus(Token("start", Head(i2c.cmd).q, 0))
  /\ UNCHANGED <<pc, call, event, posted, groups, queue>>

HwStop ==
  /\ Runs("STOP")
  /\ i2c' = [i2c EXCEPT !.cmd = <<>>, !.go = FALSE, !.own = FALSE,
                        !.int = @ \union {"TRANS_COMPLETE"}]
  /\ OnBus(Token("stop", Head(i2c.cmd).q, 0))
  /\ UNCHANGED <<pc, call, event, posted, groups, queue>>

HwEnd ==
  /\ Runs("END")
  /\ i2c' = [i2c EXCEPT !.cmd = <<>>, !.go = FALSE, !.int = @ \union {"END_DETECT"}]
  /\ UNCHANGED <<pc, call, event, posted, groups, queue, bus>>

(* Of a transaction given up in Shutdown only this matters: it may still   *)
(* start, hold the bus, and come to an end                                 *)
HwUnattended ==
  /\ i2c.stage = "DONE" /\ i2c.go /\ pc \in {"report", "flush", "idle", "proc"}
  /\ \/ ~i2c.own /\ ~i2c.held /\ i2c' = [i2c EXCEPT !.own = TRUE]
     \/ i2c.own /\ i2c' = [i2c EXCEPT !.own = FALSE, !.go = FALSE]
  /\ UNCHANGED <<pc, call, event, posted, groups, queue, bus>>

Hold ==
  /\ ~i2c.own /\ ~i2c.held
  /\ \/ "held" \in Faults /\ pc \in {"idle", "proc"}
     \/ "seized" \in Faults /\ pc = "waiting" /\ bus = <<>>
  /\ i2c' = [i2c EXCEPT !.held = TRUE]
  /\ UNCHANGED <<pc, call, event, posted, groups, queue, bus>>

Release ==
  /\ i2c.held /\ i2c' = [i2c EXCEPT !.held = FALSE]
  /\ UNCHANGED <<pc, call, event, posted, groups, queue, bus>>

Controller == HwWrite \/ HwRead \/ HwNothing \/ HwStart \/ HwStop \/ HwEnd
              \/ HwUnattended

-----------------------------------------------------------------------------
(***************************************************************************)
(* The task.                                                               *)
(***************************************************************************)
StatusMask == {"BUS_BUSY", "DONE"}   \* defect: the error bits are not cleared
EVENT_MASK == {"NAK", "ERROR", "BUS_BUSY", "DONE"}

Bits == {"DONE", "ERROR", "NAK", "DATA_NAK", "ARBITRATION", "TIMEOUT", "BUS_BUSY", "PREV"}

(* What the event group given with a transfer says already: nothing when   *)
(* it is new; one that was used says what the calls before have set in it  *)
GivenBits == {{}} \union (IF "oldGroup" \in Faults THEN {Bits} ELSE {})

(* i2cAddQueue: the entries, and their event groups made ready *)
AddQueue(entries) ==
  LET first == Len(i2c.dq) + 1
      added == first .. Len(i2c.dq) + Len(entries)
  IN /\ Len(i2c.dq) + Len(entries) <= MaxQueue
     /\ i2c' = [i2c EXCEPT !.dq = @ \o entries]
     /\ \E given \in GivenBits :
          groups' = [q \in 1 .. MaxQueue |->
                       IF q \in added THEN given \ EVENT_MASK ELSE groups[q]]

(* i2cWrite or i2cRead without STOP: I2C_ERROR_CONTINUE *)
Enqueue ==
  /\ pc = "idle"
  /\ \E mode \in {0, 1}, tenBit \in BOOLEAN, n \in 0 .. MaxLength :
       LET entries == EntriesOf(mode, tenBit, n, FALSE)
       IN AddQueue(entries) /\ Len(i2c.dq) + Len(entries) < MaxQueue
  /\ UNCHANGED <<pc, call, event, posted, queue, bus>>

(* With STOP the queue is processed: by i2cWrite and i2cRead, or by a      *)
(* sketch that calls i2cAddQueue* with event groups and i2cProcQueue       *)
EnqueueStop ==
  /\ pc = "idle" /\ pc' = "proc"
  /\ \E mode \in {0, 1}, tenBit \in BOOLEAN, n \in 0 .. MaxLength :
       AddQueue(EntriesOf(mode, tenBit, n, TRUE))
  /\ \E api \in {"wire", "events"} :
       call' = [NoCall EXCEPT !.api = api]
  /\ UNCHANGED <<event, posted, queue, bus>>

bus_busy == i2c.own \/ i2c.held

Retried == call.api = "wire" /\ call.tries = 0

ProcBusy ==
  /\ pc = "proc" /\ bus_busy
  /\ pc' = IF Retried THEN "reinit" ELSE "flush"
  /\ call' = [call EXCEPT !.reason = "BUSY"]
  /\ UNCHANGED <<i2c, event, posted, groups, queue, bus>>

KeptEvent == event   \* defect: the last transaction's bit stays set
ClearedEvent == FALSE

KeptExit == i2c.exitCode   \* defect: the last transaction's code stays
ClearedExit == {}

(* i2cProcQueue up to trans_start *)
ProcStart ==
  /\ pc = "proc" /\ ~bus_busy
  /\ posted => "lateDaemon" \in Faults
  /\ LET filled == FillCmdQueue(i2c.dq, 1)
     IN i2c' = [i2c EXCEPT !.dq = filled.dq, !.cmd = filled.cmd, !.queuePos = 1,
                           !.byteCnt = 0, !.tx = <<>>, !.rx = <<>>,
                           !.int = {"TRANS_START"}, !.ena = AllInts, !.exitCode = ClearedExit,
                           !.stage = "STARTUP", !.go = TRUE]
  /\ event' = ClearedEvent
  /\ queue' = i2c.dq /\ bus' = <<>>
  /\ pc' = "waiting"
  /\ UNCHANGED <<call, posted, groups>>

Wake ==
  /\ pc = "waiting" /\ event
  /\ pc' = "woken" /\ call' = [call EXCEPT !.waited = FALSE]
  /\ UNCHANGED <<i2c, event, posted, groups, queue, bus>>

(* The wait runs out.  It is longer than the transfer takes, so a byte has *)
(* been counted, unless something holds the bus before the first: then     *)
(* ("seized") Shutdown says BUSY and the call is tried again with entries  *)
(* that this try has changed                                               *)
TimeOut ==
  /\ pc = "waiting" /\ ~event /\ "timeout" \in Faults
  /\ i2c.queuePos > 1 \/ i2c.byteCnt > 0 \/ "seized" \in Faults
  /\ pc' = "woken" /\ call' = [call EXCEPT !.waited = TRUE]
  /\ UNCHANGED <<i2c, event, posted, groups, queue, bus>>

ReasonOf ==
  CASE i2c.error = "OK" -> "OK"
    [] i2c.error \in {"ADDR_NAK", "DATA_NAK"} -> "ACK"
    [] i2c.error = "ARBITRATION" -> "BUS"

(* The exit code is what counts, whatever became of the event bits *)
Recover ==
  /\ pc = "woken"
  /\ IF "DONE" \in i2c.exitCode
     THEN /\ pc' = "report"
          /\ call' = [call EXCEPT !.reason = ReasonOf, !.eBits = i2c.exitCode]
     ELSE pc' = "gross" /\ UNCHANGED call
  /\ UNCHANGED <<i2c, event, posted, groups, queue, bus>>

(* The handler may have finished meanwhile; from here on it ejects *)
GrossTimeout ==
  /\ pc = "gross" /\ pc' = "shutdown"
  /\ i2c' = [i2c EXCEPT !.stage = "DONE"]
  /\ UNCHANGED <<call, event, posted, groups, queue, bus>>

Shutdown ==
  /\ pc = "shutdown"
  /\ i2c' = [i2c EXCEPT !.ena = {}, !.int = {}, !.cmd = <<>>]
  /\ LET nothingMoved == i2c.queuePos = 1 /\ i2c.byteCnt = 0
     IN call' = [call EXCEPT !.reason = IF nothingMoved THEN "BUSY" ELSE "TIMEOUT",
                             !.eBits = {IF nothingMoved THEN "BUS_BUSY" ELSE "TIMEOUT",
                                        "ERROR", "DONE"}]
  /\ pc' = "report"
  /\ UNCHANGED <<event, posted, groups, queue, bus>>

PassedOnly(q) == IF q <= i2c.queuePos THEN {"DONE"}   \* defect: off by one
                 ELSE call.eBits \union {"PREV"}
EntryBits(q) == IF q < i2c.queuePos THEN {"DONE"}
                ELSE IF q = i2c.queuePos THEN call.eBits ELSE call.eBits \union {"PREV"}

Report ==
  /\ pc = "report"
  /\ groups' = IF call.api = "wire" THEN groups
               ELSE [q \in 1 .. MaxQueue |->
                       IF q <= Len(i2c.dq) THEN groups[q] \union EntryBits(q) ELSE groups[q]]
  /\ pc' = IF call.reason = "BUSY" /\ Retried THEN "reinit" ELSE "flush"
  /\ UNCHANGED <<i2c, call, event, posted, queue, bus>>

(* i2cInit: i2cCheckLineState clocks the bus free, or cannot *)
Reinit ==
  /\ pc = "reinit"
  /\ \/ /\ i2c' = ResetRegisters(i2c)
        /\ pc' = "proc" /\ call' = [call EXCEPT !.tries = 1]
     \/ /\ i2c.held
        /\ i2c' = [ResetRegisters(i2c) EXCEPT !.held = TRUE]
        /\ pc' = "flush" /\ UNCHANGED call
  /\ UNCHANGED <<event, posted, groups, queue, bus>>

(* i2cFlush; what the next i2cProcQueue overwrites unread is dropped too,   *)
(* and the event groups go with the transfers they were given for          *)
Flush ==
  /\ pc = "flush" /\ pc' = "idle"
  /\ i2c' = [i2c EXCEPT !.dq = <<>>, !.queuePos = 1, !.byteCnt = 0, !.cmd = <<>>,
                        !.tx = <<>>, !.rx = <<>>]
  /\ call' = NoCall /\ queue' = <<>> /\ bus' = <<>>
  /\ groups' = [q \in 1 .. MaxQueue |-> {}]
  /\ UNCHANGED <<event, posted>>

Serve == \/ ProcBusy \/ ProcStart \/ Wake \/ TimeOut \/ Recover
         \/ GrossTimeout \/ Shutdown \/ Report \/ Reinit \/ Flush

Task == Enqueue \/ EnqueueStop \/ Serve

Next == Isr \/ Daemon \/ Controller \/ Hold \/ Release \/ Task

Spec == Init /\ [][Next]_vars

(* The controller and the scheduler go on; the sketch need not call again *)
FairSpec ==
  /\ Spec
  /\ WF_vars(Isr) /\ WF_vars(Daemon) /\ WF_vars(Controller) /\ WF_vars(Serve)
-----------------------------------------------------------------------------
(* The queue position stays inside the queue the handler indexes, and the  *)
(* FIFOs inside the controller.                                            *)
TypeOK ==
  /\ Len(i2c.dq) <= MaxQueue
  /\ i2c.stage # "DONE" => i2c.queuePos \in 1 .. Len(i2c.dq)
  /\ Len(i2c.tx) <= TXCAP /\ Len(i2c.rx) <= RXCAP
  /\ i2c.stage \in {"DONE", "STARTUP", "RUNNING"}
  /\ i2c.ena \subseteq AllInts /\ i2c.int \subseteq AllInts
  /\ pc \in {"idle", "proc", "waiting", "woken", "gross", "shutdown", "report", "reinit", "flush"}
  /\ \A q \in 1 .. MaxQueue : groups[q] \subseteq Bits

(* The bytes of the queue cross the bus in its order, each once, and none  *)
(* that fillTxFifo did not supply in time (line 424: "the SM has already   *)
(* sent a bogus byte out the BUS"): the driver implements I2cBus.          *)
DrivesBus == Wires!Spec

(* Every byte read is stored in its own place of its own buffer, though    *)
(* the handler learns only by counting which transfer it belongs to.       *)
ReadsLand ==
  \A q \in 1 .. Len(i2c.dq) : \A k \in 1 .. Len(i2c.dq[q].data) :
    i2c.dq[q].data[k].q = q /\ i2c.dq[q].data[k].k = k

(* I2C_ERROR_OK: all of the queue has crossed, up to STOP, and everything  *)
(* read is in the buffers.                                                 *)
OkMeansComplete ==
  pc = "flush" /\ call.reason = "OK" =>
    /\ bus = Stream(queue)
    /\ \A q \in 1 .. Len(i2c.dq) : i2c.dq[q].position = i2c.dq[q].length

(* A transfer whose event group says DONE and not ERROR is on the bus      *)
(* whole, also when a later one of the queue failed.                       *)
DoneMeansMoved ==
  pc = "flush" /\ call.api = "events" =>
    \A q \in 1 .. Len(i2c.dq) :
      "DONE" \in groups[q] /\ "ERROR" \notin groups[q] => Moved(q) >= queueLength(i2c.dq[q])

(* A missing acknowledgement is put down to the address exactly when the   *)
(* byte not acknowledged was one of the address's.                         *)
NakKind ==
  pc = "report" /\ call.reason = "ACK" =>
    (i2c.error = "ADDR_NAK") = (bus[Len(bus)].kind = "addr")

(* Lines 851-853: the call hangs "until the timeout period expires": a     *)
(* gross timeout is reported only when the wait really ran out.            *)
TimeoutMeansWaited ==
  pc = "report" /\ call.reason \in {"BUSY", "TIMEOUT"} => call.waited

(* Line 118: startCmdSent is "START cmd has been added to command[]": what *)
(* the controller is told to run begins with a START.                      *)
StartFirst == i2c.cmd # <<>> /\ i2c.cmd[1].op = "RSTART"
BeginsWithStart == [][pc = "proc" /\ pc' = "waiting" => StartFirst']_vars

(* So does the list of a call's first try, whatever the calls before came  *)
(* to and though the bus was busy before: only a call of which a try was   *)
(* given up already has anything in eBits.                                 *)
FirstTryStarts ==
  [][pc = "proc" /\ pc' = "waiting" /\ call.eBits = {} => StartFirst']_vars

(* A transfer of a call that succeeded has an event group that says DONE   *)
(* and none of the errors i2cAddQueue clears, though the group may have    *)
(* been used before, by calls that failed.                                 *)
SuccessShows ==
  pc = "flush" /\ call.api = "events" /\ call.reason = "OK" =>
    \A q \in 1 .. Len(i2c.dq) :
      "DONE" \in groups[q] /\ groups[q] \cap {"ERROR", "NAK", "BUS_BUSY"} = {}

(* Line 753, on clearing the bits of a group: "all of them".  After a      *)
(* success the group says DONE and nothing else.                           *)
FreshBits ==
  pc = "flush" /\ call.api = "events" /\ call.reason = "OK" =>
    \A q \in 1 .. Len(i2c.dq) : groups[q] = {"DONE"}

(* Without faults no transfer waits for ever: no interrupt that is still   *)
(* needed is ever disabled or cleared unserved, and no wait is cut short.  *)
Completes == pc = "waiting" ~> (pc = "report" /\ call.reason = "OK")
(* What the driver says of success is true of the bus and the buffers.     *)
ResultsTrue == OkMeansComplete /\ DoneMeansMoved

(* What it says of failure is true as well.                                *)
ErrorsTrue == NakKind /\ TimeoutMeansWaited

(* Without faults every transfer completes, with its bytes where they      *)
(* belong.                                                                 *)
ReadsComplete == []ReadsLand /\ Completes
=============================================================================
