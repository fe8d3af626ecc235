---------------------------- MODULE I2cCommands ----------------------------
(***************************************************************************)
(* How the I2C driver of src/sensors/esp32-hal-i2c.c turns its queue of    *)
(* transfers (i2c->dq) into the command list of the controller:            *)
(* i2cAddQueue builds an entry, i2cProcQueue converts its address, and     *)
(* fillCmdQueue writes as many commands as fit, ending in STOP or, when    *)
(* more are needed, in END; the END interrupt then calls it again.         *)
(*                                                                         *)
(* Pure operators.  A state of fillCmdQueue is a record: dq and qp as in   *)
(* the code, cmd the commands written so far (cmdIdx = Len(cmd)).          *)
(***************************************************************************)
EXTENDS Integers, Sequences

CONSTANTS
  LAST,   (* index of the last command register: 15                        *)
  BLK     (* most bytes of one READ or WRITE command: 255                  *)

ASSUME CommandAssumption == LAST \in Nat /\ LAST > 3 /\ BLK \in Nat \ {0}

(* Op(s), with s evaluated once; and Op applied n times                    *)
Then(s, Op(_)) == CHOOSE t \in {Op(u) : u \in {s}} : TRUE
Repeat(Op(_), s, n) ==
  LET r[k \in 0 .. n] == IF k = 0 THEN s ELSE Then(r[k - 1], Op) IN r[n]

(***************************************************************************)
(* Queue entries.                                                          *)
(***************************************************************************)
IsTenBit(addr) == addr \div 1024 = 30          \* addr & 0xFC00 == 0x7800

(* One entry; the model's entries also hold the bytes read (data)          *)
EntryWith(started, mode, addrReq, length, stop) ==
  [mode |-> mode, addrReq |-> addrReq, length |-> length, stop |-> stop,
   startCmdSent |-> started, addrCmdSent |-> FALSE, stopCmdSent |-> FALSE,
   cmdBytesNeeded |-> length, addrSent |-> 0, position |-> 0, data |-> <<>>]

UnclearedEntry(mode, addrReq, length, stop) ==   \* defect: ctrl.val is not cleared
  EntryWith(TRUE, mode, addrReq, length, stop)
NewEntry(mode, addrReq, length, stop) == EntryWith(FALSE, mode, addrReq, length, stop)

queueLength(e) == e.length + e.addrReq

(* What i2cAddQueueWrite and i2cAddQueueRead append: a read from a ten bit *)
(* address is an empty write to it and a read from its upper bits          *)
EntriesOf(mode, tenBit, length, stop) ==
  IF mode = 1 /\ tenBit
  THEN <<NewEntry(0, 2, 0, FALSE), NewEntry(1, 1, length, stop)>>
  ELSE <<NewEntry(mode, IF tenBit THEN 2 ELSE 1, length, stop)>>

(* The two bytes of ctrl.addr after i2cProcQueue converted it.  Line 899   *)
(* joins the halves of a ten bit address with the logical or.              *)
SevenBitUnshifted(addr, mode) == (addr + mode) % 256   \* defect: no room for R/W
SevenBit(addr, mode) == ((2 * addr) % 256) + mode
ConvertedAddr(addr, mode) ==
  IF ~IsTenBit(addr) THEN <<SevenBit(addr, mode)>>
  ELSE LET high == ((addr \div 256) % 128) * 2 + mode
           joined == IF high # 0 \/ addr % 256 # 0 THEN 1 ELSE 0
       IN <<joined \div 256, joined % 256>>

(***************************************************************************)
(* fillCmdQueue: one iteration of its loop, in the order of the code.      *)
(***************************************************************************)
Full(s) == Len(s.cmd) >= LAST
Entry(s) == s.dq[s.qp]

Cmd(op, n, nak, q) == [op |-> op, n |-> n, nak |-> nak, q |-> q]
Put(s, op, n, nak) == [s EXCEPT !.cmd = Append(@, Cmd(op, n, nak, s.qp))]

StartAnywhere(s) == ~Full(s)   \* defect: a START may stand just before END
StartFits(s) == Len(s.cmd) < LAST - 1

AddStart(s) ==
  IF ~Entry(s).startCmdSent /\ StartFits(s)
  THEN [Put(s, "RSTART", 0, FALSE) EXCEPT !.dq[s.qp].startCmdSent = TRUE]
  ELSE s

AddAddress(s) ==
  IF ~Full(s) /\ Entry(s).startCmdSent /\ ~Entry(s).addrCmdSent
  THEN [Put(s, "WRITE", Entry(s).addrReq, FALSE) EXCEPT !.dq[s.qp].addrCmdSent = TRUE]
  ELSE s

WholeBlock(e) == IF e.cmdBytesNeeded > BLK THEN BLK ELSE e.cmdBytesNeeded \* defect
BlockSize(e) == IF e.cmdBytesNeeded > BLK THEN BLK ELSE e.cmdBytesNeeded - e.mode

AddBlock(s) ==
  LET e == Entry(s)
      blkSize == BlockSize(e)
  IN IF ~Full(s) /\ e.addrCmdSent /\ e.cmdBytesNeeded > e.mode
     THEN [Put(s, IF e.mode = 1 THEN "READ" ELSE "WRITE", blkSize, FALSE)
             EXCEPT !.dq[s.qp].cmdBytesNeeded = @ - blkSize]
     ELSE s

AddData(s) == Repeat(AddBlock, s, LAST)

AddLastRead(s) ==
  LET e == Entry(s)
  IN IF ~Full(s) /\ e.addrCmdSent /\ e.mode = 1 /\ e.cmdBytesNeeded = 1
     THEN [Put(s, "READ", 1, TRUE) EXCEPT !.dq[s.qp].cmdBytesNeeded = 0]
     ELSE s

AddStop(s) ==
  IF ~Full(s) /\ Entry(s).addrCmdSent /\ Entry(s).cmdBytesNeeded = 0
  THEN [(IF Entry(s).stop THEN Put(s, "STOP", 0, FALSE) ELSE s)
          EXCEPT !.dq[s.qp].stopCmdSent = TRUE]
  ELSE s

(* No START may come just before END: the last READ or WRITE is doubled,   *)
(* its first copy moves no bytes                                           *)
LastMove(s) ==
  LET moves == {k \in 1 .. LAST - 1 : s.cmd[k].op \in {"READ", "WRITE"}}
  IN CHOOSE k \in moves : \A j \in moves : j <= k

FullCopy(c) == c                   \* defect: both copies move the bytes
EmptyCopy(c) == [c EXCEPT !.n = 0]

Stretch(s) ==
  IF Len(s.cmd) = LAST - 1 /\ ~Entry(s).startCmdSent
  THEN LET k == LastMove(s)
       IN [s EXCEPT !.cmd = SubSeq(@, 1, k - 1) \o <<EmptyCopy(@[k])>> \o SubSeq(@, k, LAST - 1)]
  ELSE s

AddEnd(s) ==
  IF Len(s.cmd) = LAST THEN [Put(s, "END", 0, FALSE) EXCEPT !.done = TRUE] ELSE s

NextEntry(s) ==
  IF ~s.done /\ Entry(s).stopCmdSent
  THEN IF s.qp < Len(s.dq) THEN [s EXCEPT !.qp = @ + 1] ELSE [s EXCEPT !.done = TRUE]
  ELSE s

Iteration(s) ==
  IF s.done THEN s
  ELSE LET queued == Then(Then(Then(AddStart(s), AddAddress), AddData), AddLastRead)
       IN Then(Then(Then(Then(queued, AddStop), Stretch), AddEnd), NextEntry)

Unstarted(dq, queuePos) ==   \* defect: an entry cut by END counts as sent
  {q \in queuePos .. Len(dq) : ~dq[q].startCmdSent}
Unsent(dq, queuePos) == {q \in queuePos .. Len(dq) : ~dq[q].stopCmdSent}

(* The entries' flags and the command list after fillCmdQueue.  Each       *)
(* iteration writes a command or goes on to the next entry.                *)
FillCmdQueue(dq, queuePos) ==
  LET todo == Unsent(dq, queuePos)
      s == Repeat(Iteration,
                  [dq |-> dq, qp |-> CHOOSE q \in todo : \A p \in todo : q <= p,
                   cmd |-> <<>>, done |-> FALSE],
                  LAST + Len(dq) + 1)
  IN IF todo = {} THEN [dq |-> dq, cmd |-> <<>>] ELSE [dq |-> s.dq, cmd |-> s.cmd]

-----------------------------------------------------------------------------
(***************************************************************************)
(* What the commands mean on the bus.                                      *)
(***************************************************************************)
Token(kind, q, k) == [kind |-> kind, q |-> q, k |-> k]

(* The k-th byte moved for entry q, by a READ that answers NAK or another  *)
(* command                                                                 *)
ByteToken(e, q, k, nak) ==
  IF k <= e.addrReq THEN Token("addr", q, k)
  ELSE Token(IF e.mode = 0 THEN "write" ELSE IF nak THEN "nak" ELSE "read",
             q, k - e.addrReq)

(* The bytes of one entry, numbered: address, then data; only the last     *)
(* byte read is answered with NAK                                          *)
EntryStream(e, q) ==
  <<Token("start", q, 0)>>
  \o [k \in 1 .. e.addrReq |-> Token("addr", q, k)]
  \o [k \in 1 .. e.length |->
        Token(IF e.mode = 0 THEN "write" ELSE IF k = e.length THEN "nak" ELSE "read", q, k)]
  \o (IF e.stop THEN <<Token("stop", q, 0)>> ELSE <<>>)

(* All a queue of transfers puts on the bus *)
Stream(dq) ==
  LET upto[q \in 0 .. Len(dq)] ==
        IF q = 0 THEN <<>> ELSE upto[q - 1] \o EntryStream(dq[q], q)
  IN upto[Len(dq)]
=============================================================================
