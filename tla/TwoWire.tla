------------------------------ MODULE TwoWire ------------------------------
(***************************************************************************)
(* The Wire library of src/sensors/Wire.cpp over the I2C driver.  A        *)
(* transfer without STOP is only queued: the driver keeps a pointer into   *)
(* txBuffer or rxBuffer and moves the bytes when a STOP comes, so until    *)
(* then Wire must not use that part of its buffers for anything else.      *)
(*                                                                         *)
(* The driver is taken at its word (OkMeansComplete of I2cDriver): a queue *)
(* with STOP is processed whole, or fails, and is flushed.  A byte is the  *)
(* transfer of the queue it was written for or read by and its place in it.*)
(***************************************************************************)
EXTENDS Integers, Sequences, FiniteSetsExt

CONSTANTS
  I2C_BUFFER_LENGTH,  (* bytes of each buffer: 128                         *)
  MaxQueue            (* most transfers queued before a STOP               *)

ASSUME WireAssumption == I2C_BUFFER_LENGTH \in Nat \ {0} /\ MaxQueue \in Nat \ {0}

VARIABLES
  wire,       (* the indices of the TwoWire object                         *)
  txBuffer,
  rxBuffer,
  last_error,
  dq,         (* the driver's queue: direction and part of the buffer;     *)
              (* said: how many bytes the sketch wrote for the transfer    *)
  said,       (* history: bytes write() accepted since beginTransmission   *)
  done,       (* history: the transfers of the last STOP, and whether each *)
              (* sent what was written for it                              *)
  mixed       (* history: the queue has, or the last STOP had, a           *)
              (* requestFrom without STOP or amid a transmission           *)

vars == <<wire, txBuffer, rxBuffer, last_error, dq, said, done, mixed>>

Places == 1 .. I2C_BUFFER_LENGTH

Init ==
  /\ wire = [rxIndex |-> 0, rxLength |-> 0, rxQueued |-> 0, txIndex |-> 0,
             txLength |-> 0, txQueued |-> 0, transmitting |-> FALSE]
  /\ txBuffer = [k \in Places |-> <<0, 0>>]
  /\ rxBuffer = [k \in Places |-> <<0, 0>>]
  /\ last_error = "OK"
  /\ dq = <<>> /\ said = 0 /\ done = <<>> /\ mixed = FALSE

-----------------------------------------------------------------------------
(***************************************************************************)
(* The driver underneath: i2cWrite and i2cRead with the parts of the       *)
(* buffers they are given, and i2cFlush.                                   *)
(***************************************************************************)
Transfer(mode, at, len, count) == [mode |-> mode, at |-> at, len |-> len, said |-> count]

Sent(q, t) ==
  [mode |-> t.mode,
   intact |-> t.mode = 0 => /\ t.len = t.said
                            /\ \A k \in 1 .. t.len : txBuffer[t.at + k] = <<q, k>>]

(* rxBuffer after the reads of the queue: a place holds what the last of   *)
(* them to reach it left there                                             *)
Received(queue) ==
  LET Reads(k) == {q \in 1 .. Len(queue) :
                     queue[q].mode = 1 /\ k \in queue[q].at + 1 .. queue[q].at + queue[q].len}
  IN [k \in Places |-> IF Reads(k) = {} THEN rxBuffer[k]
                       ELSE <<Max(Reads(k)), k - queue[Max(Reads(k))].at>>]

Queue(t) ==
  /\ Len(dq) < MaxQueue - 1
  /\ dq' = Append(dq, t)
  /\ last_error' = "CONTINUE"
  /\ UNCHANGED <<rxBuffer, done>>

Process(t) ==
  LET queue == Append(dq, t)
  IN /\ \/ last_error' = "OK" /\ rxBuffer' = Received(queue)
        \/ last_error' \in {"ACK", "TIMEOUT"} /\ UNCHANGED rxBuffer
     /\ done' = [q \in 1 .. Len(queue) |-> Sent(q, queue[q])]
     /\ dq' = <<>>

DriverCall(t, sendStop) == IF sendStop THEN Process(t) ELSE Queue(t)

(* flush(); transmitting is left alone *)
Flush ==
  /\ wire' = [wire EXCEPT !.rxIndex = 0, !.rxLength = 0, !.txIndex = 0, !.txLength = 0,
                          !.rxQueued = 0, !.txQueued = 0]
  /\ dq' = <<>> /\ said' = 0 /\ done' = <<>> /\ mixed' = FALSE
  /\ UNCHANGED <<txBuffer, rxBuffer>>

-----------------------------------------------------------------------------
Begin == Flush /\ UNCHANGED last_error

BeginTransmission ==
  /\ wire' = [wire EXCEPT !.transmitting = TRUE, !.txIndex = wire.txQueued,
                          !.txLength = wire.txQueued]
  /\ said' = 0
  /\ mixed' = (mixed /\ dq # <<>>) /\ done' = IF mixed THEN <<>> ELSE done
  /\ UNCHANGED <<txBuffer, rxBuffer, last_error, dq>>

HasRoomAtEnd == wire.txLength <= I2C_BUFFER_LENGTH   \* defect: one byte too many
HasRoom == wire.txLength < I2C_BUFFER_LENGTH

NextByte == <<Len(dq) + 1, said + 1>>

(* write(data); write(data, quantity) repeats it *)
Write ==
  /\ wire.transmitting /\ HasRoom
  /\ txBuffer' = [txBuffer EXCEPT ![wire.txIndex + 1] = NextByte]
  /\ wire' = [wire EXCEPT !.txIndex = @ + 1, !.txLength = wire.txIndex + 1]
  /\ said' = said + 1
  /\ UNCHANGED <<rxBuffer, last_error, dq, done, mixed>>

RestartedAlways(error) == 0   \* defect: the queued bytes are forgotten
TxQueuedAfter(error) == IF error = "CONTINUE" THEN wire.txLength ELSE 0

EndTransmission(sendStop) ==
  /\ wire.transmitting
  /\ DriverCall(Transfer(0, wire.txQueued, wire.txLength - wire.txQueued, said), sendStop)
  /\ wire' = [wire EXCEPT !.rxIndex = 0, !.rxLength = wire.rxQueued, !.rxQueued = 0,
                          !.txQueued = TxQueuedAfter(last_error'),
                          !.txIndex = 0, !.txLength = 0, !.transmitting = FALSE]
  /\ said' = 0
  /\ UNCHANGED <<txBuffer, mixed>>

(* endTransmission without beginTransmission *)
EndNothing ==
  /\ ~wire.transmitting
  /\ last_error' = "NO_BEGIN"
  /\ Flush

RoomFor(size) ==
  wire.rxQueued < I2C_BUFFER_LENGTH - 1 /\ size + wire.rxQueued <= I2C_BUFFER_LENGTH

LengthAdded(size) == wire.rxLength + size   \* defect: += for =
Requested(size) == wire.rxQueued + size

RequestFrom(size, sendStop) ==
  /\ RoomFor(size)
  /\ DriverCall(Transfer(1, wire.rxQueued, size, 0), sendStop)
  /\ wire' = [wire EXCEPT !.rxIndex = 0, !.rxLength = Requested(size),
                          !.rxQueued = 0, !.txQueued = 0]
  /\ mixed' = \/ ~sendStop
              \/ mixed /\ (dq # <<>> \/ wire.transmitting)
              \/ dq # <<>> /\ wire.transmitting
  /\ UNCHANGED <<txBuffer, said>>

RequestTooMuch(size) ==
  /\ ~RoomFor(size)
  /\ last_error' = "MEMORY"
  /\ Flush

Read ==
  /\ wire.rxIndex < wire.rxLength
  /\ wire' = [wire EXCEPT !.rxIndex = @ + 1]
  /\ UNCHANGED <<txBuffer, rxBuffer, last_error, dq, said, done, mixed>>

Next ==
  \/ Begin \/ BeginTransmission \/ Write \/ EndNothing \/ Read
  \/ \E sendStop \in BOOLEAN : EndTransmission(sendStop)
  \/ \E size \in 0 .. I2C_BUFFER_LENGTH + 1 :
       RequestTooMuch(size) \/ \E sendStop \in BOOLEAN : RequestFrom(size, sendStop)

Spec == Init /\ [][Next]_vars
-----------------------------------------------------------------------------
(* No call, in whatever order, indexes outside a buffer or passes the      *)
(* driver a length that has wrapped below zero.                            *)
TypeOK ==
  /\ wire \in [rxIndex : 0 .. I2C_BUFFER_LENGTH, rxLength : 0 .. I2C_BUFFER_LENGTH,
               rxQueued : 0 .. I2C_BUFFER_LENGTH, txIndex : 0 .. I2C_BUFFER_LENGTH,
               txLength : 0 .. I2C_BUFFER_LENGTH, txQueued : 0 .. I2C_BUFFER_LENGTH,
               transmitting : BOOLEAN]
  /\ wire.rxIndex <= wire.rxLength
  /\ wire.transmitting => wire.txQueued <= wire.txLength
  /\ \A q \in 1 .. Len(dq) : dq[q].at + dq[q].len <= I2C_BUFFER_LENGTH

(* What a transfer sends is what the sketch wrote for it, though it is     *)
(* taken from txBuffer only when STOP comes and other transmissions were   *)
(* written to the buffer in between.                                       *)
SentIsSaid == ~mixed => \A q \in 1 .. Len(done) : done[q].intact

(* After a requestFrom with STOP that returned OK, available() and read()  *)
(* give bytes of that request only, none of an earlier one, and in order,  *)
(* however the calls before it were mixed.                                 *)
ReadBack ==
  /\ last_error = "OK" /\ done # <<>> /\ done[Len(done)].mode = 1
  => \A k \in wire.rxIndex + 1 .. wire.rxLength : k \in Places /\ rxBuffer[k] = <<Len(done), k>>

(* Wire.cpp:178: "multiple requestFrom()'s may be pending, try to share    *)
(* rxBuffer": reads waiting in the queue have parts of their own.          *)
ReadsShareBuffer ==
  \A p, q \in 1 .. Len(dq) :
    p < q /\ dq[p].mode = 1 /\ dq[q].mode = 1 => dq[p].at + dq[p].len <= dq[q].at
=============================================================================
