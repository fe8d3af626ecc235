--------------------------- MODULE TwoWireProofs ---------------------------
(***************************************************************************)
(* TwoWire for any length of the buffers and of the queue: no order of     *)
(* calls leaves a buffer, and what was written for a transfer stays in     *)
(* txBuffer, at its own place, until the STOP that sends it.  What a STOP  *)
(* read last is at the start of rxBuffer, where read() looks for it.       *)
(***************************************************************************)
EXTENDS TwoWire, TLAPS

Transfers == [mode : {0, 1}, at : Nat, len : Nat, said : Nat]

Shape ==
  /\ dq \in Seq(Transfers)
  /\ txBuffer \in [Places -> Nat \X Nat]
  /\ said \in Nat /\ mixed \in BOOLEAN
  /\ wire.rxQueued = 0 /\ wire.txIndex = wire.txLength
  /\ dq = <<>> => wire.txQueued = 0

(* queued transmission q is still in txBuffer, below the next one's bytes *)
Kept(q) ==
  dq[q].mode = 0 =>
    /\ dq[q].len = dq[q].said
    /\ dq[q].at + dq[q].len <= wire.txQueued
    /\ \A k \in 1 .. dq[q].len : txBuffer[dq[q].at + k] = <<q, k>>

(* so far the transmission under way holds what was written for it *)
InProgress ==
  wire.transmitting =>
    /\ wire.txIndex = wire.txQueued + said /\ wire.txLength = wire.txIndex
    /\ \A k \in 1 .. said : txBuffer[wire.txQueued + k] = <<Len(dq) + 1, k>>

IInv ==
  /\ TypeOK /\ Shape
  /\ ~mixed => InProgress /\ \A q \in 1 .. Len(dq) : Kept(q)
  /\ SentIsSaid

WireType ==
  [rxIndex : 0 .. I2C_BUFFER_LENGTH, rxLength : 0 .. I2C_BUFFER_LENGTH,
   rxQueued : 0 .. I2C_BUFFER_LENGTH, txIndex : 0 .. I2C_BUFFER_LENGTH,
   txLength : 0 .. I2C_BUFFER_LENGTH, txQueued : 0 .. I2C_BUFFER_LENGTH,
   transmitting : BOOLEAN]

LEMMA InitIInv == Init => IInv
<1> SUFFICES ASSUME Init PROVE IInv
  OBVIOUS
<1>1. I2C_BUFFER_LENGTH \in Nat /\ 0 \in 0 .. I2C_BUFFER_LENGTH
  BY WireAssumption
<1>2. wire \in WireType
  BY <1>1 DEF Init, WireType
<1>3. dq = <<>> /\ done = <<>> /\ said = 0 /\ mixed = FALSE
  BY DEF Init
<1>4. /\ wire.rxIndex = 0 /\ wire.rxLength = 0 /\ wire.txIndex = 0 /\ wire.txLength = 0
      /\ wire.txQueued = 0 /\ wire.rxQueued = 0 /\ wire.transmitting = FALSE
  BY DEF Init
<1>5. TypeOK
  BY <1>2, <1>3, <1>4 DEF TypeOK, WireType
<1>6. txBuffer \in [Places -> Nat \X Nat]
  BY DEF Init
<1>7. Shape
  <2>1. dq \in Seq(Transfers)
    BY <1>3
  <2>2. QED BY <1>3, <1>4, <1>6, <2>1 DEF Shape
<1>8. QED BY <1>3, <1>4, <1>5, <1>7 DEF IInv, InProgress, Kept, SentIsSaid

-----------------------------------------------------------------------------
(* flush() leaves nothing behind but transmitting. *)
LEMMA FlushStep == ASSUME IInv, Flush PROVE IInv'
<1>1. wire \in WireType
  BY DEF IInv, TypeOK, WireType
<1>2. I2C_BUFFER_LENGTH \in Nat /\ 0 \in 0 .. I2C_BUFFER_LENGTH
  BY WireAssumption
<1>3. wire' = [wire EXCEPT !.rxIndex = 0, !.rxLength = 0, !.txIndex = 0, !.txLength = 0,
                           !.rxQueued = 0, !.txQueued = 0]
  BY DEF Flush
<1>4. wire' \in WireType
  BY <1>1, <1>2, <1>3 DEF WireType
<1>5. /\ wire'.rxIndex = 0 /\ wire'.rxLength = 0 /\ wire'.txIndex = 0 /\ wire'.txLength = 0
      /\ wire'.txQueued = 0 /\ wire'.rxQueued = 0
  BY <1>1, <1>3 DEF WireType
<1>6. dq' = <<>> /\ done' = <<>> /\ said' = 0 /\ mixed' = FALSE /\ txBuffer' = txBuffer
  BY DEF Flush
<1>7. TypeOK'
  BY <1>4, <1>5, <1>6 DEF TypeOK, WireType
<1>8. Shape'
  <2>1. dq' \in Seq(Transfers)
    BY <1>6
  <2>2. txBuffer' \in [Places -> Nat \X Nat]
    BY <1>6 DEF IInv, Shape
  <2>3. QED BY <1>5, <1>6, <2>1, <2>2 DEF Shape
<1>9. QED BY <1>5, <1>6, <1>7, <1>8 DEF IInv, InProgress, Kept, SentIsSaid

LEMMA BeginTransmissionStep == ASSUME IInv, BeginTransmission PROVE IInv'
<1>1. wire \in WireType
  BY DEF IInv, TypeOK, WireType
<1>2. wire' = [wire EXCEPT !.transmitting = TRUE, !.txIndex = wire.txQueued,
                           !.txLength = wire.txQueued]
  BY DEF BeginTransmission
<1>3. wire' \in WireType
  BY <1>1, <1>2 DEF WireType
<1>4. /\ wire'.txIndex = wire.txQueued /\ wire'.txLength = wire.txQueued
      /\ wire'.txQueued = wire.txQueued /\ wire'.rxQueued = wire.rxQueued
      /\ wire'.rxIndex = wire.rxIndex /\ wire'.rxLength = wire.rxLength
      /\ wire.txQueued \in Nat
  BY <1>1, <1>2, WireAssumption DEF WireType
<1>5. /\ dq' = dq /\ said' = 0 /\ txBuffer' = txBuffer
      /\ mixed' = (mixed /\ dq # <<>>) /\ done' = IF mixed THEN <<>> ELSE done
  BY DEF BeginTransmission
<1>6. TypeOK'
  BY <1>3, <1>4, <1>5 DEF IInv, TypeOK, WireType
<1>7. Shape'
  BY <1>4, <1>5 DEF IInv, Shape
<1>8. InProgress'
  BY <1>4, <1>5 DEF InProgress
<1>9. ASSUME ~mixed', NEW q \in 1 .. Len(dq') PROVE Kept(q)'
  <2>1. dq # <<>>
    BY <1>5, <1>9
  <2>2. Kept(q)
    BY <1>5, <1>9, <2>1 DEF IInv
  <2>3. QED BY <1>4, <1>5, <2>2 DEF Kept
<1>10. SentIsSaid'
  BY <1>5 DEF IInv, SentIsSaid
<1>11. QED BY <1>6, <1>7, <1>8, <1>9, <1>10 DEF IInv

(* A byte is stored above every queued transmission. *)
LEMMA WriteStep == ASSUME IInv, Write PROVE IInv'
<1>1. wire \in WireType /\ wire.transmitting /\ wire.txLength < I2C_BUFFER_LENGTH
  BY DEF IInv, TypeOK, WireType, Write, HasRoom
<1>2. wire' = [wire EXCEPT !.txIndex = wire.txIndex + 1, !.txLength = wire.txIndex + 1]
  BY DEF Write
<1>3. /\ wire.txIndex \in Nat /\ wire.txQueued \in Nat /\ wire.txLength \in Nat
      /\ wire.txIndex = wire.txLength /\ I2C_BUFFER_LENGTH \in Nat /\ said \in Nat
  BY <1>1, WireAssumption DEF WireType, IInv, Shape
<1>4. wire.txIndex + 1 \in 0 .. I2C_BUFFER_LENGTH /\ wire.txIndex + 1 \in Places
  BY <1>1, <1>3 DEF Places
<1>5. wire' \in WireType
  BY <1>1, <1>2, <1>4 DEF WireType
<1>6. /\ wire'.txIndex = wire.txIndex + 1 /\ wire'.txLength = wire.txIndex + 1
      /\ wire'.txQueued = wire.txQueued /\ wire'.rxQueued = wire.rxQueued
      /\ wire'.rxIndex = wire.rxIndex /\ wire'.rxLength = wire.rxLength
      /\ wire'.transmitting
  BY <1>1, <1>2 DEF WireType
<1>7. /\ dq' = dq /\ said' = said + 1 /\ mixed' = mixed /\ done' = done
      /\ txBuffer' = [txBuffer EXCEPT ![wire.txIndex + 1] = <<Len(dq) + 1, said + 1>>]
  BY DEF Write, NextByte
<1>8. Len(dq) \in Nat /\ dq \in Seq(Transfers) /\ txBuffer \in [Places -> Nat \X Nat]
  BY DEF IInv, Shape
<1>9. TypeOK'
  <2>1. \A q \in 1 .. Len(dq) : dq[q].at + dq[q].len <= I2C_BUFFER_LENGTH
    BY DEF IInv, TypeOK
  <2>2. wire.rxIndex <= wire.rxLength
    BY DEF IInv, TypeOK
  <2>3. wire.txQueued <= wire.txLength
    BY <1>1 DEF IInv, TypeOK
  <2>4. wire'.txQueued <= wire'.txLength
    BY <1>3, <1>6, <2>3
  <2>5. QED BY <1>5, <1>6, <1>7, <2>1, <2>2, <2>4 DEF TypeOK, WireType
<1>10. Shape'
  <2>1. txBuffer' \in [Places -> Nat \X Nat]
    <3>1. <<Len(dq) + 1, said + 1>> \in Nat \X Nat
      BY <1>3, <1>8
    <3>2. QED BY <1>7, <1>8, <3>1
  <2>2. QED BY <1>3, <1>6, <1>7, <2>1 DEF IInv, Shape
<1>11. ASSUME ~mixed PROVE InProgress' /\ \A q \in 1 .. Len(dq) : Kept(q)'
  <2>1. /\ wire.txIndex = wire.txQueued + said
        /\ \A k \in 1 .. said : txBuffer[wire.txQueued + k] = <<Len(dq) + 1, k>>
    BY <1>1, <1>11 DEF IInv, InProgress
  <2>2. InProgress'
    <3>1. ASSUME NEW k \in 1 .. said + 1
          PROVE  txBuffer'[wire.txQueued + k] = <<Len(dq) + 1, k>>
      <4>1. CASE k = said + 1
        BY <1>4, <1>7, <1>8, <2>1, <4>1, <1>3
      <4>2. CASE k # said + 1
        <5>1. k \in 1 .. said
          BY <1>3, <4>2
        <5>2. wire.txQueued + k # wire.txIndex + 1 /\ wire.txQueued + k \in Places
          BY <1>3, <1>4, <2>1, <5>1 DEF Places
        <5>3. QED BY <1>7, <1>8, <2>1, <5>1, <5>2
      <4>3. QED BY <4>1, <4>2
    <3>2. /\ wire'.txIndex = wire'.txQueued + said' /\ wire'.txLength = wire'.txIndex
      BY <1>3, <1>6, <1>7, <2>1
    <3>3. \A k \in 1 .. said' : txBuffer'[wire'.txQueued + k] = <<Len(dq') + 1, k>>
      BY <1>6, <1>7, <3>1
    <3>4. QED BY <3>2, <3>3 DEF InProgress
  <2>3. ASSUME NEW q \in 1 .. Len(dq), dq[q].mode = 0 PROVE Kept(q)'
    <3>1. Kept(q)
      BY <1>11 DEF IInv
    <3>2. dq[q].at \in Nat /\ dq[q].len \in Nat
      <4>1. dq[q] \in Transfers
        BY <1>8
      <4>2. QED BY <4>1 DEF Transfers
    <3>3. dq[q].at + dq[q].len <= wire.txQueued
      BY <2>3, <3>1 DEF Kept
    <3>4. ASSUME NEW k \in 1 .. dq[q].len
          PROVE  txBuffer'[dq[q].at + k] = txBuffer[dq[q].at + k]
      <4>1. k \in Int /\ 1 <= k /\ k <= dq[q].len
        BY <3>2
      <4>2. wire.txQueued <= wire.txIndex /\ wire.txIndex + 1 <= I2C_BUFFER_LENGTH
        BY <1>1, <1>3, <2>1
      <4>3. 1 <= dq[q].at + k /\ dq[q].at + k <= wire.txIndex /\ dq[q].at + k \in Int
        BY <1>3, <3>2, <3>3, <4>1, <4>2
      <4>4. dq[q].at + k # wire.txIndex + 1 /\ dq[q].at + k \in Places
        BY <1>3, <4>2, <4>3 DEF Places
      <4>5. QED BY <1>7, <1>8, <4>4
    <3>5. QED BY <1>6, <1>7, <2>3, <3>1, <3>4 DEF Kept
  <2>4. \A q \in 1 .. Len(dq) : Kept(q)'
    BY <1>7, <2>3 DEF Kept
  <2>5. QED BY <2>2, <2>4
<1>12. SentIsSaid'
  BY <1>7 DEF IInv, SentIsSaid
<1>13. QED BY <1>7, <1>9, <1>10, <1>11, <1>12 DEF IInv

-----------------------------------------------------------------------------
(* The driver's part of a call: the queue with the transfer appended. *)
LEMMA Appended ==
  ASSUME IInv, NEW t \in Transfers
  PROVE  /\ Append(dq, t) \in Seq(Transfers)
         /\ Len(Append(dq, t)) = Len(dq) + 1 /\ Len(dq) \in Nat
         /\ \A q \in 1 .. Len(dq) : Append(dq, t)[q] = dq[q]
         /\ Append(dq, t)[Len(dq) + 1] = t
<1>1. dq \in Seq(Transfers)
  BY DEF IInv, Shape
<1>2. QED BY <1>1

(* A queue whose transmissions are kept, and whose last holds its own      *)
(* bytes, is sent intact.                                                  *)
LEMMA SentIntact ==
  ASSUME IInv, NEW t \in Transfers,
         ~mixed \/ dq = <<>>,
         t.mode = 0 => /\ t.len = t.said
                       /\ \A k \in 1 .. t.len : txBuffer[t.at + k] = <<Len(dq) + 1, k>>,
         done' = [q \in 1 .. Len(Append(dq, t)) |-> Sent(q, Append(dq, t)[q])]
  PROVE  \A q \in 1 .. Len(done') : done'[q].intact
<1>1. /\ Len(Append(dq, t)) = Len(dq) + 1 /\ Len(dq) \in Nat
      /\ \A q \in 1 .. Len(dq) : Append(dq, t)[q] = dq[q]
      /\ Append(dq, t)[Len(dq) + 1] = t
  BY Appended
<1>2. Len(done') = Len(dq) + 1
  BY <1>1
<1>3. SUFFICES ASSUME NEW q \in 1 .. Len(dq) + 1 PROVE done'[q].intact
  BY <1>2
<1>4. done'[q] = Sent(q, Append(dq, t)[q])
  BY <1>1
<1>5. CASE q = Len(dq) + 1
  <2>1. done'[q] = Sent(q, t)
    BY <1>1, <1>4, <1>5
  <2>2. Sent(q, t).intact <=>
          (t.mode = 0 => t.len = t.said /\ \A k \in 1 .. t.len : txBuffer[t.at + k] = <<q, k>>)
    BY Zenon DEF Sent
  <2>3. QED BY <1>5, <2>1, <2>2
<1>6. CASE q # Len(dq) + 1
  <2>1. q \in 1 .. Len(dq) /\ ~mixed
    BY <1>1, <1>6
  <2>2. Kept(q) /\ done'[q] = Sent(q, dq[q])
    BY <1>1, <1>4, <2>1 DEF IInv
  <2>3. Sent(q, dq[q]).intact <=>
          (dq[q].mode = 0 => /\ dq[q].len = dq[q].said
                             /\ \A k \in 1 .. dq[q].len : txBuffer[dq[q].at + k] = <<q, k>>)
    BY Zenon DEF Sent
  <2>4. QED BY <2>2, <2>3 DEF Kept
<1>7. QED BY <1>5, <1>6

(* A transmission that holds what was written for it is sent intact. *)
LEMMA EndTransmissionStep ==
  ASSUME IInv, NEW sendStop \in BOOLEAN, EndTransmission(sendStop)
  PROVE  IInv'
<1> DEFINE t == Transfer(0, wire.txQueued, wire.txLength - wire.txQueued, said)
<1>1. wire \in WireType /\ wire.transmitting
  BY DEF IInv, TypeOK, WireType, EndTransmission
<1>2. /\ wire.txQueued \in Nat /\ wire.txLength \in Nat /\ wire.txQueued <= wire.txLength
      /\ said \in Nat /\ wire.rxQueued = 0 /\ I2C_BUFFER_LENGTH \in Nat
      /\ wire.txLength <= I2C_BUFFER_LENGTH
  <2>1. wire.txQueued \in Nat /\ wire.txLength \in 0 .. I2C_BUFFER_LENGTH
    BY <1>1, WireAssumption DEF WireType
  <2>2. wire.txQueued <= wire.txLength /\ said \in Nat /\ wire.rxQueued = 0
    BY <1>1 DEF IInv, TypeOK, Shape
  <2>3. QED BY <2>1, <2>2, WireAssumption
<1>3. t \in Transfers /\ t.mode = 0 /\ t.at = wire.txQueued
      /\ t.len = wire.txLength - wire.txQueued /\ t.said = said
  BY <1>2 DEF Transfer, Transfers
<1>4. DriverCall(t, sendStop)
  BY DEF EndTransmission
<1>5. wire' = [wire EXCEPT !.rxIndex = 0, !.rxLength = wire.rxQueued, !.rxQueued = 0,
                           !.txQueued = TxQueuedAfter(last_error'),
                           !.txIndex = 0, !.txLength = 0, !.transmitting = FALSE]
      /\ said' = 0 /\ txBuffer' = txBuffer /\ mixed' = mixed
  BY DEF EndTransmission
<1> HIDE DEF t
<1>6. TxQueuedAfter(last_error') \in 0 .. I2C_BUFFER_LENGTH
  BY <1>2 DEF TxQueuedAfter
<1>7. wire' \in WireType
  BY <1>1, <1>2, <1>5, <1>6 DEF WireType
<1>8. /\ wire'.rxIndex = 0 /\ wire'.rxLength = 0 /\ wire'.rxQueued = 0
      /\ wire'.txIndex = 0 /\ wire'.txLength = 0 /\ ~wire'.transmitting
      /\ wire'.txQueued = TxQueuedAfter(last_error')
  BY <1>1, <1>2, <1>5 DEF WireType
<1>9. txBuffer' \in [Places -> Nat \X Nat] /\ mixed' \in BOOLEAN
  BY <1>5 DEF IInv, Shape
<1>10. ~mixed => /\ t.len = t.said
                 /\ \A k \in 1 .. t.len : txBuffer[t.at + k] = <<Len(dq) + 1, k>>
  <2>1. SUFFICES ASSUME ~mixed
                 PROVE  /\ t.len = t.said
                        /\ \A k \in 1 .. t.len : txBuffer[t.at + k] = <<Len(dq) + 1, k>>
    OBVIOUS
  <2>2. /\ wire.txLength = wire.txQueued + said
        /\ \A k \in 1 .. said : txBuffer[wire.txQueued + k] = <<Len(dq) + 1, k>>
    BY <1>1, <2>1 DEF IInv, InProgress
  <2>3. t.len = said
    BY <1>2, <1>3, <2>2
  <2>4. QED BY <1>3, <2>2, <2>3
<1>11. CASE sendStop
  <2>1. /\ dq' = <<>> /\ last_error' # "CONTINUE"
        /\ done' = [q \in 1 .. Len(Append(dq, t)) |-> Sent(q, Append(dq, t)[q])]
    BY <1>4, <1>11 DEF DriverCall, Process
  <2>2. wire'.txQueued = 0
    BY <1>8, <2>1 DEF TxQueuedAfter
  <2>3. dq' \in Seq(Transfers)
    BY <2>1
  <2>4. TypeOK'
    BY <1>7, <1>8, <2>1 DEF TypeOK, WireType
  <2>5. Shape'
    BY <1>5, <1>8, <1>9, <2>1, <2>2, <2>3 DEF Shape
  <2>6. ~mixed => \A q \in 1 .. Len(done') : done'[q].intact
    BY SentIntact, <1>3, <1>10, <2>1
  <2>7. InProgress' /\ SentIsSaid'
    BY <1>5, <1>8, <2>6 DEF InProgress, SentIsSaid
  <2>8. \A q \in 1 .. Len(dq') : Kept(q)'
    BY <2>1 DEF Kept
  <2>9. QED BY <2>4, <2>5, <2>7, <2>8 DEF IInv
<1>12. CASE ~sendStop
  <2>1. dq' = Append(dq, t) /\ last_error' = "CONTINUE" /\ done' = done
    BY <1>4, <1>12 DEF DriverCall, Queue
  <2>2. wire'.txQueued = wire.txLength
    BY <1>8, <2>1 DEF TxQueuedAfter
  <2>3. /\ dq' \in Seq(Transfers) /\ Len(dq') = Len(dq) + 1 /\ Len(dq) \in Nat
        /\ \A q \in 1 .. Len(dq) : dq'[q] = dq[q]
        /\ dq'[Len(dq) + 1] = t
    BY <1>3, <2>1, Appended
  <2>4. TypeOK'
    <3>1. \A q \in 1 .. Len(dq) : dq[q].at + dq[q].len <= I2C_BUFFER_LENGTH
      BY DEF IInv, TypeOK
    <3>2. t.at + t.len <= I2C_BUFFER_LENGTH
      BY <1>2, <1>3
    <3>3. \A q \in 1 .. Len(dq') : dq'[q].at + dq'[q].len <= I2C_BUFFER_LENGTH
      BY <2>3, <3>1, <3>2
    <3>4. QED BY <1>7, <1>8, <3>3 DEF TypeOK, WireType
  <2>5. Shape'
    <3>1. dq' # <<>>
      BY <2>3
    <3>2. QED BY <1>5, <1>8, <1>9, <2>3, <3>1 DEF Shape
  <2>6. ASSUME ~mixed, NEW q \in 1 .. Len(dq') PROVE Kept(q)'
    <3>1. CASE q = Len(dq) + 1
      <4>1. t.at + t.len <= wire.txLength
        BY <1>2, <1>3
      <4>2. QED BY <1>5, <1>10, <2>2, <2>3, <2>6, <3>1, <4>1 DEF Kept
    <3>2. CASE q # Len(dq) + 1
      <4>1. q \in 1 .. Len(dq) /\ Kept(q)
        BY <2>3, <2>6, <3>2 DEF IInv
      <4>2. dq'[q] = dq[q] /\ dq[q].at \in Nat /\ dq[q].len \in Nat
        <5>1. dq'[q] \in Transfers
          BY <2>3
        <5>2. QED BY <2>3, <4>1, <5>1 DEF Transfers
      <4>3. QED BY <1>2, <1>5, <2>2, <4>1, <4>2 DEF Kept
    <3>3. QED BY <3>1, <3>2
  <2>7. QED
    BY <1>5, <1>8, <2>1, <2>4, <2>5, <2>6 DEF IInv, InProgress, SentIsSaid
<1>13. QED BY <1>11, <1>12

(* requestFrom: with STOP the queue is sent as it is kept; without, the    *)
(* history says so.                                                        *)
LEMMA RequestStep ==
  ASSUME IInv, NEW size \in Nat, NEW sendStop \in BOOLEAN, RequestFrom(size, sendStop)
  PROVE  IInv'
<1> DEFINE t == Transfer(1, wire.rxQueued, size, 0)
<1>1. wire \in WireType /\ wire.rxQueued = 0 /\ I2C_BUFFER_LENGTH \in Nat
  BY WireAssumption DEF IInv, TypeOK, WireType, Shape
<1>2. size <= I2C_BUFFER_LENGTH
  BY <1>1 DEF RequestFrom, RoomFor
<1>3. t \in Transfers /\ t.mode = 1 /\ t.at = 0 /\ t.len = size
  BY <1>1 DEF Transfer, Transfers
<1>4. /\ DriverCall(t, sendStop)
      /\ wire' = [wire EXCEPT !.rxIndex = 0, !.rxLength = Requested(size),
                              !.rxQueued = 0, !.txQueued = 0]
      /\ mixed' = (\/ ~sendStop
                   \/ mixed /\ (dq # <<>> \/ wire.transmitting)
                   \/ dq # <<>> /\ wire.transmitting)
      /\ txBuffer' = txBuffer /\ said' = said
  BY DEF RequestFrom
<1> HIDE DEF t
<1>5. wire' \in WireType
  <2>1. wire.rxQueued + size \in 0 .. I2C_BUFFER_LENGTH /\ 0 \in 0 .. I2C_BUFFER_LENGTH
    BY <1>1, <1>2
  <2>2. QED BY <1>1, <1>4, <2>1 DEF WireType, Requested
<1>6. /\ wire'.rxIndex = 0 /\ wire'.rxLength = size /\ wire'.rxQueued = 0
      /\ wire'.txIndex = wire.txIndex /\ wire'.txLength = wire.txLength
      /\ wire'.transmitting = wire.transmitting /\ wire'.txQueued = 0
  BY <1>1, <1>4 DEF WireType, Requested
<1>7. /\ txBuffer' \in [Places -> Nat \X Nat] /\ mixed' \in BOOLEAN /\ said' \in Nat
      /\ wire'.txIndex = wire'.txLength /\ wire'.txLength \in Nat
  <2>1. wire'.txLength \in Nat
    BY <1>1, <1>5 DEF WireType
  <2>2. mixed' \in BOOLEAN
    BY <1>4
  <2>3. QED BY <1>4, <1>6, <2>1, <2>2 DEF IInv, Shape
<1>8. CASE sendStop
  <2>1. /\ dq' = <<>>
        /\ done' = [q \in 1 .. Len(Append(dq, t)) |-> Sent(q, Append(dq, t)[q])]
    BY <1>4, <1>8 DEF DriverCall, Process
  <2>2. dq' \in Seq(Transfers)
    BY <2>1
  <2>3. TypeOK'
    BY <1>1, <1>2, <1>5, <1>6, <1>7, <2>1 DEF TypeOK, WireType
  <2>4. Shape'
    BY <1>6, <1>7, <2>1, <2>2 DEF Shape
  <2>5. ASSUME ~mixed' PROVE InProgress'
    <3>1. CASE wire.transmitting
      <4>1. dq = <<>> /\ ~mixed
        BY <1>4, <2>5, <3>1
      <4>2. InProgress /\ wire.txQueued = 0
        BY <4>1 DEF IInv, Shape
      <4>3. QED BY <1>4, <1>6, <2>1, <3>1, <4>1, <4>2 DEF InProgress
    <3>2. CASE ~wire.transmitting
      BY <1>6, <3>2 DEF InProgress
    <3>3. QED BY <3>1, <3>2
  <2>6. ASSUME ~mixed' PROVE \A q \in 1 .. Len(done') : done'[q].intact
    <3>1. ~mixed \/ dq = <<>>
      BY <1>4, <2>6
    <3>2. t.mode # 0
      BY <1>3
    <3>3. QED BY SentIntact, <1>3, <2>1, <3>1, <3>2
  <2>7. SentIsSaid'
    BY <2>6 DEF SentIsSaid
  <2>8. \A q \in 1 .. Len(dq') : Kept(q)'
    BY <2>1 DEF Kept
  <2>9. QED BY <2>3, <2>4, <2>5, <2>7, <2>8 DEF IInv
<1>9. CASE ~sendStop
  <2>1. dq' = Append(dq, t) /\ done' = done /\ mixed'
    BY <1>4, <1>9 DEF DriverCall, Queue
  <2>2. /\ dq' \in Seq(Transfers) /\ Len(dq') = Len(dq) + 1 /\ Len(dq) \in Nat
        /\ \A q \in 1 .. Len(dq) : dq'[q] = dq[q]
        /\ dq'[Len(dq) + 1] = t
    BY <1>3, <2>1, Appended
  <2>3. TypeOK'
    <3>1. \A q \in 1 .. Len(dq) : dq[q].at + dq[q].len <= I2C_BUFFER_LENGTH
      BY DEF IInv, TypeOK
    <3>2. \A q \in 1 .. Len(dq') : dq'[q].at + dq'[q].len <= I2C_BUFFER_LENGTH
      BY <1>1, <1>2, <1>3, <2>2, <3>1
    <3>3. QED BY <1>1, <1>2, <1>5, <1>6, <1>7, <3>2 DEF TypeOK, WireType
  <2>4. Shape'
    <3>1. dq' # <<>>
      BY <2>2
    <3>2. QED BY <1>6, <1>7, <2>2, <3>1 DEF Shape
  <2>5. QED BY <2>1, <2>3, <2>4 DEF IInv, SentIsSaid
<1>10. QED BY <1>8, <1>9

LEMMA ReadStep == ASSUME IInv, Read PROVE IInv'
<1>1. wire \in WireType /\ wire.rxIndex < wire.rxLength
  BY DEF IInv, TypeOK, WireType, Read
<1>2. wire' = [wire EXCEPT !.rxIndex = wire.rxIndex + 1]
  BY DEF Read
<1>3. wire.rxIndex + 1 \in 0 .. I2C_BUFFER_LENGTH
  BY <1>1, WireAssumption DEF WireType
<1>4. wire' \in WireType
  BY <1>1, <1>2, <1>3 DEF WireType
<1>5. /\ wire'.rxIndex = wire.rxIndex + 1 /\ wire'.rxLength = wire.rxLength
      /\ wire'.rxQueued = wire.rxQueued /\ wire'.txIndex = wire.txIndex
      /\ wire'.txLength = wire.txLength /\ wire'.txQueued = wire.txQueued
      /\ wire'.transmitting = wire.transmitting
  BY <1>1, <1>2 DEF WireType
<1>6. dq' = dq /\ said' = said /\ mixed' = mixed /\ done' = done /\ txBuffer' = txBuffer
  BY DEF Read
<1>7. wire'.rxIndex <= wire'.rxLength
  BY <1>1, <1>5, WireAssumption DEF WireType
<1>8. TypeOK'
  BY <1>4, <1>5, <1>6, <1>7 DEF IInv, TypeOK, WireType
<1>9. Shape'
  BY <1>5, <1>6 DEF IInv, Shape
<1>10. ~mixed' => InProgress' /\ \A q \in 1 .. Len(dq') : Kept(q)'
  BY <1>5, <1>6 DEF IInv, InProgress, Kept
<1>11. SentIsSaid'
  BY <1>6 DEF IInv, SentIsSaid
<1>12. QED BY <1>8, <1>9, <1>10, <1>11 DEF IInv

LEMMA StepIInv == IInv /\ [Next]_vars => IInv'
<1> SUFFICES ASSUME IInv, [Next]_vars PROVE IInv'
  OBVIOUS
<1>1. CASE Begin \/ EndNothing
  BY <1>1, FlushStep DEF Begin, EndNothing
<1>2. CASE BeginTransmission
  BY <1>2, BeginTransmissionStep
<1>3. CASE Write
  BY <1>3, WriteStep
<1>4. CASE Read
  BY <1>4, ReadStep
<1>5. ASSUME NEW sendStop \in BOOLEAN, EndTransmission(sendStop) PROVE IInv'
  BY <1>5, EndTransmissionStep
<1>6. ASSUME NEW size \in 0 .. I2C_BUFFER_LENGTH + 1,
             RequestTooMuch(size) \/ \E sendStop \in BOOLEAN : RequestFrom(size, sendStop)
      PROVE  IInv'
  <2>1. size \in Nat
    BY <1>6, WireAssumption
  <2>2. CASE RequestTooMuch(size)
    BY <2>2, FlushStep DEF RequestTooMuch
  <2>3. QED BY <1>6, <2>1, <2>2, RequestStep
<1>7. CASE UNCHANGED vars
  <2>1. /\ wire' = wire /\ dq' = dq /\ said' = said /\ mixed' = mixed
        /\ done' = done /\ txBuffer' = txBuffer
    BY <1>7 DEF vars
  <2>2. TypeOK' /\ Shape' /\ SentIsSaid'
    BY <2>1 DEF IInv, TypeOK, Shape, SentIsSaid
  <2>3. ~mixed' => InProgress' /\ \A q \in 1 .. Len(dq') : Kept(q)'
    BY <2>1 DEF IInv, InProgress, Kept
  <2>4. QED BY <2>2, <2>3 DEF IInv
<1>8. QED BY <1>1, <1>2, <1>3, <1>4, <1>5, <1>6, <1>7 DEF Next

-----------------------------------------------------------------------------
(* No order of calls indexes outside txBuffer or rxBuffer or hands the     *)
(* driver a part that is not within them.                                  *)
THEOREM TypeCorrect == Spec => []TypeOK
<1>1. IInv => TypeOK
  BY DEF IInv
<1>2. QED BY <1>1, InitIInv, StepIInv, PTL DEF Spec

(* Transmissions sent together by one STOP send what was written for each. *)
THEOREM WritesKept == Spec => []SentIsSaid
<1>1. IInv => SentIsSaid
  BY DEF IInv
<1>2. QED BY <1>1, InitIInv, StepIInv, PTL DEF Spec

-----------------------------------------------------------------------------
(* The last read of a queue, if it begins where rxBuffer does, leaves its  *)
(* own bytes there, in order, whatever the reads before it left.           *)
LEMMA LastReadLands ==
  ASSUME NEW queue \in Seq(Transfers), queue # <<>>, NEW size \in Nat,
         queue[Len(queue)].mode = 1, queue[Len(queue)].at = 0,
         queue[Len(queue)].len = size, size <= I2C_BUFFER_LENGTH
  PROVE  \A k \in 1 .. size : k \in Places /\ Received(queue)[k] = <<Len(queue), k>>
<1> SUFFICES ASSUME NEW k \in 1 .. size
             PROVE  k \in Places /\ Received(queue)[k] = <<Len(queue), k>>
  OBVIOUS
<1> DEFINE Reads == {q \in 1 .. Len(queue) :
                       queue[q].mode = 1 /\ k \in queue[q].at + 1 .. queue[q].at + queue[q].len}
<1>1. k \in Places
  BY WireAssumption DEF Places
<1>2. Len(queue) \in Nat \ {0}
  OBVIOUS
<1>3. Len(queue) \in Reads
  BY <1>2
<1>4. \A q \in Reads : q \in Nat /\ q <= Len(queue)
  BY <1>2
<1> HIDE DEF Reads
<1>5. Max(Reads) = Len(queue)
  BY <1>2, <1>3, <1>4 DEF Max
<1>6. Received(queue)[k] = <<Max(Reads), k - queue[Max(Reads)].at>>
  BY <1>1, <1>3 DEF Received, Reads
<1>7. QED BY <1>1, <1>5, <1>6

(* After a STOP the history ends with the transfer the STOP came with. *)
LEMMA LastSent ==
  ASSUME IInv, NEW t \in Transfers,
         done' = [q \in 1 .. Len(Append(dq, t)) |-> Sent(q, Append(dq, t)[q])]
  PROVE  Len(done') = Len(Append(dq, t)) /\ done'[Len(done')].mode = t.mode
<1>1. /\ Len(Append(dq, t)) = Len(dq) + 1 /\ Len(dq) \in Nat
      /\ Append(dq, t)[Len(dq) + 1] = t
  BY Appended
<1>2. Len(done') = Len(dq) + 1 /\ done'[Len(dq) + 1] = Sent(Len(dq) + 1, t)
  BY <1>1
<1>3. Sent(Len(dq) + 1, t).mode = t.mode
  BY Zenon DEF Sent
<1>4. QED BY <1>1, <1>2, <1>3

LEMMA StepReadBack == IInv /\ ReadBack /\ [Next]_vars => ReadBack'
<1> SUFFICES ASSUME IInv, ReadBack, [Next]_vars PROVE ReadBack'
  OBVIOUS
<1>0. wire \in WireType
  BY DEF IInv, TypeOK, WireType
<1>1. CASE Flush
  BY <1>1 DEF Flush, ReadBack
<1>2. CASE BeginTransmission
  <2>1. wire'.rxIndex = wire.rxIndex /\ wire'.rxLength = wire.rxLength
    BY <1>0, <1>2 DEF BeginTransmission, WireType
  <2>2. /\ rxBuffer' = rxBuffer /\ last_error' = last_error
        /\ done' = IF mixed THEN <<>> ELSE done
    BY <1>2 DEF BeginTransmission
  <2>3. QED BY <2>1, <2>2 DEF ReadBack
<1>3. CASE Write
  <2>1. wire'.rxIndex = wire.rxIndex /\ wire'.rxLength = wire.rxLength
    BY <1>0, <1>3 DEF Write, WireType
  <2>2. rxBuffer' = rxBuffer /\ last_error' = last_error /\ done' = done
    BY <1>3 DEF Write
  <2>3. QED BY <2>1, <2>2 DEF ReadBack
<1>4. CASE Read
  <2>1. wire'.rxIndex = wire.rxIndex + 1 /\ wire'.rxLength = wire.rxLength
    BY <1>0, <1>4 DEF Read, WireType
  <2>2. rxBuffer' = rxBuffer /\ last_error' = last_error /\ done' = done
    BY <1>4 DEF Read
  <2>3. wire.rxIndex \in Int /\ wire.rxLength \in Int
    BY <1>0 DEF WireType
  <2>4. QED BY <2>1, <2>2, <2>3 DEF ReadBack
<1>5. ASSUME NEW sendStop \in BOOLEAN, EndTransmission(sendStop) PROVE ReadBack'
  <2> DEFINE t == Transfer(0, wire.txQueued, wire.txLength - wire.txQueued, said)
  <2>1. t.mode = 0 /\ DriverCall(t, sendStop)
    BY <1>5 DEF EndTransmission, Transfer
  <2>2. t \in Transfers
    <3>1. wire.transmitting
      BY <1>5 DEF EndTransmission
    <3>2. wire.txQueued \in Nat /\ wire.txLength \in Nat
      BY <1>0, WireAssumption DEF WireType
    <3>3. wire.txQueued <= wire.txLength /\ said \in Nat
      BY <3>1 DEF IInv, TypeOK, Shape
    <3>4. QED BY <3>2, <3>3 DEF Transfer, Transfers
  <2> HIDE DEF t
  <2>3. CASE sendStop
    <3>1. done' = [q \in 1 .. Len(Append(dq, t)) |-> Sent(q, Append(dq, t)[q])]
      BY <2>1, <2>3 DEF DriverCall, Process
    <3>2. done'[Len(done')].mode = 0
      BY LastSent, <2>1, <2>2, <3>1
    <3>3. QED BY <3>2 DEF ReadBack
  <2>4. CASE ~sendStop
    BY <2>1, <2>4 DEF DriverCall, Queue, ReadBack
  <2>5. QED BY <2>3, <2>4
<1>6. ASSUME NEW size \in Nat, NEW sendStop \in BOOLEAN, RequestFrom(size, sendStop)
      PROVE  ReadBack'
  <2> DEFINE t == Transfer(1, wire.rxQueued, size, 0)
  <2>1. /\ t \in Transfers /\ t.mode = 1 /\ t.at = 0 /\ t.len = size
        /\ wire.rxQueued = 0
    BY DEF IInv, Shape, Transfer, Transfers
  <2>2. DriverCall(t, sendStop) /\ size <= I2C_BUFFER_LENGTH
    BY <1>6, <2>1, WireAssumption DEF RequestFrom, RoomFor
  <2> HIDE DEF t
  <2>3. wire'.rxIndex = 0 /\ wire'.rxLength = size
    BY <1>0, <1>6, <2>1 DEF RequestFrom, Requested, WireType
  <2>4. CASE sendStop
    <3>1. /\ done' = [q \in 1 .. Len(Append(dq, t)) |-> Sent(q, Append(dq, t)[q])]
          /\ last_error' = "OK" => rxBuffer' = Received(Append(dq, t))
      BY <2>2, <2>4 DEF DriverCall, Process
    <3>2. /\ Append(dq, t) \in Seq(Transfers) /\ Append(dq, t) # <<>>
          /\ Append(dq, t)[Len(Append(dq, t))] = t
      BY <2>1, Appended
    <3>3. \A k \in 1 .. size :
            k \in Places /\ Received(Append(dq, t))[k] = <<Len(Append(dq, t)), k>>
      BY LastReadLands, <2>1, <2>2, <3>2
    <3>4. Len(done') = Len(Append(dq, t))
      BY LastSent, <2>1, <3>1
    <3>5. QED BY <2>3, <3>1, <3>3, <3>4 DEF ReadBack
  <2>5. CASE ~sendStop
    BY <2>2, <2>5 DEF DriverCall, Queue, ReadBack
  <2>6. QED BY <2>4, <2>5
<1>7. CASE UNCHANGED vars
  BY <1>7 DEF vars, ReadBack
<1>8. ASSUME NEW size \in 0 .. I2C_BUFFER_LENGTH + 1,
             RequestTooMuch(size) \/ \E sendStop \in BOOLEAN : RequestFrom(size, sendStop)
      PROVE  ReadBack'
  <2>1. size \in Nat
    BY <1>8, WireAssumption
  <2>2. QED BY <1>1, <1>6, <1>8, <2>1 DEF RequestTooMuch
<1>9. QED BY <1>1, <1>2, <1>3, <1>4, <1>5, <1>7, <1>8 DEF Next, Begin, EndNothing

(* What read() gives after a requestFrom with STOP is what that request    *)
(* read, whatever is queued before it and whatever was read earlier.       *)
THEOREM ReadsAreBack == Spec => []ReadBack
<1>1. Init => ReadBack
  BY DEF Init, ReadBack
<1>2. QED BY <1>1, InitIInv, StepIInv, StepReadBack, PTL DEF Spec
=============================================================================
