---------------------------- MODULE WsFramesProofs ----------------------------
(***************************************************************************)
(* For every limit on a message, all lengths that are sent and any number  *)
(* of frames on a connection: no read of the reader runs past the end of   *)
(* its buffer, wherever the bytes are cut and even when the stream is out  *)
(* of step after a write() that timed out; no connection is left unheard;  *)
(* and while no write has given up inside a frame, the       *)
(* reader takes the frames that were written, whole and in their order.    *)
(***************************************************************************)
EXTENDS WsFrames, SequenceTheorems, TLAPS

Run == [n : Nat \ {0}, byte : 0 .. Unknown]
Bytes == 0 .. 255
AnyForm == {"best", "16", "64", "huge"}

(* A read that waits is a record of its two fields *)
ReadShape == readCb = Waiting(readCb.for, readCb.left)

(* What was read of a header and what the read still asks for fit in the   *)
(* array, and cWsRXsize counts no byte that was not read                   *)
HeaderRoom ==
  readCb.for = "header" =>
    /\ cWsRXsize <= Len(cWsHeader)
    /\ Len(cWsHeader) + readCb.left <= MAX_HEADER_SIZE

(* Between reads nothing of a header is held, unless the connection was    *)
(* lost in the middle of one                                               *)
Afresh == readCb = NoRead /\ (up \/ status # "CONNECTED") => cWsHeader = <<>>

IInv == TypeOK /\ ReadShape /\ HeaderRoom /\ Afresh /\ NotDeaf

-----------------------------------------------------------------------------
(* What is written *)

LEMMA MaskKeyType == maskKey \in Seq(Bytes)
<1>1. 1 \in Bytes /\ 2 \in Bytes /\ 3 \in Bytes /\ 4 \in Bytes
  BY DEF Bytes
<1>2. QED BY <1>1 DEF maskKey

LEMMA ByteType == \A n \in Nat, i \in Nat : Byte(n, i) \in Bytes
<1>1. \A n \in Nat, i \in Nat : (n \div (256 ^ i)) % 256 \in 0 .. 255
  OBVIOUS
<1>2. QED BY <1>1, SMT DEF Byte, Bytes

(* The length fields and the two fixed bytes are bytes, in every form. *)
LEMMA FrameHeaderType ==
  ASSUME NEW f \in Frames, NEW bits \in {7, 16, 64}, bits = 7 => f.length < 126
  PROVE  FrameHeader(f, bits) \in Seq(Bytes)
<1>1. f.length \in Nat /\ f.opcode \in 0 .. 15 /\ f.mask \in {0, 1} /\ f.fin = 1
  <2>1. f.length \in Lengths /\ f.opcode \in Opcodes /\ f.mask \in {0, 1} /\ f.fin \in {1}
    BY DEF Frames
  <2>2. Lengths \subseteq Nat /\ Opcodes \subseteq 0 .. 15
    BY WsFramesAssumption
  <2>3. QED BY <2>1, <2>2
<1>2. \A i \in Nat : Byte(f.length, i) \in Bytes
  BY <1>1, ByteType
<1>3. ExtendedLength(bits, f.length) \in Seq(Bytes)
  <2>1. CASE bits = 7
    BY <2>1 DEF ExtendedLength
  <2>2. CASE bits = 16
    BY <1>2, <2>2 DEF ExtendedLength
  <2>3. CASE bits = 64
    <3>1. 0 \in Bytes
      BY DEF Bytes
    <3>2. QED BY <1>2, <2>3, <3>1 DEF ExtendedLength
  <2>4. QED BY <2>1, <2>2, <2>3
<1>4. 128 * f.fin + f.opcode \in Bytes /\ 128 * f.mask + Marker(bits, f.length) \in Bytes
  BY <1>1 DEF Marker, Bytes
<1>5. <<128 * f.fin + f.opcode, 128 * f.mask + Marker(bits, f.length)>> \in Seq(Bytes)
  BY <1>4
<1>6. (IF f.mask = 1 THEN maskKey ELSE <<>>) \in Seq(Bytes)
  BY MaskKeyType, EmptySeq
<1>7. QED
  <2>1. <<128 * f.fin + f.opcode, 128 * f.mask + Marker(bits, f.length)>>
          \o ExtendedLength(bits, f.length) \in Seq(Bytes)
    BY <1>3, <1>5, ConcatProperties
  <2>2. QED BY <1>6, <2>1, ConcatProperties DEF FrameHeader

LEMMA HeaderType ==
  ASSUME NEW f \in Frames, NEW form \in AnyForm
  PROVE  HeaderOf(f, form) \in Seq(Bytes)
<1>1. f.length \in Nat /\ f.opcode \in 0 .. 15 /\ f.mask \in {0, 1} /\ f.fin = 1
  BY WsFramesAssumption DEF Frames
<1>3. LengthBits(f.length) \in {7, 16, 64} /\ (LengthBits(f.length) = 7 => f.length < 126)
  BY <1>1 DEF LengthBits
<1>4. HugeHeader(f) \in Seq(Bytes)
  <2>1. /\ 128 * f.fin + f.opcode \in Bytes /\ 128 * f.mask + 127 \in Bytes
        /\ 0 \in Bytes /\ 1 \in Bytes
    BY <1>1 DEF Bytes
  <2>2. <<128 * f.fin + f.opcode, 128 * f.mask + 127, 0, 0, 1, 0, 0, 0, 0, 0>> \in Seq(Bytes)
    BY <2>1
  <2>3. (IF f.mask = 1 THEN maskKey ELSE <<>>) \in Seq(Bytes)
    BY MaskKeyType, EmptySeq
  <2>4. QED BY <2>2, <2>3, ConcatProperties DEF HugeHeader
<1>5. CASE form = "best"
  BY <1>3, <1>5, FrameHeaderType DEF HeaderOf
<1>6. CASE form = "16"
  BY <1>6, FrameHeaderType DEF HeaderOf
<1>7. CASE form = "64"
  BY <1>7, FrameHeaderType DEF HeaderOf
<1>8. CASE form = "huge"
  BY <1>4, <1>8 DEF HeaderOf
<1>9. QED BY <1>5, <1>6, <1>7, <1>8 DEF AnyForm

(* The header is written as runs of one byte, *)
LEMMA HeaderRunsType ==
  ASSUME NEW f \in Frames, NEW form \in AnyForm
  PROVE  HeaderRuns(f, form) \in Seq(Run) /\ Len(HeaderRuns(f, form)) = Len(HeaderOf(f, form))
<1> DEFINE h == HeaderOf(f, form)
<1>1. h \in Seq(Bytes) /\ Len(h) \in Nat /\ DOMAIN h = 1 .. Len(h)
  BY HeaderType, LenProperties
<1> HIDE DEF h
<1>2. ASSUME NEW i \in 1 .. Len(h) PROVE [n |-> 1, byte |-> h[i]] \in Run
  <2>1. h[i] \in Bytes
    BY <1>1, ElementOfSeq
  <2>2. QED BY <2>1 DEF Run, Bytes, Unknown
<1>3. HeaderRuns(f, form) = [i \in 1 .. Len(h) |-> [n |-> 1, byte |-> h[i]]]
  BY <1>1 DEF HeaderRuns, h
<1> DEFINE runs == [i \in 1 .. Len(h) |-> [n |-> 1, byte |-> h[i]]]
<1>4. runs \in Seq(Run) /\ Len(runs) = Len(h)
  BY <1>1, <1>2
<1>5. QED BY <1>3, <1>4 DEF h

(* and so much of a payload as there is as one run. *)
LEMMA PayloadRunType == \A length \in Nat : PayloadRun(length) \in Seq(Run)
<1> TAKE length \in Nat
<1>1. CASE length = 0
  BY <1>1, EmptySeq DEF PayloadRun
<1>2. CASE length # 0
  <2>1. [n |-> length, byte |-> Unknown] \in Run
    BY <1>2 DEF Run, Unknown
  <2>2. QED BY <1>2, <2>1 DEF PayloadRun
<1>3. QED BY <1>1, <1>2

LEMMA WrittenType ==
  ASSUME NEW f \in Frames, NEW form \in AnyForm
  PROVE  Written(f, form) \in Seq(Run)
<1>1. f.length \in Nat
  BY WsFramesAssumption DEF Frames
<1>2. QED BY <1>1, HeaderRunsType, PayloadRunType, ConcatProperties DEF Written

(* Reading bytes of the first run leaves runs. *)
LEMMA WithoutType ==
  ASSUME wire \in Seq(Run), wire # <<>>, NEW k \in Nat \ {0}, k <= Head(wire).n
  PROVE  Without(k) \in Seq(Run)
<1>1. Head(wire) \in Run /\ Tail(wire) \in Seq(Run)
  BY HeadTailProperties
<1>2. CASE Head(wire).n = k
  BY <1>1, <1>2 DEF Without
<1>3. CASE Head(wire).n # k
  <2>1. [Head(wire) EXCEPT !.n = @ - k] \in Run
    BY <1>1, <1>3 DEF Run
  <2>2. <<[Head(wire) EXCEPT !.n = @ - k]>> \in Seq(Run)
    BY <2>1
  <2>3. QED BY <1>1, <1>3, <2>2, ConcatProperties DEF Without
<1>4. QED BY <1>2, <1>3

-----------------------------------------------------------------------------
(* What the reader makes of a header *)

(* The reader never asks for a header longer than its array. *)
LEMMA HeaderLengthBound ==
  ASSUME NEW h, NEW size \in Nat
  PROVE  HeaderLength(h, size) \in 2 .. MAX_HEADER_SIZE
BY DEF HeaderLength, LengthTakes, MaskTakes, MAX_HEADER_SIZE

(* The length in a header of which the length field is there. *)
LEMMA PayloadLenType ==
  ASSUME NEW h \in Seq(Bytes), Len(h) >= 2 + LengthTakes(h)
  PROVE  payloadLen(h) \in Nat
<1>1. Len(h) \in Nat /\ LengthTakes(h) \in {0, 2, 8}
  BY LenProperties DEF LengthTakes
<1>2. \A i \in 1 .. Len(h) : h[i] \in Nat
  <2>1. ASSUME NEW i \in 1 .. Len(h) PROVE h[i] \in Bytes
    BY ElementOfSeq
  <2>2. Bytes \subseteq Nat
    BY DEF Bytes
  <2>3. QED BY <2>1, <2>2
<1>3. CASE LengthTakes(h) = 0
  <2>1. payloadLen(h) = h[2] % 128
    BY <1>3 DEF payloadLen
  <2>2. h[2] \in Nat
    BY <1>1, <1>2, <1>3
  <2>3. QED BY <2>1, <2>2
<1>4. CASE LengthTakes(h) = 2
  <2>1. payloadLen(h) = 256 * h[3] + h[4]
    BY <1>4 DEF payloadLen
  <2>2. h[3] \in Nat /\ h[4] \in Nat
    BY <1>1, <1>2, <1>4
  <2>3. QED BY <2>1, <2>2
<1>5. CASE LengthTakes(h) = 8
  <2>1. PICK a, b, c : a = h[8] /\ b = h[9] /\ c = h[10]
    OBVIOUS
  <2>2. a \in Nat /\ b \in Nat /\ c \in Nat
    BY <1>1, <1>2, <1>5, <2>1
  <2> DEFINE n == 65536 * a + 256 * b + c
  <2>3. n \in Nat
    BY <2>2, SMT
  <2>4. payloadLen(h) = MAX_DATA_SIZE + 1 \/ payloadLen(h) = n
    BY <1>5, <2>1 DEF payloadLen
  <2> HIDE DEF n
  <2>5. MAX_DATA_SIZE + 1 \in Nat
    BY WsFramesAssumption
  <2>6. QED BY <2>3, <2>4, <2>5
<1>6. QED BY <1>1, <1>3, <1>4, <1>5

(* A whole header that is not refused announces a payload that fits. *)
LEMMA PayloadFits ==
  ASSUME NEW h \in Seq(Bytes), ~TooBig(h, Len(h)), Len(h) = HeaderLength(h, Len(h))
  PROVE  payloadLen(h) \in 0 .. MAX_DATA_SIZE
<1>1. Len(h) \in Nat
  BY LenProperties
<1>2. LengthTakes(h) \in {0, 2, 8} /\ MaskTakes(h) \in {0, 4}
  BY DEF LengthTakes, MaskTakes
<1>3. Len(h) >= 2 + LengthTakes(h)
  <2> DEFINE n == Len(h)
             t == LengthTakes(h)
             m == MaskTakes(h)
  <2>1. n = IF n < 2 THEN 2 ELSE IF n < 2 + t THEN 2 + t ELSE 2 + t + m
    BY DEF HeaderLength
  <2> HIDE DEF n, t, m
  <2>2. n \in Nat /\ t \in {0, 2, 8} /\ m \in {0, 4}
    BY <1>1, <1>2 DEF n, t, m
  <2>3. n >= 2 + t
    BY <2>1, <2>2
  <2>4. QED BY <2>3 DEF n, t
<1>4. payloadLen(h) \in Nat
  BY <1>3, PayloadLenType
<1>5. QED BY <1>3, <1>4, WsFramesAssumption DEF TooBig
-----------------------------------------------------------------------------
(* What the ways out of a read leave behind *)

LEMMA StopInv ==
  ASSUME IInv, Stop, cWsRXsize' \in 0 .. MAX_HEADER_SIZE, cut' \in BOOLEAN
  PROVE  IInv'
<1>1. wire' \in Seq(Run) /\ cWsHeader' \in Seq(Bytes)
  BY EmptySeq DEF Stop
<1>2. TypeOK'
  BY <1>1 DEF Stop, TypeOK, Run, Bytes
<1>3. ReadShape' /\ HeaderRoom' /\ Afresh' /\ NotDeaf'
  BY DEF Stop, ReadShape, HeaderRoom, Afresh, NotDeaf, NoRead, Waiting
<1>4. QED BY <1>2, <1>3 DEF IInv

(* A whole payload. *)
LEMMA PayloadCbInv ==
  ASSUME IInv, status = "CONNECTED", UNCHANGED cut, NEW h, NEW rest \in Seq(Run),
         handleWebsocketPayloadCb(h, rest)
  PROVE  IInv'
<1>1. cWsRXsize' = 0 /\ 0 \in 0 .. MAX_HEADER_SIZE
  BY DEF handleWebsocketPayloadCb, MAX_HEADER_SIZE
<1>2. CASE Stop
  BY <1>1, <1>2, StopInv DEF IInv, TypeOK
<1>3. CASE /\ UNCHANGED <<up, status>>
           /\ wire' = rest /\ readCb' = NoRead /\ cWsHeader' = <<>>
  <2>1. cWsHeader' \in Seq(Bytes)
    BY <1>3, EmptySeq
  <2>2. TypeOK'
    BY <1>1, <1>3, <2>1 DEF IInv, TypeOK, Run, Bytes
  <2>3. ReadShape' /\ HeaderRoom' /\ Afresh' /\ NotDeaf'
    BY <1>1, <1>3 DEF ReadShape, HeaderRoom, Afresh, NotDeaf, NoRead, Waiting
  <2>4. QED BY <2>2, <2>3 DEF IInv
<1>4. QED BY <1>2, <1>3 DEF handleWebsocketPayloadCb

(* A header, or as much of it as was asked for. *)
LEMMA HeaderCbInv ==
  ASSUME IInv, status = "CONNECTED", UNCHANGED cut,
         NEW h \in Seq(Bytes), Len(h) \in 1 .. MAX_HEADER_SIZE, NEW rest \in Seq(Run),
         handleWebsocketCb(h, Len(h), rest)
  PROVE  IInv'
<1> DEFINE size == Len(h)
           all == HeaderLength(h, size)
<1>1. size \in 1 .. MAX_HEADER_SIZE /\ all \in 2 .. MAX_HEADER_SIZE /\ MAX_HEADER_SIZE = 14
  BY HeaderLengthBound DEF MAX_HEADER_SIZE
<1>2. CASE Stop /\ cWsRXsize' = (IF Server THEN 0 ELSE size)
  BY <1>1, <1>2, StopInv DEF IInv, TypeOK
<1>0. CASE ReturnsEarly(h, size, rest)
  <2> HIDE DEF size, all
  <2>1. TypeOK'
    <3>1. cWsRXsize' \in 0 .. MAX_HEADER_SIZE
      <4>1. cWsRXsize' = size
        BY <1>0 DEF ReturnsEarly
      <4>2. QED BY <1>1, <4>1
    <3>2. /\ up' = FALSE /\ readCb' = NoRead /\ wire' = rest /\ cWsHeader' = h
          /\ status' = status /\ cut' = cut
      BY <1>0 DEF ReturnsEarly
    <3>3. QED BY <3>1, <3>2 DEF IInv, TypeOK, Run, Bytes
  <2>2. ReadShape' /\ HeaderRoom' /\ Afresh' /\ NotDeaf'
    BY <1>0 DEF ReturnsEarly, ReadShape, HeaderRoom, Afresh, NotDeaf, NoRead, Waiting
  <2>3. QED BY <2>1, <2>2 DEF IInv
<1>3. CASE /\ size < all /\ readCb' = handleWebsocketWaitFor(h, size)
           /\ cWsRXsize' = size /\ wire' = rest /\ cWsHeader' = h /\ UNCHANGED <<up, status>>
  <2> HIDE DEF size, all
  <2>1. readCb' = Waiting("header", all - size)
    BY <1>3 DEF handleWebsocketWaitFor, all
  <2>2. readCb'.for = "header" /\ readCb'.left = all - size /\ all - size \in 1 .. MAX_HEADER_SIZE
    BY <1>1, <1>3, <2>1 DEF Waiting
  <2>3. TypeOK'
    BY <1>1, <1>3, <2>2 DEF IInv, TypeOK, Run, Bytes
  <2>4. ReadShape' /\ readCb' # NoRead
    BY <2>1, <2>2 DEF ReadShape, NoRead, Waiting
  <2>5. HeaderRoom'
    <3>1. cWsRXsize' <= Len(cWsHeader') /\ Len(cWsHeader') = size
      BY <1>1, <1>3 DEF size
    <3>2. Len(cWsHeader') + readCb'.left <= MAX_HEADER_SIZE
      BY <1>1, <2>2, <3>1
    <3>3. QED BY <3>1, <3>2 DEF HeaderRoom
  <2>6. QED BY <2>3, <2>4, <2>5 DEF IInv, Afresh, NotDeaf
<1>4. CASE /\ ~TooBig(h, size) /\ size = all /\ payloadLen(h) > 0
           /\ readCb' = Waiting("payload", payloadLen(h))
           /\ cWsRXsize' = size /\ wire' = rest /\ cWsHeader' = h /\ UNCHANGED <<up, status>>
  <2>1. payloadLen(h) \in 1 .. MAX_DATA_SIZE
    BY <1>4, PayloadFits, WsFramesAssumption
  <2> HIDE DEF size, all
  <2>2. readCb'.for = "payload" /\ readCb'.left = payloadLen(h)
    BY <1>4 DEF Waiting
  <2>3. TypeOK'
    BY <1>1, <1>4, <2>1, <2>2 DEF IInv, TypeOK, Run, Bytes
  <2>4. ReadShape' /\ readCb' # NoRead /\ HeaderRoom'
    BY <1>4, <2>2 DEF ReadShape, NoRead, Waiting, HeaderRoom
  <2>5. QED BY <2>3, <2>4 DEF IInv, Afresh, NotDeaf
<1>5. CASE handleWebsocketPayloadCb(h, rest)
  BY <1>5, PayloadCbInv
<1>6. QED BY <1>0, <1>2, <1>3, <1>4, <1>5 DEF handleWebsocketCb

-----------------------------------------------------------------------------
LEMMA InitIInv == Init => IInv
<1> SUFFICES ASSUME Init PROVE IInv
  OBVIOUS
<1>1. wire \in Seq(Run) /\ cWsHeader \in Seq(Bytes)
  BY EmptySeq DEF Init
<1>2. TypeOK
  <2>1. 0 \in 0 .. MAX_HEADER_SIZE
    BY DEF MAX_HEADER_SIZE
  <2>2. /\ status \in {"NOT_CONNECTED", "CONNECTED"}
        /\ cWsRXsize \in 0 .. MAX_HEADER_SIZE /\ readCb = NoRead
    BY <2>1 DEF Init
  <2>3. up \in BOOLEAN /\ cut \in BOOLEAN
    BY DEF Init
  <2>4. QED BY <1>1, <2>2, <2>3 DEF TypeOK, Run, Bytes
<1>3. ReadShape /\ HeaderRoom /\ Afresh /\ NotDeaf
  BY DEF Init, ReadShape, HeaderRoom, Afresh, NotDeaf, NoRead, Waiting
<1>4. QED BY <1>2, <1>3 DEF IInv

(* The writer changes only the wire. *)
LEMMA WriterInv ==
  ASSUME IInv, UNCHANGED <<up, reader>>, wire' \in Seq(Run), cut' \in BOOLEAN
  PROVE  IInv'
<1>1. TypeOK'
  BY DEF reader, IInv, TypeOK, Run
<1>2. QED
  BY <1>1 DEF reader, IInv, ReadShape, HeaderRoom, Afresh, NotDeaf

LEMMA SendInv ==
  ASSUME IInv, NEW f \in Frames,
         SendPartOfFrame(f) \/ \E form \in Forms : SendFrame(f, form)
  PROVE  IInv'
<1>1. wire \in Seq(Run) /\ cut \in BOOLEAN
  BY DEF IInv, TypeOK, Run
<1>2. ASSUME NEW form \in Forms, SendFrame(f, form) PROVE IInv'
  <2>1. wire \o Written(f, form) \in Seq(Run)
    BY <1>1, WsFramesAssumption, WrittenType, ConcatProperties DEF AnyForm
  <2>2. QED BY <1>1, <1>2, <2>1, WriterInv DEF SendFrame
<1>3. CASE SendPartOfFrame(f)
  <2> DEFINE w == HeaderRuns(f, "best")
  <2>1. PICK k \in 0 .. Len(HeaderOf(f, "best")), length \in {0, f.length - 1, f.length} \cap Nat :
          wire' = wire \o SubSeq(w, 1, k) \o PayloadRun(length)
    BY <1>3 DEF SendPartOfFrame
  <2>2. w \in Seq(Run) /\ Len(w) = Len(HeaderOf(f, "best"))
    BY HeaderRunsType DEF AnyForm
  <2>3. SubSeq(w, 1, k) \in Seq(Run)
    <3> HIDE DEF w
    <3>1. Len(w) \in Nat /\ k \in Int
      BY <2>1, <2>2, LenProperties
    <3>2. \A i \in 1 .. k : w[i] \in Run
      <4>1. ASSUME NEW i \in 1 .. k PROVE i \in 1 .. Len(w)
        BY <2>1, <2>2, <3>1, <4>1
      <4>2. QED BY <2>2, <4>1, ElementOfSeq
    <3>3. QED BY <3>1, <3>2, SubSeqProperties
  <2>4. PayloadRun(length) \in Seq(Run)
    BY <2>1, PayloadRunType
  <2>5. wire \o SubSeq(w, 1, k) \o PayloadRun(length) \in Seq(Run)
    BY <1>1, <2>3, <2>4, ConcatProperties
  <2>6. QED BY <1>3, <2>1, <2>5, WriterInv DEF SendPartOfFrame
<1>4. QED BY <1>2, <1>3
-----------------------------------------------------------------------------
(* The steps of the reader *)
LEMMA BeginInv == IInv /\ handleWebsocket => IInv'
<1> SUFFICES ASSUME IInv, handleWebsocket PROVE IInv'
  OBVIOUS
<1>1. readCb' = Waiting("header", 2)
  BY DEF handleWebsocket, handleWebsocketWaitFor, HeaderLength
<1>2. readCb'.for = "header" /\ readCb'.left = 2 /\ readCb' # NoRead
  BY <1>1 DEF Waiting, NoRead
<1>3. Len(cWsHeader') = 0 /\ cWsRXsize' = 0
  BY EmptySeq DEF handleWebsocket, Present, IInv, Afresh
<1>4. TypeOK'
  BY <1>2 DEF handleWebsocket, Present, link, IInv, TypeOK, MAX_HEADER_SIZE
<1>5. ReadShape' /\ HeaderRoom'
  BY <1>1, <1>2, <1>3 DEF ReadShape, HeaderRoom, MAX_HEADER_SIZE
<1>6. QED BY <1>2, <1>4, <1>5 DEF IInv, Afresh, NotDeaf

LEMMA ReadHeaderInv == IInv /\ ReadHeader => IInv'
<1> SUFFICES ASSUME IInv, ReadHeader PROVE IInv'
  OBVIOUS
<1>1. /\ wire \in Seq(Run) /\ wire # <<>> /\ cWsHeader \in Seq(Bytes)
      /\ status = "CONNECTED" /\ readCb.for = "header" /\ readCb.left \in 1 .. MAX_HEADER_SIZE
      /\ UNCHANGED cut
  BY DEF ReadHeader, Present, IInv, TypeOK, Run, Bytes, NoRead, Waiting
<1>2. Head(wire) \in Run
  BY <1>1, HeadTailProperties
<1>3. Head(wire).n \in Nat \ {0} /\ Head(wire).byte \in 0 .. Unknown
  BY <1>2 DEF Run
<1>4. PICK b \in IF Head(wire).byte = Unknown THEN Noise ELSE {Head(wire).byte} :
        IF readCb.left > 1
        THEN /\ readCb' = [readCb EXCEPT !.left = @ - 1]
             /\ cWsHeader' = WithNext(b) /\ wire' = Without(1)
             /\ UNCHANGED <<up, status, cWsRXsize, got>>
        ELSE handleWebsocketCb(WithNext(b), Len(WithNext(b)), Without(1))
  BY DEF ReadHeader
<1>5. b \in Bytes
  <2>1. CASE Head(wire).byte = Unknown
    <3>1. b \in Noise
      BY <1>4, <2>1
    <3>2. QED BY <3>1, WsFramesAssumption DEF Bytes
  <2>2. CASE Head(wire).byte # Unknown
    <3>1. b = Head(wire).byte
      BY <1>4, <2>2
    <3>2. QED BY <1>3, <2>2, <3>1 DEF Bytes, Unknown
  <2>3. QED BY <2>1, <2>2
<1>6. /\ WithNext(b) \in Seq(Bytes) /\ Len(WithNext(b)) = Len(cWsHeader) + 1
      /\ Len(cWsHeader) \in Nat
  <2>1. Len(cWsHeader) \in Nat
    BY <1>1, LenProperties
  <2>2. Append(cWsHeader, b) \in Seq(Bytes) /\ Len(Append(cWsHeader, b)) = Len(cWsHeader) + 1
    BY <1>1, <1>5
  <2>3. QED BY <2>1, <2>2 DEF WithNext
<1>7. Without(1) \in Seq(Run)
  <2>1. 1 \in Nat \ {0} /\ 1 <= Head(wire).n
    BY <1>3
  <2>2. QED BY <1>1, <2>1, WithoutType
<1>8. Len(cWsHeader) + readCb.left <= MAX_HEADER_SIZE /\ cWsRXsize <= Len(cWsHeader)
  BY <1>1 DEF IInv, HeaderRoom
<1>9. CASE readCb.left > 1
  <2>1. readCb' = Waiting("header", readCb.left - 1)
    BY <1>1, <1>4, <1>9 DEF IInv, ReadShape, Waiting
  <2>2. /\ readCb'.for = "header" /\ readCb'.left = readCb.left - 1
        /\ readCb.left - 1 \in 1 .. MAX_HEADER_SIZE
    BY <1>1, <1>9, <2>1 DEF Waiting, MAX_HEADER_SIZE
  <2>3. TypeOK'
    BY <1>1, <1>4, <1>6, <1>7, <1>9, <2>2 DEF IInv, TypeOK, Run, Bytes
  <2>4. ReadShape' /\ readCb' # NoRead
    BY <2>1, <2>2 DEF ReadShape, NoRead, Waiting
  <2>5. HeaderRoom'
    <3>1. cWsRXsize' = cWsRXsize /\ Len(cWsHeader') = Len(cWsHeader) + 1
      BY <1>4, <1>6, <1>9
    <3>2. cWsRXsize \in Nat /\ MAX_HEADER_SIZE = 14
      BY DEF IInv, TypeOK, MAX_HEADER_SIZE
    <3>3. Len(cWsHeader') + readCb'.left = Len(cWsHeader) + readCb.left
      <4>1. \A m, n \in Int : (m + 1) + (n - 1) = m + n
        OBVIOUS
      <4>2. readCb.left \in Int /\ Len(cWsHeader) \in Int
        BY <1>1, <1>6
      <4>3. QED BY <2>2, <3>1, <4>1, <4>2
    <3>4. cWsRXsize' <= Len(cWsHeader')
      BY <1>6, <1>8, <3>1, <3>2
    <3>5. QED BY <1>8, <3>3, <3>4 DEF HeaderRoom
  <2>6. QED BY <2>3, <2>4, <2>5 DEF IInv, Afresh, NotDeaf
<1>10. CASE ~(readCb.left > 1)
  <2>1. Len(WithNext(b)) \in 1 .. MAX_HEADER_SIZE
    <3>1. readCb.left \in Nat /\ readCb.left = 1
      BY <1>1, <1>10 DEF MAX_HEADER_SIZE
    <3>2. Len(WithNext(b)) <= MAX_HEADER_SIZE /\ Len(WithNext(b)) \in Nat \ {0}
      BY <1>6, <1>8, <3>1
    <3>3. \A n \in Nat \ {0} : n <= MAX_HEADER_SIZE => n \in 1 .. MAX_HEADER_SIZE
      BY DEF MAX_HEADER_SIZE
    <3>4. QED BY <3>2, <3>3
  <2>2. QED BY <1>1, <1>4, <1>6, <1>7, <1>10, <2>1, HeaderCbInv
<1>11. QED BY <1>9, <1>10

LEMMA ReadPayloadInv == IInv /\ ReadPayload => IInv'
<1> SUFFICES ASSUME IInv, ReadPayload PROVE IInv'
  OBVIOUS
<1>1. /\ wire \in Seq(Run) /\ wire # <<>>
      /\ status = "CONNECTED" /\ readCb.for = "payload" /\ readCb.left \in 1 .. MAX_DATA_SIZE
      /\ UNCHANGED cut
  BY DEF ReadPayload, Present, IInv, TypeOK, Run, NoRead, Waiting
<1>2. Head(wire) \in Run
  BY <1>1, HeadTailProperties
<1>3. Head(wire).n \in Nat \ {0}
  BY <1>2 DEF Run
<1> DEFINE most == IF Head(wire).n < readCb.left THEN Head(wire).n ELSE readCb.left
<1>4. PICK k \in {most - 1, most} \ {0} :
        IF k < readCb.left
        THEN /\ readCb' = [readCb EXCEPT !.left = @ - k]
             /\ wire' = Without(k)
             /\ UNCHANGED <<up, status, cWsRXsize, cWsHeader, got>>
        ELSE handleWebsocketPayloadCb(cWsHeader, Without(k))
  BY DEF ReadPayload
<1>5. readCb.left \in Nat \ {0} /\ k \in Nat \ {0} /\ k <= Head(wire).n
  BY <1>1, <1>3, <1>4, WsFramesAssumption
<1> HIDE DEF most
<1>6. Without(k) \in Seq(Run)
  BY <1>1, <1>5, WithoutType
<1>7. CASE k < readCb.left
  <2>1. readCb' = Waiting("payload", readCb.left - k)
    BY <1>1, <1>4, <1>7 DEF IInv, ReadShape, Waiting
  <2>2. /\ readCb'.for = "payload" /\ readCb'.left = readCb.left - k
        /\ readCb.left - k \in 1 .. MAX_DATA_SIZE
    BY <1>1, <1>5, <1>7, <2>1, WsFramesAssumption DEF Waiting
  <2>3. TypeOK'
    BY <1>1, <1>4, <1>6, <1>7, <2>2 DEF IInv, TypeOK, Run, Bytes
  <2>4. ReadShape' /\ readCb' # NoRead /\ HeaderRoom'
    BY <2>1, <2>2 DEF ReadShape, NoRead, Waiting, HeaderRoom
  <2>5. QED BY <2>3, <2>4 DEF IInv, Afresh, NotDeaf
<1>8. CASE ~(k < readCb.left)
  BY <1>1, <1>4, <1>6, <1>8, PayloadCbInv
<1>9. QED BY <1>7, <1>8

LEMMA StepIInv == IInv /\ [Next]_vars => IInv'
<1> SUFFICES ASSUME IInv, [Next]_vars PROVE IInv'
  OBVIOUS
<1>1. cWsRXsize \in 0 .. MAX_HEADER_SIZE /\ 0 \in 0 .. MAX_HEADER_SIZE /\ cut \in BOOLEAN
  BY DEF IInv, TypeOK, MAX_HEADER_SIZE
<1>2. ASSUME NEW f \in Frames,
             SendPartOfFrame(f) \/ \E form \in Forms : SendFrame(f, form)
      PROVE  IInv'
  BY <1>2, SendInv
<1>3. CASE LoseConnection
  BY <1>3 DEF LoseConnection, reader, IInv, TypeOK, ReadShape, HeaderRoom, Afresh, NotDeaf
<1>4. CASE handleWebsocket
  BY <1>4, BeginInv
<1>5. CASE ReadHeader
  BY <1>5, ReadHeaderInv
<1>6. CASE ReadPayload
  BY <1>6, ReadPayloadInv
<1>7. CASE ReadFails
  BY <1>1, <1>7, StopInv DEF ReadFails
<1>8. CASE GiveUp
  BY <1>1, <1>8, StopInv DEF GiveUp, clientDisconnect
<1>9. CASE headerDone
  <2>1. readCb = NoRead /\ readCb' = NoRead /\ cWsHeader' = cWsHeader /\ cWsRXsize' = 0
    BY <1>9 DEF headerDone, IInv, TypeOK
  <2>2. wire' \in Seq(Run)
    BY <1>9, EmptySeq DEF headerDone
  <2>3. TypeOK'
    BY <1>1, <1>9, <2>1, <2>2 DEF headerDone, IInv, TypeOK, Run
  <2>4. Afresh' /\ NotDeaf'
    BY <1>9, <2>1 DEF headerDone, IInv, Afresh, NotDeaf
  <2>5. QED
    BY <2>1, <2>3, <2>4 DEF IInv, ReadShape, HeaderRoom, NoRead, Waiting
<1>10. CASE UNCHANGED vars
  BY <1>10 DEF vars, link, reader, IInv, TypeOK, ReadShape, HeaderRoom, Afresh, NotDeaf
<1>11. QED
  BY <1>2, <1>3, <1>4, <1>5, <1>6, <1>7, <1>8, <1>9, <1>10 DEF Next, Reader

-----------------------------------------------------------------------------
(* No read of a header or a payload passes the end of its buffer, for any  *)
(* MAX_DATA_SIZE, in whatever pieces the bytes come and whatever bytes are *)
(* taken for a header once the stream is out of step.                      *)
THEOREM ReadsFit == Spec => []BuffersHold
<1>1. IInv => BuffersHold
  <2> SUFFICES ASSUME IInv, readCb.for = "header"
               PROVE  cWsRXsize + readCb.left <= MAX_HEADER_SIZE
    BY DEF IInv, BuffersHold, HeaderFits
  <2>1. /\ cWsRXsize \in Nat /\ readCb.left \in Nat /\ Len(cWsHeader) \in Nat
        /\ MAX_HEADER_SIZE = 14
    BY LenProperties DEF IInv, TypeOK, NoRead, Waiting, MAX_HEADER_SIZE
  <2>2. QED BY <2>1 DEF IInv, HeaderRoom
<1>2. QED BY <1>1, InitIInv, StepIInv, PTL DEF Spec

(* A connection between two reads is always listened to: a client between  *)
(* two reads has a cWsRXsize that handleWebsocket() would ignore it for    *)
(* only when its connection is gone, where one of the early returns of     *)
(* handleWebsocketCb() and handleWebsocketWaitFor() left it; on the next   *)
(* connection it is 0 again.                                               *)
THEOREM NeverDeaf == Spec => []NotDeaf
<1>1. IInv => NotDeaf
  BY DEF IInv
<1>2. QED BY <1>1, InitIInv, StepIInv, PTL DEF Spec
-----------------------------------------------------------------------------
(* Reader and writer stay in step.  What is on the wire is the rest of the *)
(* frame the reader is in, if it is in one, and then whole frames.         *)

Allowed(f, form) == form = "16" => f.length < 65536

(* Pairs of what is on a wire and the frames it is made of: the least set  *)
(* that has nothing for no frames and is closed under writing a frame.     *)
Pairs == Seq(Run) \X Seq(Frames)
Closed(R) ==
  /\ <<<<>>, <<>>>> \in R
  /\ \A q \in Seq(Run), fs \in Seq(Frames), f \in Frames, form \in AnyForm :
       <<q, fs>> \in R /\ Allowed(f, form) => <<q \o Written(f, form), fs \o <<f>>>> \in R
Carried == {x \in Pairs : \A R \in SUBSET Pairs : Closed(R) => x \in R}

(* The rest h of a header and the payload of f, as runs *)
Rest(h, f) ==
  [i \in DOMAIN h |-> [n |-> 1, byte |-> h[i]]]
    \o (IF f.length = 0 THEN <<>> ELSE <<[n |-> f.length, byte |-> Unknown]>>)

(* The read that waits is inside f, of which front is still on the wire *)
Inside(f, form, front) ==
  \/ /\ readCb.for = "header"
     /\ \E h \in Seq(Bytes) : /\ cWsHeader \o h = HeaderOf(f, form) /\ Len(h) >= readCb.left
                              /\ front = Rest(h, f)
  \/ /\ readCb.for = "payload" /\ cWsHeader = HeaderOf(f, form) /\ payloadLen(cWsHeader) = f.length
     /\ payloadLen(cWsHeader) <= MAX_DATA_SIZE
     /\ front = <<[n |-> readCb.left, byte |-> Unknown]>>

Pending(fs) ==
  \/ ~up \/ status = "NOT_CONNECTED"
  \/ readCb = NoRead /\ <<wire, fs>> \in Carried
  \/ \E f \in Frames, form \in AnyForm, front \in Seq(Run), q \in Seq(Run), gs \in Seq(Frames) :
       /\ Allowed(f, form) /\ fs = <<f>> \o gs /\ wire = front \o q /\ <<q, gs>> \in Carried
       /\ Inside(f, form, front)

Framed ==
  /\ sent \in Seq(Frames)
  /\ ~cut => got \in Seq(Frames) /\ \E fs \in Seq(Frames) : sent = got \o fs /\ Pending(fs)

LEMMA AppendIs ==
  ASSUME NEW S, NEW s \in Seq(S), NEW e \in S
  PROVE  Append(s, e) = s \o <<e>> /\ <<e>> \in Seq(S)
<1>1. <<e>> \in Seq(S) /\ Len(<<e>>) = 1 /\ <<e>>[1] = e
  OBVIOUS
<1>2. s \o <<e>> \in Seq(S) /\ Len(s \o <<e>>) = Len(s) + 1
      /\ \A i \in 1 .. Len(s) + 1 : (s \o <<e>>)[i] = IF i <= Len(s) THEN s[i] ELSE <<e>>[i - Len(s)]
  BY <1>1, ConcatProperties
<1>3. Append(s, e) \in Seq(S) /\ Len(Append(s, e)) = Len(s) + 1
      /\ \A i \in 1 .. Len(s) + 1 : Append(s, e)[i] = IF i <= Len(s) THEN s[i] ELSE e
  OBVIOUS
<1>4. \A i \in 1 .. Len(s) + 1 : (s \o <<e>>)[i] = Append(s, e)[i]
  <2> SUFFICES ASSUME NEW i \in 1 .. Len(s) + 1, ~(i <= Len(s)) PROVE i - Len(s) = 1
    BY <1>1, <1>2, <1>3
  <2>1. Len(s) \in Nat
    OBVIOUS
  <2>2. QED BY <2>1
<1>5. QED BY <1>1, <1>2, <1>3, <1>4, SeqEqual

(* The same for sequences of one kind *)
LEMMA BytesAssociate ==
  ASSUME NEW a \in Seq(Bytes), NEW b \in Seq(Bytes), NEW c \in Seq(Bytes)
  PROVE  (a \o b) \o c = a \o (b \o c)
BY ConcatAssociative

LEMMA RunsAssociate ==
  ASSUME NEW a \in Seq(Run), NEW b \in Seq(Run), NEW c \in Seq(Run)
  PROVE  (a \o b) \o c = a \o (b \o c)
BY ConcatAssociative

LEMMA FramesAssociate ==
  ASSUME NEW a \in Seq(Frames), NEW b \in Seq(Frames), NEW c \in Seq(Frames)
  PROVE  (a \o b) \o c = a \o (b \o c)
BY ConcatAssociative

LEMMA BytesJoin ==
  ASSUME NEW a \in Seq(Bytes), NEW b \in Seq(Bytes)
  PROVE  a \o b \in Seq(Bytes) /\ Len(a \o b) = Len(a) + Len(b)
         /\ \A i \in 1 .. Len(a) + Len(b) : (a \o b)[i] = IF i <= Len(a) THEN a[i] ELSE b[i - Len(a)]
BY ConcatProperties

LEMMA HeadOfConcat ==
  ASSUME NEW S, NEW e \in S, NEW s \in Seq(S)
  PROVE  <<e>> \o s # <<>> /\ Head(<<e>> \o s) = e /\ Tail(<<e>> \o s) = s
<1> DEFINE u == <<e>>
           t == u \o s
<1>1. u \in Seq(S) /\ Len(u) = 1 /\ u[1] = e /\ Len(s) \in Nat
  OBVIOUS
<1> HIDE DEF u
<1>2. t \in Seq(S) /\ Len(t) = 1 + Len(s)
      /\ \A i \in 1 .. 1 + Len(s) : t[i] = IF i <= 1 THEN u[i] ELSE s[i - 1]
  <2>1. u \o s \in Seq(S) /\ Len(u \o s) = Len(u) + Len(s)
        /\ \A i \in 1 .. Len(u) + Len(s) : (u \o s)[i] = IF i <= Len(u) THEN u[i] ELSE s[i - Len(u)]
    BY <1>1, ConcatProperties
  <2>2. QED BY <1>1, <2>1
<1> HIDE DEF t
<1>3. t # <<>> /\ t[1] = e
  BY <1>1, <1>2, EmptySeq
<1>4. Head(t) = e /\ Tail(t) \in Seq(S) /\ Len(Tail(t)) = Len(s)
      /\ \A i \in 1 .. Len(s) : Tail(t)[i] = t[i + 1]
  BY <1>1, <1>2, <1>3, HeadTailProperties
<1>5. \A i \in 1 .. Len(s) : t[i + 1] = s[i]
  BY <1>1, <1>2
<1>6. Tail(t) = s
  BY <1>4, <1>5, SeqEqual
<1>7. QED BY <1>3, <1>4, <1>6 DEF t, u

LEMMA HeadAndTail ==
  ASSUME NEW S, NEW s \in Seq(S), s # <<>>
  PROVE  s = <<Head(s)>> \o Tail(s) /\ Head(s) \in S /\ Tail(s) \in Seq(S) /\ <<Head(s)>> \in Seq(S)
         /\ Len(Tail(s)) = Len(s) - 1
<1>1. Head(s) \in S /\ Tail(s) \in Seq(S) /\ Len(Tail(s)) = Len(s) - 1 /\ Len(s) \in Nat \ {0}
      /\ Head(s) = s[1] /\ \A i \in 1 .. Len(s) - 1 : Tail(s)[i] = s[i + 1]
  BY HeadTailProperties, EmptySeq
<1> DEFINE u == <<Head(s)>>
           t == Tail(s)
<1>2. u \in Seq(S) /\ Len(u) = 1 /\ u[1] = s[1]
  BY <1>1
<1> HIDE DEF u, t
<1>3. u \o t \in Seq(S) /\ Len(u \o t) = 1 + Len(t)
      /\ \A i \in 1 .. 1 + Len(t) : (u \o t)[i] = IF i <= 1 THEN u[i] ELSE t[i - 1]
  <2>1. t \in Seq(S)
    BY <1>1 DEF t
  <2>2. u \o t \in Seq(S) /\ Len(u \o t) = Len(u) + Len(t)
        /\ \A i \in 1 .. Len(u) + Len(t) : (u \o t)[i] = IF i <= Len(u) THEN u[i] ELSE t[i - Len(u)]
    BY <1>2, <2>1, ConcatProperties
  <2>3. QED BY <1>2, <2>2
<1>4. Len(u \o t) = Len(s) /\ \A i \in 1 .. Len(s) : (u \o t)[i] = s[i]
  <2>1. Len(t) = Len(s) - 1
    BY <1>1 DEF t
  <2>2. \A i \in 1 .. Len(s) : ~(i <= 1) => t[i - 1] = s[i]
    BY <1>1 DEF t
  <2>3. QED BY <1>1, <1>2, <1>3, <2>1, <2>2
<1>5. QED BY <1>1, <1>2, <1>3, <1>4, SeqEqual DEF u, t

LEMMA RestType ==
  ASSUME NEW f \in Frames, NEW h \in Seq(Bytes)
  PROVE  Rest(h, f) \in Seq(Run)
<1>1. Len(h) \in Nat /\ DOMAIN h = 1 .. Len(h)
  OBVIOUS
<1>2. [i \in DOMAIN h |-> [n |-> 1, byte |-> h[i]]] \in Seq(Run)
  <2>1. ASSUME NEW i \in 1 .. Len(h) PROVE [n |-> 1, byte |-> h[i]] \in Run
    <3>1. h[i] \in Bytes
      BY <1>1, ElementOfSeq
    <3>2. QED BY <3>1 DEF Run, Bytes, Unknown
  <2>2. QED BY <1>1, <2>1
<1>3. (IF f.length = 0 THEN <<>> ELSE <<[n |-> f.length, byte |-> Unknown]>>) \in Seq(Run)
  <2>1. f.length \in Nat
    BY WsFramesAssumption DEF Frames
  <2>2. CASE f.length = 0
    BY <2>2
  <2>3. CASE f.length # 0
    <3>1. [n |-> f.length, byte |-> Unknown] \in Run
      BY <2>1, <2>3 DEF Run, Unknown
    <3>2. QED BY <2>3, <3>1
  <2>4. QED BY <2>2, <2>3
<1>4. QED BY <1>2, <1>3, ConcatProperties DEF Rest

LEMMA RestNext ==
  ASSUME NEW f \in Frames, NEW h \in Seq(Bytes), h # <<>>
  PROVE  /\ Rest(h, f) = <<[n |-> 1, byte |-> Head(h)]>> \o Rest(Tail(h), f)
         /\ [n |-> 1, byte |-> Head(h)] \in Run /\ Head(h) \in Bytes /\ Tail(h) \in Seq(Bytes)
<1> DEFINE runs(g) == [i \in DOMAIN g |-> [n |-> 1, byte |-> g[i]]]
           last == IF f.length = 0 THEN <<>> ELSE <<[n |-> f.length, byte |-> Unknown]>>
           x == [n |-> 1, byte |-> Head(h)]
           t == Tail(h)
<1>1. Head(h) \in Bytes /\ t \in Seq(Bytes) /\ Len(t) = Len(h) - 1 /\ Len(h) \in Nat \ {0}
      /\ Head(h) = h[1] /\ \A i \in 1 .. Len(h) - 1 : t[i] = h[i + 1]
  BY HeadTailProperties, EmptySeq
<1>2. x \in Run
  BY <1>1 DEF Run, Bytes, Unknown
<1>3. runs(h) \in Seq(Run) /\ runs(t) \in Seq(Run) /\ last \in Seq(Run)
  <2>1. f.length \in Nat
    BY WsFramesAssumption DEF Frames
  <2>2. f.length # 0 => [n |-> f.length, byte |-> Unknown] \in Run
    BY <2>1 DEF Run, Unknown
  <2>3. ASSUME NEW g \in Seq(Bytes) PROVE runs(g) \in Seq(Run)
    <3>1. Len(g) \in Nat /\ DOMAIN g = 1 .. Len(g)
      OBVIOUS
    <3>2. ASSUME NEW i \in 1 .. Len(g) PROVE [n |-> 1, byte |-> g[i]] \in Run
      <4>1. g[i] \in Bytes
        BY <3>1, ElementOfSeq
      <4>2. QED BY <4>1 DEF Run, Bytes, Unknown
    <3>3. QED BY <3>1, <3>2
  <2>4. last \in Seq(Run)
    BY <2>2, EmptySeq
  <2> HIDE DEF runs, last, t
  <2>5. QED BY <1>1, <2>3, <2>4
<1>4. runs(h) = <<x>> \o runs(t)
  <2> DEFINE a == runs(h)
             b == runs(t)
             u == <<x>>
  <2>1. Len(a) = Len(h) /\ \A i \in 1 .. Len(h) : a[i] = [n |-> 1, byte |-> h[i]]
    BY <1>1
  <2>2. Len(b) = Len(h) - 1 /\ \A i \in 1 .. Len(h) - 1 : b[i] = [n |-> 1, byte |-> t[i]]
    BY <1>1
  <2>3. u \in Seq(Run) /\ Len(u) = 1 /\ u[1] = a[1]
    BY <1>1, <1>2, <2>1
  <2>4. \A i \in 1 .. Len(h) - 1 : b[i] = a[i + 1]
    <3> HIDE DEF a, b, t, u, x, runs
    <3> TAKE i \in 1 .. Len(h) - 1
    <3>1. i + 1 \in 1 .. Len(h)
      BY <1>1
    <3>2. QED BY <1>1, <2>1, <2>2, <3>1
  <2> HIDE DEF a, b, u, t, x
  <2>5. u \o b \in Seq(Run) /\ Len(u \o b) = 1 + Len(b)
        /\ \A i \in 1 .. 1 + Len(b) : (u \o b)[i] = IF i <= 1 THEN u[i] ELSE b[i - 1]
    <3>1. b \in Seq(Run)
      BY <1>3 DEF b
    <3>2. u \o b \in Seq(Run) /\ Len(u \o b) = Len(u) + Len(b)
          /\ \A i \in 1 .. Len(u) + Len(b) : (u \o b)[i] = IF i <= Len(u) THEN u[i] ELSE b[i - Len(u)]
      BY <2>3, <3>1, ConcatProperties
    <3>3. QED BY <2>3, <3>2
  <2>6. Len(a) = Len(u \o b) /\ \A i \in 1 .. Len(a) : a[i] = (u \o b)[i]
    <3>1. Len(a) = Len(h) /\ Len(b) = Len(h) - 1 /\ Len(h) \in Nat \ {0}
      BY <1>1, <2>1, <2>2
    <3>2. \A i \in 1 .. Len(h) : ~(i <= 1) => i - 1 \in 1 .. Len(h) - 1 /\ (i - 1) + 1 = i
      BY <1>1
    <3>3. \A i \in 1 .. Len(h) : ~(i <= 1) => b[i - 1] = a[i]
      BY <2>4, <3>2
    <3>4. QED BY <2>3, <2>5, <3>1, <3>3
  <2>7. QED BY <1>3, <2>5, <2>6, SeqEqual DEF a, b, u
<1>5. <<x>> \in Seq(Run)
  BY <1>2
<1>6. (<<x>> \o runs(t)) \o last = <<x>> \o (runs(t) \o last)
  <2> HIDE DEF runs, last, x
  <2>1. QED BY <1>3, <1>5, ConcatAssociative
<1>7. QED BY <1>1, <1>2, <1>4, <1>6 DEF Rest

LEMMA WrittenIsRest ==
  ASSUME NEW f, NEW form
  PROVE  Written(f, form) = Rest(HeaderOf(f, form), f)
BY DEF Written, HeaderRuns, PayloadRun, Rest
-----------------------------------------------------------------------------
LEMMA CarriedIsClosed == Closed(Carried)
<1>1. <<<<>>, <<>>>> \in Carried
  <2>1. <<<<>>, <<>>>> \in Pairs
    BY EmptySeq DEF Pairs
  <2>2. QED BY <2>1 DEF Carried, Closed
<1>2. ASSUME NEW q \in Seq(Run), NEW fs \in Seq(Frames), NEW f \in Frames, NEW form \in AnyForm,
             <<q, fs>> \in Carried, Allowed(f, form)
      PROVE  <<q \o Written(f, form), fs \o <<f>>>> \in Carried
  <2>1. q \o Written(f, form) \in Seq(Run) /\ fs \o <<f>> \in Seq(Frames)
    <3>1. <<f>> \in Seq(Frames)
      OBVIOUS
    <3>2. QED BY <3>1, WrittenType, ConcatProperties
  <2>2. ASSUME NEW R \in SUBSET Pairs, Closed(R) PROVE <<q \o Written(f, form), fs \o <<f>>>> \in R
    <3>1. <<q, fs>> \in R
      BY <1>2, <2>2 DEF Carried
    <3>2. QED BY <1>2, <2>2, <3>1 DEF Closed
  <2>3. QED BY <2>1, <2>2 DEF Carried, Pairs
<1>3. QED BY <1>1, <1>2 DEF Closed

(* What carries frames is empty or begins with the first of them. *)
Begun(q, fs) ==
  \E f \in Frames, form \in AnyForm, r \in Seq(Run), gs \in Seq(Frames) :
    /\ Allowed(f, form) /\ <<r, gs>> \in Carried
    /\ q = Written(f, form) \o r /\ fs = <<f>> \o gs

LEMMA BeginsWithFirst ==
  ASSUME NEW q \in Seq(Run), NEW fs \in Seq(Frames), <<q, fs>> \in Carried, q # <<>>
  PROVE  Begun(q, fs)
<1> DEFINE R == {x \in Pairs : x \in Carried /\ (x = <<<<>>, <<>>>> \/ Begun(x[1], x[2]))}
<1>1. <<<<>>, <<>>>> \in R
  BY CarriedIsClosed, EmptySeq DEF Closed, Pairs
<1>2. ASSUME NEW a \in Seq(Run), NEW as \in Seq(Frames), NEW f \in Frames, NEW form \in AnyForm,
             <<a, as>> \in R, Allowed(f, form)
      PROVE  <<a \o Written(f, form), as \o <<f>>>> \in R
  <2> DEFINE w == Written(f, form)
  <2>1. <<a \o w, as \o <<f>>>> \in Carried
    BY <1>2, CarriedIsClosed DEF Closed
  <2>2. w \in Seq(Run) /\ <<f>> \in Seq(Frames)
    BY WrittenType
  <2>3. CASE a = <<>> /\ as = <<>>
    <3>1. a \o w = w \o <<>> /\ as \o <<f>> = <<f>> \o <<>>
      BY <2>2, <2>3, ConcatEmptySeq
    <3>2. <<>> \in Seq(Run) /\ <<>> \in Seq(Frames) /\ <<<<>>, <<>>>> \in Carried
      BY EmptySeq, CarriedIsClosed DEF Closed
    <3>3. Begun(a \o w, as \o <<f>>)
      BY <1>2, <3>1, <3>2 DEF Begun
    <3>4. QED BY <2>1, <3>3 DEF Carried
  <2>4. CASE Begun(a, as)
    <3>1. PICK g \in Frames, gform \in AnyForm, r \in Seq(Run), gs \in Seq(Frames) :
            /\ Allowed(g, gform) /\ <<r, gs>> \in Carried
            /\ a = Written(g, gform) \o r /\ as = <<g>> \o gs
      BY <2>4 DEF Begun
    <3>2. <<r \o w, gs \o <<f>>>> \in Carried
      BY <1>2, <3>1, CarriedIsClosed DEF Closed
    <3>3. Written(g, gform) \in Seq(Run) /\ <<g>> \in Seq(Frames)
      BY WrittenType
    <3>4. a \o w = Written(g, gform) \o (r \o w) /\ as \o <<f>> = <<g>> \o (gs \o <<f>>)
      <4> DEFINE u == <<g>>
                 v == <<f>>
      <4>1. u \in Seq(Frames) /\ v \in Seq(Frames) /\ as = u \o gs
        BY <2>2, <3>1, <3>3
      <4> HIDE DEF w, u, v
      <4>2. as \o v = u \o (gs \o v)
        BY <4>1, FramesAssociate
      <4>3. a \o w = Written(g, gform) \o (r \o w)
        <5> DEFINE y == Written(g, gform)
        <5>1. y \in Seq(Run) /\ a = y \o r
          BY <3>1, <3>3
        <5> HIDE DEF y
        <5>2. (y \o r) \o w = y \o (r \o w)
          BY <2>2, <5>1, RunsAssociate
        <5>3. QED BY <5>1, <5>2 DEF y
      <4>4. QED BY <4>2, <4>3 DEF u, v
    <3>5. r \o w \in Seq(Run) /\ gs \o <<f>> \in Seq(Frames)
      <4> HIDE DEF w
      <4>1. QED BY <2>2, ConcatProperties
    <3>6. Begun(a \o w, as \o <<f>>)
      BY <3>1, <3>2, <3>4, <3>5 DEF Begun
    <3>7. QED BY <2>1, <3>6 DEF Carried
  <2>5. QED BY <1>2, <2>3, <2>4
<1>3. Closed(R)
  <2> HIDE DEF R
  <2>1. QED BY <1>1, <1>2 DEF Closed
<1>4. <<q, fs>> \in R
  <2>1. R \in SUBSET Pairs
    OBVIOUS
  <2> HIDE DEF R
  <2>2. QED BY <1>3, <2>1 DEF Carried
<1>5. QED BY <1>4
-----------------------------------------------------------------------------
(* What the reader makes of a header that was written *)

Joined(H, s, x, m) == H = (s \o x) \o m
Parted(H, s, x, m) ==
  /\ H \in Seq(Bytes) /\ Len(H) = 2 + Len(x) + Len(m) /\ H[1] = s[1] /\ H[2] = s[2]
  /\ \A i \in 1 .. Len(x) : H[2 + i] = x[i]

LEMMA ThreeParts ==
  ASSUME NEW s \in Seq(Bytes), Len(s) = 2, NEW x \in Seq(Bytes), NEW m \in Seq(Bytes),
         NEW H, Joined(H, s, x, m)
  PROVE  Parted(H, s, x, m)
<1> DEFINE t == s \o x
<1>1. Len(x) \in Nat /\ Len(m) \in Nat
  OBVIOUS
<1>2. t \in Seq(Bytes) /\ Len(t) = 2 + Len(x)
      /\ \A i \in 1 .. 2 + Len(x) : t[i] = IF i <= 2 THEN s[i] ELSE x[i - 2]
  <2>1. s \o x \in Seq(Bytes) /\ Len(s \o x) = Len(s) + Len(x)
        /\ \A i \in 1 .. Len(s) + Len(x) : (s \o x)[i] = IF i <= Len(s) THEN s[i] ELSE x[i - Len(s)]
    BY ConcatProperties
  <2>2. QED BY <1>1, <2>1
<1>3. H = t \o m
  BY DEF Joined
<1> HIDE DEF t
<1>4. H \in Seq(Bytes) /\ Len(H) = Len(t) + Len(m)
      /\ \A i \in 1 .. Len(t) + Len(m) : H[i] = IF i <= Len(t) THEN t[i] ELSE m[i - Len(t)]
  <2>1. t \o m \in Seq(Bytes) /\ Len(t \o m) = Len(t) + Len(m)
        /\ \A i \in 1 .. Len(t) + Len(m) : (t \o m)[i] = IF i <= Len(t) THEN t[i] ELSE m[i - Len(t)]
    BY <1>2, ConcatProperties
  <2>2. QED BY <1>3, <2>1
<1>5. \A i \in 1 .. 2 + Len(x) : H[i] = t[i]
  <2>1. \A i \in 1 .. 2 + Len(x) : i \in 1 .. Len(t) + Len(m) /\ i <= Len(t)
    BY <1>1, <1>2
  <2>2. QED BY <1>4, <2>1
<1>6. \A i \in 1 .. Len(x) : 2 + i \in 1 .. 2 + Len(x) /\ ~(2 + i <= 2) /\ (2 + i) - 2 = i
  BY <1>1
<1>7. H[1] = s[1] /\ H[2] = s[2]
  <2>1. 1 \in 1 .. 2 + Len(x) /\ 2 \in 1 .. 2 + Len(x)
    BY <1>1
  <2>2. t[1] = s[1] /\ t[2] = s[2]
    BY <1>2, <2>1
  <2>3. QED BY <1>5, <2>1, <2>2
<1>8. \A i \in 1 .. Len(x) : H[2 + i] = x[i]
  BY <1>2, <1>5, <1>6
<1>9. Len(H) = 2 + Len(x) + Len(m)
  BY <1>1, <1>2, <1>4
<1>10. QED BY <1>4, <1>7, <1>8, <1>9 DEF Parted

(* The two fixed bytes of a header tell what they were made of. *)
LEMMA FixedBytes ==
  ASSUME NEW f \in Frames, NEW marker \in 0 .. 127
  PROVE  LET a == 128 * f.fin + f.opcode
             b == 128 * f.mask + marker IN
         /\ a \in Bytes /\ a \div 128 = f.fin /\ a % 16 = f.opcode
         /\ b \in Bytes /\ b \div 128 = f.mask /\ b % 128 = marker /\ (b >= 128 <=> f.mask = 1)
<1>1. f.opcode \in 0 .. 15 /\ f.mask \in {0, 1} /\ f.fin = 1
  BY WsFramesAssumption DEF Frames
<1>2. f.opcode \in Nat /\ f.opcode <= 15
  BY <1>1
<1>3. /\ (128 * 1 + f.opcode) \div 128 = 1 /\ (128 * 1 + f.opcode) % 16 = f.opcode
      /\ 128 * 1 + f.opcode \in 0 .. 255
  BY <1>2, SMT
<1>4. CASE f.mask = 0
  BY <1>1, <1>3, <1>4, SMT DEF Bytes
<1>5. CASE f.mask = 1
  BY <1>1, <1>3, <1>5, SMT DEF Bytes
<1>6. QED BY <1>1, <1>4, <1>5

LEMMA TwoBytes ==
  ASSUME NEW n \in Nat, n < 65536
  PROVE  n = 256 * Byte(n, 1) + Byte(n, 0)
<1>1. 256 ^ 1 = 256 /\ 256 ^ 0 = 1
  BY SMT
<1>2. n = 256 * ((n \div 256) % 256) + ((n \div 1) % 256)
  BY SMT
<1>3. QED BY <1>1, <1>2 DEF Byte

LEMMA ThreeBytes ==
  ASSUME NEW n \in Nat, n \div 256 ^ 3 < 256, Byte(n, 3) = 0
  PROVE  n = 65536 * Byte(n, 2) + 256 * Byte(n, 1) + Byte(n, 0)
<1>1. 256 ^ 3 = 16777216 /\ 256 ^ 2 = 65536 /\ 256 ^ 1 = 256 /\ 256 ^ 0 = 1
  BY SMT
<1>2. n \div 16777216 = 0
  <2>1. (n \div 16777216) % 256 = 0 /\ n \div 16777216 < 256
    BY <1>1, SMT DEF Byte
  <2>2. QED BY <2>1, SMT
<1>3. n = 65536 * ((n \div 65536) % 256) + 256 * ((n \div 256) % 256) + ((n \div 1) % 256)
  BY <1>2, SMT
<1>4. QED BY <1>1, <1>3, SMT DEF Byte

(* A header of the length field x, as it was written and as it is read. *)
FixedPart(f, marker) == <<128 * f.fin + f.opcode, 128 * f.mask + marker>>
MaskPart(f) == IF f.mask = 1 THEN maskKey ELSE <<>>
Made(H, f, marker, x) ==
  /\ x \in Seq(Bytes) /\ Len(x) = IF marker = 126 THEN 2 ELSE IF marker = 127 THEN 8 ELSE 0
  /\ Joined(H, FixedPart(f, marker), x, MaskPart(f))
Reads(H, f, marker) ==
  /\ H \in Seq(Bytes) /\ H[2] % 128 = marker
  /\ Len(H) = 2 + LengthTakes(H) + MaskTakes(H)
  /\ H[1] \div 128 = f.fin /\ H[1] % 16 = f.opcode /\ H[2] \div 128 = f.mask
Extended(H, x) == \A i \in 1 .. Len(x) : H[2 + i] = x[i]

LEMMA FieldsRead ==
  ASSUME NEW f \in Frames, NEW marker \in 0 .. 127, NEW x, NEW H, Made(H, f, marker, x)
  PROVE  Reads(H, f, marker) /\ Extended(H, x)
<1> DEFINE a == 128 * f.fin + f.opcode
           b == 128 * f.mask + marker
           s == FixedPart(f, marker)
           m == MaskPart(f)
<1>1. /\ a \in Bytes /\ a \div 128 = f.fin /\ a % 16 = f.opcode
      /\ b \in Bytes /\ b \div 128 = f.mask /\ b % 128 = marker /\ (b >= 128 <=> f.mask = 1)
  BY FixedBytes
<1>2. m \in Seq(Bytes) /\ Len(m) = IF f.mask = 1 THEN 4 ELSE 0
  BY MaskKeyType, EmptySeq DEF maskKey, MaskPart
<1>3. s = <<a, b>>
  BY DEF FixedPart
<1> HIDE DEF a, b, s, m
<1>4. s \in Seq(Bytes) /\ Len(s) = 2 /\ s[1] = a /\ s[2] = b
  BY <1>1, <1>3
<1>5. /\ x \in Seq(Bytes) /\ Len(x) = IF marker = 126 THEN 2 ELSE IF marker = 127 THEN 8 ELSE 0
      /\ Joined(H, s, x, m)
  BY DEF Made, s, m
<1>6. Parted(H, s, x, m)
  BY <1>2, <1>4, <1>5, ThreeParts
<1>7. /\ H \in Seq(Bytes) /\ Len(H) = 2 + Len(x) + Len(m) /\ H[1] = a /\ H[2] = b
      /\ Extended(H, x)
  BY <1>4, <1>6 DEF Parted, Extended
<1>8. LengthTakes(H) = Len(x)
  BY <1>1, <1>5, <1>7 DEF LengthTakes
<1>9. MaskTakes(H) = Len(m)
  BY <1>1, <1>2, <1>7 DEF MaskTakes
<1>10. Reads(H, f, marker)
  BY <1>1, <1>7, <1>8, <1>9 DEF Reads
<1>11. QED BY <1>7, <1>10

(* The reader understands what the writer writes, in every form, or takes  *)
(* it for too big.                                                         *)
LEMMA HeaderReads ==
  ASSUME NEW f \in Frames, NEW form \in AnyForm, Allowed(f, form)
  PROVE  LET H == HeaderOf(f, form) IN
         /\ H \in Seq(Bytes) /\ Len(H) = 2 + LengthTakes(H) + MaskTakes(H)
         /\ payloadLen(H) <= MAX_DATA_SIZE => payloadLen(H) = f.length /\ Header(H) = f
<1> DEFINE length == f.length
<1>1. length \in Nat /\ length \div 256 ^ 3 < 256
  BY WsFramesAssumption, WsLengthsAssumption DEF Frames
<1>2. ~(MAX_DATA_SIZE + 1 <= MAX_DATA_SIZE)
  BY WsFramesAssumption
<1>3. ASSUME NEW H, NEW marker, Reads(H, f, marker), payloadLen(H) = length
      PROVE  Header(H) = f
  BY <1>3 DEF Reads, Header, Frames
<1>4. \A i \in 0 .. 3 : Byte(length, i) \in Bytes
  BY <1>1, ByteType
<1>5. ASSUME length < 126 PROVE
        LET H == FrameHeader(f, 7) IN Reads(H, f, length) /\ payloadLen(H) = length
  <2> DEFINE H == FrameHeader(f, 7)
             x == ExtendedLength(7, length)
  <2>1. x = <<>> /\ x \in Seq(Bytes) /\ Len(x) = 0 /\ Marker(7, length) = length
    BY EmptySeq DEF ExtendedLength, Marker
  <2>2. length \in 0 .. 127 /\ length # 126 /\ length # 127
    BY <1>1, <1>5
  <2>3. Reads(H, f, length)
    <3>1. Joined(H, FixedPart(f, length), x, MaskPart(f))
      BY <2>1 DEF FrameHeader, Joined, FixedPart, MaskPart
    <3> HIDE DEF H, x, length
    <3>2. Made(H, f, length, x)
      BY <2>1, <2>2, <3>1 DEF Made
    <3>3. QED BY <2>2, <3>2, FieldsRead
  <2> HIDE DEF H
  <2>4. payloadLen(H) = length
    BY <2>2, <2>3 DEF Reads, payloadLen, LengthTakes
  <2>5. QED BY <2>3, <2>4 DEF H
<1>6. ASSUME length < 65536 PROVE
        LET H == FrameHeader(f, 16) IN Reads(H, f, 126) /\ payloadLen(H) = length
  <2> DEFINE H == FrameHeader(f, 16)
             x == ExtendedLength(16, length)
  <2>1. /\ x \in Seq(Bytes) /\ Len(x) = 2 /\ Marker(16, length) = 126
        /\ x[1] = Byte(length, 1) /\ x[2] = Byte(length, 0)
    BY <1>4 DEF ExtendedLength, Marker
  <2>2. Reads(H, f, 126) /\ Extended(H, x)
    <3>1. Joined(H, FixedPart(f, 126), x, MaskPart(f))
      BY <2>1 DEF FrameHeader, Joined, FixedPart, MaskPart
    <3> HIDE DEF H, x, length
    <3>2. Made(H, f, 126, x)
      BY <2>1, <3>1 DEF Made
    <3>3. QED BY <3>2, FieldsRead
  <2> HIDE DEF H, x
  <2>3. H[3] = Byte(length, 1) /\ H[4] = Byte(length, 0)
    BY <2>1, <2>2 DEF Extended
  <2>4. payloadLen(H) = 256 * H[3] + H[4]
    BY <2>2 DEF Reads, payloadLen, LengthTakes
  <2>5. QED BY <1>1, <1>6, <2>2, <2>3, <2>4, TwoBytes DEF H
<1>7. LET H == FrameHeader(f, 64) IN
        Reads(H, f, 127) /\ (payloadLen(H) = length \/ payloadLen(H) = MAX_DATA_SIZE + 1)
  <2> DEFINE H == FrameHeader(f, 64)
             x == ExtendedLength(64, length)
  <2>1. /\ x \in Seq(Bytes) /\ Len(x) = 8 /\ Marker(64, length) = 127
        /\ x[5] = Byte(length, 3) /\ x[6] = Byte(length, 2)
        /\ x[7] = Byte(length, 1) /\ x[8] = Byte(length, 0)
    <3>1. 0 \in Bytes
      BY DEF Bytes
    <3>2. QED BY <1>4, <3>1 DEF ExtendedLength, Marker
  <2>2. Reads(H, f, 127) /\ Extended(H, x)
    <3>1. Joined(H, FixedPart(f, 127), x, MaskPart(f))
      BY <2>1 DEF FrameHeader, Joined, FixedPart, MaskPart
    <3> HIDE DEF H, x, length
    <3>2. Made(H, f, 127, x)
      BY <2>1, <3>1 DEF Made
    <3>3. QED BY <3>2, FieldsRead
  <2> HIDE DEF H, x
  <2>3. /\ H[7] = Byte(length, 3) /\ H[8] = Byte(length, 2)
        /\ H[9] = Byte(length, 1) /\ H[10] = Byte(length, 0)
    BY <2>1, <2>2 DEF Extended
  <2>4. payloadLen(H) = IF \E i \in 3 .. 7 : H[i] # 0 THEN MAX_DATA_SIZE + 1
                        ELSE 65536 * H[8] + 256 * H[9] + H[10]
    BY <2>2 DEF Reads, payloadLen, LengthTakes
  <2>5. CASE \E i \in 3 .. 7 : H[i] # 0
    BY <2>2, <2>4, <2>5 DEF H
  <2>6. CASE ~(\E i \in 3 .. 7 : H[i] # 0)
    <3>1. Byte(length, 3) = 0
      BY <2>3, <2>6
    <3>2. length = 65536 * Byte(length, 2) + 256 * Byte(length, 1) + Byte(length, 0)
      BY <1>1, <3>1, ThreeBytes
    <3>3. QED BY <2>2, <2>3, <2>4, <2>6, <3>2 DEF H
  <2>7. QED BY <2>5, <2>6
<1>8. LET H == HugeHeader(f) IN Reads(H, f, 127) /\ payloadLen(H) = MAX_DATA_SIZE + 1
  <2> DEFINE H == HugeHeader(f)
             a == 128 * f.fin + f.opcode
             b == 128 * f.mask + 127
             x == <<0, 0, 1, 0, 0, 0, 0, 0>>
  <2>1. x \in Seq(Bytes) /\ Len(x) = 8 /\ x[3] = 1
    <3>1. 0 \in Bytes /\ 1 \in Bytes
      BY DEF Bytes
    <3>2. QED BY <3>1
  <2>2. <<a, b>> \o x = <<a, b, 0, 0, 1, 0, 0, 0, 0, 0>>
    <3>1. a \in Bytes /\ b \in Bytes
      BY FixedBytes
    <3> DEFINE s == <<a, b>>
               t == <<a, b, 0, 0, 1, 0, 0, 0, 0, 0>>
    <3>2. s \in Seq(Bytes) /\ Len(s) = 2 /\ s[1] = a /\ s[2] = b
      BY <3>1
    <3>3. /\ t \in Seq(Bytes) /\ Len(t) = 10
          /\ \A i \in 1 .. 10 : t[i] = IF i <= 2 THEN s[i] ELSE x[i - 2]
      <4>1. 0 \in Bytes /\ 1 \in Bytes
        BY DEF Bytes
      <4> HIDE DEF a, b
      <4>2. QED BY <3>1, <4>1
    <3> HIDE DEF s, t, x
    <3>4. s \o x \in Seq(Bytes) /\ Len(s \o x) = Len(s) + Len(x)
          /\ \A i \in 1 .. Len(s) + Len(x) : (s \o x)[i] = IF i <= Len(s) THEN s[i] ELSE x[i - Len(s)]
      BY <2>1, <3>2, BytesJoin
    <3>5. Len(s \o x) = 10 /\ \A i \in 1 .. 10 : (s \o x)[i] = IF i <= 2 THEN s[i] ELSE x[i - 2]
      <4>1. Len(s) = 2 /\ Len(x) = 8 /\ 2 + 8 = 10
        BY <2>1, <3>2
      <4>2. QED BY <3>4, <4>1
    <3>6. s \o x = t
      <4>1. \A i \in 1 .. Len(t) : (s \o x)[i] = t[i]
        BY <3>3, <3>5
      <4>2. Len(s \o x) = Len(t)
        BY <3>3, <3>5
      <4>3. QED BY <3>3, <3>4, <4>1, <4>2, SeqEqual
    <3>7. QED BY <3>6 DEF s, t
  <2>3. H = (<<a, b>> \o x) \o (IF f.mask = 1 THEN maskKey ELSE <<>>)
    BY <2>2 DEF HugeHeader
  <2>4. Reads(H, f, 127) /\ Extended(H, x)
    <3>1. Joined(H, FixedPart(f, 127), x, MaskPart(f))
      BY <2>3 DEF Joined, FixedPart, MaskPart
    <3> HIDE DEF H, x
    <3>2. Made(H, f, 127, x)
      BY <2>1, <3>1 DEF Made
    <3>3. QED BY <3>2, FieldsRead
  <2> HIDE DEF H, x
  <2>5. H[5] # 0
    BY <2>1, <2>4 DEF Extended
  <2>6. payloadLen(H) = MAX_DATA_SIZE + 1
    BY <2>4, <2>5 DEF Reads, payloadLen, LengthTakes
  <2>7. QED BY <2>4, <2>6 DEF H
<1> HIDE DEF length
<1>9. ASSUME NEW H, NEW marker, Reads(H, f, marker),
             payloadLen(H) = length \/ payloadLen(H) = MAX_DATA_SIZE + 1
      PROVE  /\ H \in Seq(Bytes) /\ Len(H) = 2 + LengthTakes(H) + MaskTakes(H)
             /\ payloadLen(H) <= MAX_DATA_SIZE => payloadLen(H) = f.length /\ Header(H) = f
  BY <1>2, <1>3, <1>9 DEF Reads, length
<1>10. CASE form = "best"
  <2>1. CASE length < 126
    <3>1. HeaderOf(f, form) = FrameHeader(f, 7)
      BY <1>10, <2>1 DEF HeaderOf, LengthBits, length
    <3>2. QED BY <1>5, <1>9, <2>1, <3>1
  <2>2. CASE ~(length < 126) /\ length < 65535
    <3>1. HeaderOf(f, form) = FrameHeader(f, 16) /\ length < 65536
      BY <1>1, <1>10, <2>2 DEF HeaderOf, LengthBits, length
    <3>2. QED BY <1>6, <1>9, <3>1
  <2>3. CASE ~(length < 126) /\ ~(length < 65535)
    <3>1. HeaderOf(f, form) = FrameHeader(f, 64)
      BY <1>10, <2>3 DEF HeaderOf, LengthBits, length
    <3>2. QED BY <1>7, <1>9, <3>1
  <2>4. QED BY <2>1, <2>2, <2>3
<1>11. CASE form = "16"
  <2>1. HeaderOf(f, form) = FrameHeader(f, 16) /\ length < 65536
    BY <1>11 DEF HeaderOf, Allowed, length
  <2>2. QED BY <1>6, <1>9, <2>1
<1>12. CASE form = "64"
  <2>1. HeaderOf(f, form) = FrameHeader(f, 64)
    BY <1>12 DEF HeaderOf
  <2>2. QED BY <1>7, <1>9, <2>1
<1>13. CASE form = "huge"
  <2>1. HeaderOf(f, form) = HugeHeader(f)
    BY <1>13 DEF HeaderOf
  <2>2. QED BY <1>8, <1>9, <2>1
<1>14. QED BY <1>10, <1>11, <1>12, <1>13 DEF AnyForm
-----------------------------------------------------------------------------
(* The steps *)

(* What ends a connection leaves the frames as they are. *)
LEMMA StopFramed ==
  ASSUME Framed, Stop, UNCHANGED <<sent, cut, got>>
  PROVE  Framed'
BY DEF Framed, Pending, Stop

LEMMA InitFramed == Init => Framed
<1> SUFFICES ASSUME Init PROVE Framed
  OBVIOUS
<1>1. <<>> \in Seq(Frames) /\ sent = <<>> \o <<>> /\ got = <<>>
  BY EmptySeq, ConcatEmptySeq DEF Init
<1>2. QED BY <1>1 DEF Framed, Pending, Init

LEMMA SendFramed ==
  ASSUME Framed, NEW f \in Frames, NEW form \in Forms, SendFrame(f, form)
  PROVE  Framed'
<1> DEFINE w == Written(f, form)
<1>1. form \in AnyForm /\ Allowed(f, form)
  BY WsFramesAssumption DEF SendFrame, AnyForm, Allowed
<1>2. w \in Seq(Run)
  BY <1>1, WrittenType
<1>3. wire' = wire \o w /\ sent' = sent \o <<f>> /\ <<f>> \in Seq(Frames)
  <2>1. sent' = Append(sent, f) /\ wire' = wire \o w
    BY DEF SendFrame
  <2>2. QED BY <2>1, AppendIs DEF Framed
<1>4. UNCHANGED <<up, status, readCb, cWsHeader, got, cut>> /\ status = "CONNECTED" /\ up
  BY DEF SendFrame, reader
<1> HIDE DEF w
<1>5. sent' \in Seq(Frames)
  BY <1>3, ConcatProperties DEF Framed
<1>6. ASSUME ~cut PROVE got' \in Seq(Frames) /\ \E fs \in Seq(Frames) : sent' = got' \o fs /\ Pending(fs)'
  <2>1. PICK fs \in Seq(Frames) : sent = got \o fs /\ Pending(fs)
    BY <1>6 DEF Framed
  <2> DEFINE more == fs \o <<f>>
  <2>2. got \in Seq(Frames) /\ more \in Seq(Frames)
    BY <1>3, <1>6, ConcatProperties DEF Framed
  <2>3. sent' = got' \o more
    BY <1>3, <1>4, <2>1, <2>2, ConcatAssociative
  <2>4. CASE readCb = NoRead /\ <<wire, fs>> \in Carried
    <3>1. wire \in Seq(Run)
      BY <2>4 DEF Carried, Pairs
    <3>2. <<wire \o w, more>> \in Carried
      BY <1>1, <2>4, <3>1, CarriedIsClosed DEF Closed, w
    <3>3. Pending(more)'
      BY <1>3, <1>4, <2>4, <3>2 DEF Pending
    <3>4. QED BY <1>4, <2>2, <2>3, <3>3
  <2>5. CASE ~(readCb = NoRead /\ <<wire, fs>> \in Carried)
    <3>1. PICK g \in Frames, gform \in AnyForm, front \in Seq(Run), q \in Seq(Run), gs \in Seq(Frames) :
            /\ Allowed(g, gform) /\ fs = <<g>> \o gs /\ wire = front \o q /\ <<q, gs>> \in Carried
            /\ Inside(g, gform, front)
      BY <1>4, <2>1, <2>5 DEF Pending
    <3>2. <<q \o w, gs \o <<f>>>> \in Carried
      BY <1>1, <3>1, CarriedIsClosed DEF Closed, w
    <3>3. q \o w \in Seq(Run) /\ gs \o <<f>> \in Seq(Frames)
      BY <1>2, <1>3, ConcatProperties
    <3>4. more = <<g>> \o (gs \o <<f>>) /\ wire' = front \o (q \o w)
      <4> DEFINE u == <<g>>
                 v == <<f>>
      <4>1. u \in Seq(Frames) /\ v \in Seq(Frames) /\ fs = u \o gs
        BY <1>3, <3>1
      <4> HIDE DEF u, v
      <4>2. (u \o gs) \o v = u \o (gs \o v)
        BY <4>1, FramesAssociate
      <4>3. (front \o q) \o w = front \o (q \o w)
        BY <1>2, <3>1, RunsAssociate
      <4>4. QED BY <1>3, <3>1, <4>1, <4>2, <4>3 DEF u, v
    <3>5. Inside(g, gform, front)'
      BY <1>4, <3>1 DEF Inside
    <3> HIDE DEF more
    <3>6. Pending(more)'
      BY <3>1, <3>2, <3>3, <3>4, <3>5 DEF Pending
    <3>7. QED BY <1>4, <2>2, <2>3, <3>6
  <2>6. QED BY <2>4, <2>5
<1>7. QED BY <1>4, <1>5, <1>6 DEF Framed

(* handleWebsocket() begins with the first byte of the next frame. *)
LEMMA BeginFramed ==
  ASSUME IInv, Framed, handleWebsocket
  PROVE  Framed'
<1>1. /\ readCb = NoRead /\ wire # <<>> /\ status = "CONNECTED" /\ readCb' = Waiting("header", 2)
      /\ up /\ UNCHANGED <<wire, sent, cut, status, cWsHeader, got>> /\ cWsHeader = <<>>
  BY DEF handleWebsocket, Present, link, handleWebsocketWaitFor, HeaderLength, IInv, Afresh
<1>2. ASSUME ~cut PROVE \E fs \in Seq(Frames) : sent = got \o fs /\ Pending(fs)'
  <2>1. PICK fs \in Seq(Frames) : sent = got \o fs /\ Pending(fs)
    BY <1>2 DEF Framed
  <2>2. readCb.for = "nothing"
    BY <1>1 DEF NoRead, Waiting
  <2>3. <<wire, fs>> \in Carried /\ wire \in Seq(Run)
    BY <1>1, <2>1, <2>2 DEF Pending, Inside, Carried, Pairs
  <2>4. PICK f \in Frames, form \in AnyForm, r \in Seq(Run), gs \in Seq(Frames) :
          /\ Allowed(f, form) /\ <<r, gs>> \in Carried
          /\ wire = Written(f, form) \o r /\ fs = <<f>> \o gs
    BY <1>1, <2>3, BeginsWithFirst DEF Begun
  <2> DEFINE H == HeaderOf(f, form)
  <2>5. H \in Seq(Bytes) /\ Len(H) = 2 + LengthTakes(H) + MaskTakes(H)
    BY <2>4, HeaderReads
  <2>6. Len(H) >= 2 /\ <<>> \o H = H
    <3>1. LengthTakes(H) \in {0, 2, 8} /\ MaskTakes(H) \in {0, 4}
      BY DEF LengthTakes, MaskTakes
    <3>2. <<>> \o H = H
      BY <2>5, ConcatEmptySeq
    <3> HIDE DEF H
    <3>3. QED BY <2>5, <3>1, <3>2
  <2>7. Rest(H, f) \in Seq(Run) /\ Written(f, form) = Rest(H, f)
    BY <2>5, RestType, WrittenIsRest
  <2>8. Inside(f, form, Rest(H, f))'
    <3>1. readCb'.for = "header" /\ readCb'.left = 2
      BY <1>1 DEF Waiting
    <3>2. cWsHeader' \o H = HeaderOf(f, form)
      BY <1>1, <2>6
    <3>3. QED BY <2>5, <2>6, <3>1, <3>2 DEF Inside
  <2> HIDE DEF H
  <2>9. wire' = Rest(H, f) \o r
    BY <1>1, <2>4, <2>7
  <2>10. Pending(fs)'
    BY <2>4, <2>7, <2>8, <2>9 DEF Pending
  <2>11. QED BY <2>1, <2>10
<1>3. QED BY <1>1, <1>2 DEF Framed

(* A payload is handled when its last byte has been read: the frame moves  *)
(* from the wire to what was handled.                                      *)
LEMMA PayloadCbFramed ==
  ASSUME NEW h, NEW f \in Frames, NEW gs \in Seq(Frames), NEW q \in Seq(Run),
         sent \in Seq(Frames), got \in Seq(Frames), sent = got \o (<<f>> \o gs),
         <<q, gs>> \in Carried, Header(h) = f,
         handleWebsocketPayloadCb(h, q), UNCHANGED <<sent, cut>>
  PROVE  Framed'
<1>1. got' = got \o <<f>> /\ <<f>> \in Seq(Frames) /\ got' \in Seq(Frames)
  <2>1. got' = Append(got, f)
    BY DEF handleWebsocketPayloadCb
  <2>2. Append(got, f) = got \o <<f>> /\ <<f>> \in Seq(Frames)
    BY AppendIs
  <2>3. QED BY <2>1, <2>2, ConcatProperties
<1>2. sent' = got' \o gs
  BY <1>1, ConcatAssociative
<1>3. Pending(gs)'
  <2>1. CASE Stop
    BY <2>1 DEF Stop, Pending
  <2>2. CASE ~Stop
    BY <2>2 DEF handleWebsocketPayloadCb, Pending
  <2>3. QED BY <2>1, <2>2
<1>4. QED BY <1>1, <1>2, <1>3 DEF Framed

(* Prefixes of a header tell how long it is. *)
LEMMA HeaderPrefix ==
  ASSUME NEW f \in Frames, NEW form \in AnyForm, Allowed(f, form),
         NEW g \in Seq(Bytes), g # <<>>, NEW h \in Seq(Bytes), g \o h = HeaderOf(f, form)
  PROVE  /\ HeaderLength(g, Len(g)) - Len(g) <= Len(h)
         /\ Len(g) = HeaderLength(g, Len(g)) => h = <<>> /\ g = HeaderOf(f, form)
<1> DEFINE H == HeaderOf(f, form)
<1>1. /\ H \in Seq(Bytes) /\ Len(H) = 2 + LengthTakes(H) + MaskTakes(H)
      /\ LengthTakes(H) \in {0, 2, 8} /\ MaskTakes(H) \in {0, 4}
  BY HeaderReads DEF LengthTakes, MaskTakes
<1> HIDE DEF H
<1>2. Len(g) \in Nat \ {0} /\ Len(h) \in Nat /\ Len(H) = Len(g) + Len(h)
      /\ \A i \in 1 .. Len(g) + Len(h) : H[i] = IF i <= Len(g) THEN g[i] ELSE h[i - Len(g)]
  BY ConcatProperties, EmptySeq DEF H
<1>3. Len(g) >= 2 => g[2] = H[2]
  BY <1>2
<1>4. Len(g) >= 2 => LengthTakes(g) = LengthTakes(H) /\ MaskTakes(g) = MaskTakes(H)
  BY <1>3 DEF LengthTakes, MaskTakes
<1>5. HeaderLength(g, Len(g)) <= Len(H) /\ (Len(g) = HeaderLength(g, Len(g)) => Len(g) = Len(H))
  <2> DEFINE n == Len(g)
             t == LengthTakes(H)
             m == MaskTakes(H)
  <2>1. CASE n < 2
    <3>1. HeaderLength(g, n) = 2
      BY <2>1 DEF HeaderLength
    <3> HIDE DEF n, t, m
    <3>2. n \in Nat /\ t \in {0, 2, 8} /\ m \in {0, 4} /\ Len(H) = 2 + t + m
      BY <1>1, <1>2 DEF n, t, m
    <3>3. HeaderLength(g, n) <= Len(H) /\ n # HeaderLength(g, n)
      BY <2>1, <3>1, <3>2
    <3>4. QED BY <3>3 DEF n
  <2>2. CASE ~(n < 2)
    <3>1. HeaderLength(g, n) = IF n < 2 + t THEN 2 + t ELSE 2 + t + m
      BY <1>2, <1>4, <2>2 DEF HeaderLength
    <3> HIDE DEF n, t, m
    <3>2. n \in Nat /\ t \in {0, 2, 8} /\ m \in {0, 4} /\ Len(H) = 2 + t + m
      BY <1>1, <1>2 DEF n, t, m
    <3>3. HeaderLength(g, n) <= Len(H) /\ (n = HeaderLength(g, n) => n = Len(H))
      BY <3>1, <3>2
    <3>4. QED BY <3>3 DEF n
  <2>3. QED BY <2>1, <2>2
<1>6. HeaderLength(g, Len(g)) \in 2 .. MAX_HEADER_SIZE
  BY <1>2, HeaderLengthBound
<1>7. HeaderLength(g, Len(g)) - Len(g) <= Len(h)
  BY <1>2, <1>5, <1>6 DEF MAX_HEADER_SIZE
<1>8. ASSUME Len(g) = HeaderLength(g, Len(g)) PROVE h = <<>> /\ g = H
  <2>1. Len(h) = 0
    BY <1>2, <1>5, <1>8
  <2>2. h = <<>>
    BY <2>1, EmptySeq
  <2>3. QED BY <2>2, ConcatEmptySeq DEF H
<1>9. QED BY <1>7, <1>8 DEF H
LEMMA CallbackFramed ==
  ASSUME Framed, ~cut, UNCHANGED <<sent, cut>>, status = "CONNECTED",
         NEW f \in Frames, NEW form \in AnyForm, Allowed(f, form),
         NEW g \in Seq(Bytes), g # <<>>, NEW h \in Seq(Bytes), g \o h = HeaderOf(f, form),
         NEW q \in Seq(Run), NEW gs \in Seq(Frames), <<q, gs>> \in Carried,
         sent = got \o (<<f>> \o gs),
         handleWebsocketCb(g, Len(g), Rest(h, f) \o q)
  PROVE  Framed'
<1> DEFINE size == Len(g)
           rest == Rest(h, f) \o q
           fs == <<f>> \o gs
<1>1. got \in Seq(Frames) /\ sent \in Seq(Frames) /\ <<f>> \in Seq(Frames) /\ fs \in Seq(Frames)
  <2>1. <<f>> \in Seq(Frames)
    OBVIOUS
  <2>2. QED BY <2>1, ConcatProperties DEF Framed
<1>2. /\ HeaderLength(g, size) - size <= Len(h)
      /\ size = HeaderLength(g, size) => h = <<>> /\ g = HeaderOf(f, form)
  BY HeaderPrefix
<1>3. Rest(h, f) \in Seq(Run) /\ f.length \in Nat
  BY RestType, WsFramesAssumption DEF Frames
<1>4. ASSUME got' = got, Pending(fs)' PROVE Framed'
  BY <1>1, <1>4 DEF Framed
<1>5. CASE Stop /\ UNCHANGED got
  BY <1>4, <1>5 DEF Stop, Pending
<1>0. CASE ReturnsEarly(g, size, rest)
  BY <1>0, <1>4 DEF ReturnsEarly, Pending
<1>6. CASE /\ size < HeaderLength(g, size) /\ readCb' = handleWebsocketWaitFor(g, size)
           /\ wire' = rest /\ cWsHeader' = g /\ UNCHANGED <<up, status, got>>
  <2>1. readCb'.for = "header" /\ readCb'.left = HeaderLength(g, size) - size
    BY <1>6 DEF handleWebsocketWaitFor, Waiting
  <2>2. Len(h) >= readCb'.left
    <3>1. Len(h) \in Nat /\ size \in Nat /\ HeaderLength(g, size) \in 2 .. MAX_HEADER_SIZE
      BY HeaderLengthBound
    <3>2. QED BY <1>2, <2>1, <3>1 DEF MAX_HEADER_SIZE
  <2>3. Inside(f, form, Rest(h, f))'
    BY <1>6, <2>1, <2>2 DEF Inside
  <2>4. Pending(fs)'
    BY <1>3, <1>6, <2>3 DEF Pending
  <2>5. QED BY <1>4, <1>6, <2>4
<1>7. CASE ~TooBig(g, size) /\ size = HeaderLength(g, size) /\ ~ReturnsEarly(g, size, rest)
  <2>1. h = <<>> /\ g = HeaderOf(f, form)
    BY <1>2, <1>7
  <2>2. payloadLen(g) \in 0 .. MAX_DATA_SIZE
    BY <1>7, PayloadFits
  <2>3. payloadLen(g) = f.length /\ Header(g) = f
    BY <2>1, <2>2, HeaderReads, WsFramesAssumption
  <2>4. Rest(h, f) = IF f.length = 0 THEN <<>> ELSE <<[n |-> f.length, byte |-> Unknown]>>
    <3> DEFINE last == IF f.length = 0 THEN <<>> ELSE <<[n |-> f.length, byte |-> Unknown]>>
    <3>1. [i \in DOMAIN h |-> [n |-> 1, byte |-> h[i]]] = <<>>
      BY <2>1
    <3>2. last \in Seq(Run)
      <4>1. CASE f.length = 0
        BY <4>1, EmptySeq
      <4>2. CASE f.length # 0
        <5>1. [n |-> f.length, byte |-> Unknown] \in Run
          BY <1>3, <4>2 DEF Run, Unknown
        <5>2. QED BY <4>2, <5>1
      <4>3. QED BY <4>1, <4>2
    <3>3. Rest(h, f) = <<>> \o last
      BY <3>1 DEF Rest
    <3> HIDE DEF last
    <3>4. Rest(h, f) = last
      BY <3>2, <3>3, ConcatEmptySeq
    <3>5. QED BY <3>4 DEF last
  <2>5. CASE /\ readCb' = Waiting("payload", payloadLen(g)) /\ payloadLen(g) > 0
             /\ wire' = rest /\ cWsHeader' = g /\ UNCHANGED <<up, status, got>>
    <3>1. readCb'.for = "payload" /\ readCb'.left = f.length /\ f.length # 0
      BY <2>2, <2>3, <2>5 DEF Waiting
    <3>2. payloadLen(cWsHeader)' = payloadLen(g) /\ payloadLen(g) <= MAX_DATA_SIZE
      BY <2>2, <2>5, WsFramesAssumption DEF payloadLen, LengthTakes
    <3>3. Inside(f, form, Rest(h, f))'
      BY <2>1, <2>3, <2>4, <2>5, <3>1, <3>2 DEF Inside
    <3>4. Pending(fs)'
      BY <1>3, <2>5, <3>3 DEF Pending
    <3>5. QED BY <1>4, <2>5, <3>4
  <2>6. CASE payloadLen(g) = 0 /\ handleWebsocketPayloadCb(g, rest)
    <3>1. rest = q
      BY <2>3, <2>4, <2>6, ConcatEmptySeq
    <3>2. QED BY <1>1, <2>3, <2>6, <3>1, PayloadCbFramed
  <2>7. QED BY <1>7, <2>2, <2>5, <2>6, WsFramesAssumption DEF handleWebsocketCb
<1>8. QED BY <1>0, <1>5, <1>6, <1>7 DEF handleWebsocketCb

LEMMA KnownBytes == \A b \in Bytes : b # Unknown
BY DEF Bytes, Unknown

LEMMA ReadHeaderFramed ==
  ASSUME IInv, Framed, ReadHeader
  PROVE  Framed'
<1>1. /\ readCb.for = "header" /\ readCb.left \in 1 .. MAX_HEADER_SIZE /\ readCb # NoRead
      /\ up /\ status = "CONNECTED" /\ cWsHeader \in Seq(Bytes) /\ UNCHANGED <<sent, cut>>
  BY DEF ReadHeader, Present, IInv, TypeOK, Bytes, NoRead, Waiting
<1>2. CASE cut
  BY <1>1, <1>2 DEF Framed
<1>3. CASE ~cut
  <2>1. PICK fs \in Seq(Frames) : sent = got \o fs /\ Pending(fs)
    BY <1>3 DEF Framed
  <2>2. PICK f \in Frames, form \in AnyForm, front \in Seq(Run), q \in Seq(Run), gs \in Seq(Frames) :
          /\ Allowed(f, form) /\ fs = <<f>> \o gs /\ wire = front \o q /\ <<q, gs>> \in Carried
          /\ Inside(f, form, front)
    BY <1>1, <2>1 DEF Pending
  <2>3. PICK h \in Seq(Bytes) :
          cWsHeader \o h = HeaderOf(f, form) /\ Len(h) >= readCb.left /\ front = Rest(h, f)
    BY <1>1, <2>2 DEF Inside
  <2>4. h # <<>>
    <3>1. Len(h) # 0
      BY <1>1, <2>3
    <3>2. QED BY <3>1
  <2> DEFINE x == [n |-> 1, byte |-> Head(h)]
             t == Tail(h)
             g == Append(cWsHeader, Head(h))
             rest == Rest(t, f) \o q
  <2>5. front = <<x>> \o Rest(t, f) /\ x \in Run /\ Head(h) \in Bytes /\ t \in Seq(Bytes)
    BY <2>3, <2>4, RestNext
  <2>6. Rest(t, f) \in Seq(Run) /\ rest \in Seq(Run)
    <3> HIDE DEF t
    <3>1. Rest(t, f) \in Seq(Run)
      BY <2>5, RestType
    <3>2. QED BY <3>1, ConcatProperties
  <2>7. Head(wire) = x /\ Without(1) = rest
    <3> DEFINE r == Rest(t, f)
    <3>1. r \in Seq(Run) /\ rest = r \o q /\ rest \in Seq(Run)
      BY <2>6
    <3>2. x \in Run /\ wire = (<<x>> \o r) \o q /\ <<x>> \in Seq(Run) /\ x.n = 1
      BY <2>2, <2>5
    <3> HIDE DEF r, x, rest
    <3>3. wire = <<x>> \o rest
      BY <3>1, <3>2, RunsAssociate
    <3>4. Head(wire) = x /\ Tail(wire) = rest
      BY <3>1, <3>2, <3>3, HeadOfConcat
    <3>5. QED BY <3>2, <3>4 DEF Without
  <2>8. g \in Seq(Bytes) /\ g # <<>> /\ g \o t = HeaderOf(f, form)
    <3>1. h = <<Head(h)>> \o t /\ <<Head(h)>> \in Seq(Bytes)
      BY <2>4, HeadAndTail
    <3>2. g = cWsHeader \o <<Head(h)>>
      BY <1>1, <2>5, AppendIs
    <3>3. g \in Seq(Bytes) /\ Len(g) = Len(cWsHeader) + 1
      BY <1>1, <2>5
    <3>4. g # <<>>
      <4>1. Len(g) # 0
        BY <1>1, <3>3
      <4>2. QED BY <4>1, EmptySeq
    <3>5. g \o t = cWsHeader \o h
      <4> DEFINE u == <<Head(h)>>
      <4>1. u \in Seq(Bytes) /\ g = cWsHeader \o u /\ h = u \o t /\ t \in Seq(Bytes)
        BY <2>5, <3>1, <3>2
      <4> HIDE DEF u, t, g
      <4>2. (cWsHeader \o u) \o t = cWsHeader \o (u \o t)
        <5>1. cWsHeader \in Seq(Bytes) /\ u \in Seq(Bytes) /\ t \in Seq(Bytes)
          BY <1>1, <4>1
        <5>2. QED BY <5>1, BytesAssociate
      <4>3. QED BY <4>1, <4>2
    <3> HIDE DEF t
    <3>6. QED BY <2>3, <3>3, <3>4, <3>5
  <2>9. PICK b \in IF Head(wire).byte = Unknown THEN Noise ELSE {Head(wire).byte} :
          IF readCb.left > 1
          THEN /\ readCb' = [readCb EXCEPT !.left = @ - 1]
               /\ cWsHeader' = WithNext(b) /\ wire' = Without(1)
               /\ UNCHANGED <<up, status, cWsRXsize, got>>
          ELSE handleWebsocketCb(WithNext(b), Len(WithNext(b)), Without(1))
    BY DEF ReadHeader
  <2>10. b = Head(h) /\ WithNext(b) = g
    <3>1. Head(wire).byte = Head(h) /\ Head(h) # Unknown
      <4>1. x.byte = Head(h)
        OBVIOUS
      <4> HIDE DEF x
      <4>2. Head(wire) = x
        BY <2>7
      <4>3. Head(h) # Unknown
        <5>1. Head(h) \in Bytes
          BY <2>5
        <5>2. QED BY <5>1, KnownBytes
      <4>4. QED BY <4>1, <4>2, <4>3
    <3>2. QED BY <2>9, <3>1 DEF WithNext
  <2>11. CASE readCb.left > 1
    <3>1. readCb' = Waiting("header", readCb.left - 1)
      BY <1>1, <2>9, <2>11 DEF IInv, ReadShape, Waiting
    <3>2. readCb'.for = "header" /\ readCb'.left = readCb.left - 1
      BY <3>1 DEF Waiting
    <3>3. Len(t) >= readCb'.left
      <4>1. Len(t) = Len(h) - 1 /\ Len(h) \in Nat
        BY <2>4, HeadAndTail
      <4>2. QED BY <1>1, <2>3, <3>2, <4>1
    <3>4. Inside(f, form, Rest(t, f))'
      BY <2>5, <2>8, <2>9, <2>10, <2>11, <3>2, <3>3 DEF Inside
    <3>5. wire' = Rest(t, f) \o q
      BY <2>7, <2>9, <2>11
    <3>6. Pending(fs)'
      BY <2>2, <2>6, <3>4, <3>5 DEF Pending
    <3>7. QED BY <1>1, <1>3, <2>1, <2>9, <2>11, <3>6 DEF Framed
  <2>12. CASE ~(readCb.left > 1)
    <3>1. handleWebsocketCb(g, Len(g), Rest(t, f) \o q)
      BY <2>7, <2>9, <2>10, <2>12
    <3> HIDE DEF g, t
    <3>2. QED BY <1>1, <1>3, <2>1, <2>2, <2>5, <2>8, <3>1, CallbackFramed
  <2>13. QED BY <2>11, <2>12
<1>4. QED BY <1>2, <1>3

LEMMA ReadPayloadFramed ==
  ASSUME IInv, Framed, ReadPayload
  PROVE  Framed'
<1>1. /\ readCb.for = "payload" /\ readCb.left \in 1 .. MAX_DATA_SIZE /\ readCb # NoRead
      /\ up /\ status = "CONNECTED" /\ UNCHANGED <<sent, cut>>
  BY DEF ReadPayload, Present, IInv, TypeOK, NoRead, Waiting
<1>2. CASE cut
  BY <1>1, <1>2 DEF Framed
<1>3. CASE ~cut
  <2>1. PICK fs \in Seq(Frames) : sent = got \o fs /\ Pending(fs)
    BY <1>3 DEF Framed
  <2>2. PICK f \in Frames, form \in AnyForm, front \in Seq(Run), q \in Seq(Run), gs \in Seq(Frames) :
          /\ Allowed(f, form) /\ fs = <<f>> \o gs /\ wire = front \o q /\ <<q, gs>> \in Carried
          /\ Inside(f, form, front)
    BY <1>1, <2>1 DEF Pending
  <2> DEFINE x == [n |-> readCb.left, byte |-> Unknown]
  <2>3. /\ cWsHeader = HeaderOf(f, form) /\ payloadLen(cWsHeader) = f.length
        /\ payloadLen(cWsHeader) <= MAX_DATA_SIZE /\ front = <<x>>
    BY <1>1, <2>2 DEF Inside
  <2>4. readCb.left \in Nat \ {0}
    BY <1>1, WsFramesAssumption
  <2>5. x \in Run
    BY <2>4 DEF Run, Unknown
  <2>6. Head(wire) = x /\ Tail(wire) = q /\ Head(wire).n = readCb.left
    <3>1. wire = <<x>> \o q /\ x.n = readCb.left
      BY <2>2, <2>3
    <3> HIDE DEF x
    <3>2. QED BY <2>5, <3>1, HeadOfConcat
  <2>7. PICK k \in {readCb.left - 1, readCb.left} \ {0} :
          IF k < readCb.left
          THEN /\ readCb' = [readCb EXCEPT !.left = @ - k]
               /\ wire' = Without(k)
               /\ UNCHANGED <<up, status, cWsRXsize, cWsHeader, got>>
          ELSE handleWebsocketPayloadCb(cWsHeader, Without(k))
    <3>1. (IF Head(wire).n < readCb.left THEN Head(wire).n ELSE readCb.left) = readCb.left
      BY <2>6
    <3>2. QED BY <3>1 DEF ReadPayload
  <2>8. CASE k < readCb.left
    <3>0. PICK y : y = [n |-> readCb.left - k, byte |-> Unknown]
      OBVIOUS
    <3>1. readCb' = Waiting("payload", readCb.left - k)
      BY <1>1, <2>7, <2>8 DEF IInv, ReadShape, Waiting
    <3>2. readCb'.for = "payload" /\ readCb'.left = readCb.left - k
      BY <3>1 DEF Waiting
    <3>3. y \in Run
      BY <2>4, <2>7, <2>8, <3>0 DEF Run, Unknown
    <3>4. Without(k) = <<y>> \o q
      <4>1. Head(wire).n # k
        BY <2>4, <2>6, <2>7, <2>8
      <4>2. [Head(wire) EXCEPT !.n = @ - k] = y
        BY <2>6, <3>0
      <4>3. QED BY <2>6, <4>1, <4>2 DEF Without
    <3>5. payloadLen(cWsHeader)' = payloadLen(cWsHeader)
      BY <2>7, <2>8 DEF payloadLen, LengthTakes
    <3>6. Inside(f, form, <<y>>)'
      <4>1. cWsHeader' = HeaderOf(f, form) /\ payloadLen(cWsHeader)' = f.length
            /\ payloadLen(cWsHeader)' <= MAX_DATA_SIZE
        BY <2>3, <2>7, <2>8, <3>5
      <4>2. <<y>> = <<[n |-> readCb'.left, byte |-> Unknown]>>
        BY <3>0, <3>2
      <4>3. QED BY <3>2, <4>1, <4>2 DEF Inside
    <3>7. Pending(fs)'
      <4>1. <<y>> \in Seq(Run) /\ wire' = <<y>> \o q
        BY <2>7, <2>8, <3>3, <3>4
      <4>2. QED BY <2>2, <3>6, <4>1 DEF Pending
    <3>8. QED BY <1>1, <1>3, <2>1, <2>7, <2>8, <3>7 DEF Framed
  <2>9. CASE ~(k < readCb.left)
    <3>1. Without(k) = q
      BY <2>4, <2>6, <2>7, <2>9 DEF Without
    <3>2. Header(cWsHeader) = f
      BY <1>1, <2>2, <2>3, HeaderReads
    <3>3. QED BY <1>1, <1>3, <2>1, <2>2, <2>7, <2>9, <3>1, <3>2, PayloadCbFramed DEF Framed
  <2>10. QED BY <2>8, <2>9
<1>4. QED BY <1>2, <1>3

(* Nothing that is read has changed. *)
LEMMA StillFramed ==
  ASSUME Framed, up' => up, UNCHANGED <<wire, sent, cut, reader>>
  PROVE  Framed'
<1>1. /\ wire' = wire /\ sent' = sent /\ cut' = cut /\ status' = status
      /\ cWsHeader' = cWsHeader /\ readCb' = readCb /\ got' = got
  BY DEF reader
<1>2. payloadLen(cWsHeader)' = payloadLen(cWsHeader)
  BY <1>1 DEF payloadLen, LengthTakes
<1>3. ASSUME NEW f, NEW form, NEW front, Inside(f, form, front)
      PROVE  Inside(f, form, front)'
  BY <1>1, <1>2, <1>3 DEF Inside
<1>4. ASSUME NEW fs, Pending(fs) PROVE Pending(fs)'
  BY <1>1, <1>3, <1>4 DEF Pending
<1>5. QED BY <1>1, <1>4 DEF Framed

LEMMA StepFramed == IInv /\ Framed /\ [Next]_vars => Framed'
<1> SUFFICES ASSUME IInv, Framed, [Next]_vars PROVE Framed'
  OBVIOUS
<1>1. ASSUME NEW f \in Frames, SendPartOfFrame(f) PROVE Framed'
  <2>1. Append(sent, f) \in Seq(Frames)
    BY DEF Framed
  <2>2. QED BY <1>1, <2>1 DEF SendPartOfFrame, Framed
<1>2. ASSUME NEW f \in Frames, NEW form \in Forms, SendFrame(f, form) PROVE Framed'
  BY <1>2, SendFramed
<1>3. CASE LoseConnection
  BY <1>3, StillFramed DEF LoseConnection
<1>4. CASE handleWebsocket
  BY <1>4, BeginFramed
<1>5. CASE ReadHeader
  BY <1>5, ReadHeaderFramed
<1>6. CASE ReadPayload
  BY <1>6, ReadPayloadFramed
<1>7. CASE ReadFails \/ GiveUp
  BY <1>7, StopFramed DEF ReadFails, GiveUp, clientDisconnect
<1>8. CASE headerDone
  <2>1. readCb' = NoRead /\ wire' = <<>> /\ sent' = <<>> /\ got' = <<>> /\ status' = "CONNECTED"
    BY <1>8 DEF headerDone, IInv, TypeOK
  <2>2. <<>> \in Seq(Frames) /\ <<>> = <<>> \o <<>> /\ <<<<>>, <<>>>> \in Carried
    BY EmptySeq, ConcatEmptySeq, CarriedIsClosed DEF Closed
  <2>3. QED BY <2>1, <2>2 DEF Framed, Pending
<1>9. CASE UNCHANGED vars
  BY <1>9, StillFramed DEF vars, link
<1>10. QED BY <1>1, <1>2, <1>3, <1>4, <1>5, <1>6, <1>7, <1>8, <1>9 DEF Next, Reader

(* As long as no write() timed out, the frames that are handled are those  *)
(* that were sent, in order, whole and none left out, whatever lengths and *)
(* forms of a length they have and in whatever pieces their bytes come:    *)
(* handleWebsocketCb() and handleWebsocketWaitFor() agree with sendFrame().*)
THEOREM StaysInStep == Spec => []InStep
<1>1. Framed => InStep
  <2> SUFFICES ASSUME Framed, ~cut PROVE IsPrefix(got, sent)
    BY DEF InStep
  <2>1. PICK fs \in Seq(Frames) : sent = got \o fs /\ got \in Seq(Frames)
    BY DEF Framed
  <2>2. /\ Len(sent) = Len(got) + Len(fs) /\ Len(got) \in Nat /\ Len(fs) \in Nat
        /\ \A i \in 1 .. Len(got) : sent[i] = got[i]
    <3>1. Len(got) \in Nat /\ Len(fs) \in Nat
      BY <2>1
    <3>2. QED BY <2>1, <3>1, ConcatProperties
  <2>3. SubSeq(sent, 1, Len(got)) = SubSeq(got, 1, Len(got))
    BY <2>2
  <2>4. QED BY <2>2, <2>3 DEF IsPrefix
<1>2. QED BY <1>1, InitIInv, StepIInv, InitFramed, StepFramed, PTL DEF Spec
=============================================================================
