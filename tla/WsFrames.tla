------------------------------ MODULE WsFrames ------------------------------
(***************************************************************************)
(* The frames of a WebSocket connection, src/web/WebSockets.cpp: the       *)
(* header that sendFrame() writes and the reader that takes it apart       *)
(* (handleWebsocket, handleWebsocketWaitFor, handleWebsocketCb, readCb and *)
(* handleWebsocketPayloadCb), one direction of one connection after        *)
(* another.                                                                *)
(*                                                                         *)
(* The header is kept byte by byte.  Of a payload only the number of bytes *)
(* is kept: the wire is a sequence of runs of bytes, and a byte of a       *)
(* payload that is read where a header is expected can be any of Noise.    *)
(* Bytes arrive when the network likes: a read that waits may be given the *)
(* next byte, run into WEBSOCKETS_TCP_TIMEOUT or lose the connection.      *)
(***************************************************************************)
EXTENDS Integers, Sequences, SequencesExt

CONSTANTS
  MAX_DATA_SIZE,  (* WEBSOCKETS_MAX_DATA_SIZE                              *)
  Lengths,        (* payload lengths that are sent                         *)
  Opcodes,        (* opcodes that are sent                                 *)
  Forms,          (* forms a peer may write a length in: "best" is what    *)
                  (* sendFrame() writes, another library may use "16", "64"*)
                  (* and lengths of more than 32 bits: "huge"              *)
  Noise,          (* bytes of a payload, where they are told apart         *)
  Server,         (* the reader is the server's                            *)
  MaxFrames       (* bound: frames sent on one connection                  *)

MAX_HEADER_SIZE == 14

ASSUME WsFramesAssumption ==
  /\ MAX_DATA_SIZE \in Nat /\ Lengths \subseteq Nat /\ Opcodes \subseteq 0 .. 15
  /\ Noise \subseteq 0 .. 255 /\ Server \in BOOLEAN /\ MaxFrames \in Nat
  /\ Forms \subseteq {"best", "16", "64", "huge"}

(* a size_t has 32 bits, and a message of 2^24 bytes is always too big     *)
ASSUME WsLengthsAssumption ==
  MAX_DATA_SIZE < 256 ^ 3 /\ \A length \in Lengths : length \div 256 ^ 3 < 256

WSop_text == 1
WSop_binary == 2
WSop_continuation == 0
WSop_close == 8
WSop_ping == 9
WSop_pong == 10

VARIABLES
  up,         (* tcp->connected(), at both ends                            *)
  wire,       (* runs of bytes written and not read                        *)
  status,     (* the reader's status                                       *)
  cWsRXsize,
  cWsHeader,  (* the bytes of the header read so far; what an earlier one  *)
              (* left behind them in the array is not kept                 *)
  readCb,     (* the read that waits: for "header" or "payload" and how    *)
              (* many bytes are still to come; for "nothing" between calls *)
  sent, got,  (* history: the frames written and the frames handled        *)
  cut         (* history: a write() ran into its timeout                   *)

link == <<up, wire, sent, cut>>
reader == <<status, cWsRXsize, cWsHeader, readCb, got>>
vars == <<link, reader>>

Waiting(for, left) == [for |-> for, left |-> left]
NoRead == Waiting("nothing", 0)

-----------------------------------------------------------------------------
(* sendFrame() *)
SevenBitsTo126(length) ==   \* defect: one too many in the short form
  IF length <= 126 THEN 7 ELSE IF length < 65535 THEN 16 ELSE 64
LengthBits(length) ==
  IF length < 126 THEN 7 ELSE IF length < 65535 THEN 16 ELSE 64

Byte(n, i) == (n \div 256 ^ i) % 256

ExtendedLength(bits, length) ==
  CASE bits = 7  -> <<>>
    [] bits = 16 -> <<Byte(length, 1), Byte(length, 0)>>
    [] bits = 64 -> <<0, 0, 0, 0, Byte(length, 3), Byte(length, 2), Byte(length, 1), Byte(length, 0)>>

Marker(bits, length) == CASE bits = 7 -> length [] bits = 16 -> 126 [] bits = 64 -> 127

maskKey == <<1, 2, 3, 4>>

FrameHeader(f, bits) ==
  <<128 * f.fin + f.opcode, 128 * f.mask + Marker(bits, f.length)>>
    \o ExtendedLength(bits, f.length)
    \o (IF f.mask = 1 THEN maskKey ELSE <<>>)

(* a length of which the upper 32 bits are not 0, as only a peer writes it *)
HugeHeader(f) == <<128 * f.fin + f.opcode, 128 * f.mask + 127, 0, 0, 1, 0, 0, 0, 0, 0>>
                   \o (IF f.mask = 1 THEN maskKey ELSE <<>>)

HeaderOf(f, form) ==
  CASE form = "best" -> FrameHeader(f, LengthBits(f.length))
    [] form = "16"   -> FrameHeader(f, 16)
    [] form = "64"   -> FrameHeader(f, 64)
    [] form = "huge" -> HugeHeader(f)

Unknown == 256   (* some byte of a payload *)
HeaderRuns(f, form) ==
  [i \in DOMAIN HeaderOf(f, form) |-> [n |-> 1, byte |-> HeaderOf(f, form)[i]]]
PayloadRun(length) == IF length = 0 THEN <<>> ELSE <<[n |-> length, byte |-> Unknown]>>
Written(f, form) == HeaderRuns(f, form) \o PayloadRun(f.length)

Frames == [fin : {1}, opcode : Opcodes, mask : {0, 1}, length : Lengths]

(* every sendXXX() sends whole messages; a client masks its frames, and    *)
(* the pong of either side is masked                                       *)
SendFrame(f, form) ==
  /\ up /\ status = "CONNECTED" /\ Len(sent) < MaxFrames
  /\ form = "16" => f.length < 65536
  /\ wire' = wire \o Written(f, form)
  /\ sent' = Append(sent, f)
  /\ UNCHANGED <<up, cut, reader>>

(* write() gives up after the timeout: what was written of the frame stays *)
(* on the wire, and the connection stays.  Header and payload are written  *)
(* by two calls, and the second is made whatever came of the first: of     *)
(* each, none, a part or all may have gone out.                            *)
SendPartOfFrame(f) ==
  /\ up /\ status = "CONNECTED" /\ Len(sent) < MaxFrames
  /\ \E k \in 0 .. Len(HeaderOf(f, "best")), length \in {0, f.length - 1, f.length} \cap Nat :
       /\ k < Len(HeaderOf(f, "best")) \/ length < f.length
       /\ wire' = wire \o SubSeq(HeaderRuns(f, "best"), 1, k) \o PayloadRun(length)
  /\ sent' = Append(sent, f) /\ cut' = TRUE
  /\ UNCHANGED <<up, reader>>

LoseConnection == up /\ up' = FALSE /\ UNCHANGED <<wire, sent, cut, reader>>

-----------------------------------------------------------------------------
(* handleWebsocketCb() starts again from the first byte of the header h    *)
(* after every read; size bytes of it are there                            *)
LengthTakes(h) == IF h[2] % 128 = 126 THEN 2 ELSE IF h[2] % 128 = 127 THEN 8 ELSE 0
MaskTakes(h) == IF h[2] >= 128 THEN 4 ELSE 0

payloadLen(h) ==
  CASE LengthTakes(h) = 0 -> h[2] % 128
    [] LengthTakes(h) = 2 -> 256 * h[3] + h[4]
    [] LengthTakes(h) = 8 -> IF \E i \in 3 .. 7 : h[i] # 0 THEN MAX_DATA_SIZE + 1
                             ELSE 65536 * h[8] + 256 * h[9] + h[10]

NeverTooBig(h, size) == FALSE   \* defect: the length is not checked
TooBig(h, size) == size >= 2 + LengthTakes(h) /\ payloadLen(h) > MAX_DATA_SIZE

HeaderLength(h, size) ==
  IF size < 2 THEN 2
  ELSE IF size < 2 + LengthTakes(h) THEN 2 + LengthTakes(h)
  ELSE 2 + LengthTakes(h) + MaskTakes(h)

Header(h) == [fin |-> h[1] \div 128, opcode |-> h[1] % 16, mask |-> h[2] \div 128,
              length |-> payloadLen(h)]

(* clientDisconnect() of the base and of the class; the server's also      *)
(* starts the next header afresh                                           *)
Stop ==
  /\ up' = FALSE /\ wire' = <<>> /\ status' = "NOT_CONNECTED"
  /\ readCb' = NoRead /\ cWsHeader' = <<>>
clientDisconnect == Stop /\ cWsRXsize' = IF Server THEN 0 ELSE cWsRXsize

IsMessage(opcode) == opcode \in {WSop_text, WSop_binary, WSop_continuation}
IsClose(opcode) == ~IsMessage(opcode) /\ opcode \notin {WSop_ping, WSop_pong}

(* all of the payload is there and rest is left on the wire: the sketch    *)
(* gets the message, and may disconnect in its callback                    *)
PayloadKeepsSize(h, rest) ==   \* defect: the next header is not started afresh
  /\ got' = Append(got, Header(h))
  /\ UNCHANGED <<up, status, cWsRXsize>>
  /\ wire' = rest /\ readCb' = NoRead /\ cWsHeader' = <<>>
handleWebsocketPayloadCb(h, rest) ==
  /\ got' = Append(got, Header(h))
  /\ cWsRXsize' = 0
  /\ \/ /\ ~IsClose(Header(h).opcode) /\ UNCHANGED <<up, status>>
        /\ wire' = rest /\ readCb' = NoRead /\ cWsHeader' = <<>>
     \/ Header(h).opcode \notin {WSop_ping, WSop_pong} /\ Stop

WaitForAll(h, size) == Waiting("header", HeaderLength(h, size))   \* defect: from the start
handleWebsocketWaitFor(h, size) == Waiting("header", HeaderLength(h, size) - size)

(* The connection is lost before the callback's first test of it or before *)
(* a later one in handleWebsocketWaitFor(): it returns, and nothing waits. *)
ReturnsEarly(h, size, rest) ==
  /\ up' = FALSE /\ readCb' = NoRead
  /\ cWsRXsize' = size /\ wire' = rest /\ cWsHeader' = h /\ UNCHANGED <<status, got>>

handleWebsocketCb(h, size, rest) ==
  \/ ReturnsEarly(h, size, rest)
  \/ /\ TooBig(h, size)
     /\ Stop /\ cWsRXsize' = (IF Server THEN 0 ELSE size) /\ UNCHANGED got
  \/ /\ ~TooBig(h, size) /\ size < HeaderLength(h, size)
     /\ readCb' = handleWebsocketWaitFor(h, size)
     /\ cWsRXsize' = size /\ wire' = rest /\ cWsHeader' = h /\ UNCHANGED <<up, status, got>>
  \/ /\ ~TooBig(h, size) /\ size = HeaderLength(h, size) /\ payloadLen(h) > 0
     /\ readCb' = Waiting("payload", payloadLen(h))
     /\ cWsRXsize' = size /\ wire' = rest /\ cWsHeader' = h /\ UNCHANGED <<up, status, got>>
  \/ /\ ~TooBig(h, size) /\ size = HeaderLength(h, size) /\ payloadLen(h) = 0
     /\ handleWebsocketPayloadCb(h, rest)

-----------------------------------------------------------------------------
(* The steps of the reader *)
Present == up /\ status = "CONNECTED"

(* loop() finds bytes; a connection lost before handleWebsocketCb() tests  *)
(* it is LoseConnection: the early return changes nothing                  *)
handleWebsocket ==
  /\ Present /\ readCb = NoRead /\ wire # <<>>
  /\ cWsRXsize = 0
  /\ readCb' = handleWebsocketWaitFor(cWsHeader, 0)
  /\ UNCHANGED <<link, status, cWsRXsize, cWsHeader, got>>

Without(k) ==
  IF Head(wire).n = k THEN Tail(wire) ELSE <<[Head(wire) EXCEPT !.n = @ - k]>> \o Tail(wire)

(* the next byte, after what was read of this header before                *)
WithNext(b) == Append(cWsHeader, b)
ReadHeader ==
  /\ Present /\ readCb.for = "header" /\ wire # <<>>
  /\ \E b \in IF Head(wire).byte = Unknown THEN Noise ELSE {Head(wire).byte} :
       IF readCb.left > 1
       THEN /\ readCb' = [readCb EXCEPT !.left = @ - 1]
            /\ cWsHeader' = WithNext(b) /\ wire' = Without(1)
            /\ UNCHANGED <<up, status, cWsRXsize, got>>
       ELSE handleWebsocketCb(WithNext(b), Len(WithNext(b)), Without(1))
  /\ UNCHANGED <<sent, cut>>

(* a payload may come in pieces: the last byte of a run may be late        *)
ReadPayload ==
  /\ Present /\ readCb.for = "payload" /\ wire # <<>>
  /\ LET most == IF Head(wire).n < readCb.left THEN Head(wire).n ELSE readCb.left IN
     \E k \in {most - 1, most} \ {0} :
       IF k < readCb.left
       THEN /\ readCb' = [readCb EXCEPT !.left = @ - k]
            /\ wire' = Without(k)
            /\ UNCHANGED <<up, status, cWsRXsize, cWsHeader, got>>
       ELSE handleWebsocketPayloadCb(cWsHeader, Without(k))
  /\ UNCHANGED <<sent, cut>>

(* readCb() gives up: no byte within the timeout, or no connection         *)
ReadFails ==
  /\ readCb # NoRead
  /\ Stop
  /\ cWsRXsize' = IF readCb.for = "header" \/ Server THEN 0 ELSE cWsRXsize
  /\ UNCHANGED <<sent, cut, got>>

(* clientIsConnected() in loop(), or disconnect() of the sketch            *)
GiveUp ==
  /\ status = "CONNECTED" /\ readCb = NoRead
  /\ clientDisconnect
  /\ UNCHANGED <<sent, cut, got>>

(* the next connection, once its HTTP header is done                       *)
headerDoneOnly ==   \* defect: what was read of a header stays
  /\ status = "NOT_CONNECTED"
  /\ status' = "CONNECTED"
  /\ up' = TRUE /\ wire' = <<>> /\ sent' = <<>> /\ got' = <<>> /\ cut' = FALSE
  /\ UNCHANGED <<cWsRXsize, cWsHeader, readCb>>
headerDone ==
  /\ status = "NOT_CONNECTED"
  /\ status' = "CONNECTED" /\ cWsRXsize' = 0
  /\ up' = TRUE /\ wire' = <<>> /\ sent' = <<>> /\ got' = <<>> /\ cut' = FALSE
  /\ UNCHANGED <<cWsHeader, readCb>>

Init ==
  /\ up = FALSE /\ wire = <<>> /\ sent = <<>> /\ got = <<>> /\ cut = FALSE
  /\ status = "NOT_CONNECTED" /\ cWsRXsize = 0 /\ readCb = NoRead
  /\ cWsHeader = <<>>

Reader == handleWebsocket \/ ReadHeader \/ ReadPayload \/ ReadFails
Lost == ~up /\ GiveUp

Next ==
  \/ \E f \in Frames : SendPartOfFrame(f) \/ \E form \in Forms : SendFrame(f, form)
  \/ LoseConnection \/ Reader \/ GiveUp \/ headerDone

Spec == Init /\ [][Next]_vars

(* loop() is called again and again; while it waits in readCb() either     *)
(* bytes come or the time is over.  Nothing is asked of the network.       *)
FairSpec == Spec /\ WF_vars(Reader) /\ WF_vars(Lost)

-----------------------------------------------------------------------------
(* The variables have their types; only a reader whose client is connected *)
(* waits for bytes, and never for more of a payload than the buffer that   *)
(* handleWebsocketCb() allocates.                                          *)
TypeOK ==
  /\ up \in BOOLEAN /\ cut \in BOOLEAN
  /\ wire \in Seq([n : Nat \ {0}, byte : 0 .. Unknown])
  /\ status \in {"NOT_CONNECTED", "CONNECTED"}
  /\ cWsRXsize \in 0 .. MAX_HEADER_SIZE
  /\ cWsHeader \in Seq(0 .. 255)
  /\ \/ readCb = NoRead
     \/ status = "CONNECTED" /\ readCb.for = "header" /\ readCb.left \in 1 .. MAX_HEADER_SIZE
     \/ status = "CONNECTED" /\ readCb.for = "payload" /\ readCb.left \in 1 .. MAX_DATA_SIZE

(* A header that comes in pieces, each read from inside the callback of    *)
(* the read before, never runs past the end of cWsHeader.                  *)
HeaderFits == readCb.for = "header" => cWsRXsize + readCb.left <= MAX_HEADER_SIZE

(* No read goes past the end of its buffer, of header or payload.          *)
BuffersHold == TypeOK /\ HeaderFits

(* While the connection stands and no read waits, the next byte will be    *)
(* looked at: handleWebsocket() does nothing for a client whose cWsRXsize  *)
(* is not 0.  A read that ends early on a lost connection leaves such a    *)
(* size, with the status CONNECTED; it does no harm because every way to   *)
(* the next connection starts the header afresh.                           *)
NotDeaf == up /\ readCb = NoRead /\ status = "CONNECTED" => cWsRXsize = 0

(* As long as every write() was completed, what the reader handles are the *)
(* frames that were sent, in order, none skipped, cut or made up: header   *)
(* and reader agree on every length, in all forms, however it arrives.     *)
InStep == ~cut => IsPrefix(got, sent)

(* The same without the condition: after a write() that timed out the      *)
(* connection goes on with the next frame in the middle of the last one.   *)
InStepAlways == IsPrefix(got, sent)

(* What is on the wire is read, or the connection is given up.             *)
Drains == wire # <<>> ~> wire = <<>>
=============================================================================
