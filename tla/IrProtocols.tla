---------------------------- MODULE IrProtocols ----------------------------
(***************************************************************************)
(* The remote control protocols of src/sensors/ir: what the send functions *)
(* of IRsend put on the air, what the timer interrupt leaves of it in      *)
(* rawbuf, and what the decoders of IRrecv make of that, in the order      *)
(* decode() tries them.  A value is the sequence of its bits, the highest  *)
(* first; times are microseconds on the air and ticks of 50us in rawbuf.   *)
(***************************************************************************)
EXTENDS Integers, Sequences
LOCAL INSTANCE SequencesExt

RAWBUF == 101
GAP_TICKS == 100
MARK_EXCESS == 100

-----------------------------------------------------------------------------
(* MATCH(), MATCH_MARK() and MATCH_SPACE(): within a quarter, cut to ticks *)
TICKS_LOW(us) == (3 * us) \div 200
TICKS_HIGH(us) == (us \div 40) + 1
MATCH(ticks, us) == TICKS_LOW(us) <= ticks /\ ticks <= TICKS_HIGH(us)
MATCH_MARK(ticks, us) == MATCH(ticks, us + MARK_EXCESS)
MATCH_SPACE(ticks, us) == MATCH(ticks, us - MARK_EXCESS)

-----------------------------------------------------------------------------
(* The send functions: pulses <<level, us>>                                *)
Mark(us) == <<"MARK", us>>
Space(us) == <<"SPACE", us>>
EachBit(bits, one, zero) ==
  [i \in 1 .. 2 * Len(bits) |->
     (IF bits[(i + 1) \div 2] = 1 THEN one ELSE zero)[((i + 1) % 2) + 1]]

(* a header, a mark before every bit's space and one at the end            *)
ByDistance(hdrMark, hdrSpace, bitMark, one, zero, bits) ==
  <<Mark(hdrMark), Space(hdrSpace)>>
  \o EachBit(bits, <<Mark(bitMark), Space(one)>>, <<Mark(bitMark), Space(zero)>>)
  \o <<Mark(bitMark)>>

sendNEC(bits) == ByDistance(9000, 4500, 560, 1690, 560, bits)
sendPanasonic(bits) == ByDistance(3502, 1750, 502, 1244, 400, bits)    (* address, data *)
sendJVC(bits) == ByDistance(8000, 4000, 600, 1600, 550, bits)
sendJVCRepeat(bits) == SubSeq(sendJVC(bits), 3, Len(sendJVC(bits)))
sendSAMSUNG(bits) == ByDistance(5000, 5000, 560, 1600, 560, bits)
sendDenon(bits) == ByDistance(300, 750, 300, 1800, 750, bits)
sendWhynter(bits) ==
  <<Mark(750), Space(750)>> \o ByDistance(2850, 2850, 750, 2150, 750, bits) \o <<Space(750)>>
sendLG(bits) ==
  <<Mark(8000), Space(4000), Mark(600)>>
  \o EachBit(bits, <<Space(1600), Mark(600)>>, <<Space(550), Mark(600)>>)
sendSony(bits) ==
  <<Mark(2400), Space(600)>>
  \o EachBit(bits, <<Mark(1200), Space(600)>>, <<Mark(600), Space(600)>>)
sendRC5(bits) ==
  <<Mark(889), Space(889), Mark(889)>>
  \o EachBit(bits, <<Space(889), Mark(889)>>, <<Mark(889), Space(889)>>)
sendRC6(bits) ==
  LET t(i) == IF i = 4 THEN 888 ELSE 444 IN
  <<Mark(2666), Space(889), Mark(444), Space(444)>>
  \o [k \in 1 .. 2 * Len(bits) |->
       LET i == (k + 1) \div 2 IN
       IF (bits[i] = 1) = (k % 2 = 1) THEN Mark(t(i)) ELSE Space(t(i))]
(* 26 bits that are always the same, 15 of the code, and a 0               *)
AiwaPre == <<1,0,0,0,1,0,0,1,1,1,1,1,1,0,1,1,1,0,1,1,0,0,0,0,0,0>>
sendAiwaRCT501(bits) ==
  ByDistance(8800, 4500, 500, 600, 1700, AiwaPre \o bits \o <<0>>)
sendDISH(bits) == ByDistance(400, 6100, 400, 1700, 2800, bits)
(* one of the three times the word is sent                                 *)
sendSharpRaw(bits) ==
  EachBit(bits, <<Mark(245), Space(1805)>>, <<Mark(245), Space(795)>>) \o <<Mark(245), Space(795)>>
(* one message of sendLegoPowerFunctions()                                 *)
sendLegoPowerFunctions(bits) ==
  <<Mark(158), Space(1026)>> \o EachBit(bits, <<Mark(158), Space(553)>>, <<Mark(158), Space(263)>>)
  \o <<Mark(158), Space(1026)>>

-----------------------------------------------------------------------------
(* What the interrupt records of a transmission: pulses of one level are   *)
(* one (no level lasts for more than two), the detector makes marks longer *)
(* and spaces shorter by its lag, and the frame ends with its last mark or *)
(* the first space over GAP_TICKS.                                         *)
Joined(pulses) ==
  LET same(i) == i \in 1 .. Len(pulses) - 1 /\ pulses[i][1] = pulses[i + 1][1]
      firsts == SelectSeq([i \in DOMAIN pulses |-> i], LAMBDA i : ~same(i - 1))
  IN [k \in DOMAIN firsts |->
        LET i == firsts[k] IN
        <<pulses[i][1], pulses[i][2] + (IF same(i) THEN pulses[i + 1][2] ELSE 0)>>]
Ticks(p, lag) == (IF p[1] = "MARK" THEN p[2] + lag ELSE p[2] - lag) \div 50
Recorded(pulses, lag) ==
  LET joined == Joined(pulses)
      ends == {i \in DOMAIN joined : joined[i][1] = "SPACE"
                                     /\ (i = Len(joined) \/ Ticks(joined[i], lag) > GAP_TICKS)}
      end == IF ends = {} THEN Len(joined) + 1 ELSE CHOOSE i \in ends : \A j \in ends : i <= j
  IN [i \in 1 .. end - 1 |-> Ticks(joined[i], lag)]

(* decode_results when a frame is complete: rawbuf[0] is the gap before    *)
(* it, and past rawlen stand the widths of earlier frames                  *)
Results(gap, widths, earlier) ==
  [rawlen |-> Len(widths) + 1,
   rawbuf |-> [k \in 0 .. RAWBUF - 1 |->
                 IF k = 0 THEN gap
                 ELSE IF k <= Len(widths) THEN widths[k]
                 ELSE IF k <= Len(earlier) THEN earlier[k] ELSE 0]]

-----------------------------------------------------------------------------
(* The decoders.  A decoder that returns false returns Nothing.            *)
Nothing == [type |-> "none", value |-> <<>>, bits |-> 0]
Decoded(type, value) == [type |-> type, value |-> value, bits |-> Len(value)]
(* a long keeps 32 bits                                                    *)
Long(value) == IF Len(value) > 32 THEN SubSeq(value, Len(value) - 31, Len(value)) ELSE value
Repeat(type) == [type |-> type, value |-> <<"REPEAT">>, bits |-> 0]

(* n bits from offset on: a mark each, then a space that tells             *)
DistanceBits(b, offset, n, bitMark, one, zero) ==
  LET space(i) == b[offset + 2 * i - 1] IN
  IF \A i \in 1 .. n : /\ MATCH_MARK(b[offset + 2 * i - 2], bitMark)
                       /\ MATCH_SPACE(space(i), one) \/ MATCH_SPACE(space(i), zero)
  THEN <<[i \in 1 .. n |-> IF MATCH_SPACE(space(i), one) THEN 1 ELSE 0]>>
  ELSE <<>>
(* the decoder's result when its checks hold and the bits can be read      *)
If(checks, bits, type) == IF checks /\ bits /= <<>> THEN Decoded(type, bits[1]) ELSE Nothing

HeadersOnly(rawlen, least) == rawlen >= 3     \* defect: enough for the header is enough
Enough(rawlen, least) == rawlen >= least

decodeNEC(r) ==
  LET b == r.rawbuf IN
  IF MATCH_MARK(b[1], 9000) /\ r.rawlen = 4 /\ MATCH_SPACE(b[2], 2250) /\ MATCH_MARK(b[3], 560)
  THEN Repeat("NEC")
  ELSE If(MATCH_MARK(b[1], 9000) /\ Enough(r.rawlen, 68) /\ MATCH_SPACE(b[2], 4500),
          DistanceBits(b, 3, 32, 560, 1690, 560), "NEC")

(* Sony, Sanyo: a space and then a mark that tells, to the end of the      *)
(* frame or a space of another length, which is counted as a bit           *)
MarkBits(r, from, spaceUs, one, zero, type) ==
  LET b == r.rawbuf
      more(p) == from + 2 * p + 1 < r.rawlen
      spaceAt(p) == MATCH_SPACE(b[from + 2 * p], spaceUs)
      markAt(p) == b[from + 2 * p + 1]
      stops == {p \in 0 .. RAWBUF : ~more(p) \/ ~spaceAt(p)}
      n == CHOOSE p \in stops : \A q \in stops : p <= q
      bits == ((IF more(n) THEN from + 2 * n + 1 ELSE from + 2 * n) - 1) \div 2
  IN IF /\ \A p \in 0 .. n - 1 : MATCH_MARK(markAt(p), one) \/ MATCH_MARK(markAt(p), zero)
        /\ bits >= 12
     THEN [type |-> type, bits |-> bits,
           value |-> Long([p \in 1 .. n |-> IF MATCH_MARK(markAt(p - 1), one) THEN 1 ELSE 0])]
     ELSE Nothing

(* The gap is in ticks, the constant it is compared with in microseconds   *)
decodeSony(r) ==
  CASE r.rawlen < 26 -> Nothing
    [] r.rawlen >= 26 /\ r.rawbuf[0] < 500 -> Repeat("SANYO")
    [] r.rawlen >= 26 /\ r.rawbuf[0] >= 500 ->
         IF MATCH_MARK(r.rawbuf[1], 2400) THEN MarkBits(r, 2, 600, 1200, 600, "SONY") ELSE Nothing

(* both halves of the header are matched as marks                          *)
decodeSanyo(r) ==
  CASE r.rawlen < 26 -> Nothing
    [] r.rawlen >= 26 /\ r.rawbuf[0] < 800 -> Repeat("SANYO")
    [] r.rawlen >= 26 /\ r.rawbuf[0] >= 800 ->
         IF MATCH_MARK(r.rawbuf[1], 3500) /\ MATCH_MARK(r.rawbuf[2], 3500)
         THEN MarkBits(r, 3, 950, 2400, 700, "SANYO") ELSE Nothing

(* a short mark, then marks that tell, each before a space; both kinds are *)
(* looked for where the frame has the other                                *)
decodeMitsubishi(r) ==
  LET b == r.rawbuf
      more(p) == 2 * p + 3 < r.rawlen
      spaceAt(p) == MATCH_SPACE(b[2 * p + 3], 350)
      stops == {p \in 0 .. RAWBUF : ~more(p) \/ ~spaceAt(p)}
      n == CHOOSE p \in stops : \A q \in stops : p <= q
      marks == IF more(n) THEN n + 1 ELSE n
  IN IF /\ r.rawlen >= 34
        /\ MATCH_MARK(b[1], 350)
        /\ \A p \in 0 .. marks - 1 : MATCH_MARK(b[2 * p + 2], 1950) \/ MATCH_MARK(b[2 * p + 2], 750)
        /\ (IF more(n) THEN 2 * n + 2 ELSE 2 * n + 1) \div 2 >= 16
     THEN Decoded("MITSUBISHI", Long([p \in 1 .. marks |-> IF MATCH_MARK(b[2 * p], 1950) THEN 1 ELSE 0]))
     ELSE Nothing

(* getRClevel(): every width is one, two or three times t1 and so as many  *)
(* levels; past the end of the frame the level is SPACE                    *)
Wide(width, correction, t1) ==
  CASE MATCH(width, t1 + correction) -> 1
    [] ~MATCH(width, t1 + correction) /\ MATCH(width, 2 * t1 + correction) -> 2
    [] ~MATCH(width, t1 + correction) /\ ~MATCH(width, 2 * t1 + correction)
       /\ MATCH(width, 3 * t1 + correction) -> 3
    [] OTHER -> 0
WidthOf(r, offset, t1) ==
  Wide(r.rawbuf[offset], IF offset % 2 = 1 THEN MARK_EXCESS ELSE -MARK_EXCESS, t1)
Levels(r, from, t1) ==
  FlattenSeq([k \in 1 .. r.rawlen - from |->
    [j \in 1 .. WidthOf(r, from + k - 1, t1) |-> IF (from + k - 1) % 2 = 1 THEN "MARK" ELSE "SPACE"]])
AllWide(r, from, t1) == \A offset \in from .. r.rawlen - 1 : WidthOf(r, offset, t1) > 0
LevelAt(levels, i) == IF i <= Len(levels) THEN levels[i] ELSE "SPACE"

(* the bits of a Manchester code: the two halves of a bit differ, and the  *)
(* halves of bit i begin at half(i)                                        *)
HalfBits(levels, half(_), n, oneIs) ==
  IF \A i \in 1 .. n : LevelAt(levels, half(i)) /= LevelAt(levels, half(i + 1) - 1)
  THEN <<[i \in 1 .. n |-> IF LevelAt(levels, half(i)) = oneIs THEN 1 ELSE 0]>>
  ELSE <<>>

decodeRC5(r) ==
  LET levels == Levels(r, 1, 889)
      n == (Len(levels) - 2) \div 2
  IN If(/\ r.rawlen >= 13
        /\ AllWide(r, 1, 889)
        /\ SubSeq(levels, 1, 3) = <<"MARK", "SPACE", "MARK">>,
        HalfBits(levels, LAMBDA i : 2 * i + 2, n, "SPACE"), "RC5")

(* the fourth bit is twice as long as the others                           *)
decodeRC6(r) ==
  LET levels == Levels(r, 3, 444)
      half(i) == IF i <= 4 THEN 2 * i + 1 ELSE 2 * i + 3
      n == CHOOSE k \in 0 .. Len(levels) : half(k + 1) > Len(levels)
                                            /\ \A j \in 1 .. k : half(j) <= Len(levels)
      halves == LevelAt(levels, 9) = LevelAt(levels, 10) /\ LevelAt(levels, 11) = LevelAt(levels, 12)
  IN IF /\ MATCH_MARK(r.rawbuf[1], 2666) /\ MATCH_SPACE(r.rawbuf[2], 889)
        /\ AllWide(r, 3, 444)
        /\ LevelAt(levels, 1) = "MARK" /\ LevelAt(levels, 2) = "SPACE"
     THEN If(n >= 4 => halves, HalfBits(levels, half, n, "MARK"), "RC6")
     ELSE Nothing

(* the header's space is matched as a mark, and the length is not checked  *)
decodePanasonic(r) ==
  If(MATCH_MARK(r.rawbuf[1], 3502) /\ MATCH_MARK(r.rawbuf[2], 1750),
     DistanceBits(r.rawbuf, 3, 48, 502, 1244, 400), "PANASONIC")

decodeLG(r) ==
  If(/\ Enough(r.rawlen, 57)
     /\ MATCH_MARK(r.rawbuf[1], 8000) /\ MATCH_SPACE(r.rawbuf[2], 4000)
     /\ MATCH_MARK(r.rawbuf[59], 600),
     DistanceBits(r.rawbuf, 3, 28, 600, 1600, 550), "LG")

decodeJVC(r) ==
  IF r.rawlen = 34 /\ MATCH_MARK(r.rawbuf[1], 600) /\ MATCH_MARK(r.rawbuf[33], 600)
  THEN Repeat("JVC")
  ELSE If(/\ MATCH_MARK(r.rawbuf[1], 8000)
          /\ Enough(r.rawlen, 33)
          /\ MATCH_SPACE(r.rawbuf[2], 4000)
          /\ MATCH_MARK(r.rawbuf[35], 600),
          DistanceBits(r.rawbuf, 3, 16, 600, 1600, 550), "JVC")

decodeSAMSUNG(r) ==
  LET b == r.rawbuf IN
  IF MATCH_MARK(b[1], 5000) /\ r.rawlen = 4 /\ MATCH_SPACE(b[2], 2250) /\ MATCH_MARK(b[3], 560)
  THEN Repeat("SAMSUNG")
  ELSE If(MATCH_MARK(b[1], 5000) /\ Enough(r.rawlen, 68) /\ MATCH_SPACE(b[2], 5000),
          DistanceBits(b, 3, 32, 560, 1600, 560), "SAMSUNG")

decodeWhynter(r) ==
  LET b == r.rawbuf IN
  If(/\ Enough(r.rawlen, 70)
     /\ MATCH_MARK(b[1], 750) /\ MATCH_SPACE(b[2], 750)
     /\ MATCH_MARK(b[3], 2850) /\ MATCH_SPACE(b[4], 2850)
     /\ MATCH_MARK(b[69], 750),
     DistanceBits(b, 5, 32, 750, 2150, 750), "WHYNTER")

(* the first 26 entries after the header are skipped, 13 bits of them      *)
decodeAiwaRCT501(r) ==
  LET b == r.rawbuf
      more(p) == 29 + 2 * p < r.rawlen - 4
      tells(p) == MATCH_SPACE(b[30 + 2 * p], 600) \/ MATCH_SPACE(b[30 + 2 * p], 1700)
      stops == {p \in 0 .. RAWBUF : ~more(p) \/ ~tells(p)}
      n == CHOOSE p \in stops : \A q \in stops : p <= q
      marks == IF more(n) THEN n + 1 ELSE n
      bits == (28 + 2 * n + (IF more(n) THEN 1 ELSE 0)) \div 2
  IN IF /\ Enough(r.rawlen, 88)
        /\ MATCH_MARK(b[1], 8800) /\ MATCH_SPACE(b[2], 4500)
        /\ \A p \in 0 .. marks - 1 : MATCH_MARK(b[29 + 2 * p], 500)
        /\ bits >= 42
     THEN [type |-> "AIWA_RC_T501", bits |-> bits,
           value |-> Long([p \in 1 .. n |-> IF MATCH_SPACE(b[28 + 2 * p], 600) THEN 1 ELSE 0])]
     ELSE Nothing

decodeDenon(r) ==
  If(r.rawlen = 32 /\ MATCH_MARK(r.rawbuf[1], 300) /\ MATCH_SPACE(r.rawbuf[2], 750),
     DistanceBits(r.rawbuf, 3, 14, 300, 1800, 750), "DENON")

(* a hash of the widths, whatever they are                                 *)
decodeHash(r) == IF r.rawlen >= 6 THEN [type |-> "UNKNOWN", value |-> <<"hash">>, bits |-> 32] ELSE Nothing

(* decode(): the first decoder that claims the frame                       *)
JVCFirst(r) ==                                \* defect: JVC is tried before LG
  <<decodeNEC(r), decodeSony(r), decodeSanyo(r), decodeMitsubishi(r), decodeRC5(r), decodeRC6(r),
    decodePanasonic(r), decodeJVC(r), decodeLG(r), decodeSAMSUNG(r), decodeWhynter(r),
    decodeAiwaRCT501(r), decodeDenon(r), decodeHash(r)>>
Decoders(r) ==
  <<decodeNEC(r), decodeSony(r), decodeSanyo(r), decodeMitsubishi(r), decodeRC5(r), decodeRC6(r),
    decodePanasonic(r), decodeLG(r), decodeJVC(r), decodeSAMSUNG(r), decodeWhynter(r),
    decodeAiwaRCT501(r), decodeDenon(r), decodeHash(r)>>
decode(r) ==
  LET claims == SelectSeq(Decoders(r), LAMBDA d : d /= Nothing) IN
  IF claims = <<>> THEN Nothing ELSE claims[1]
=============================================================================
