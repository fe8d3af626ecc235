------------------------------- MODULE QrCode -------------------------------
(***************************************************************************)
(* The QR code generator of utility/qrcode.c (LOCK_VERSION 0: versions 1   *)
(* to 40): from a text to the modules of the symbol.  A word is the set of *)
(* its bits that are 1, numbered from the lowest; a bit buffer is a        *)
(* sequence of 0s and 1s; a character is its code.  The symbol, and any    *)
(* part of it, is a function from places <<x, y>> to BOOLEAN, and what is  *)
(* drawn later stands before "@@".                                         *)
(***************************************************************************)
EXTENDS Integers, Sequences, FiniteSets, TLC
LOCAL INSTANCE SequencesExt

BitsOf(n) == {i \in 0 .. 17 : (n \div 2^i) % 2 = 1}
Number(w) == FoldLeft(LAMBDA n, i : 2 * n + (IF i \in w THEN 1 ELSE 0), 0,
                      [k \in 1 .. 18 |-> 18 - k])
Xor(a, b) == (a \ b) \cup (b \ a)
Shl(w, n) == {i + n : i \in w}
Down(n) == [k \in 1 .. n |-> n - k]           (* n - 1, ..., 0              *)
AbsOf(n) == IF n < 0 THEN -n ELSE n
Listed(seq) == SubSeq(seq, 1, Len(seq))       (* seq, every element evaluated once *)
MaxOf(a, b) == IF a > b THEN a ELSE b

-----------------------------------------------------------------------------
(* The tables, by error correction level in the order of the format bits:  *)
(* 1 medium, 2 low, 3 high, 4 quartile; then by version                    *)
NUM_ERROR_CORRECTION_CODEWORDS ==
  << <<10, 16, 26, 36, 48, 64, 72, 88, 110, 130, 150, 176, 198, 216, 240, 280, 308, 338, 364, 416,
       442, 476, 504, 560, 588, 644, 700, 728, 784, 812, 868, 924, 980, 1036, 1064, 1120, 1204,
       1260, 1316, 1372>>,
     <<7, 10, 15, 20, 26, 36, 40, 48, 60, 72, 80, 96, 104, 120, 132, 144, 168, 180, 196, 224,
       224, 252, 270, 300, 312, 336, 360, 390, 420, 450, 480, 510, 540, 570, 570, 600, 630,
       660, 720, 750>>,
     <<17, 28, 44, 64, 88, 112, 130, 156, 192, 224, 264, 308, 352, 384, 432, 480, 532, 588, 650, 700,
       750, 816, 900, 960, 1050, 1110, 1200, 1260, 1350, 1440, 1530, 1620, 1710, 1800, 1890, 1980,
       2100, 2220, 2310, 2430>>,
     <<13, 22, 36, 52, 72, 96, 108, 132, 160, 192, 224, 260, 288, 320, 360, 408, 448, 504, 546, 600,
       644, 690, 750, 810, 870, 952, 1020, 1050, 1140, 1200, 1290, 1350, 1440, 1530, 1590, 1680,
       1770, 1860, 1950, 2040>> >>
NUM_ERROR_CORRECTION_BLOCKS ==
  << <<1, 1, 1, 2, 2, 4, 4, 4, 5, 5, 5, 8, 9, 9, 10, 10, 11, 13, 14, 16, 17, 17, 18, 20, 21, 23, 25,
       26, 28, 29, 31, 33, 35, 37, 38, 40, 43, 45, 47, 49>>,
     <<1, 1, 1, 1, 1, 2, 2, 2, 2, 4, 4, 4, 4, 4, 6, 6, 6, 6, 7, 8, 8, 9, 9, 10, 12, 12, 12, 13, 14,
       15, 16, 17, 18, 19, 19, 20, 21, 22, 24, 25>>,
     <<1, 1, 2, 4, 4, 4, 5, 6, 8, 8, 11, 11, 16, 16, 18, 16, 19, 21, 25, 25, 25, 34, 30, 32, 35, 37,
       40, 42, 45, 48, 51, 54, 57, 60, 63, 66, 70, 74, 77, 81>>,
     <<1, 1, 2, 2, 4, 4, 6, 6, 8, 8, 8, 10, 12, 16, 12, 17, 16, 18, 21, 20, 23, 23, 25, 27, 29, 34,
       34, 35, 38, 40, 43, 45, 48, 51, 53, 56, 59, 62, 65, 68>> >>
NUM_RAW_DATA_MODULES ==
  <<208, 359, 567, 807, 1079, 1383, 1568, 1936, 2336, 2768, 3232, 3728, 4256, 4651, 5243, 5867,
    6523, 7211, 7931, 8683, 9252, 10068, 10916, 11796, 12708, 13652, 14628, 15371, 16411, 17483,
    18587, 19723, 20891, 22091, 23008, 24272, 25568, 26896, 28256, 29648>>

Size(version) == 4 * version + 17
(* ECC_FORMAT_BITS: the level the caller asks for, 0 low .. 3 high, as it  *)
(* is numbered in the symbol                                               *)
FormatBitsOf(ecc) == CASE ecc = 0 -> 1 [] ecc = 1 -> 0 [] ecc = 2 -> 3 [] ecc = 3 -> 2

Raw(version) == NUM_RAW_DATA_MODULES[version]
Codewords(version) == Raw(version) \div 8
EccOf(version, level) == NUM_ERROR_CORRECTION_CODEWORDS[level + 1][version]
BlocksOf(version, level) == NUM_ERROR_CORRECTION_BLOCKS[level + 1][version]
DataCapacity(version, level) == Codewords(version) - EccOf(version, level)

-----------------------------------------------------------------------------
(* encodeDataCodewords(): the mode is the densest that holds the text      *)
IsDigit(c) == c \in 48 .. 57
getAlphanumeric(c) ==
  CASE IsDigit(c) -> c - 48
    [] c \in 65 .. 90 -> c - 65 + 10
    [] c = 32 -> 36 [] c = 36 -> 37 [] c = 37 -> 38 [] c = 42 -> 39 [] c = 43 -> 40
    [] c = 45 -> 41 [] c = 46 -> 42 [] c = 47 -> 43 [] c = 58 -> 44
    [] OTHER -> -1

ModeOf(text) ==
  CASE \A i \in DOMAIN text : IsDigit(text[i]) -> "numeric"
    [] (\A i \in DOMAIN text : getAlphanumeric(text[i]) /= -1)
       /\ ~(\A i \in DOMAIN text : IsDigit(text[i])) -> "alphanumeric"
    [] OTHER -> "byte"
ModeNumber(mode) == CASE mode = "numeric" -> 0 [] mode = "alphanumeric" -> 1 [] mode = "byte" -> 2

(* the packed modeInfo, unpacked; 15 stands for 16 there                   *)
getModeBits(version, mode) ==
  LET row == CASE version <= 9 -> <<10, 9, 8>>
               [] version \in 10 .. 26 -> <<12, 11, 16>>
               [] version > 26 -> <<14, 13, 16>>
  IN row[ModeNumber(mode) + 1]

bb_appendBits(val, length) == [k \in 1 .. length |-> (val \div 2^(length - k)) % 2]

(* n characters of the text are accumulated, then appended; the last ones  *)
(* may be fewer                                                            *)
Group(text, n, i) == SubSeq(text, n * (i - 1) + 1, IF n * i > Len(text) THEN Len(text) ELSE n * i)
Groups(text, n) == [i \in 1 .. (Len(text) + n - 1) \div n |-> Group(text, n, i)]
Accumulated(group, base, digit(_)) ==
  FoldLeft(LAMBDA n, c : base * n + digit(c), 0, group)
DigitBits(group) ==
  bb_appendBits(Accumulated(group, 10, LAMBDA c : c - 48), IF Len(group) = 3 THEN 10 ELSE 3 * Len(group) + 1)
PairBits(group) ==
  bb_appendBits(Accumulated(group, 45, getAlphanumeric), IF Len(group) = 2 THEN 11 ELSE 6)

EightEach(bytes) == [n \in 1 .. 8 * Len(bytes) |-> (bytes[((n - 1) \div 8) + 1] \div 2^((-n) % 8)) % 2]

encodeDataCodewords(text, version) ==
  LET mode == ModeOf(text) IN
  bb_appendBits(2^ModeNumber(mode), 4) \o bb_appendBits(Len(text), getModeBits(version, mode)) \o
  (CASE mode = "numeric" -> FlattenSeq([i \in DOMAIN Groups(text, 3) |-> DigitBits(Groups(text, 3)[i])])
     [] mode = "alphanumeric" -> FlattenSeq([i \in DOMAIN Groups(text, 2) |-> PairBits(Groups(text, 2)[i])])
     [] mode = "byte" -> EightEach(text))

Fits(text, version, level) ==
  Len(encodeDataCodewords(text, version)) <= 8 * DataCapacity(version, level)

(* defect: the terminator is four bits however little room is left         *)
AlwaysFour(room) == 4
Terminator(room) == IF room > 4 THEN 4 ELSE room

(* qrcode_initBytes(): the terminator, zeros up to a byte, then 0xEC and   *)
(* 0x11 in turn.  The text fits: one that does not is not refused and runs *)
(* over the buffer.                                                        *)
Padded(bits, capacity) ==
  LET ended == bits \o bb_appendBits(0, Terminator(8 * capacity - Len(bits)))
      whole == ended \o bb_appendBits(0, (8 - (Len(ended) % 8)) % 8)
      left == capacity - Len(whole) \div 8
  IN whole \o EightEach([i \in 1 .. left |-> IF i % 2 = 1 THEN 236 ELSE 17])

Bytes(bits) ==
  Listed([i \in 1 .. Len(bits) \div 8 |-> {b \in 0 .. 7 : bits[8 * i - b] = 1}])

-----------------------------------------------------------------------------
(* Reed-Solomon over GF(2^8/0x11D)                                         *)
Doubled(z) == IF 7 \in z THEN Xor(Shl(z, 1), {0, 2, 3, 4, 8}) ELSE Shl(z, 1)
rs_multiply(x, y) ==
  IF x = {} \/ y = {} THEN {}
  ELSE FoldLeft(LAMBDA z, i : IF i \in y THEN Xor(Doubled(z), x) ELSE Doubled(z), {}, Down(8))

TwiceRoot(root) == Doubled(Doubled(root))     (* defect: every other root is skipped *)
NextRoot(root) == Doubled(root)

rs_init(degree) ==
  LET start == [coeff |-> [j \in 1 .. degree |-> IF j = degree THEN {0} ELSE {}], root |-> {0}]
      pass(s) ==
        [coeff |-> Listed([j \in 1 .. degree |->
            Xor(rs_multiply(s.coeff[j], s.root), IF j < degree THEN s.coeff[j + 1] ELSE {})]),
         root |-> NextRoot(s.root)]
  IN FoldLeft(LAMBDA s, i : pass(s), start, Down(degree)).coeff

rs_getRemainder(coeff, data) ==
  LET degree == Len(coeff)
      step(result, byte) ==
        LET factor == Xor(byte, result[1]) IN
        Listed([j \in 1 .. degree |-> Xor(IF j < degree THEN result[j + 1] ELSE {},
                                          rs_multiply(coeff[j], factor))])
  IN FoldLeft(step, [j \in 1 .. degree |-> {}], data)

-----------------------------------------------------------------------------
(* performErrorCorrection(): the blocks lie one after the other in the     *)
(* data, the long ones last; index and stride walk through them            *)
NumShort(version, level) ==
  BlocksOf(version, level) - (Codewords(version) % BlocksOf(version, level))
ShortData(version, level) ==
  Codewords(version) \div BlocksOf(version, level) - EccOf(version, level) \div BlocksOf(version, level)

(* defect: the stride grows one block early                                *)
GrowsEarly(blockNum, numShort) == blockNum >= numShort - 1
Grows(blockNum, numShort) == blockNum >= numShort

ShortIndex(i, short, numShort, blocks) ==
  LET at[b \in 0 .. blocks - 1] ==
        IF b = 0 THEN i ELSE at[b - 1] + short + (IF Grows(b - 1, numShort) THEN 1 ELSE 0)
  IN at
LongIndex(short, numShort, blocks) ==
  LET at[b \in 0 .. blocks - numShort - 1] ==
        IF b = 0 THEN short * (numShort + 1) ELSE at[b - 1] + short + 1
  IN at

(* the order the data codewords are placed in, by their index from 0       *)
Interleaving(version, level) ==
  LET blocks == BlocksOf(version, level)
      short == ShortData(version, level)
      numShort == NumShort(version, level)
      long == LongIndex(short, numShort, blocks)
  IN [n \in 1 .. short * blocks |->
        ShortIndex((n - 1) \div blocks, short, numShort, blocks)[(n - 1) % blocks]]
     \o [b \in 1 .. blocks - numShort |-> long[b - 1]]

BlockSize(b, version, level) ==
  ShortData(version, level) + (IF b > NumShort(version, level) THEN 1 ELSE 0)
BlockStart(version, level) ==
  LET from[b \in 1 .. BlocksOf(version, level)] ==
        IF b = 1 THEN 0 ELSE from[b - 1] + BlockSize(b - 1, version, level)
  IN from

performErrorCorrection(data, version, level) ==
  LET blocks == BlocksOf(version, level)
      degree == EccOf(version, level) \div blocks
      coeff == rs_init(degree)
      order == Interleaving(version, level)
      start == BlockStart(version, level)
      ecc == Listed([b \in 1 .. blocks |->
               rs_getRemainder(coeff, SubSeq(data, start[b] + 1, start[b] + BlockSize(b, version, level)))])
  IN [i \in DOMAIN order |-> data[order[i] + 1]]
     \o [i \in 1 .. degree * blocks |-> ecc[((i - 1) % blocks) + 1][(i - 1) \div blocks + 1]]
=============================================================================
