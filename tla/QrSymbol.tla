------------------------------ MODULE QrSymbol ------------------------------
(***************************************************************************)
(* The symbol of utility/qrcode.c: its function patterns, the codewords    *)
(* placed around them, and the mask with the lowest penalty.               *)
(***************************************************************************)
EXTENDS QrCode
LOCAL INSTANCE SequencesExt

-----------------------------------------------------------------------------
(* drawFunctionPatterns()                                                  *)
Timing(size) ==
  [p \in ({6} \X (0 .. size - 1)) \cup ((0 .. size - 1) \X {6}) |->
     (IF p[1] = 6 THEN p[2] ELSE p[1]) % 2 = 0]

Distance(p, x, y) == MaxOf(AbsOf(p[1] - x), AbsOf(p[2] - y))
drawFinderPattern(size, x, y) ==
  [p \in ((x - 4 .. x + 4) \cap (0 .. size - 1)) \X ((y - 4 .. y + 4) \cap (0 .. size - 1)) |->
     Distance(p, x, y) \notin {2, 4}]
drawAlignmentPattern(x, y) ==
  [p \in (x - 2 .. x + 2) \X (y - 2 .. y + 2) |-> Distance(p, x, y) /= 1]

AlignCount(version) == (version \div 7) + 2
Step(version) ==
  IF version = 32 THEN 26
  ELSE ((version * 4 + AlignCount(version) * 2 + 1) \div (2 * AlignCount(version) - 2)) * 2
AlignPosition(version, i) ==                  (* i from 0                  *)
  IF i = 0 THEN 6 ELSE Size(version) - 7 - (AlignCount(version) - 1 - i) * Step(version)

AlignmentCenters(version) ==
  LET last == AlignCount(version) - 1 IN
  IF version = 1 THEN {}
  ELSE {<<AlignPosition(version, i), AlignPosition(version, j)>> :
          <<i, j>> \in ((0 .. last) \X (0 .. last)) \ {<<0, 0>>, <<0, last>>, <<last, 0>>}}

Alignments(version) ==
  LET centers == AlignmentCenters(version)
      around(p) == CHOOSE c \in centers : Distance(p, c[1], c[2]) <= 2
  IN [p \in UNION {DOMAIN drawAlignmentPattern(c[1], c[2]) : c \in centers} |->
        drawAlignmentPattern(around(p)[1], around(p)[2])[p]]

(* rem of the two loops: poly has the degree terms, which is also how many *)
(* passes they make                                                        *)
Remainder(w, terms, poly) ==
  FoldLeft(LAMBDA rem, i : IF (terms - 1) \in rem THEN Xor(Shl(rem, 1), poly) ELSE Shl(rem, 1),
           w, Down(terms))

(* drawFormatBits(): 0x537 and 0x5412 *)
FormatBits(level, mask) ==
  LET data == BitsOf(8 * level + mask) IN
  Xor(Shl(data, 10) \cup Remainder(data, 10, {0, 1, 2, 4, 5, 8, 10}), {1, 4, 10, 12, 14})

FirstCopy(i) ==
  CASE i \in 0 .. 5 -> <<8, i>>
    [] i = 6 -> <<8, 7>>
    [] i = 7 -> <<8, 8>>
    [] i = 8 -> <<7, 8>>
    [] i \in 9 .. 14 -> <<14 - i, 8>>
(* defect: bit 7 goes to the column that the next ones are in *)
SecondCopyTurnsEarly(size, i) == IF i <= 6 THEN <<size - 1 - i, 8>> ELSE <<8, size - 15 + i>>
SecondCopy(size, i) == IF i <= 7 THEN <<size - 1 - i, 8>> ELSE <<8, size - 15 + i>>

drawFormatBits(size, level, mask) ==
  LET bits == FormatBits(level, mask)
      dark == <<8, size - 8>>
      places == {FirstCopy(i) : i \in 0 .. 14} \cup {SecondCopy(size, i) : i \in 0 .. 14} \cup {dark}
      copied(p) == {i \in 0 .. 14 : p \in {FirstCopy(i), SecondCopy(size, i)}}
  IN [p \in places |-> p = dark \/ copied(p) \cap bits /= {}]

(* drawVersion(): 0x1F25 *)
VersionBits(version) ==
  Shl(BitsOf(version), 12) \cup
    Remainder(BitsOf(version), 12, {0, 2, 5, 8, 9, 10, 11, 12})
drawVersion(version) ==
  LET a(i) == Size(version) - 11 + (i % 3)
      b(i) == i \div 3
      bit(p) == CHOOSE i \in 0 .. 17 : p \in {<<a(i), b(i)>>, <<b(i), a(i)>>}
  IN IF version < 7 THEN <<>>
     ELSE [p \in UNION {{<<a(i), b(i)>>, <<b(i), a(i)>>} : i \in 0 .. 17} |->
             bit(p) \in VersionBits(version)]

Finders(size) ==
  drawFinderPattern(size, 3, size - 4) @@ drawFinderPattern(size, size - 4, 3)
  @@ drawFinderPattern(size, 3, 3)

drawFunctionPatterns(version, level) ==
  drawVersion(version) @@ drawFormatBits(Size(version), level, 0)
  @@ Alignments(version) @@ Finders(Size(version)) @@ Timing(Size(version))

-----------------------------------------------------------------------------
(* drawCodewords(): pairs of columns from the right, up and down in turn,  *)
(* without the column of the timing pattern                                *)
NoColumnSkipped(size, k) == size - 1 - 2 * k    \* defect: the timing column is not passed over
Right(size, k) == LET right == size - 1 - 2 * k IN IF right <= 6 THEN right - 1 ELSE right
NeverTurns(right, x) == (right \div 2) % 2 = 0     \* defect: the columns left of 6 are not turned
Upwards(right, x) == ((right \div 2) % 2 = 0) /= (x < 6)

Zigzag(size) ==
  [n \in 1 .. size * (size - 1) |->
     LET right == Right(size, (n - 1) \div (2 * size))
         x == right - ((n - 1) % 2)
         vert == ((n - 1) % (2 * size)) \div 2
     IN <<x, IF Upwards(right, x) THEN size - 1 - vert ELSE vert>>]

DataPlaces(size, isFunction) == SelectSeq(Zigzag(size), LAMBDA p : p \notin isFunction)

(* the bits left over stay light                                           *)
drawCodewords(places, codewords) ==
  [p \in {places[n] : n \in DOMAIN places} |->
     LET n == CHOOSE k \in DOMAIN places : places[k] = p IN
     /\ (n - 1) \div 8 < Len(codewords)
     /\ (7 - ((n - 1) % 8)) \in codewords[((n - 1) \div 8) + 1]]

Inverts(mask, p) ==
  LET x == p[1]
      y == p[2]
      xy == p[1] * p[2]
  IN CASE mask = 0 -> (x + y) % 2 = 0
       [] mask = 1 -> y % 2 = 0
       [] mask = 2 -> x % 3 = 0
       [] mask = 3 -> (x + y) % 3 = 0
       [] mask = 4 -> ((x \div 3) + (y \div 2)) % 2 = 0
       [] mask = 5 -> (xy % 2) + (xy % 3) = 0
       [] mask = 6 -> ((xy % 2) + (xy % 3)) % 2 = 0
       [] mask = 7 -> (((x + y) % 2) + (xy % 3)) % 2 = 0
applyMask(modules, isFunction, mask) ==
  [p \in DOMAIN modules \ isFunction |-> modules[p] /= Inverts(mask, p)] @@ modules

-----------------------------------------------------------------------------
(* getPenaltyScore()                                                       *)
RunsOf(line, result(_, _)) ==
  LET after[i \in DOMAIN line] ==
        IF i = 1 THEN [run |-> 1, result |-> 0]
        ELSE LET s == after[i - 1] IN
             IF line[i] /= line[i - 1] THEN [s EXCEPT !.run = 1]
             ELSE [run |-> s.run + 1, result |-> result(s.run + 1, s.result)]
  IN after[Len(line)].result
(* defect: a run that goes on is counted from its fifth module again *)
RunPenaltyTwice(line) == RunsOf(line, LAMBDA run, n : IF run >= 5 THEN n + 3 ELSE n)
RunPenalty(line) ==
  RunsOf(line, LAMBDA run, n : IF run = 5 THEN n + 3 ELSE IF run > 5 THEN n + 1 ELSE n)

Sum(seq) ==
  LET part[i, j \in DOMAIN seq] ==
        IF i = j THEN seq[i] ELSE part[i, (i + j) \div 2] + part[(i + j) \div 2 + 1, j]
  IN part[1, Len(seq)]
LineOf(modules, at(_), size) == Listed([i \in 1 .. size |-> modules[at(i - 1)]])
FinderLike == {<<FALSE, FALSE, FALSE, FALSE, TRUE, FALSE, TRUE, TRUE, TRUE, FALSE, TRUE>>,
               <<TRUE, FALSE, TRUE, TRUE, TRUE, FALSE, TRUE, FALSE, FALSE, FALSE, FALSE>>}
FinderPenalty(line) ==
  40 * Cardinality({i \in 1 .. Len(line) - 10 : SubSeq(line, i, i + 10) \in FinderLike})
SquarePenalty(modules, size) ==
  3 * Cardinality({p \in (1 .. size - 1) \X (1 .. size - 1) :
        /\ modules[p] = modules[<<p[1] - 1, p[2] - 1>>]
        /\ modules[p] = modules[<<p[1], p[2] - 1>>]
        /\ modules[p] = modules[<<p[1] - 1, p[2]>>]})
BalancePenalty(modules, size) ==
  LET black == Cardinality({p \in DOMAIN modules : modules[p]})
      total == size * size
      balanced(k) == black * 20 >= (9 - k) * total /\ black * 20 <= (11 + k) * total
  IN 10 * (CHOOSE k \in 0 .. 9 : balanced(k) /\ \A less \in 0 .. k - 1 : ~balanced(less))

getPenaltyScore(modules, size) ==
  LET rows == [i \in 1 .. size |-> LineOf(modules, LAMBDA x : <<x, i - 1>>, size)]
      lines == rows \o [i \in 1 .. size |-> LineOf(modules, LAMBDA y : <<i - 1, y>>, size)]
  IN Sum([i \in DOMAIN lines |-> RunPenalty(lines[i]) + FinderPenalty(lines[i])])
     + SquarePenalty(modules, size) + BalancePenalty(modules, size)

-----------------------------------------------------------------------------
(* qrcode_initBytes(): every mask is tried on the grid and undone; the     *)
(* first with the lowest penalty is applied                                *)
WithMask(modules, isFunction, size, level, mask) ==
  applyMask(drawFormatBits(size, level, mask) @@ modules, isFunction, mask)
FirstLowest(penalty) ==
  CHOOSE m \in DOMAIN penalty :
    \A other \in DOMAIN penalty : penalty[m] < penalty[other] \/ (penalty[m] = penalty[other] /\ m <= other)
WithBestMask(modules, isFunction, size, level) ==
  LET penalty == Listed([m \in 1 .. 8 |->
        getPenaltyScore(WithMask(modules, isFunction, size, level, m - 1), size)])
  IN WithMask(modules, isFunction, size, level, FirstLowest(penalty) - 1)

qrcode_initBytes(version, ecc, text) ==
  LET level == FormatBitsOf(ecc)
      patterns == drawFunctionPatterns(version, level)
      data == Bytes(Padded(encodeDataCodewords(text, version), DataCapacity(version, level)))
      codewords == performErrorCorrection(data, version, level)
      places == DataPlaces(Size(version), DOMAIN patterns)
  IN WithBestMask(patterns @@ drawCodewords(places, codewords), DOMAIN patterns, Size(version), level)
=============================================================================
